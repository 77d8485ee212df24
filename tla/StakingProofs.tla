--------------------------- MODULE StakingProofs ---------------------------
(***************************************************************************)
(* The staking thread submits good blocks, whatever the best block does    *)
(* between its steps, for every wallet, every hash function and every       *)
(* drift.                                                                  *)
(***************************************************************************)
EXTENDS BlockCreation, Sequences, FiniteSetTheorems, WellFoundedInduction, TLAPS

(* Every non-empty set of natural numbers has a least element.             *)
LEMMA LeastNat ==
    ASSUME NEW T \in SUBSET Nat, T # {}
    PROVE  \E m \in T : \A n \in T : m <= n
<1>1. PICK m \in T : \A n \in T : ~(<<n, m>> \in OpToRel(<, Nat))
    BY NatLessThanWellFounded, WFMin
<1>2. \A n \in T : ~(n < m)
    BY <1>1 DEF OpToRel
<1>3. \A n \in T : m <= n
    BY <1>2, SMT
<1> QED
    BY <1>3

(* A set with 0, and with the successor of each of its members up to n,    *)
(* has all of 0 .. n.                                                      *)
LEMMA LoopInduction ==
    ASSUME NEW n \in Nat, NEW S, 0 \in S, \A i \in 1 .. n : i - 1 \in S => i \in S
    PROVE  \A i \in 0 .. n : i \in S
<1> DEFINE Bad == (0 .. n) \ S
<1>1. SUFFICES ASSUME Bad # {} PROVE FALSE
    OBVIOUS
<1>2. PICK m \in Bad : \A k \in Bad : m <= k
    <2>1. Bad \in SUBSET Nat
        OBVIOUS
    <2> HIDE DEF Bad
    <2> QED
        BY <1>1, <2>1, LeastNat
<1>3. m \in 1 .. n /\ m - 1 \in 0 .. n /\ m - 1 \notin S
    BY <1>2
<1>4. m <= m - 1
    BY <1>2, <1>3
<1> QED
    BY <1>3, <1>4

(* A loop of n turns, whatever a turn computes, has a value after each.    *)
LoopOf(f, k, V, first, step) ==
    /\ f \in [0 .. k -> V] /\ f[0] = first
    /\ \A i \in 1 .. k : f[i] = step[<<i, f[i - 1]>>]

LEMMA LoopExists ==
    ASSUME NEW n \in Nat, NEW V, NEW first \in V, NEW step \in [(1 .. n) \X V -> V]
    PROVE  \E f : LoopOf(f, n, V, first, step)
<1> DEFINE S == {k \in 0 .. n : \E f : LoopOf(f, k, V, first, step)}
<1>1. 0 \in S
    <2>1. LoopOf([i \in 0 .. 0 |-> first], 0, V, first, step)
        BY DEF LoopOf
    <2> QED
        BY <2>1
<1>2. ASSUME NEW k \in 1 .. n, k - 1 \in S
      PROVE  k \in S
    <2>1. PICK f : LoopOf(f, k - 1, V, first, step)
        BY <1>2
    <2> DEFINE g == [i \in 0 .. k |-> IF i = k THEN step[<<k, f[k - 1]>>] ELSE f[i]]
    <2>2. f[k - 1] \in V /\ step[<<k, f[k - 1]>>] \in V
        BY <2>1 DEF LoopOf
    <2>3. \A i \in 0 .. k : i # k => i \in 0 .. k - 1 /\ f[i] \in V
        BY <2>1 DEF LoopOf
    <2>4. g \in [0 .. k -> V] /\ g[0] = first
        BY <2>1, <2>2, <2>3 DEF LoopOf
    <2>5. ASSUME NEW i \in 1 .. k PROVE g[i] = step[<<i, g[i - 1]>>]
        <3>1. i - 1 \in 0 .. k /\ i - 1 # k /\ i \in 0 .. k
            OBVIOUS
        <3>2. g[i - 1] = f[i - 1]
            BY <3>1
        <3>3. CASE i = k
            <4>1. g[k] = step[<<k, f[k - 1]>>]
                OBVIOUS
            <4> QED
                BY <3>2, <3>3, <4>1
        <3>4. CASE i # k
            <4>1. i \in 1 .. k - 1 /\ g[i] = f[i]
                BY <3>1, <3>4
            <4> QED
                BY <2>1, <3>2, <4>1 DEF LoopOf
        <3> QED
            BY <3>3, <3>4
    <2> HIDE DEF g
    <2> QED
        BY <2>4, <2>5 DEF LoopOf
<1> HIDE DEF S
<1>3. n \in S
    BY <1>1, <1>2, LoopInduction
<1> QED
    BY <1>3 DEF S

-----------------------------------------------------------------------------
(* CheckStakeKernelHash *)

(* The values of nTimeTx and fSuccess, and a turn of the loop from them.   *)
Turn(c, m, i, was) ==
    LET nTryTime == was[1] + nHashDrift - (i - 1)
    IN  IF stakeTargetHit(c, m, nTryTime, was[1]) THEN <<nTryTime, TRUE>> ELSE was

(* After i turns from time t: the time has gone on by at most nHashDrift a *)
(* turn, and a hit is one at that time too, since the coin only gains      *)
(* weight.                                                                 *)
HitOK(c, m, t, i, v) ==
    /\ v[1] \in t .. t + i * nHashDrift
    /\ v[2] => stakeTargetHit(c, m, v[1], v[1])

LEMMA WeightGrows ==
    ASSUME NEW c \in Coins, NEW t \in Nat, NEW u \in Nat, t <= u
    PROVE  Weight(c, t) \in Int /\ Weight(c, u) \in Int /\ Weight(c, t) <= Weight(c, u)
<1>0. CoinTime[c] \in Nat /\ nStakeMaxAge \in Nat /\ nStakeMinAge \in Nat
    BY StakingAssumption
<1>1. ASSUME NEW x \in Int, NEW y \in Int
      PROVE  Min({x, y}) = IF x <= y THEN x ELSE y
    BY DEF Min
<1>2. t - CoinTime[c] \in Int /\ u - CoinTime[c] \in Int
    BY <1>0
<1>3. /\ Weight(c, t) = (IF t - CoinTime[c] <= nStakeMaxAge THEN t - CoinTime[c] ELSE nStakeMaxAge)
                           - nStakeMinAge
      /\ Weight(c, u) = (IF u - CoinTime[c] <= nStakeMaxAge THEN u - CoinTime[c] ELSE nStakeMaxAge)
                           - nStakeMinAge
    BY <1>0, <1>1, <1>2 DEF Weight
<1> QED
    BY <1>0, <1>3

LEMMA TurnOK ==
    ASSUME hash \in Hashes, NEW c \in Coins, NEW m \in Modifiers, NEW t \in 0 .. MaxTime,
           NEW i \in 1 .. nHashDrift, NEW was \in Nat \X BOOLEAN, HitOK(c, m, t, i - 1, was)
    PROVE  Turn(c, m, i, was) \in Nat \X BOOLEAN /\ HitOK(c, m, t, i, Turn(c, m, i, was))
<1> DEFINE d == nHashDrift
           u == was[1]
           v == u + d - (i - 1)
<1>0. d \in Nat /\ MaxTime \in Nat /\ t \in Nat /\ i \in Nat /\ u \in Nat
    BY StakingAssumption
<1>1. /\ (i - 1) * d \in Nat /\ i * d = (i - 1) * d + d /\ i * d <= d * d
      /\ i * d \in Nat /\ d * d \in Nat
    BY <1>0
<1> HIDE DEF d
<1>2. u >= t /\ u <= t + (i - 1) * d
    BY <1>0, <1>1 DEF HitOK, d
<1>3. v \in Nat /\ v >= u /\ v <= t + i * d /\ u <= t + i * d /\ v <= MaxTime + d * d
    BY <1>0, <1>1, <1>2 DEF d
<1>4. CASE stakeTargetHit(c, m, v, u)
    <2>1. Turn(c, m, i, was) = <<v, TRUE>>
        BY <1>4 DEF Turn, d
    <2>2. hash[<<c, m, v>>] \in Nat
        <3>1. v \in 0 .. LastTry
            BY <1>0, <1>1, <1>3 DEF LastTry, d
        <3>2. hash \in [Coins \X Modifiers \X (0 .. LastTry) -> Nat]
            BY StakingAssumption
        <3> QED
            BY <3>1, <3>2
    <2>3. Weight(c, u) \in Int /\ Weight(c, v) \in Int /\ Weight(c, u) <= Weight(c, v)
        BY <1>0, <1>3, WeightGrows
    <2>4. hash[<<c, m, v>>] < Weight(c, u)
        BY <1>4 DEF stakeTargetHit
    <2> HIDE DEF v, u
    <2>5. hash[<<c, m, v>>] < Weight(c, v)
        BY <2>2, <2>3, <2>4
    <2>6. v \in t .. t + i * nHashDrift
        BY <1>0, <1>1, <1>2, <1>3 DEF d
    <2>7. HitOK(c, m, t, i, <<v, TRUE>>)
        BY <2>5, <2>6 DEF HitOK, stakeTargetHit
    <2>8. <<v, TRUE>> \in Nat \X BOOLEAN
        BY <1>3
    <2> QED
        BY <2>1, <2>7, <2>8
<1>5. CASE ~stakeTargetHit(c, m, v, u)
    <2>1. Turn(c, m, i, was) = was
        BY <1>5 DEF Turn, d
    <2>2. u \in t .. t + i * nHashDrift
        BY <1>0, <1>1, <1>2, <1>3 DEF d
    <2> QED
        BY <2>1, <2>2 DEF HitOK
<1> QED
    BY <1>4, <1>5

(* What the search finds verifies: Search is the loop of Turns.            *)
LEMMA SearchOK ==
    ASSUME hash \in Hashes, NEW c \in Coins, NEW m \in Modifiers, NEW t \in 0 .. MaxTime
    PROVE  /\ Search(c, m, t)[1] \in Nat /\ Search(c, m, t)[1] >= t
           /\ Search(c, m, t)[2] \in BOOLEAN
           /\ Search(c, m, t)[2] => stakeTargetHit(c, m, Search(c, m, t)[1], Search(c, m, t)[1])
<1> DEFINE d == nHashDrift
           V(i) == {v \in Nat \X BOOLEAN : HitOK(c, m, t, i, v)}
           W == Nat \X BOOLEAN
           Rule(f) == f = [i \in 0 .. d |-> IF i = 0 THEN <<t, FALSE>>
                             ELSE LET was == f[i - 1]
                                      nTryTime == was[1] + d - (i - 1)
                                  IN  IF stakeTargetHit(c, m, nTryTime, was[1])
                                        THEN <<nTryTime, TRUE>> ELSE was]
           loop == CHOOSE f : Rule(f)
           step == [p \in (1 .. d) \X W |-> Turn(c, m, p[1], p[2])]
<1>0. d \in Nat /\ t \in Nat
    BY StakingAssumption
<1>1. Search(c, m, t) = loop[d]
    BY DEF Search
<1>2. ASSUME NEW i \in 1 .. d, NEW was \in W
      PROVE  Turn(c, m, i, was) \in W
    <2>2. was[1] + nHashDrift - (i - 1) \in Nat
        BY <1>0
    <2> QED
        BY <2>2 DEF Turn
<1>3. step \in [(1 .. d) \X W -> W]
    BY <1>2
<1>4. \A i \in 1 .. d : \A was \in W : step[<<i, was>>] = Turn(c, m, i, was)
    OBVIOUS
<1>5. PICK f : LoopOf(f, d, W, <<t, FALSE>>, step)
    <2> HIDE DEF step, W
    <2>1. <<t, FALSE>> \in W
        BY <1>0 DEF W
    <2> QED
        BY <1>0, <1>3, <2>1, LoopExists
<1> HIDE DEF step, d
<1>6. Rule(f)
    <2>1. f \in [0 .. d -> W] /\ f[0] = <<t, FALSE>>
        BY <1>5 DEF LoopOf
    <2>2. \A i \in 0 .. d : i # 0 => i \in 1 .. d /\ i - 1 \in 0 .. d
        BY <1>0
    <2>3. \A i \in 1 .. d : f[i] = Turn(c, m, i, f[i - 1])
        <3>1. TAKE i \in 1 .. d
        <3>2. i - 1 \in 0 .. d
            BY <1>0
        <3>3. f[i - 1] \in W
            BY <2>1, <3>2
        <3> QED
            BY <1>4, <1>5, <3>3 DEF LoopOf
    <2>4. \A i \in 0 .. d : f[i] = IF i = 0 THEN <<t, FALSE>> ELSE Turn(c, m, i, f[i - 1])
        BY <2>1, <2>2, <2>3
    <2>5. f = [i \in 0 .. d |-> IF i = 0 THEN <<t, FALSE>> ELSE Turn(c, m, i, f[i - 1])]
        BY <2>1, <2>4
    <2> QED
        BY <2>5 DEF Turn, d
<1>7. Rule(loop)
    <2> HIDE DEF Rule
    <2> QED
        BY <1>6
<1>8. loop[0] = <<t, FALSE>> /\ \A i \in 1 .. d : loop[i] = Turn(c, m, i, loop[i - 1])
    <2> HIDE DEF loop
    <2>1. 0 \in 0 .. d /\ \A i \in 1 .. d : i \in 0 .. d /\ i # 0
        BY <1>0
    <2> QED
        BY <1>7, <2>1 DEF Turn, d
<1> HIDE DEF loop
<1> DEFINE S == {i \in 0 .. d : loop[i] \in W /\ HitOK(c, m, t, i, loop[i])}
<1>9. 0 \in S
    <2>1. 0 * nHashDrift = 0 /\ t \in t .. t + 0 /\ 0 \in 0 .. d
        BY <1>0, StakingAssumption
    <2>2. HitOK(c, m, t, 0, <<t, FALSE>>)
        BY <2>1 DEF HitOK
    <2>3. <<t, FALSE>> \in W
        BY <1>0
    <2> HIDE DEF W
    <2> QED
        BY <1>8, <2>1, <2>2, <2>3
<1>10. ASSUME NEW i \in 1 .. d, i - 1 \in S
       PROVE  i \in S
    <2>1. i \in 1 .. nHashDrift /\ i \in 0 .. d
        BY <1>0 DEF d
    <2>2. loop[i - 1] \in W /\ HitOK(c, m, t, i - 1, loop[i - 1])
        BY <1>10
    <2> QED
        BY <1>8, <2>1, <2>2, TurnOK
<1> HIDE DEF S
<1>11. d \in S
    <2>1. d \in 0 .. d
        BY <1>0
    <2> QED
        BY <1>0, <1>9, <1>10, <2>1, LoopInduction
<1>12. loop[d] \in W /\ HitOK(c, m, t, d, loop[d])
    BY <1>11 DEF S
<1>13. d * nHashDrift \in Nat
    BY <1>0, StakingAssumption DEF d
<1> QED
    BY <1>0, <1>1, <1>12, <1>13 DEF HitOK

-----------------------------------------------------------------------------
(* The thread *)

Tip == [id : Nat, height : Int, bits : Targets, minTime : Nat, spent : SUBSET Coins,
        modifier : [Coins -> Modifiers \cup {None}]]
KernelType == [start : 0 .. MaxTime, coin : Coins \cup {None}, modifier : Modifiers \cup {None},
               time : Nat]

ThreadType ==
    /\ TypeOK /\ hash \in Hashes
    /\ best \in Tip /\ minerPrev \in Tip /\ voteTip \in Tip /\ outerPrev \in Tip
    /\ kernel \in KernelType /\ kernel.start <= now
    /\ block \in [prev : Tip, bits : Targets, height : Int, time : Nat]

(* A kernel in hand verifies with the modifier it was found with, and is   *)
(* not early for the block the thread first built on.                      *)
KernelInv ==
    /\ kernel.coin # None => /\ kernel.modifier \in Modifiers
                             /\ OldEnough(kernel.coin, kernel.modifier, kernel.time)
                             /\ stakeTargetHit(kernel.coin, kernel.modifier, kernel.time, kernel.time)
    /\ Building => kernel.coin # None /\ kernel.time >= outerPrev.minTime

(* Best blocks are numbered as they come: while the one that CreateNewBlock *)
(* first read is still the best, its chain has the modifier of the kernel. *)
ModifierInv ==
    /\ outerPrev.id <= best.id
    /\ (pc = "search" \/ pc = "hashed" \/ Building) /\ kernel.coin # None /\ outerPrev.id = best.id
          => best.modifier[kernel.coin] = kernel.modifier

(* Which of the readings of pindexBest each field of the block comes from. *)
BlockInv ==
    /\ pc \in {"nonce", "check"} => /\ block.bits = outerPrev.bits
                                    /\ block.time = Max({block.prev.minTime, kernel.time})
    /\ pc = "check" => block.height = minerPrev.height + 1

(* Until the chain becomes shorter the readings follow each other.         *)
HeightInv ==
    ~shortened /\ pc # "gate" =>
        /\ minerPrev.height <= best.height
        /\ pc # "votes" => minerPrev.height <= voteTip.height /\ voteTip.height <= best.height

ThreadInv == ThreadType /\ KernelInv /\ ModifierInv /\ BlockInv /\ HeightInv

LEMMA MaxOfTwo ==
    ASSUME NEW x \in Int, NEW y \in Int
    PROVE  Max({x, y}) = IF x >= y THEN x ELSE y
BY DEF Max

LEMMA GenesisIsTip == Genesis \in Tip /\ Genesis.height = 0 /\ Genesis.id = 0
<1>1. (CHOOSE b \in Targets : TRUE) \in Targets
    BY StakingAssumption
<1> QED
    BY <1>1 DEF Genesis, Tip

LEMMA ThreadInit == Init => ThreadInv
<1> SUFFICES ASSUME Init PROVE ThreadInv
    OBVIOUS
<1>0. {MaxTime} \subseteq Nat
    BY StakingAssumption
<1>1. kernel = [start |-> 0, coin |-> None, modifier |-> None, time |-> 0]
    BY DEF Init, NoKernel
<1>2. block \in [prev : Tip, bits : Targets, height : Int, time : Nat]
    BY GenesisIsTip DEF Init, NoBlock, Tip
<1>3. PICK m \in ModifierMaps : best = [Genesis EXCEPT !.modifier = m]
    BY DEF Init
<1>4. best \in Tip /\ best.id = 0
    BY <1>3, GenesisIsTip DEF Tip, ModifierMaps
<1>5. TypeOK
    <2>1. ready \in BOOLEAN /\ shortened \in BOOLEAN
        BY Zenon DEF Init
    <2> QED
        BY <1>0, <1>1, <2>1 DEF Init, TypeOK
<1>6. ThreadType
    BY <1>0, <1>1, <1>2, <1>4, <1>5, GenesisIsTip DEF Init, ThreadType, KernelType
<1> QED
    BY <1>1, <1>4, <1>6, GenesisIsTip DEF Init, ThreadInv, KernelInv, ModifierInv, BlockInv,
       HeightInv, Building

(* A better block: a new number, and any height, modifiers and spent coins. *)
LEMMA NewBestFacts ==
    ASSUME ThreadInv, NewBest
    PROVE  /\ best' \in Tip /\ best'.id = best.id + 1
           /\ shortened' = (shortened \/ best'.height < best.height)
           /\ UNCHANGED <<hash, now, ready, pc, readVars, searchVars, block, result>>
<1>0. best \in Tip /\ now \in Nat /\ Growth \subseteq Int
    BY StakingAssumption DEF ThreadInv, ThreadType, TypeOK
<1>1. PICK b \in Targets, t \in {best.minTime, now}, s \in SUBSET Coins, m \in ModifierMaps :
       \/ best' = [id |-> best.id + 1, height |-> best.height + 1, bits |-> b,
                   minTime |-> t, spent |-> best.spent \cup s, modifier |-> m]
       \/ \E h \in Growth :
            best' = [id |-> best.id + 1, height |-> best.height + h, bits |-> b,
                     minTime |-> t, spent |-> s, modifier |-> m]
    BY DEF NewBest
<1>2. /\ best.id + 1 \in Nat /\ best.height + 1 \in Int /\ t \in Nat
      /\ best.spent \cup s \in SUBSET Coins /\ m \in [Coins -> Modifiers \cup {None}]
      /\ \A h \in Growth : best.height + h \in Int
    BY <1>0 DEF Tip, ModifierMaps
<1>3. best' \in Tip /\ best'.id = best.id + 1
    BY <1>1, <1>2 DEF Tip
<1> QED
    BY <1>3 DEF NewBest

(* A coin that is tried: nothing is found, or a kernel that verifies with  *)
(* the modifier of the best chain.                                         *)
LEMMA TryCoinFacts ==
    ASSUME ThreadInv, NEW c \in Coins, TryCoin(c)
    PROVE  /\ UNCHANGED <<chainVars, readVars, setStakeCoins, mapHashedBlocks,
                          nLastCoinStakeSearchTime, block, result>>
           /\ toTry' \subseteq Coins /\ pc = "search" /\ pc' \in {"search", "hashed"}
           /\ kernel' \in KernelType /\ kernel'.start = kernel.start
           /\ \/ kernel' = kernel
              \/ /\ kernel'.coin = c /\ kernel'.modifier = best.modifier[c]
                 /\ kernel'.modifier \in Modifiers
                 /\ OldEnough(c, kernel'.modifier, kernel'.time)
                 /\ stakeTargetHit(c, kernel'.modifier, kernel'.time, kernel'.time)
<1> DEFINE m == best.modifier[c]  found == Search(c, m, kernel.start)
<1>0. ThreadType /\ TypeOK /\ kernel \in KernelType /\ kernel.start \in 0 .. MaxTime
    BY DEF ThreadInv, ThreadType, KernelType
<1>1. /\ UNCHANGED <<chainVars, readVars, setStakeCoins, mapHashedBlocks,
                     nLastCoinStakeSearchTime, block, result>>
      /\ toTry' \subseteq Coins /\ pc = "search" /\ pc' \in {"search", "hashed"}
    BY <1>0 DEF TryCoin, TypeOK
<1>2. \/ kernel' = kernel
      \/ /\ Stakeable(c, kernel.start) /\ found[2]
         /\ kernel' = [kernel EXCEPT !.coin = c, !.modifier = m, !.time = found[1]]
    BY DEF TryCoin
<1>3. CASE kernel' = kernel
    BY <1>0, <1>1, <1>3
<1>4. CASE /\ Stakeable(c, kernel.start) /\ found[2]
           /\ kernel' = [kernel EXCEPT !.coin = c, !.modifier = m, !.time = found[1]]
    <2>1. m \in Modifiers /\ OldEnough(c, m, kernel.start)
        BY <1>0, <1>4 DEF Stakeable, ThreadType, Tip
    <2> HIDE DEF m
    <2>2. /\ found[1] \in Nat /\ found[1] >= kernel.start
          /\ stakeTargetHit(c, m, found[1], found[1])
        BY <1>0, <1>4, <2>1, SearchOK DEF ThreadType
    <2> HIDE DEF found
    <2>3. OldEnough(c, m, found[1])
        BY <1>0, <2>1, <2>2, StakingAssumption DEF OldEnough
    <2>4. /\ kernel'.coin = c /\ kernel'.modifier = m /\ kernel'.time = found[1]
          /\ kernel'.start = kernel.start /\ kernel' \in KernelType
        BY <1>0, <1>4, <2>1, <2>2 DEF KernelType
    <2> QED
        BY <1>1, <2>1, <2>2, <2>3, <2>4 DEF m
<1> QED
    BY <1>2, <1>3, <1>4

LEMMA ThreadStep ==
    ASSUME ThreadInv, [Next]_vars
    PROVE  ThreadInv'
<1>0. /\ ThreadType /\ TypeOK /\ KernelInv /\ ModifierInv /\ BlockInv /\ HeightInv
      /\ now \in Nat /\ MaxTime \in Nat
      /\ best \in Tip /\ best.id \in Nat /\ best.height \in Int
    BY StakingAssumption DEF ThreadInv, ThreadType, TypeOK, Tip
<1> USE DEF ThreadInv, ThreadType, KernelInv, ModifierInv, BlockInv, HeightInv, Building,
           OldEnough, stakeTargetHit, Weight
<1>1. CASE Tick
    <2>1. /\ now' = now + 1 /\ now < MaxTime
          /\ UNCHANGED <<hash, best, ready, shortened, pc, readVars, searchVars, block, result>>
        BY <1>1 DEF Tick
    <2>2. ThreadType'
        BY <1>0, <2>1 DEF TypeOK, readVars, searchVars, KernelType
    <2>3. KernelInv' /\ ModifierInv' /\ BlockInv' /\ HeightInv'
        BY <1>0, <2>1 DEF readVars, searchVars
    <2> QED
        BY <2>2, <2>3
<1>2. CASE NewBest
    <2>1. /\ best' \in Tip /\ best'.id = best.id + 1 /\ best'.height \in Int
          /\ shortened' = (shortened \/ best'.height < best.height)
          /\ UNCHANGED <<hash, now, ready, pc, readVars, searchVars, block, result>>
        BY <1>0, <1>2, NewBestFacts DEF Tip
    <2>2. outerPrev.id \in Nat /\ minerPrev.height \in Int /\ voteTip.height \in Int
        BY <1>0 DEF Tip
    <2>3. ThreadType'
        BY <1>0, <2>1 DEF TypeOK, readVars, searchVars
    <2>4. KernelInv' /\ BlockInv'
        BY <1>0, <2>1 DEF readVars, searchVars
    <2>5. ModifierInv'
        BY <1>0, <2>1, <2>2 DEF readVars
    <2>6. HeightInv'
        <3>1. ~shortened' => ~shortened /\ ~(best'.height < best.height)
            BY <2>1, Zenon
        <3>2. UNCHANGED <<pc, minerPrev, voteTip>>
            BY <2>1 DEF readVars
        <3>3. CASE shortened'
            BY <3>3
        <3>4. CASE ~shortened'
            <4>1. ~shortened /\ best'.height >= best.height
                BY <1>0, <2>1, <3>1, <3>4
            <4> QED
                BY <1>0, <2>1, <2>2, <3>2, <4>1
        <3> QED
            BY <3>3, <3>4
    <2> QED
        BY <2>3, <2>4, <2>5, <2>6
<1>3. CASE LockOrUnlock
    <2>1. /\ ready' \in BOOLEAN
          /\ UNCHANGED <<hash, now, best, shortened, pc, readVars, searchVars, block, result>>
        BY <1>3, Zenon DEF LockOrUnlock
    <2>2. ThreadType'
        BY <1>0, <2>1 DEF TypeOK, readVars, searchVars
    <2>3. KernelInv' /\ ModifierInv' /\ BlockInv' /\ HeightInv'
        BY <1>0, <2>1 DEF readVars, searchVars
    <2> QED
        BY <2>2, <2>3
<1>4. CASE StartTurn
    <2>1. /\ minerPrev' = best /\ pc' = "votes" /\ shortened' \in BOOLEAN
          /\ UNCHANGED <<hash, now, best, ready, voteTip, outerPrev, searchVars, block, result>>
        BY <1>4, Zenon DEF StartTurn
    <2>2. ThreadType'
        BY <1>0, <2>1 DEF TypeOK, searchVars
    <2>3. KernelInv' /\ ModifierInv' /\ BlockInv' /\ HeightInv'
        BY <1>0, <2>1 DEF searchVars
    <2> QED
        BY <2>2, <2>3
<1>5. CASE ReadVotes
    BY <1>0, <1>5 DEF ReadVotes, TypeOK, chainVars, searchVars
<1>6. CASE StartSearch
    <2>1. /\ outerPrev' = best /\ pc = "coinstake"
          /\ UNCHANGED <<hash, now, best, ready, shortened, minerPrev, voteTip, block,
                         mapHashedBlocks, nLastCoinStakeSearchTime, result>>
          /\ setStakeCoins' \subseteq Coins /\ toTry' \subseteq Coins
        BY <1>0, <1>6 DEF StartSearch, TypeOK, chainVars, SelectStakeCoins
    <2>2. \/ kernel' = kernel /\ pc' = "gate"
          \/ kernel' = [start |-> now, coin |-> None, modifier |-> None, time |-> 0] /\ pc' = "search"
        BY <1>6 DEF StartSearch, NoKernel
    <2>3. kernel' \in KernelType /\ kernel'.start <= now
        BY <1>0, <2>2 DEF TypeOK, KernelType
    <2>4. ThreadType'
        BY <1>0, <2>1, <2>2, <2>3 DEF TypeOK, KernelType
    <2>5. kernel'.coin # None => kernel' = kernel /\ pc' = "gate"
        BY <2>2
    <2>6. KernelInv' /\ BlockInv'
        BY <1>0, <2>1, <2>2, <2>5
    <2>7. ModifierInv' /\ HeightInv'
        BY <1>0, <2>1, <2>2, <2>5
    <2> QED
        BY <2>4, <2>6, <2>7
<1>7. ASSUME NEW c \in Coins, TryCoin(c) PROVE ThreadInv'
    <2>1. /\ UNCHANGED <<chainVars, readVars, setStakeCoins, mapHashedBlocks,
                          nLastCoinStakeSearchTime, block, result>>
          /\ toTry' \subseteq Coins /\ pc = "search" /\ pc' \in {"search", "hashed"}
          /\ kernel' \in KernelType /\ kernel'.start = kernel.start
          /\ \/ kernel' = kernel
             \/ /\ kernel'.coin = c /\ kernel'.modifier = best.modifier[c]
                /\ kernel'.modifier \in Modifiers
                /\ OldEnough(c, kernel'.modifier, kernel'.time)
                /\ stakeTargetHit(c, kernel'.modifier, kernel'.time, kernel'.time)
        BY <1>7, TryCoinFacts
    <2>2. ThreadType'
        BY <1>0, <2>1 DEF TypeOK, chainVars, readVars, KernelType
    <2>3. KernelInv' /\ BlockInv'
        BY <1>0, <2>1 DEF chainVars
    <2>4. ModifierInv' /\ HeightInv'
        BY <1>0, <2>1 DEF chainVars, readVars
    <2> QED
        BY <2>2, <2>3, <2>4
<1>8. CASE MarkHashed
    BY <1>0, <1>8 DEF MarkHashed, TypeOK, chainVars, readVars
<1>9. CASE EndSearch
    <2>1. /\ pc = "search" /\ nLastCoinStakeSearchTime' = kernel.start
          /\ setStakeCoins' \subseteq Coins
          /\ UNCHANGED <<hash, now, best, ready, shortened, readVars, toTry, kernel, mapHashedBlocks,
                         block, result>>
        BY <1>0, <1>9 DEF EndSearch, TypeOK, chainVars
    <2>2. \/ pc' = "collect" /\ kernel.coin # None /\ kernel.time >= outerPrev.minTime
          \/ pc' = "gate"
        BY <1>9 DEF EndSearch
    <2>3. ThreadType'
        BY <1>0, <2>1, <2>2 DEF TypeOK, readVars, KernelType
    <2>4. KernelInv' /\ ModifierInv' /\ BlockInv' /\ HeightInv'
        BY <1>0, <2>1, <2>2 DEF readVars
    <2> QED
        BY <2>3, <2>4
<1>10. CASE Collect
    <2>1. Max({best.minTime, kernel.time}) \in Nat
        BY <1>0, MaxOfTwo DEF Tip, KernelType
    <2>2. block' \in [prev : Tip, bits : Targets, height : Int, time : Nat]
        BY <1>0, <1>10, <2>1 DEF Collect, Tip
    <2>3. /\ block'.bits = outerPrev.bits /\ block'.prev = best
          /\ block'.time = Max({best.minTime, kernel.time})
        BY <1>10 DEF Collect
    <2>4. /\ pc = "collect" /\ pc' = "nonce"
          /\ UNCHANGED <<hash, now, best, ready, shortened, readVars, searchVars, result>>
        BY <1>10 DEF Collect, chainVars
    <2>5. ThreadType'
        BY <1>0, <2>2, <2>4 DEF TypeOK, readVars, searchVars
    <2>6. KernelInv' /\ ModifierInv' /\ HeightInv'
        BY <1>0, <2>4 DEF readVars, searchVars
    <2> QED
        BY <2>3, <2>4, <2>5, <2>6 DEF readVars, searchVars, Max
<1>11. CASE NonceAndSign
    <2>1. block' = [block EXCEPT !.height = minerPrev.height + 1]
        BY <1>11 DEF NonceAndSign
    <2>2. /\ block'.bits = block.bits /\ block'.prev = block.prev /\ block'.time = block.time
          /\ block'.height = minerPrev.height + 1
          /\ block' \in [prev : Tip, bits : Targets, height : Int, time : Nat]
        BY <1>0, <2>1 DEF Tip
    <2>3. /\ pc = "nonce" /\ pc' \in {"check", "gate"}
          /\ UNCHANGED <<hash, now, best, ready, shortened, readVars, searchVars, result>>
        BY <1>11 DEF NonceAndSign, chainVars
    <2>4. ThreadType'
        BY <1>0, <2>2, <2>3 DEF TypeOK, readVars, searchVars
    <2>5. KernelInv' /\ ModifierInv' /\ HeightInv'
        BY <1>0, <2>3 DEF readVars, searchVars
    <2> QED
        BY <1>0, <2>2, <2>3, <2>4, <2>5 DEF readVars, searchVars
<1>12. CASE CheckWork
    <2>1. /\ pc = "check" /\ pc' = "gate" /\ result' \in {"stale", "accepted", "rejected"}
          /\ UNCHANGED <<hash, now, ready, shortened, readVars, searchVars, block>>
          /\ \/ best' = best
             \/ best' = [best EXCEPT !.id = @ + 1, !.height = @ + 1, !.spent = @ \cup {kernel.coin}]
        BY <1>12 DEF CheckWork
    <2>2. kernel.coin \in Coins
        BY <1>0, <2>1 DEF KernelType
    <2>3. best' \in Tip /\ best'.id \in Nat /\ best'.id >= best.id
        <3>1. CASE best' = best
            BY <1>0, <3>1
        <3>2. CASE best' = [best EXCEPT !.id = @ + 1, !.height = @ + 1, !.spent = @ \cup {kernel.coin}]
            <4> DEFINE s == best.spent \cup {kernel.coin}
            <4>1. s \in SUBSET Coins /\ best.id + 1 \in Nat /\ best.height + 1 \in Int
                BY <1>0, <2>2 DEF Tip
            <4>2. best' = [best EXCEPT !.id = best.id + 1, !.height = best.height + 1, !.spent = s]
                BY <3>2
            <4> HIDE DEF s
            <4>3. best'.id = best.id + 1
                BY <1>0, <4>2 DEF Tip
            <4>4. best' \in Tip
                BY <1>0, <4>1, <4>2 DEF Tip
            <4> QED
                BY <1>0, <4>1, <4>3, <4>4
        <3> QED
            BY <2>1, <3>1, <3>2
    <2>4. ThreadType'
        BY <1>0, <2>1, <2>3 DEF TypeOK, readVars, searchVars
    <2>5. outerPrev.id \in Nat
        BY <1>0 DEF Tip
    <2>6. ModifierInv' /\ HeightInv'
        BY <1>0, <2>1, <2>3, <2>5 DEF readVars
    <2>7. KernelInv' /\ BlockInv'
        BY <1>0, <2>1 DEF readVars, searchVars
    <2> QED
        BY <2>4, <2>6, <2>7
<1>13. CASE UNCHANGED vars
    BY <1>0, <1>13 DEF vars, chainVars, readVars, searchVars, TypeOK
<1> QED
    BY <1>1, <1>2, <1>3, <1>4, <1>5, <1>6, <1>7, <1>8, <1>9, <1>10, <1>11, <1>12, <1>13 DEF Next, Thread

LEMMA ThreadGood ==
    ASSUME ThreadInv
    PROVE  StakedBlocksAreGood
<1>1. TypeOK /\ FoundKernelVerifies
    BY DEF ThreadInv, ThreadType, KernelInv, FoundKernelVerifies
<1>2. SteadyBlocksAreAccepted
    <2> SUFFICES ASSUME pc = "check", block.prev = best, minerPrev = best, outerPrev = best,
                        kernel.time <= kernel.start + ClockDrift, kernel.coin \notin best.spent
                 PROVE  Accepted
        BY DEF SteadyBlocksAreAccepted
    <2>1. /\ best.minTime \in Nat /\ kernel.time \in Nat /\ kernel.start \in Nat
          /\ kernel.start <= now /\ now \in Nat /\ ClockDrift \in Nat
        BY StakingAssumption DEF ThreadInv, ThreadType, TypeOK, Tip, KernelType
    <2>2. kernel.time >= best.minTime /\ block.time = Max({best.minTime, kernel.time})
        BY DEF ThreadInv, KernelInv, BlockInv, Building
    <2>3. block.time = kernel.time
        BY <2>1, <2>2, MaxOfTwo
    <2>4. block.time <= now + ClockDrift
        BY <2>1, <2>3
    <2>5. block.bits = best.bits /\ block.height = best.height + 1
        BY DEF ThreadInv, BlockInv
    <2>6. /\ kernel.coin # None /\ kernel.modifier \in Modifiers /\ None \notin Modifiers
          /\ best.modifier[kernel.coin] = kernel.modifier
          /\ OldEnough(kernel.coin, kernel.modifier, kernel.time)
          /\ stakeTargetHit(kernel.coin, kernel.modifier, kernel.time, kernel.time)
        BY StakingAssumption DEF ThreadInv, KernelInv, ModifierInv, Building
    <2> QED
        BY <2>2, <2>3, <2>4, <2>5, <2>6 DEF Accepted
<1>3. VotesAreForThisHeight
    <2> SUFFICES ASSUME pc = "check", Accepted, ~shortened PROVE voteTip.height = best.height
        BY DEF VotesAreForThisHeight
    <2>1. block.height = best.height + 1 /\ block.height = minerPrev.height + 1
        BY DEF Accepted, ThreadInv, BlockInv
    <2>2. best.height \in Int /\ minerPrev.height \in Int /\ voteTip.height \in Int
        BY DEF ThreadInv, ThreadType, Tip
    <2> QED
        BY <2>1, <2>2 DEF ThreadInv, HeightInv
<1> QED
    BY <1>1, <1>2, <1>3 DEF StakedBlocksAreGood

(* A kernel that the search of the staking thread finds passes the check   *)
(* of every other node whose chain gives it the same modifier, although    *)
(* the two weigh the coin at different times (CheckStakeKernelHash); a     *)
(* block made while the best block stayed the same is accepted             *)
(* (CreateNewBlock, CheckWork), for every way in which other blocks and    *)
(* reorganisations arrive, whatever they do to heights and modifiers.  And *)
(* an accepted block votes on the proposals of its own height, although    *)
(* CreateNewBlock reads them without a lock before it knows the previous   *)
(* block, unless the chain became shorter since the thread's turn began.   *)
THEOREM StakedBlocksAlwaysGood == Spec => []StakedBlocksAreGood
<1>1. ThreadInv /\ [Next]_vars => ThreadInv'
    BY ThreadStep
<1> QED
    BY <1>1, ThreadInit, ThreadGood, PTL DEF Spec

-----------------------------------------------------------------------------
(* The collection of transactions                                          *)

(* The transactions in the block, those the first pass has entered with    *)
(* every input at hand, and what a transaction waits for when it is entered. *)
InBlock == Assembly!ToSet(vtx)
Stray(t) == Assembly!MissingInputs(t) # {}
Scanned == {t \in (mapTx \ toScan) \ NotFinal : ~Stray(t)}
WaitsFor(t) == Assembly!Parents(t) \ ChainTxs
Depend(p) == Assembly!ToSet(mapDependers[p])

(* Of vecPriority only the order is abstracted: parents are in the block   *)
(* before a transaction is queued.  What the loop finds in freed memory is *)
(* a transaction that lacks an input, and will not connect.                *)
PassInv ==
    /\ mapTx \subseteq Txs /\ Assembly!SpendsOnce(mapTx)
    /\ NotFinal \subseteq mapTx /\ toScan \subseteq mapTx
    /\ vtx \in Seq(Txs) /\ nBlockSize \in Nat /\ (nBlockSize < nBlockMaxSize \/ vtx = <<>>)
    /\ InBlock \subseteq Scanned /\ vecPriority \subseteq (Scanned \cup freed) \ InBlock
    /\ toScan # {} => InBlock = {}
    /\ freed \subseteq mapTx \ toScan /\ \A t \in freed : Stray(t)
    /\ crashed => \E t \in mapTx : Stray(t)
    /\ Assembly!ConnectingFailsOnlyForStrays

(* setDependsOn has what is not in the block yet, mapDependers its inverse  *)
(* and the freed ones, and a transaction that waits for nothing is queued   *)
(* or has been taken.                                                       *)
WaitInv ==
    /\ setDependsOn \in [Txs -> SUBSET Txs] /\ mapDependers \in [Txs -> Seq(Txs)]
    /\ \A t \in Txs : setDependsOn[t] = IF t \in Scanned THEN WaitsFor(t) \ InBlock ELSE {}
    /\ \A p \in Txs : /\ {t \in Scanned : p \in WaitsFor(t)} \subseteq Depend(p)
                      /\ Depend(p) \subseteq {t \in Scanned : p \in WaitsFor(t)} \cup freed
    /\ \A t \in InBlock \cup vecPriority : setDependsOn[t] = {}
    /\ \A t \in Scanned : setDependsOn[t] = {} =>
          \/ t \in vecPriority \cup InBlock \cup Refused
          \/ ~Assembly!Fits(t) \/ vin[t] \cap chainSpent # {}

(* mapTestPool is what the transactions in the block spend and make.       *)
TestPoolInv ==
    /\ mapTestPool.made = InBlock
    /\ \A o \in mapTestPool.spent : \E t \in InBlock : o \in vin[t]

CollectInv == PassInv /\ WaitInv /\ TestPoolInv

(* FiniteSets, as BlockAssembly and as the theorems about sets have it.    *)
LEMMA SameFiniteSets ==
    ASSUME NEW S
    PROVE  (Assembly!IsFiniteSet(S) <=> IsFiniteSet(S)) /\ Assembly!Cardinality(S) = Cardinality(S)
<1>1. Assembly!IsFiniteSet(S) <=> IsFiniteSet(S)
    BY DEF Assembly!IsFiniteSet, IsFiniteSet
<1>2. Assembly!Cardinality(S) = Cardinality(S)
    BY DEF Assembly!Cardinality, Cardinality
<1> QED
    BY <1>1, <1>2

LEMMA ToSetFacts ==
    ASSUME NEW S, NEW s \in Seq(S)
    PROVE  /\ Assembly!ToSet(s) \subseteq S /\ (s = <<>> => Assembly!ToSet(s) = {})
           /\ \A t \in S : /\ Append(s, t) \in Seq(S)
                           /\ Assembly!ToSet(Append(s, t)) = Assembly!ToSet(s) \cup {t}
<1>1. Assembly!ToSet(s) \subseteq S /\ (s = <<>> => Assembly!ToSet(s) = {})
    BY DEF Assembly!ToSet
<1>2. ASSUME NEW t \in S
      PROVE  Append(s, t) \in Seq(S) /\ Assembly!ToSet(Append(s, t)) = Assembly!ToSet(s) \cup {t}
    <2>1. /\ Append(s, t) \in Seq(S) /\ Len(s) \in Nat /\ Len(Append(s, t)) = Len(s) + 1
          /\ Append(s, t)[Len(s) + 1] = t
          /\ \A i \in 1 .. Len(s) : Append(s, t)[i] = s[i]
        OBVIOUS
    <2>2. DOMAIN Append(s, t) = 1 .. Len(s) + 1 /\ DOMAIN s = 1 .. Len(s)
        BY <2>1
    <2> QED
        BY <2>1, <2>2 DEF Assembly!ToSet
<1> QED
    BY <1>1, <1>2

(* A transaction entered once for each input that waits for p depends on p. *)
LEMMA EnteredFacts ==
    ASSUME NEW s \in Seq(Txs), NEW t \in Txs, NEW n \in Nat
    PROVE  LET new == s \o [i \in 1 .. n |-> t]
           IN  /\ new \in Seq(Txs)
               /\ Assembly!ToSet(new) = Assembly!ToSet(s) \cup (IF n = 0 THEN {} ELSE {t})
<1> DEFINE u == [i \in 1 .. n |-> t]  new == s \o u
<1>1. u \in Seq(Txs) /\ Len(u) = n /\ \A i \in 1 .. n : u[i] = t
    OBVIOUS
<1> HIDE DEF u
<1>2. /\ new \in Seq(Txs) /\ Len(new) = Len(s) + n /\ Len(s) \in Nat
      /\ \A i \in 1 .. Len(s) : new[i] = s[i]
      /\ \A i \in 1 .. n : new[Len(s) + i] = t
    BY <1>1
<1> HIDE DEF new
<1>3. DOMAIN new = 1 .. Len(s) + n /\ DOMAIN s = 1 .. Len(s)
    BY <1>2
<1>4. \A i \in DOMAIN new : i \notin DOMAIN s => n # 0 /\ new[i] = t
    <2> TAKE i \in DOMAIN new
    <2> HAVE i \notin DOMAIN s
    <2>1. i - Len(s) \in 1 .. n
        BY <1>2, <1>3
    <2>2. new[Len(s) + (i - Len(s))] = t
        BY <1>2, <2>1
    <2> QED
        BY <1>2, <1>3, <2>1, <2>2
<1>5. n # 0 => Len(s) + 1 \in DOMAIN new /\ new[Len(s) + 1] = t
    BY <1>2, <1>3
<1>6. Assembly!ToSet(new) = Assembly!ToSet(s) \cup (IF n = 0 THEN {} ELSE {t})
    BY <1>2, <1>3, <1>4, <1>5 DEF Assembly!ToSet
<1> QED
    BY <1>2, <1>6 DEF new, u

LEMMA DependersFacts ==
    ASSUME Assembly!AssemblyAssumption, mapDependers \in [Txs -> Seq(Txs)],
           NEW t \in Txs, NEW inputs \in SUBSET vin[t], mapDependers' = Assembly!Entered(t, inputs)
    PROVE  /\ mapDependers' \in [Txs -> Seq(Txs)]
           /\ \A p \in Txs : Depend(p)' = Depend(p) \cup (IF \E o \in inputs : o[1] = p THEN {t} ELSE {})
<1> DEFINE I(p) == {o \in inputs : o[1] = p}
<1>1. ASSUME NEW p \in Txs
      PROVE  /\ Cardinality(I(p)) \in Nat
             /\ (Cardinality(I(p)) = 0 <=> ~\E o \in inputs : o[1] = p)
    <2>1. IsFiniteSet(I(p))
        <3>1. IsFiniteSet(vin[t]) /\ I(p) \subseteq vin[t]
            BY SameFiniteSets DEF Assembly!AssemblyAssumption
        <3> HIDE DEF I
        <3> QED
            BY <3>1, FS_Subset
    <2>2. I(p) = {} <=> ~\E o \in inputs : o[1] = p
        OBVIOUS
    <2> HIDE DEF I
    <2> QED
        BY <2>1, <2>2, FS_CardinalityType, FS_EmptySet
<1>2. mapDependers' = [p \in Txs |-> mapDependers[p] \o [i \in 1 .. Cardinality(I(p)) |-> t]]
    <2>1. \A p : Assembly!Cardinality(I(p)) = Cardinality(I(p))
        BY SameFiniteSets
    <2> QED
        BY <2>1 DEF Assembly!Entered
<1> HIDE DEF I
<1>3. ASSUME NEW p \in Txs
      PROVE  /\ mapDependers'[p] \in Seq(Txs)
             /\ Depend(p)' = Depend(p) \cup (IF \E o \in inputs : o[1] = p THEN {t} ELSE {})
    <2> DEFINE n == Cardinality(I(p))  s == mapDependers[p]
               new == s \o [i \in 1 .. n |-> t]
    <2>1. n \in Nat /\ (n = 0 <=> ~\E o \in inputs : o[1] = p) /\ mapDependers'[p] = new
        BY <1>1, <1>2
    <2>2. s \in Seq(Txs)
        OBVIOUS
    <2> HIDE DEF n, s
    <2>3. /\ new \in Seq(Txs)
          /\ Assembly!ToSet(new) = Assembly!ToSet(s) \cup (IF n = 0 THEN {} ELSE {t})
        BY <2>1, <2>2, EnteredFacts
    <2> HIDE DEF new
    <2> QED
        BY <2>1, <2>3 DEF Depend, s
<1>4. DOMAIN mapDependers' = Txs /\ mapDependers' = [p \in Txs |-> mapDependers'[p]]
    BY <1>2
<1>5. mapDependers' \in [Txs -> Seq(Txs)]
    BY <1>3, <1>4
<1> QED
    BY <1>3, <1>5

LEMMA ScanStep ==
    ASSUME Assembly!AssemblyAssumption, CollectInv, NEW t \in Txs, Assembly!Scan(t)
    PROVE  CollectInv'
<1> USE DEF CollectInv
<1>1. /\ t \in toScan /\ toScan' = toScan \ {t} /\ ~crashed
      /\ UNCHANGED <<mapTx, chainSpent, NotFinal, Refused, mapTestPool, vtx, nBlockSize, failed>>
    BY DEF Assembly!Scan, Assembly!poolVars
<1>2. /\ InBlock = {} /\ InBlock' = InBlock
      /\ \A s : Stray(s)' <=> Stray(s)
    BY <1>1 DEF PassInv, InBlock, Stray, Assembly!MissingInputs
<1>3. t \in mapTx /\ t \notin Scanned /\ t \notin freed /\ t \notin vecPriority
    BY <1>1 DEF PassInv, Scanned
<1>4. Scanned' = IF t \in NotFinal \/ Stray(t) THEN Scanned ELSE Scanned \cup {t}
    BY <1>1, <1>2, <1>3 DEF Scanned
<1>5. WaitsFor(t) = {o[1] : o \in Assembly!Waiting(t)} /\ (WaitsFor(t) = {} <=> Assembly!Waiting(t) = {})
    BY DEF WaitsFor, Assembly!Waiting, Assembly!Parents
<1>6. Stray(t) => WaitsFor(t) # {}
    BY <1>5 DEF Stray, Assembly!MissingInputs
<1>7. ~Stray(t) => WaitsFor(t) \subseteq Txs
    BY <1>5 DEF Stray, Assembly!MissingInputs, PassInv
<1>8. CASE t \in NotFinal /\ UNCHANGED <<setDependsOn, mapDependers, vecPriority, freed, crashed>>
    <2>1. Scanned' = Scanned
        BY <1>4, <1>8
    <2>2. PassInv'
        BY <1>1, <1>2, <1>8, <2>1 DEF PassInv, Assembly!SpendsOnce,
           Assembly!ConnectingFailsOnlyForStrays, Assembly!MissingInputs
    <2>3. TestPoolInv'
        BY <1>1, <1>2 DEF TestPoolInv
    <2>4. WaitInv'
        BY <1>1, <1>2, <1>8, <2>1 DEF WaitInv, Depend, Assembly!Fits
    <2> QED
        BY <2>2, <2>3, <2>4
<1>9. CASE /\ t \notin NotFinal /\ Assembly!Waiting(t) = {}
           /\ vecPriority' = vecPriority \cup {t}
           /\ UNCHANGED <<setDependsOn, mapDependers, freed, crashed>>
    <2>1. Scanned' = Scanned \cup {t} /\ WaitsFor(t) = {}
        BY <1>4, <1>5, <1>6, <1>9
    <2>2. PassInv'
        BY <1>1, <1>2, <1>9, <2>1 DEF PassInv, Assembly!SpendsOnce,
           Assembly!ConnectingFailsOnlyForStrays, Assembly!MissingInputs
    <2>3. TestPoolInv'
        BY <1>1, <1>2 DEF TestPoolInv
    <2>4. WaitInv'
        <3>1. setDependsOn[t] = {}
            BY <1>3 DEF WaitInv
        <3>2. \A p \in Txs : Depend(p)' = Depend(p)
            BY <1>9 DEF Depend
        <3>3. \A p \in Txs : {s \in Scanned' : p \in WaitsFor(s)} = {s \in Scanned : p \in WaitsFor(s)}
            BY <2>1
        <3>4. \A s \in Scanned' : setDependsOn'[s] = {} =>
                 \/ s \in vecPriority' \cup InBlock' \cup Refused'
                 \/ ~Assembly!Fits(s)' \/ vin[s] \cap chainSpent' # {}
            BY <1>1, <1>2, <1>9, <2>1 DEF WaitInv, Assembly!Fits
        <3>5. \A s \in Txs : setDependsOn'[s] = IF s \in Scanned' THEN WaitsFor(s) \ InBlock' ELSE {}
            BY <1>2, <1>9, <2>1, <3>1 DEF WaitInv
        <3>6. \A s \in InBlock' \cup vecPriority' : setDependsOn'[s] = {}
            BY <1>2, <1>9, <3>1 DEF WaitInv
        <3>7. setDependsOn' \in [Txs -> SUBSET Txs] /\ mapDependers' \in [Txs -> Seq(Txs)]
            BY <1>9 DEF WaitInv
        <3>8. \A p \in Txs : /\ {s \in Scanned' : p \in WaitsFor(s)} \subseteq Depend(p)'
                             /\ Depend(p)' \subseteq {s \in Scanned' : p \in WaitsFor(s)} \cup freed'
            BY <1>9, <3>2, <3>3 DEF WaitInv
        <3> QED
            BY <3>4, <3>5, <3>6, <3>7, <3>8 DEF WaitInv
    <2> QED
        BY <2>2, <2>3, <2>4
<1>10. CASE /\ t \notin NotFinal /\ Assembly!Waiting(t) # {} /\ Assembly!MissingInputs(t) = {}
            /\ setDependsOn' = [setDependsOn EXCEPT ![t] = {o[1] : o \in Assembly!Waiting(t)}]
            /\ mapDependers' = Assembly!Entered(t, Assembly!Waiting(t))
            /\ UNCHANGED <<vecPriority, freed, crashed>>
    <2>1. Scanned' = Scanned \cup {t} /\ WaitsFor(t) # {} /\ WaitsFor(t) \subseteq Txs
        BY <1>4, <1>5, <1>7, <1>10 DEF Stray
    <2>2. PassInv'
        BY <1>1, <1>2, <1>10, <2>1 DEF PassInv, Assembly!SpendsOnce,
           Assembly!ConnectingFailsOnlyForStrays, Assembly!MissingInputs
    <2>3. TestPoolInv'
        BY <1>1, <1>2 DEF TestPoolInv
    <2>4. WaitInv'
        <3>1. /\ mapDependers' \in [Txs -> Seq(Txs)]
              /\ \A p \in Txs : Depend(p)' = Depend(p) \cup (IF p \in WaitsFor(t) THEN {t} ELSE {})
            <4>1. Assembly!Waiting(t) \in SUBSET vin[t]
                BY DEF Assembly!Waiting
            <4>2. /\ mapDependers' \in [Txs -> Seq(Txs)]
                  /\ \A p \in Txs : Depend(p)' = Depend(p)
                        \cup (IF \E o \in Assembly!Waiting(t) : o[1] = p THEN {t} ELSE {})
                BY <1>10, <4>1, DependersFacts DEF WaitInv
            <4>3. \A p : (\E o \in Assembly!Waiting(t) : o[1] = p) <=> p \in WaitsFor(t)
                BY <1>5
            <4> QED
                BY <4>2, <4>3
        <3>2. \A p \in Txs : /\ {s \in Scanned' : p \in WaitsFor(s)} \subseteq Depend(p)'
                             /\ Depend(p)' \subseteq {s \in Scanned' : p \in WaitsFor(s)} \cup freed'
            BY <1>10, <2>1, <3>1 DEF WaitInv
        <3>3. /\ setDependsOn' \in [Txs -> SUBSET Txs]
              /\ setDependsOn'[t] = WaitsFor(t)
              /\ \A s \in Txs \ {t} : setDependsOn'[s] = setDependsOn[s]
            BY <1>5, <1>10, <2>1 DEF WaitInv
        <3>4. \A s \in Txs : setDependsOn'[s] = IF s \in Scanned' THEN WaitsFor(s) \ InBlock' ELSE {}
            BY <1>2, <2>1, <3>3 DEF WaitInv
        <3>5. \A s \in InBlock' \cup vecPriority' : setDependsOn'[s] = {}
            <4>1. \A s \in vecPriority : s \in Txs /\ s # t /\ setDependsOn[s] = {}
                BY <1>3 DEF PassInv, WaitInv, Scanned
            <4> QED
                BY <1>2, <1>10, <3>3, <4>1
        <3>6. \A s \in Scanned' : setDependsOn'[s] = {} =>
                 \/ s \in vecPriority' \cup InBlock' \cup Refused'
                 \/ ~Assembly!Fits(s)' \/ vin[s] \cap chainSpent' # {}
            <4> TAKE s \in Scanned'
            <4> HAVE setDependsOn'[s] = {}
            <4>1. s # t /\ s \in Scanned /\ s \in Txs
                BY <2>1, <3>3 DEF PassInv, Scanned
            <4> QED
                BY <1>1, <1>2, <1>10, <3>3, <4>1 DEF WaitInv, Assembly!Fits
        <3> QED
            BY <3>1, <3>2, <3>3, <3>4, <3>5, <3>6 DEF WaitInv
    <2> QED
        BY <2>2, <2>3, <2>4
<1>11. CASE /\ t \notin NotFinal /\ Assembly!MissingInputs(t) # {}
            /\ \E before \in SUBSET (Assembly!Waiting(t) \ Assembly!MissingInputs(t)) :
                  /\ mapDependers' = Assembly!Entered(t, before)
                  /\ freed' = IF before = {} THEN freed ELSE freed \cup {t}
            /\ crashed' \in BOOLEAN
            /\ UNCHANGED <<setDependsOn, vecPriority>>
    <2>1. PICK before \in SUBSET (Assembly!Waiting(t) \ Assembly!MissingInputs(t)) :
                  /\ mapDependers' = Assembly!Entered(t, before)
                  /\ freed' = IF before = {} THEN freed ELSE freed \cup {t}
        BY <1>11
    <2>2. Scanned' = Scanned /\ Stray(t)
        BY <1>4, <1>11 DEF Stray
    <2>3. PassInv'
        <3>1. freed \subseteq freed' /\ freed' \subseteq freed \cup {t}
            BY <2>1
        <3>2. freed' \subseteq mapTx' \ toScan' /\ \A s \in freed' : Stray(s)'
            BY <1>1, <1>2, <1>3, <2>2, <3>1 DEF PassInv
        <3>3. crashed' => \E s \in mapTx' : Stray(s)'
            BY <1>1, <1>2, <1>3, <2>2
        <3>4. vecPriority' \subseteq (Scanned' \cup freed') \ InBlock' /\ InBlock' \subseteq Scanned'
            BY <1>2, <1>11, <2>2, <3>1 DEF PassInv
        <3>5. Assembly!ConnectingFailsOnlyForStrays'
            BY <1>1 DEF PassInv, Assembly!ConnectingFailsOnlyForStrays, Assembly!MissingInputs
        <3> QED
            BY <1>1, <1>2, <3>2, <3>3, <3>4, <3>5 DEF PassInv, Assembly!SpendsOnce
    <2>4. TestPoolInv'
        BY <1>1, <1>2 DEF TestPoolInv
    <2>5. WaitInv'
        <3>1. /\ mapDependers' \in [Txs -> Seq(Txs)]
              /\ \A p \in Txs : Depend(p)' = Depend(p) \cup (IF \E o \in before : o[1] = p THEN {t} ELSE {})
            <4>1. before \in SUBSET vin[t]
                BY DEF Assembly!Waiting
            <4> QED
                BY <2>1, <4>1, DependersFacts DEF WaitInv
        <3>2. \A p \in Txs : (\E o \in before : o[1] = p) => freed' = freed \cup {t}
            BY <2>1
        <3>3. freed \subseteq freed'
            BY <2>1
        <3>4. \A p \in Txs : /\ {s \in Scanned' : p \in WaitsFor(s)} \subseteq Depend(p)'
                             /\ Depend(p)' \subseteq {s \in Scanned' : p \in WaitsFor(s)} \cup freed'
            <4> TAKE p \in Txs
            <4>1. /\ {s \in Scanned : p \in WaitsFor(s)} \subseteq Depend(p)
                  /\ Depend(p) \subseteq {s \in Scanned : p \in WaitsFor(s)} \cup freed
                BY DEF WaitInv
            <4> QED
                BY <2>2, <3>1, <3>2, <3>3, <4>1
        <3> QED
            BY <1>1, <1>2, <1>11, <2>2, <3>1, <3>4 DEF WaitInv, Assembly!Fits
    <2> QED
        BY <2>3, <2>4, <2>5
<1> QED
    BY <1>8, <1>9, <1>10, <1>11 DEF Assembly!Scan, Assembly!memoryVars

(* What the queue hands out connects, unless the chain has spent an input; *)
(* what lacks an input does not.                                           *)
LEMMA QueuedConnects ==
    ASSUME Assembly!AssemblyAssumption, CollectInv, NEW t \in vecPriority
    PROVE  /\ Assembly!Connects(t) => t \in Scanned
           /\ t \in Scanned /\ vin[t] \cap chainSpent = {} => Assembly!Connects(t)
<1> USE DEF CollectInv
<1>1. t \in Scanned \cup freed /\ t \in Txs /\ t \in mapTx /\ t \notin InBlock
    BY DEF PassInv, Scanned
<1>2. ASSUME t \in freed PROVE ~Assembly!Connects(t)
    <2>1. PICK o \in vin[t] : o[1] \notin ChainTxs /\ o[1] \notin mapTx
        BY <1>2 DEF PassInv, Stray, Assembly!MissingInputs, Assembly!Waiting
    <2>2. o[1] \notin mapTestPool.made
        BY <2>1 DEF TestPoolInv, PassInv, Scanned
    <2> QED
        BY <2>1, <2>2 DEF Assembly!Connects
<1>3. ASSUME t \in Scanned, vin[t] \cap chainSpent = {} PROVE Assembly!Connects(t)
    <2>1. WaitsFor(t) \subseteq InBlock
        BY <1>1, <1>3 DEF WaitInv
    <2>2. SUFFICES ASSUME NEW o \in vin[t]
                   PROVE  o \notin mapTestPool.spent /\ o[1] \in ChainTxs \cup mapTestPool.made
        BY <1>3 DEF Assembly!Connects
    <2>3. o[1] \in ChainTxs \cup mapTestPool.made
        <3>1. o[1] \in Assembly!Parents(t)
            BY DEF Assembly!Parents
        <3> QED
            BY <2>1, <3>1 DEF WaitsFor, TestPoolInv
    <2>4. o \notin mapTestPool.spent
        <3> SUFFICES ASSUME o \in mapTestPool.spent PROVE FALSE
            OBVIOUS
        <3>1. PICK s \in InBlock : o \in vin[s]
            BY DEF TestPoolInv
        <3>2. s \in mapTx /\ s # t
            BY <1>1 DEF PassInv, Scanned
        <3> QED
            BY <1>1, <3>1, <3>2 DEF PassInv, Assembly!SpendsOnce
    <2> QED
        BY <2>3, <2>4
<1> QED
    BY <1>1, <1>2, <1>3

LEMMA TakeStep ==
    ASSUME Assembly!AssemblyAssumption, CollectInv, NEW t \in Txs, Assembly!Take(t)
    PROVE  CollectInv'
<1> USE DEF CollectInv
<1>1. /\ toScan = {} /\ t \in vecPriority /\ ~crashed
      /\ UNCHANGED <<mapTx, chainSpent, NotFinal, Refused, toScan, mapDependers, freed>>
    BY DEF Assembly!Take, Assembly!poolVars
<1>2. /\ t \notin InBlock /\ t \in Scanned \cup freed
      /\ \A s : Stray(s)' <=> Stray(s)
      /\ \A p \in Txs : Depend(p)' = Depend(p)
    BY <1>1 DEF PassInv, Depend, Stray, Assembly!MissingInputs
<1>0. Scanned' = Scanned
    BY <1>1, <1>2 DEF Scanned
<1>3. CASE /\ t \in Refused \/ ~Assembly!Fits(t)
           /\ vecPriority' = vecPriority \ {t}
           /\ UNCHANGED <<setDependsOn, mapTestPool, vtx, nBlockSize, failed, crashed>>
    <2>1. InBlock' = InBlock /\ \A s : Assembly!Fits(s)' <=> Assembly!Fits(s)
        BY <1>3 DEF InBlock, Assembly!Fits
    <2>2. PassInv'
        BY <1>0, <1>1, <1>2, <1>3, <2>1 DEF PassInv, Assembly!SpendsOnce,
           Assembly!ConnectingFailsOnlyForStrays, Assembly!MissingInputs
    <2>3. TestPoolInv'
        BY <1>3, <2>1 DEF TestPoolInv
    <2>4. WaitInv'
        BY <1>0, <1>1, <1>2, <1>3, <2>1 DEF WaitInv, Assembly!Fits
    <2> QED
        BY <2>2, <2>3, <2>4
<1>5. CASE /\ ~Assembly!Connects(t)
           /\ vecPriority' = vecPriority \ {t} /\ failed' = failed \cup {t}
           /\ UNCHANGED <<setDependsOn, mapTestPool, vtx, nBlockSize, crashed>>
    <2>1. InBlock' = InBlock /\ \A s : Assembly!Fits(s)' <=> Assembly!Fits(s)
        BY <1>5 DEF InBlock, Assembly!Fits
    <2>2. t \in Scanned => vin[t] \cap chainSpent # {}
        BY <1>1, <1>5, QueuedConnects
    <2>3. t \in freed => Stray(t)
        BY DEF PassInv
    <2>4. Assembly!ConnectingFailsOnlyForStrays'
        BY <1>1, <1>2, <1>5, <2>2, <2>3 DEF PassInv, Stray,
           Assembly!ConnectingFailsOnlyForStrays, Assembly!MissingInputs
    <2>5. PassInv'
        BY <1>0, <1>1, <1>2, <1>5, <2>1, <2>4 DEF PassInv, Assembly!SpendsOnce
    <2>6. TestPoolInv'
        BY <1>5, <2>1 DEF TestPoolInv
    <2>7. WaitInv'
        BY <1>0, <1>1, <1>2, <1>5, <2>1, <2>2 DEF WaitInv, Assembly!Fits
    <2> QED
        BY <2>5, <2>6, <2>7
<1>4. CASE /\ t \notin Refused /\ Assembly!Fits(t) /\ Assembly!Connects(t)
           /\ mapTestPool' = [spent |-> mapTestPool.spent \cup vin[t],
                              made |-> mapTestPool.made \cup {t}]
           /\ vtx' = Append(vtx, t) /\ nBlockSize' = nBlockSize + Size[t]
           /\ setDependsOn' = [s \in Txs |-> IF s \in Assembly!ToSet(mapDependers[t])
                                               THEN setDependsOn[s] \ {t} ELSE setDependsOn[s]]
           /\ \E again \in SUBSET Assembly!Dangling(t) :
                vecPriority' = (vecPriority \ {t}) \cup Assembly!Released(t) \cup again
           /\ crashed' \in {FALSE, Assembly!Dangling(t) # {}}
           /\ UNCHANGED failed
    <2>0. PICK again \in SUBSET Assembly!Dangling(t) :
                vecPriority' = (vecPriority \ {t}) \cup Assembly!Released(t) \cup again
        BY <1>4
    <2>11. t \in Scanned /\ again \subseteq freed /\ \A s \in freed : s \notin Scanned /\ s \notin InBlock
        BY <1>1, <1>4, QueuedConnects DEF PassInv, Scanned, Assembly!Dangling
    <2>1. vtx' \in Seq(Txs) /\ InBlock' = InBlock \cup {t}
        BY <1>4, ToSetFacts DEF PassInv, InBlock
    <2>2. vtx' # <<>> /\ nBlockSize' \in Nat /\ nBlockSize' < nBlockMaxSize /\ nBlockSize <= nBlockSize'
        <3>1. Size[t] \in Nat /\ nBlockSize \in Nat
            BY DEF PassInv, Assembly!AssemblyAssumption
        <3> QED
            BY <1>4, <3>1 DEF PassInv, Assembly!Fits
    <2>3. /\ {s \in Scanned : t \in WaitsFor(s)} \subseteq Depend(t)
          /\ Depend(t) \subseteq {s \in Scanned : t \in WaitsFor(s)} \cup freed
          /\ Scanned \subseteq Txs /\ freed \subseteq Txs
        BY DEF WaitInv, PassInv, Scanned
    <2>4. \A s \in Txs : setDependsOn[s] = IF s \in Scanned THEN WaitsFor(s) \ InBlock ELSE {}
        BY DEF WaitInv
    <2>5. \A s \in Txs : setDependsOn'[s] = IF s \in Scanned THEN WaitsFor(s) \ InBlock' ELSE {}
        <3> TAKE s \in Txs
        <3>1. setDependsOn'[s] = IF s \in Depend(t) THEN setDependsOn[s] \ {t} ELSE setDependsOn[s]
            BY <1>4 DEF Depend
        <3> QED
            BY <2>1, <2>3, <2>4, <2>11, <3>1
    <2>6. Assembly!Released(t) = {s \in Scanned : setDependsOn[s] # {} /\ setDependsOn'[s] = {}}
        <3>1. Assembly!Released(t) = {s \in Depend(t) : setDependsOn[s] # {} /\ setDependsOn[s] \ {t} = {}}
            BY DEF Assembly!Released, Depend
        <3>2. \A s \in Scanned : setDependsOn[s] # {} /\ setDependsOn[s] \ {t} = {} => s \in Depend(t)
            BY <2>3, <2>4
        <3>3. \A s \in Depend(t) : setDependsOn'[s] = setDependsOn[s] \ {t}
            BY <1>4, <2>3 DEF Depend
        <3>4. \A s \in Scanned : setDependsOn'[s] = {} /\ setDependsOn[s] # {} => s \in Depend(t)
            BY <1>4, <2>3 DEF Depend
        <3>5. \A s \in freed : setDependsOn[s] = {}
            BY <2>3, <2>4, <2>11
        <3> QED
            BY <2>3, <3>1, <3>2, <3>3, <3>4, <3>5
    <2>7. \A s \in InBlock \cup vecPriority : setDependsOn[s] = {}
        BY DEF WaitInv
    <2>8. PassInv'
        <3>1. vecPriority' \subseteq (Scanned \cup freed) \ InBlock'
            BY <1>1, <1>2, <2>0, <2>1, <2>6, <2>7, <2>11 DEF PassInv
        <3>2. InBlock' \subseteq Scanned
            BY <2>1, <2>11 DEF PassInv
        <3>3. crashed' => \E s \in mapTx' : Stray(s)'
            BY <1>1, <1>2, <1>4 DEF PassInv, Assembly!Dangling
        <3>4. Assembly!ConnectingFailsOnlyForStrays'
            BY <1>1, <1>4 DEF PassInv, Assembly!ConnectingFailsOnlyForStrays, Assembly!MissingInputs
        <3> QED
            BY <1>0, <1>1, <1>2, <1>4, <2>1, <2>2, <3>1, <3>2, <3>3, <3>4 DEF PassInv, Assembly!SpendsOnce
    <2>9. TestPoolInv'
        BY <1>4, <2>1 DEF TestPoolInv
    <2>10. WaitInv'
        <3>1. setDependsOn' \in [Txs -> SUBSET Txs]
            BY <1>4 DEF WaitInv
        <3>2. \A s \in InBlock' \cup vecPriority' : setDependsOn'[s] = {}
            <4>1. \A s \in InBlock' \cup vecPriority : setDependsOn'[s] = {}
                <5>1. \A s \in InBlock' \cup vecPriority : s \in Txs /\ setDependsOn[s] = {}
                    BY <1>1, <2>1, <2>3, <2>7 DEF PassInv
                <5> QED
                    BY <2>1, <2>4, <2>5, <5>1
            <4>2. \A s \in again : setDependsOn'[s] = {}
                BY <2>3, <2>5, <2>11
            <4> QED
                BY <2>0, <2>6, <4>1, <4>2
        <3>3. \A s \in Txs : Assembly!Fits(s)' => Assembly!Fits(s)
            <4> TAKE s \in Txs
            <4>1. Size[s] \in Nat /\ nBlockSize \in Nat /\ nBlockSize' \in Nat /\ nBlockMaxSize \in Nat
                BY <2>2 DEF PassInv, Assembly!AssemblyAssumption
            <4>2. nBlockSize' + Size[s] < nBlockMaxSize => nBlockSize + Size[s] < nBlockMaxSize
                BY <2>2, <4>1
            <4> QED
                BY <4>2 DEF Assembly!Fits
        <3>4. \A s \in Scanned : setDependsOn'[s] = {} =>
                 \/ s \in vecPriority' \cup InBlock' \cup Refused
                 \/ ~Assembly!Fits(s)' \/ vin[s] \cap chainSpent # {}
            <4> TAKE s \in Scanned
            <4> HAVE setDependsOn'[s] = {}
            <4>1. CASE setDependsOn[s] # {}
                BY <2>0, <2>6, <4>1
            <4>2. CASE setDependsOn[s] = {}
                <5>1. \/ s \in vecPriority \cup InBlock \cup Refused
                      \/ ~Assembly!Fits(s) \/ vin[s] \cap chainSpent # {}
                    BY <4>2 DEF WaitInv
                <5>2. s \in Txs
                    BY <2>3
                <5> QED
                    BY <2>0, <2>1, <3>3, <5>1, <5>2
            <4> QED
                BY <4>1, <4>2
        <3>5. \A p \in Txs : /\ {s \in Scanned' : p \in WaitsFor(s)} \subseteq Depend(p)'
                             /\ Depend(p)' \subseteq {s \in Scanned' : p \in WaitsFor(s)} \cup freed'
            BY <1>0, <1>1, <1>2 DEF WaitInv
        <3> QED
            BY <1>0, <1>1, <2>5, <3>1, <3>2, <3>4, <3>5 DEF WaitInv
    <2> QED
        BY <2>8, <2>9, <2>10
<1> QED
    BY <1>3, <1>4, <1>5 DEF Assembly!Take

(* CreateNewBlock takes what it can, for every pool in which no output is  *)
(* spent twice and every order of priorities: what comes off the queue     *)
(* connects unless the chain has spent an input of it or it lacks one; a   *)
(* final transaction within the limits is left out only when it conflicts  *)
(* with the chain, spends one that is not in the block, or does not fit;   *)
(* and only a transaction that lacks an input can stop the process.        *)
THEOREM CollectionAlwaysComplete == Assembly!Spec => []CollectionIsComplete
<1>1. Assembly!Init => CollectInv
    <2> SUFFICES ASSUME Assembly!Init PROVE CollectInv
        OBVIOUS
    <2> USE DEF Assembly!Init
    <2>1. InBlock = {} /\ Scanned = {} /\ vtx \in Seq(Txs) /\ \A p \in Txs : Depend(p) = {}
        BY DEF InBlock, Scanned, Depend, Assembly!ToSet
    <2>2. PassInv
        BY <2>1 DEF PassInv, Assembly!ConnectingFailsOnlyForStrays
    <2>3. WaitInv /\ TestPoolInv
        BY <2>1 DEF WaitInv, TestPoolInv
    <2> QED
        BY <2>2, <2>3 DEF CollectInv
<1>2. CollectInv /\ [Assembly!Next]_(Assembly!vars) => CollectInv'
    <2> SUFFICES ASSUME CollectInv, [Assembly!Next]_(Assembly!vars) PROVE CollectInv'
        OBVIOUS
    <2>1. CASE Assembly!Next
        BY <2>1, ScanStep, TakeStep, AssemblyAssumption DEF Assembly!Next
    <2>2. CASE UNCHANGED Assembly!vars
        <3>1. /\ UNCHANGED <<InBlock, Scanned, mapTx, chainSpent, NotFinal, Refused, toScan, setDependsOn>>
              /\ UNCHANGED <<mapDependers, vecPriority, mapTestPool, vtx, nBlockSize, failed, freed, crashed>>
              /\ \A p : UNCHANGED <<Depend(p), Stray(p), Assembly!Fits(p), Assembly!MissingInputs(p)>>
            BY <2>2 DEF Assembly!vars, Assembly!poolVars, Assembly!memoryVars, InBlock, Scanned, Depend,
               Assembly!Fits, Stray, Assembly!MissingInputs
        <3> QED
            BY <3>1 DEF CollectInv, PassInv, WaitInv, TestPoolInv, Assembly!SpendsOnce,
               Assembly!ConnectingFailsOnlyForStrays
    <2> QED
        BY <2>1, <2>2
<1>3. CollectInv => CollectionIsComplete
    <2> SUFFICES ASSUME CollectInv PROVE Assembly!CollectionIsComplete
        BY DEF CollectionIsComplete
    <2> USE DEF CollectInv
    <2>1. Scanned \subseteq mapTx /\ InBlock = Assembly!ToSet(vtx)
        BY DEF Scanned, InBlock
    <2>2. Assembly!TypeOK
        <3>1. \A t \in Txs : setDependsOn[t] \subseteq Txs /\ Assembly!ToSet(mapDependers[t]) \subseteq mapTx
            BY <2>1 DEF WaitInv, PassInv, Depend
        <3>2. vecPriority \subseteq mapTx
            BY <2>1 DEF PassInv
        <3> QED
            BY <2>1, <3>1, <3>2 DEF PassInv, Assembly!TypeOK
    <2>3. Assembly!NothingForgotten
        <3> SUFFICES ASSUME toScan = {}, vecPriority = {}, NEW t \in mapTx \ InBlock,
                            t \notin NotFinal \cup Refused, Assembly!Fits(t), vin[t] \cap chainSpent = {}
                     PROVE  \E p \in WaitsFor(t) : p \notin InBlock
            BY <2>1 DEF Assembly!NothingForgotten, Assembly!Done, WaitsFor
        <3>1. t \in Txs
            BY DEF PassInv
        <3>2. CASE t \in Scanned
            <4>1. setDependsOn[t] # {} /\ setDependsOn[t] = WaitsFor(t) \ InBlock
                BY <3>1, <3>2 DEF WaitInv
            <4> QED
                BY <4>1
        <3>3. CASE t \notin Scanned
            <4>1. PICK o \in vin[t] : o[1] \notin ChainTxs /\ o[1] \notin mapTx
                BY <3>3 DEF Scanned, Stray, Assembly!MissingInputs, Assembly!Waiting
            <4> QED
                BY <2>1, <4>1 DEF PassInv, WaitsFor, Assembly!Parents
        <3> QED
            BY <3>2, <3>3
    <2>4. Assembly!StopsOnlyForMissingInputs
        BY DEF PassInv, Stray, Assembly!StopsOnlyForMissingInputs
    <2> QED
        BY <2>2, <2>3, <2>4 DEF PassInv, Assembly!CollectionIsComplete
<1> QED
    BY <1>1, <1>2, <1>3, PTL DEF Assembly!Spec
-----------------------------------------------------------------------------
(* The stake modifier: how the branches of an index grow.                  *)

(* The blocks of index are 0 .. n, each after its parent.                  *)
Grown(index, n) ==
    /\ n \in Nat /\ DOMAIN index = 0 .. n
    /\ \A x \in 1 .. n : index[x].pprev \in 0 .. x - 1

(* The rule for the branches of all blocks, and the branches.              *)
UpRule(index, up) ==
    up = [x \in DOMAIN index |-> {x} \cup (IF x = 0 THEN {} ELSE up[index[x].pprev])]
Up(index) == CHOOSE up : UpRule(index, up)

LEMMA UpExists ==
    ASSUME NEW index, NEW n, Grown(index, n)
    PROVE  UpRule(index, Up(index))
<1> DEFINE V == SUBSET (0 .. n)
           Rule(k, up) == /\ up \in [0 .. k -> V]
                          /\ \A x \in 0 .. k : up[x] = {x} \cup (IF x = 0 THEN {} ELSE up[index[x].pprev])
           S == {k \in 0 .. n : \E up : Rule(k, up)}
<1>1. n \in Nat /\ DOMAIN index = 0 .. n /\ 0 \in 0 .. n
    BY DEF Grown
<1>2. \A x \in 1 .. n : index[x].pprev \in 0 .. x - 1
    BY DEF Grown
<1>3. 0 \in S
    <2>1. Rule(0, [x \in 0 .. 0 |-> {0}])
        BY <1>1
    <2> QED
        BY <1>1, <2>1
<1>4. ASSUME NEW k \in 1 .. n, k - 1 \in S
      PROVE  k \in S
    <2>1. PICK up : Rule(k - 1, up)
        BY <1>4
    <2> DEFINE p == index[k].pprev
               new == {k} \cup up[p]
               up2 == [x \in 0 .. k |-> IF x = k THEN new ELSE up[x]]
    <2>2. p \in 0 .. k - 1 /\ k \in 0 .. n /\ k \in 0 .. k /\ k # 0 /\ k \notin 0 .. k - 1
        BY <1>1, <1>2
    <2> HIDE DEF p
    <2>3. new \in V
        BY <2>1, <2>2
    <2> HIDE DEF new
    <2>4. \A x \in 0 .. k : x # k => x \in 0 .. k - 1
        BY <1>1
    <2>5. up2 \in [0 .. k -> V]
        BY <2>1, <2>3, <2>4
    <2>6. \A x \in 0 .. k - 1 : x \in 0 .. k /\ x # k /\ up2[x] = up[x]
        BY <1>1
    <2>7. ASSUME NEW x \in 0 .. k
          PROVE  up2[x] = {x} \cup (IF x = 0 THEN {} ELSE up2[index[x].pprev])
        <3>1. CASE x = k
            <4>1. up2[k] = new /\ up2[p] = up[p]
                BY <2>2, <2>6
            <4> QED
                BY <2>2, <3>1, <4>1 DEF new, p
        <3>2. CASE x # k
            <4>1. x \in 0 .. k - 1 /\ up2[x] = up[x]
                BY <2>4, <2>6, <3>2
            <4>2. x # 0 => index[x].pprev \in 0 .. k - 1
                BY <1>1, <1>2, <4>1
            <4>3. x # 0 => up2[index[x].pprev] = up[index[x].pprev]
                BY <2>6, <4>2
            <4>4. up[x] = {x} \cup (IF x = 0 THEN {} ELSE up[index[x].pprev])
                BY <2>1, <4>1
            <4> HIDE DEF up2
            <4> QED
                BY <4>1, <4>3, <4>4
        <3> QED
            BY <3>1, <3>2
    <2> HIDE DEF up2
    <2>8. Rule(k, up2)
        BY <2>5, <2>7
    <2> QED
        BY <2>2, <2>8
<1>5. n \in S
    <2> HIDE DEF S
    <2>1. \A i \in 0 .. n : i \in S
        BY <1>1, <1>3, <1>4, LoopInduction
    <2> QED
        BY <1>1, <2>1
<1>6. PICK up : Rule(n, up)
    BY <1>5
<1>7. UpRule(index, up)
    BY <1>1, <1>6 DEF UpRule
<1> QED
    BY <1>7 DEF Up

LEMMA UpEquation ==
    ASSUME NEW index, NEW n, Grown(index, n)
    PROVE  \A x \in 0 .. n : Up(index)[x] = {x} \cup (IF x = 0 THEN {} ELSE Up(index)[index[x].pprev])
<1>1. UpRule(index, Up(index))
    BY UpExists
<1>2. DOMAIN index = 0 .. n
    BY DEF Grown
<1> QED
    BY <1>1, <1>2 DEF UpRule

(* A branch goes down from its tip, and what it has beyond one of its      *)
(* blocks came after that block.                                           *)
BranchOK(up, x) ==
    /\ x \in up[x] /\ up[x] \subseteq 0 .. x
    /\ \A z \in up[x] : up[z] \subseteq up[x] /\ \A y \in up[x] \ up[z] : y > z

LEMMA BranchesOK ==
    ASSUME NEW index, NEW n, Grown(index, n)
    PROVE  \A x \in 0 .. n : BranchOK(Up(index), x)
<1> DEFINE up == Up(index)
           S == {k \in 0 .. n : \A x \in 0 .. k : BranchOK(up, x)}
<1>1. n \in Nat /\ \A x \in 1 .. n : index[x].pprev \in 0 .. x - 1
    BY DEF Grown
<1>2. \A x \in 0 .. n : up[x] = {x} \cup (IF x = 0 THEN {} ELSE up[index[x].pprev])
    BY UpEquation
<1> HIDE DEF up
<1>3. 0 \in S
    <2>1. up[0] = {0}
        BY <1>1, <1>2
    <2> QED
        BY <1>1, <2>1 DEF BranchOK
<1>4. ASSUME NEW k \in 1 .. n, k - 1 \in S
      PROVE  k \in S
    <2> DEFINE p == index[k].pprev
    <2>1. p \in 0 .. k - 1 /\ k \in 0 .. n /\ k # 0
        BY <1>1
    <2>2. up[k] = {k} \cup up[p]
        BY <1>2, <2>1
    <2> HIDE DEF p
    <2>3. BranchOK(up, p) /\ p \in Nat /\ p < k
        BY <1>1, <1>4, <2>1
    <2>4. k \in up[k] /\ up[k] \subseteq 0 .. k
        BY <1>1, <2>2, <2>3 DEF BranchOK
    <2>5. ASSUME NEW z \in up[k]
          PROVE  up[z] \subseteq up[k] /\ \A y \in up[k] \ up[z] : y > z
        <3>1. CASE z = k
            BY <3>1
        <3>2. CASE z # k
            <4>1. z \in up[p] /\ z \in 0 .. p
                BY <2>2, <2>3, <3>2 DEF BranchOK
            <4>2. up[z] \subseteq up[p] /\ \A y \in up[p] \ up[z] : y > z
                BY <2>3, <4>1 DEF BranchOK
            <4>3. k > z
                BY <1>1, <2>3, <4>1
            <4> QED
                BY <2>2, <4>2, <4>3
        <3> QED
            BY <3>1, <3>2
    <2>6. BranchOK(up, k)
        BY <2>4, <2>5 DEF BranchOK
    <2>7. \A x \in 0 .. k : x = k \/ x \in 0 .. k - 1
        BY <1>1
    <2> QED
        BY <1>4, <2>1, <2>6, <2>7
<1> HIDE DEF S
<1>5. \A i \in 0 .. n : i \in S
    BY <1>1, <1>3, <1>4, LoopInduction
<1>6. n \in S /\ n \in 0 .. n
    BY <1>1, <1>5
<1> QED
    BY <1>6 DEF S, up

(* A larger index has the same branches for the blocks of a smaller one.   *)
LEMMA BranchesStay ==
    ASSUME NEW index, NEW n, Grown(index, n), NEW later, NEW m, Grown(later, m), n <= m,
           \A x \in 0 .. n : later[x].pprev = index[x].pprev
    PROVE  \A x \in 0 .. n : Up(later)[x] = Up(index)[x]
<1> DEFINE S == {k \in 0 .. n : \A x \in 0 .. k : Up(later)[x] = Up(index)[x]}
<1>1. n \in Nat /\ m \in Nat /\ \A x \in 1 .. n : index[x].pprev \in 0 .. x - 1
    BY DEF Grown
<1>2. \A x \in 0 .. n : Up(index)[x] = {x} \cup (IF x = 0 THEN {} ELSE Up(index)[index[x].pprev])
    BY UpEquation
<1>3. \A x \in 0 .. n : Up(later)[x] = {x} \cup (IF x = 0 THEN {} ELSE Up(later)[index[x].pprev])
    <2>1. \A x \in 0 .. m : Up(later)[x] = {x} \cup (IF x = 0 THEN {} ELSE Up(later)[later[x].pprev])
        BY UpEquation
    <2>2. \A x \in 0 .. n : x \in 0 .. m
        BY <1>1
    <2> QED
        BY <2>1, <2>2
<1>4. 0 \in S
    <2>1. 0 \in 0 .. n /\ \A x \in 0 .. 0 : x = 0
        BY <1>1
    <2>2. Up(index)[0] = {0} /\ Up(later)[0] = {0}
        BY <1>2, <1>3, <2>1
    <2> QED
        BY <2>1, <2>2
<1>5. ASSUME NEW k \in 1 .. n, k - 1 \in S
      PROVE  k \in S
    <2>1. index[k].pprev \in 0 .. k - 1 /\ k \in 0 .. n /\ \A x \in 0 .. k : x = k \/ x \in 0 .. k - 1
        BY <1>1
    <2>2. Up(later)[index[k].pprev] = Up(index)[index[k].pprev]
        BY <1>5, <2>1
    <2>3. k # 0
        BY <1>1
    <2>4. Up(index)[k] = {k} \cup Up(index)[index[k].pprev]
        BY <1>2, <2>1, <2>3
    <2>5. Up(later)[k] = {k} \cup Up(later)[index[k].pprev]
        BY <1>3, <2>1, <2>3
    <2> QED
        BY <1>5, <2>1, <2>2, <2>4, <2>5
<1> HIDE DEF S
<1>6. \A i \in 0 .. n : i \in S
    BY <1>1, <1>4, <1>5, LoopInduction
<1>7. n \in S /\ n \in 0 .. n
    BY <1>1, <1>6
<1> QED
    BY <1>7 DEF S

(* The least member of a set is that of a larger one that adds only later  *)
(* members.                                                                *)
LEMMA MinStays ==
    ASSUME NEW S \in SUBSET Nat, S # {}, NEW T \in SUBSET Nat, S \subseteq T,
           \A x \in S, y \in T \ S : y > x
    PROVE  Modifier!Min(T) = Modifier!Min(S) /\ Modifier!Min(S) \in S
<1>1. PICK m \in S : \A x \in S : m <= x
    BY LeastNat
<1>2. \A x \in T : m <= x
    BY <1>1
<1>3. \A k \in S : (\A x \in S : k <= x) => k = m
    BY <1>1
<1>4. \A k \in T : (\A x \in T : k <= x) => k = m
    BY <1>1, <1>2
<1>5. Modifier!Min(S) = m
    BY <1>1, <1>3 DEF Modifier!Min
<1>6. Modifier!Min(T) = m
    BY <1>1, <1>2, <1>4 DEF Modifier!Min
<1> QED
    BY <1>5, <1>6

(* The invariant: AddToBlockIndex numbers blocks as they come.             *)
IndexInv == \E n \in Nat : Grown(mapBlockIndex, n) /\ pindexBest \in 0 .. n

LEMMA SameCardinality ==
    ASSUME NEW S
    PROVE  Modifier!Cardinality(S) = Cardinality(S)
BY DEF Modifier!Cardinality, Cardinality

(* AddToBlockIndex with a best block that stays on the chain: the chain    *)
(* grows at its end, and no block changes.                                 *)
LEMMA AddToBlockIndexStep ==
    ASSUME IndexInv, NEW prev \in Modifier!Blocks, NEW gap, NEW bit, NEW fStake,
           Modifier!AddToBlockIndex(prev, gap, bit, fStake)
    PROVE  /\ IndexInv'
           /\ pindexBest \in Modifier!Chain' =>
                 /\ Modifier!Chain \subseteq Modifier!Chain'
                 /\ Modifier!Chain' \subseteq Nat
                 /\ \A x \in Modifier!Chain, y \in Modifier!Chain' \ Modifier!Chain : y > x
                 /\ \A x \in Modifier!Chain : mapBlockIndex'[x] = mapBlockIndex[x]
<1>1. PICK n \in Nat : Grown(mapBlockIndex, n) /\ pindexBest \in 0 .. n
    BY DEF IndexInv
<1> DEFINE new == Modifier!Cardinality(Modifier!Blocks)
<1>2. DOMAIN mapBlockIndex = 0 .. n /\ new = n + 1 /\ prev \in 0 .. n
    <2>1. Modifier!Blocks = 0 .. n
        BY <1>1 DEF Grown, Modifier!Blocks
    <2>2. Modifier!Cardinality(0 .. n) = n + 1
        BY <1>1, FS_Interval, SameCardinality
    <2> QED
        BY <2>1, <2>2 DEF Modifier!Blocks
<1>3. /\ DOMAIN mapBlockIndex' = 0 .. n + 1
      /\ \A x \in 0 .. n : mapBlockIndex'[x] = mapBlockIndex[x]
      /\ mapBlockIndex'[n + 1].pprev = prev
      /\ pindexBest' \in {n + 1, pindexBest}
    <2> DEFINE rec == [pprev |-> prev, nHeight |-> mapBlockIndex[prev].nHeight + 1,
                       nTime |-> mapBlockIndex[prev].nTime + gap, bit |-> bit, fStake |-> fStake,
                       nStakeModifier |-> Modifier!ComputeNextStakeModifier(prev)[1],
                       generated |-> Modifier!ComputeNextStakeModifier(prev)[2]]
    <2>1. mapBlockIndex' = [x \in Modifier!Blocks \cup {new} |-> IF x # new THEN mapBlockIndex[x] ELSE rec]
        BY DEF Modifier!AddToBlockIndex
    <2>a. pindexBest' = new \/ pindexBest' = pindexBest
        BY DEF Modifier!AddToBlockIndex
    <2>2. rec.pprev = prev
        OBVIOUS
    <2> HIDE DEF rec, new
    <2>3. Modifier!Blocks \cup {new} = 0 .. n + 1 /\ \A x \in 0 .. n : x # n + 1 /\ x \in 0 .. n + 1
        BY <1>1, <1>2 DEF Modifier!Blocks
    <2>4. n + 1 \in 0 .. n + 1
        BY <1>1
    <2> QED
        BY <1>2, <2>1, <2>a, <2>2, <2>3, <2>4
<1> HIDE DEF new
<1>4. Grown(mapBlockIndex', n + 1)
    <2>1. n + 1 \in Nat /\ \A x \in 1 .. n + 1 : x = n + 1 \/ x \in 1 .. n
        BY <1>1
    <2>2. \A x \in 1 .. n : x \in 0 .. n /\ mapBlockIndex[x].pprev \in 0 .. x - 1
        BY <1>1 DEF Grown
    <2>3. prev \in 0 .. (n + 1) - 1
        BY <1>1, <1>2
    <2> QED
        BY <1>3, <2>1, <2>2, <2>3 DEF Grown
<1>5. pindexBest' \in 0 .. n + 1
    BY <1>1, <1>3
<1> DEFINE up == Up(mapBlockIndex)
           up2 == Up(mapBlockIndex')
<1>6. \A x \in 0 .. n : up2[x] = up[x] /\ BranchOK(up, x)
    <2>1. \A x \in 0 .. n : mapBlockIndex'[x].pprev = mapBlockIndex[x].pprev
        BY <1>3
    <2>2. n <= n + 1
        BY <1>1
    <2> QED
        BY <1>1, <1>4, <2>1, <2>2, BranchesOK, BranchesStay
<1>7. \A x \in 0 .. n + 1 : BranchOK(up2, x)
    BY <1>4, BranchesOK
<1>8. Modifier!Chain = up[pindexBest] /\ Modifier!Chain' = up2[pindexBest']
    BY DEF Modifier!Chain, Modifier!Branch, Modifier!Blocks, Up, UpRule
<1> HIDE DEF up, up2
<1>9. ASSUME pindexBest \in Modifier!Chain'
      PROVE  /\ Modifier!Chain \subseteq Modifier!Chain'
             /\ Modifier!Chain' \subseteq Nat
             /\ \A x \in Modifier!Chain, y \in Modifier!Chain' \ Modifier!Chain : y > x
             /\ \A x \in Modifier!Chain : mapBlockIndex'[x] = mapBlockIndex[x]
    <2>1. up2[pindexBest] = up[pindexBest] /\ up[pindexBest] \subseteq 0 .. pindexBest
        BY <1>1, <1>6 DEF BranchOK
    <2>2. /\ up2[pindexBest] \subseteq up2[pindexBest']
          /\ \A y \in up2[pindexBest'] \ up2[pindexBest] : y > pindexBest
          /\ up2[pindexBest'] \subseteq 0 .. pindexBest'
        BY <1>5, <1>7, <1>8, <1>9 DEF BranchOK
    <2>3. \A x \in 0 .. pindexBest : x \in Nat /\ x <= pindexBest /\ x \in 0 .. n
        BY <1>1
    <2>4. 0 .. pindexBest' \subseteq Nat /\ pindexBest \in Nat
        BY <1>1
    <2>5. \A y \in up2[pindexBest'] : y \in Nat
        BY <2>2, <2>4
    <2>6. ASSUME NEW x \in Modifier!Chain, NEW y \in Modifier!Chain' \ Modifier!Chain PROVE y > x
        <3>1. x \in Nat /\ x <= pindexBest
            BY <1>8, <2>1, <2>3
        <3>2. y \in Nat /\ y > pindexBest
            BY <1>8, <2>1, <2>2, <2>5
        <3> QED
            BY <2>4, <3>1, <3>2
    <2>7. \A x \in Modifier!Chain : mapBlockIndex'[x] = mapBlockIndex[x]
        BY <1>3, <1>8, <2>1, <2>3
    <2> QED
        BY <1>8, <2>1, <2>2, <2>5, <2>6, <2>7
<1>10. IndexInv'
    BY <1>1, <1>4, <1>5 DEF IndexInv
<1> QED
    BY <1>9, <1>10

LEMMA ModifierStep ==
    ASSUME IndexInv, [Modifier!Next]_(Modifier!vars)
    PROVE  IndexInv' /\ [Modifier!KernelModifierStep]_(Modifier!vars)
<1>1. CASE UNCHANGED Modifier!vars
    BY <1>1 DEF Modifier!vars, IndexInv
<1>2. CASE Modifier!Next
    <2>1. PICK prev \in Modifier!Blocks, gap \in Gaps, bit \in {0, 1}, fStake \in BOOLEAN :
               Modifier!AddToBlockIndex(prev, gap, bit, fStake)
        BY <1>2 DEF Modifier!Next
    <2>2. /\ IndexInv'
          /\ pindexBest \in Modifier!Chain' =>
                /\ Modifier!Chain \subseteq Modifier!Chain'
                /\ Modifier!Chain' \subseteq Nat
                /\ \A x \in Modifier!Chain, y \in Modifier!Chain' \ Modifier!Chain : y > x
                /\ \A x \in Modifier!Chain : mapBlockIndex'[x] = mapBlockIndex[x]
        BY <2>1, AddToBlockIndexStep
    <2>3. ASSUME pindexBest \in Modifier!Chain', NEW from \in Modifier!Chain,
                 Modifier!GetKernelStakeModifier(from) # None
          PROVE  Modifier!GetKernelStakeModifier(from)' = Modifier!GetKernelStakeModifier(from)
        <3> DEFINE Interval2 == Modifier!GetStakeModifierSelectionInterval
                   Late(index, x) == /\ x > from /\ index[x].generated
                                     /\ index[x].nTime >= index[from].nTime + Interval2
                   S == {x \in Modifier!Chain : Late(mapBlockIndex, x)}
                   T == {x \in Modifier!Chain' : Late(mapBlockIndex', x)}
        <3> HIDE DEF Interval2
        <3>1. Modifier!KernelBlock(Modifier!Chain, from) = IF S = {} THEN None ELSE Modifier!Min(S)
            BY DEF Modifier!KernelBlock, Interval2
        <3>2. Modifier!KernelBlock(Modifier!Chain, from)' = IF T = {} THEN None ELSE Modifier!Min(T)
            BY DEF Modifier!KernelBlock, Interval2
        <3>3. S # {}
            BY <2>3, <3>1 DEF Modifier!GetKernelStakeModifier
        <3>4. \A x \in Modifier!Chain : Late(mapBlockIndex', x) <=> Late(mapBlockIndex, x)
            BY <2>2, <2>3
        <3>5. /\ S \in SUBSET Nat /\ T \in SUBSET Nat /\ S \subseteq T
              /\ \A x \in S, y \in T \ S : y > x
            BY <2>2, <2>3, <3>4
        <3> HIDE DEF S, T
        <3>6. Modifier!Min(T) = Modifier!Min(S) /\ Modifier!Min(S) \in S
            BY <3>3, <3>5, MinStays
        <3>7. Modifier!Min(S) \in Modifier!Chain /\ T # {}
            BY <3>3, <3>5, <3>6 DEF S
        <3>8. /\ Modifier!KernelBlock(Modifier!Chain, from) = Modifier!Min(S)
              /\ Modifier!KernelBlock(Modifier!Chain, from)' = Modifier!Min(S)
            BY <3>1, <3>2, <3>3, <3>6, <3>7
        <3>9. mapBlockIndex'[Modifier!Min(S)] = mapBlockIndex[Modifier!Min(S)]
            BY <2>2, <2>3, <3>7
        <3> QED
            BY <3>8, <3>9 DEF Modifier!GetKernelStakeModifier
    <2> QED
        BY <2>2, <2>3 DEF Modifier!KernelModifierStep
<1> QED
    BY <1>1, <1>2

(* A kernel that was found remains valid: as long as the best chain only   *)
(* grows, GetKernelStakeModifier answers the same for a coin, whatever the *)
(* times of the blocks and the modifiers they generate.                    *)
THEOREM KernelModifierAlwaysKept == Modifier!Spec => KernelModifierKept
<1>1. Modifier!Init => IndexInv
    <2> SUFFICES ASSUME Modifier!Init PROVE IndexInv
        OBVIOUS
    <2>1. DOMAIN mapBlockIndex = {0} /\ pindexBest = 0
        BY DEF Modifier!Init
    <2>2. Grown(mapBlockIndex, 0)
        BY <2>1 DEF Grown
    <2> QED
        BY <2>1, <2>2 DEF IndexInv
<1>2. IndexInv /\ [Modifier!Next]_(Modifier!vars) => IndexInv'
    BY ModifierStep
<1>3. IndexInv /\ [Modifier!Next]_(Modifier!vars) => [Modifier!KernelModifierStep]_(Modifier!vars)
    BY ModifierStep
<1> QED
    BY <1>1, <1>2, <1>3, PTL DEF Modifier!Spec, KernelModifierKept
=============================================================================
