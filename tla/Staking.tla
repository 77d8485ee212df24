------------------------------- MODULE Staking -------------------------------
(***************************************************************************)
(* The staking thread: BitcoinMiner(pwallet, true), CreateNewBlock,          *)
(* CreateCoinStake, CheckStakeKernelHash and CheckWork.  The thread takes    *)
(* cs_main only while it collects transactions and while it submits the      *)
(* block; the best block may change between any two of its steps.            *)
(*                                                                          *)
(* A best block is what the thread reads of it and of its chain: an identity, *)
(* its height, the target required after it, the earliest time allowed after *)
(* it, the coins that are spent, and the modifier of each coin, which is      *)
(* found along pnext in one step here.  Hashes are numbers; a kernel meets    *)
(* the target when its hash is less than the weight of the coin.              *)
(***************************************************************************)
EXTENDS Integers, FiniteSets, FiniteSetsExt

CONSTANTS
  Coins,           \* the wallet's outputs that may stake
  CoinTime,        \* CoinTime[c]: the time of the transaction
  Modifiers,       \* what a chain gives to a kernel: the block that holds the coin
                   \* and the stake modifier found from there
  BlockTime,       \* BlockTime[m]: the time of that block
  Hashes,          \* the functions <<coin, modifier, time>> -> hash to be explored
  Targets,         \* values of nBits
  Growth,          \* by how much a reorganisation changes the height
  nHashDrift, nHashInterval, nStakeMinAge, nStakeMaxAge, ClockDrift,
  MaxTime,         \* the clock stops here (bound)
  MaxTips,         \* best blocks of a behaviour (bound)
  None

\* The last time a search can try: it starts before MaxTime, and each of its
\* nHashDrift turns goes on by at most nHashDrift.
LastTry == MaxTime + nHashDrift * nHashDrift

ASSUME StakingAssumption ==
  /\ CoinTime \in [Coins -> Nat] /\ Growth \subseteq Int /\ Targets # {}
  /\ None \notin Coins \cup Modifiers /\ BlockTime \in [Modifiers -> Nat]
  /\ Hashes \subseteq [Coins \X Modifiers \X (0 .. LastTry) -> Nat]
  /\ {nHashDrift, nHashInterval, nStakeMinAge, nStakeMaxAge, ClockDrift, MaxTime, MaxTips} \subseteq Nat

VARIABLES
  hash,         \* stakeHash
  now,          \* GetAdjustedTime
  best,         \* pindexBest
  ready,        \* peers, no initial download, wallet unlocked
  pc,           \* the step of the thread
  minerPrev,    \* BitcoinMiner's pindexPrev
  voteTip,      \* the best block whose proposals were voted on
  outerPrev,    \* CreateNewBlock's first pindexPrev
  setStakeCoins,\* the cached coins
  toTry,        \* those the loop of CreateCoinStake has not tried yet
  kernel,       \* the search: its start, the coin, the time found
  block,        \* the new block
  mapHashedBlocks,           \* None, or a height and a time
  nLastCoinStakeSearchTime,
  result,       \* what became of the last block submitted
  shortened     \* history: the height has fallen since the turn began

chainVars == <<hash, now, best, ready, shortened>>
readVars == <<minerPrev, voteTip, outerPrev>>
searchVars == <<setStakeCoins, toTry, kernel, mapHashedBlocks, nLastCoinStakeSearchTime>>
vars == <<chainVars, pc, readVars, searchVars, block, result>>

\* What a chain gives to each coin; None for one that is not in its index, or
\* beyond which the chain is not a selection interval long.
ModifierMaps == [Coins -> Modifiers \cup {None}]

Genesis == [id |-> 0, height |-> 0, bits |-> CHOOSE b \in Targets : TRUE, minTime |-> 0,
            spent |-> {}, modifier |-> [c \in Coins |-> None]]
NoKernel == [start |-> 0, coin |-> None, modifier |-> None, time |-> 0]
NoBlock == [prev |-> Genesis, bits |-> Genesis.bits, height |-> 0, time |-> 0]

Init ==
  /\ hash \in Hashes /\ now = 0 /\ ready = TRUE
  /\ best \in {[Genesis EXCEPT !.modifier = m] : m \in ModifierMaps}
  /\ pc = "gate"
  /\ minerPrev = Genesis /\ voteTip = Genesis /\ outerPrev = Genesis
  /\ setStakeCoins = {} /\ toTry = {} /\ kernel = NoKernel /\ block = NoBlock
  /\ mapHashedBlocks = None /\ nLastCoinStakeSearchTime = 0
  /\ result = "none" /\ shortened = FALSE

-----------------------------------------------------------------------------
(* The rest of the node.                                                   *)

\* The clock goes on; that AddTimeData may set it by those of the peers is left out.
Tick ==
  /\ now < MaxTime /\ now' = now + 1
  /\ UNCHANGED <<hash, best, ready, shortened, pc, readVars, searchVars, block, result>>

\* A block on top of the best one leaves every modifier that was found.
Extends(m) == \A c \in Coins : best.modifier[c] # None => m[c] = best.modifier[c]

\* Another block becomes the best one: on top, where it may spend a coin, or by
\* a reorganisation to a chain of more trust, which may be shorter, hold other
\* transactions and have other modifiers.
NewBest ==
  /\ best.id < MaxTips
  /\ \E b \in Targets, t \in {best.minTime, now}, s \in SUBSET Coins, m \in ModifierMaps :
       \/ /\ Extends(m)
          /\ best' = [id |-> best.id + 1, height |-> best.height + 1, bits |-> b,
                      minTime |-> t, spent |-> best.spent \cup s, modifier |-> m]
       \/ \E h \in Growth :
            best' = [id |-> best.id + 1, height |-> best.height + h, bits |-> b,
                     minTime |-> t, spent |-> s, modifier |-> m]
  /\ shortened' = (shortened \/ best'.height < best.height)
  /\ UNCHANGED <<hash, now, ready, pc, readVars, searchVars, block, result>>

LockOrUnlock ==
  /\ ready' = ~ready
  /\ UNCHANGED <<hash, now, best, shortened, pc, readVars, searchVars, block, result>>

-----------------------------------------------------------------------------
(* BitcoinMiner up to CreateNewBlock.                                      *)

\* The best height was hashed on less than an interval ago.
HashedRecently ==
  /\ mapHashedBlocks # None
  /\ mapHashedBlocks.height = best.height
  /\ now - mapHashedBlocks.time < Max({nHashInterval, 1})

StartTurn ==
  /\ pc = "gate" /\ ready /\ ~HashedRecently
  /\ minerPrev' = best /\ shortened' = FALSE /\ pc' = "votes"
  /\ UNCHANGED <<hash, now, best, ready, voteTip, outerPrev, searchVars, block, result>>

\* CreateNewBlock looks for the active proposals without a lock.
ReadVotes ==
  /\ pc = "votes"
  /\ voteTip' = best /\ pc' = "coinstake"
  /\ UNCHANGED <<chainVars, minerPrev, outerPrev, searchVars, block, result>>

\* Coins are selected again when the set is old or was used; the wallet knows
\* those that are spent.  At most one search is made in a second.
SelectStakeCoins == {c \in Coins : c \notin best.spent}

StartSearch ==
  /\ pc = "coinstake"
  /\ outerPrev' = best
  /\ \/ /\ now > nLastCoinStakeSearchTime
        /\ kernel' = [NoKernel EXCEPT !.start = now]
        /\ \/ setStakeCoins' = SelectStakeCoins
           \/ setStakeCoins # {} /\ UNCHANGED setStakeCoins
        /\ toTry' = setStakeCoins' /\ pc' = "search"
     \/ /\ now <= nLastCoinStakeSearchTime
        /\ pc' = "gate" /\ UNCHANGED <<setStakeCoins, toTry, kernel>>
  /\ UNCHANGED <<chainVars, minerPrev, voteTip, mapHashedBlocks, nLastCoinStakeSearchTime,
                 block, result>>

-----------------------------------------------------------------------------
(* CheckStakeKernelHash.                                                   *)

Weight(c, nTimeTx) == Min({nTimeTx - CoinTime[c], nStakeMaxAge}) - nStakeMinAge

stakeTargetHit(c, m, nTryTime, nTimeTx) == hash[<<c, m, nTryTime>>] < Weight(c, nTimeTx)

\* The transaction is not older than the coin, and the coin old enough.
OldEnough(c, m, nTimeTx) ==
  nTimeTx >= CoinTime[c] /\ BlockTime[m] + nStakeMinAge <= nTimeTx

\* Mutated form: the coin is weighed at the end of the drift.
SearchHeavy(c, m, nTimeTx) ==
  LET loop[i \in 0 .. nHashDrift] ==
        IF i = 0 THEN <<nTimeTx, FALSE>>
        ELSE LET was == loop[i - 1]
                 nTryTime == was[1] + nHashDrift - (i - 1)
             IN  IF stakeTargetHit(c, m, nTryTime, nTryTime + nHashDrift) THEN <<nTryTime, TRUE>> ELSE was
  IN  loop[nHashDrift]

\* The loop over i, which goes on after a hit and from the time of that hit;
\* the value after i turns is <<nTimeTx, fSuccess>>.
Search(c, m, nTimeTx) ==
  LET loop[i \in 0 .. nHashDrift] ==
        IF i = 0 THEN <<nTimeTx, FALSE>>
        ELSE LET was == loop[i - 1]
                 nTryTime == was[1] + nHashDrift - (i - 1)
             IN  IF stakeTargetHit(c, m, nTryTime, was[1]) THEN <<nTryTime, TRUE>> ELSE was
  IN  loop[nHashDrift]

\* The coin is in the index, old enough, and has a modifier; the chain is that
\* of this moment, not of the block the thread builds on.
Stakeable(c, nTimeTx) ==
  best.modifier[c] # None /\ OldEnough(c, best.modifier[c], nTimeTx)

\* A coin is tried; the others are passed by.  A kernel whose script or key is
\* of no use ends the search.
TryCoin(c) ==
  /\ pc = "search" /\ kernel.coin = None /\ c \in toTry
  /\ LET m == best.modifier[c]
         found == Search(c, m, kernel.start)
     IN  \/ /\ Stakeable(c, kernel.start) /\ found[2]
            /\ kernel' = [kernel EXCEPT !.coin = c, !.modifier = m, !.time = found[1]]
            /\ pc' = "hashed" /\ toTry' = toTry \ {c}
         \/ /\ Stakeable(c, kernel.start) /\ found[2]
            /\ pc' = "hashed" /\ toTry' = {} /\ UNCHANGED kernel
         \/ /\ Stakeable(c, kernel.start) /\ ~found[2]
            /\ pc' = "hashed" /\ toTry' = toTry \ {c} /\ UNCHANGED kernel
         \/ /\ ~Stakeable(c, kernel.start)
            /\ toTry' = toTry \ {c} /\ UNCHANGED <<kernel, pc>>
  /\ UNCHANGED <<chainVars, readVars, setStakeCoins, mapHashedBlocks,
                 nLastCoinStakeSearchTime, block, result>>

\* After the loop: the best height of this moment has been hashed on.
MarkHashed ==
  /\ pc = "hashed"
  /\ mapHashedBlocks' = [height |-> best.height, time |-> now]
  /\ pc' = "search"
  /\ UNCHANGED <<chainVars, readVars, setStakeCoins, toTry, kernel, nLastCoinStakeSearchTime,
                 block, result>>

\* CreateCoinStake returns.  A coinstake that is early for the first
\* pindexPrev is dropped, and a block without one is not used.
EndSearch ==
  /\ pc = "search" /\ (toTry = {} \/ kernel.coin # None)
  /\ nLastCoinStakeSearchTime' = kernel.start
  /\ setStakeCoins' = IF kernel.coin = None THEN setStakeCoins ELSE {}
  /\ pc' = IF kernel.coin # None /\ kernel.time >= outerPrev.minTime THEN "collect" ELSE "gate"
  /\ UNCHANGED <<chainVars, readVars, toTry, kernel, mapHashedBlocks, block, result>>

-----------------------------------------------------------------------------
(* The block.                                                              *)

\* Under cs_main pindexBest is read again; the target is that of the first.
Collect ==
  /\ pc = "collect"
  /\ block' = [prev |-> best, bits |-> outerPrev.bits, height |-> 0,
               time |-> Max({best.minTime, kernel.time})]
  /\ pc' = "nonce"
  /\ UNCHANGED <<chainVars, readVars, searchVars, result>>

\* IncrementExtraNonce and SignBlock, which needs the key of the kernel.
NonceAndSign ==
  /\ pc = "nonce"
  /\ block' = [block EXCEPT !.height = minerPrev.height + 1]
  /\ pc' = IF ready THEN "check" ELSE "gate"
  /\ UNCHANGED <<chainVars, readVars, searchVars, result>>

\* What CheckBlock, CheckProofOfStake, AcceptBlock and ConnectBlock ask of it.
Accepted ==
  /\ block.time <= now + ClockDrift
  /\ block.time = kernel.time
  /\ best.modifier[kernel.coin] # None
  /\ OldEnough(kernel.coin, best.modifier[kernel.coin], kernel.time)
  /\ stakeTargetHit(kernel.coin, best.modifier[kernel.coin], kernel.time, kernel.time)
  /\ block.bits = best.bits
  /\ block.time >= best.minTime
  /\ block.height = best.height + 1
  /\ kernel.coin \notin best.spent

CheckWork ==
  /\ pc = "check" /\ pc' = "gate"
  /\ \/ block.prev # best /\ result' = "stale" /\ UNCHANGED best
     \/ /\ block.prev = best /\ Accepted
        /\ result' = "accepted"
        /\ best' = [best EXCEPT !.id = @ + 1, !.height = @ + 1,
                                !.spent = @ \cup {kernel.coin}]
     \/ block.prev = best /\ ~Accepted /\ result' = "rejected" /\ UNCHANGED best
  /\ UNCHANGED <<hash, now, ready, shortened, readVars, searchVars, block>>

Thread ==
  \/ StartTurn \/ ReadVotes \/ StartSearch \/ (\E c \in Coins : TryCoin(c)) \/ MarkHashed
  \/ EndSearch \/ Collect \/ NonceAndSign \/ CheckWork

Next == Tick \/ NewBest \/ LockOrUnlock \/ Thread

Spec == Init /\ [][Next]_vars

-----------------------------------------------------------------------------
(* Properties.                                                             *)

TypeOK ==
  /\ now \in 0 .. MaxTime /\ ready \in BOOLEAN /\ shortened \in BOOLEAN
  /\ pc \in {"gate", "votes", "coinstake", "search", "hashed", "collect", "nonce", "check"}
  /\ toTry \subseteq Coins /\ setStakeCoins \subseteq Coins
  /\ kernel.coin \in Coins \cup {None} /\ kernel.time \in Nat
  /\ nLastCoinStakeSearchTime \in 0 .. now
  /\ mapHashedBlocks # None => mapHashedBlocks.time \in 0 .. now
  /\ result \in {"none", "stale", "rejected", "accepted"}

Building == pc \in {"collect", "nonce", "check"}

\* A kernel that the search found meets the target with the modifier it was
\* found with: the search weighs the coin at the time it started from, and the
\* check of every other node at the time of the transaction.
FoundKernelVerifies ==
  Building => /\ OldEnough(kernel.coin, kernel.modifier, kernel.time)
              /\ stakeTargetHit(kernel.coin, kernel.modifier, kernel.time, kernel.time)

\* When the best block was the same at each of the four times it was read, the
\* time found is within the drift and the coin not yet spent, then the block
\* that CheckWork submits is accepted: nothing else is lost between the steps.
SteadyBlocksAreAccepted ==
  /\ pc = "check" /\ block.prev = best
  /\ minerPrev = best /\ outerPrev = best
  /\ kernel.time <= kernel.start + ClockDrift
  /\ kernel.coin \notin best.spent
  => Accepted

\* A block that is accepted votes on the proposals that are active at the
\* height of its previous block, although they are read without a lock before
\* that block is known; unless a reorganisation to a shorter chain came between.
VotesAreForThisHeight ==
  pc = "check" /\ block.prev = best /\ Accepted /\ ~shortened => voteTip.height = best.height

\* What the staking thread submits is good: a kernel it found meets the target
\* with the modifier of its search; a block made while the best block stayed the
\* same is accepted; and an accepted block votes on the proposals of its height
\* as long as the chain has not become shorter meanwhile.
StakedBlocksAreGood ==
  TypeOK /\ FoundKernelVerifies /\ SteadyBlocksAreAccepted /\ VotesAreForThisHeight
=============================================================================
