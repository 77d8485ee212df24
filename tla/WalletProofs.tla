---------------------------- MODULE WalletProofs ----------------------------
(***************************************************************************)
(* The wallet follows the chain, for any tree of blocks, any transactions  *)
(* and any wallet: what connecting and disconnecting blocks make of it,    *)
(* and the invariants that every reorganisation, restart and repair keeps. *)
(***************************************************************************)
EXTENDS Wallet, BlockTreeProofs, FiniteSetTheorems, SequenceTheorems, TLAPS

-----------------------------------------------------------------------------
(* Loops: a value computed in n turns.                                     *)

LEMMA LoopInduction ==
    ASSUME NEW n \in Nat, NEW S, 0 \in S, \A i \in 1 .. n : i - 1 \in S => i \in S
    PROVE  \A i \in 0 .. n : i \in S
<1> DEFINE Bad == (0 .. n) \ S
<1>1. SUFFICES ASSUME Bad # {} PROVE FALSE
    OBVIOUS
<1>2. PICK m \in Bad : \A k \in Bad : m <= k
    <2>1. Bad \in SUBSET Nat
        OBVIOUS
    <2> HIDE DEF Bad
    <2> QED
        BY <1>1, <2>1, LeastNat
<1>3. m \in 1 .. n /\ m - 1 \in 0 .. n /\ m - 1 \notin S
    BY <1>2
<1>4. m <= m - 1
    BY <1>2, <1>3
<1> QED
    BY <1>3, <1>4

FollowsLoop(f, n, V, first, step) ==
    /\ f \in [0 .. n -> V] /\ f[0] = first
    /\ \A i \in 1 .. n : f[i] = step[<<i, f[i - 1]>>]

LEMMA LoopRecursion ==
    ASSUME NEW n \in Nat, NEW V, NEW first \in V, NEW step \in [(1 .. n) \X V -> V]
    PROVE  \E f : FollowsLoop(f, n, V, first, step)
<1> DEFINE Rule(k, f) == /\ f \in [0 .. k -> V] /\ f[0] = first
                         /\ \A i \in 1 .. k : f[i] = step[<<i, f[i - 1]>>]
           S == {k \in 0 .. n : \E f : Rule(k, f)}
<1>1. 0 \in S
    <2>1. Rule(0, [i \in 0 .. 0 |-> first])
        OBVIOUS
    <2>2. 0 \in 0 .. n
        OBVIOUS
    <2> HIDE DEF Rule
    <2> QED
        BY <2>1, <2>2
<1>2. ASSUME NEW k \in 1 .. n, k - 1 \in S
      PROVE  k \in S
    <2>1. PICK f : Rule(k - 1, f)
        BY <1>2
    <2> DEFINE next == step[<<k, f[k - 1]>>]
               g == [i \in 0 .. k |-> IF i = k THEN next ELSE f[i]]
    <2>2. next \in V
        <3>1. f[k - 1] \in V
            BY <2>1
        <3> QED
            BY <3>1
    <2> HIDE DEF next
    <2>3. \A i \in 0 .. k : i # k => i \in 0 .. k - 1
        OBVIOUS
    <2>4. g \in [0 .. k -> V]
        BY <2>1, <2>2, <2>3
    <2>5. g[0] = first
        BY <2>1
    <2>6. ASSUME NEW i \in 1 .. k
          PROVE  g[i] = step[<<i, g[i - 1]>>]
        <3>1. g[i - 1] = f[i - 1]
            OBVIOUS
        <3>2. CASE i = k
            <4>1. g[k] = next
                OBVIOUS
            <4> HIDE DEF g
            <4> QED
                BY <3>1, <3>2, <4>1 DEF next
        <3>3. CASE i # k
            <4>1. i \in 1 .. k - 1 /\ g[i] = f[i]
                BY <3>3
            <4> QED
                BY <2>1, <3>1, <4>1
        <3> QED
            BY <3>2, <3>3
    <2> HIDE DEF g
    <2>7. Rule(k, g)
        BY <2>4, <2>5, <2>6
    <2> QED
        BY <2>7
<1> HIDE DEF S
<1>3. \A i \in 0 .. n : i \in S
    BY <1>1, <1>2, LoopInduction
<1>4. n \in S
    BY <1>3
<1>5. PICK f : Rule(n, f)
    BY <1>4 DEF S
<1> QED
    BY <1>5 DEF FollowsLoop

-----------------------------------------------------------------------------
(* Values of the wallet.                                                   *)

Wallets == [txs : SUBSET Txs, spent : SUBSET Txs, hashBlock : [Txs -> Blocks \cup {None}]]

Sound(w) ==
    /\ w \in Wallets /\ w.spent \subseteq w.txs \cap Mine
    /\ \A t \in Txs \ w.txs : w.hashBlock[t] = None

LEMMA TxFacts ==
    /\ \A t \in Txs : Inputs[t] \in SUBSET Txs
    /\ Mine \subseteq Txs /\ CoinStakes \subseteq Txs
    /\ \A b \in Blocks : TxsOf[b] \in Seq(Txs) /\ Len(TxsOf[b]) \in Nat
    /\ \A b \in Blocks : \A i \in 1 .. Len(TxsOf[b]) : TxsOf[b][i] \in Txs
BY WalletAssumption

LEMMA AddToWalletValue ==
    ASSUME NEW w, Sound(w), NEW t \in Txs, NEW b \in Blocks \cup {None}
    PROVE  AddToWallet(w, t, b) =
              [txs |-> w.txs \cup {t},
               spent |-> w.spent \cup (Inputs[t] \cap (w.txs \cup {t}) \cap Mine),
               hashBlock |-> [w.hashBlock EXCEPT ![t] = IF b = None THEN @ ELSE b]]
<1> DEFINE H == [w.hashBlock EXCEPT ![t] = IF b = None THEN @ ELSE b]
           u == [txs |-> w.txs \cup {t}, spent |-> w.spent, hashBlock |-> H]
<1>1. w = [txs |-> w.txs, spent |-> w.spent, hashBlock |-> w.hashBlock]
    BY DEF Sound, Wallets
<1>2. [w EXCEPT !.txs = @ \cup {t}, !.hashBlock[t] = IF b = None THEN @ ELSE b] = u
    <2> DEFINE w1 == [w EXCEPT !.txs = @ \cup {t}]
    <2>1. w1 = [txs |-> w.txs \cup {t}, spent |-> w.spent, hashBlock |-> w.hashBlock]
        BY <1>1
    <2>2. w1.hashBlock = w.hashBlock
        BY <2>1
    <2> HIDE DEF w1
    <2>3. [w1 EXCEPT !.hashBlock = H] = u
        <3> HIDE DEF H
        <3> QED
            BY <2>1
    <2> QED
        BY <2>3 DEF w1
<1>3. AddToWallet(w, t, b) = WalletUpdateSpent(u, t)
    BY <1>2 DEF AddToWallet
<1> HIDE DEF H
<1> QED
    BY <1>3 DEF WalletUpdateSpent, H

(* From w to v the transactions T, all of one chain, have been looked at.  *)
Grew(w, v, T) ==
    /\ Sound(v) /\ w.txs \subseteq v.txs /\ v.txs \subseteq w.txs \cup T
    /\ w.spent \subseteq v.spent /\ v.spent \subseteq w.spent \cup SpentIn(v.txs \cap T)
    /\ \A t \in Txs \ T : v.hashBlock[t] = w.hashBlock[t]

(* v has those of T that concern it, and their flags.                      *)
Has(v, T) ==
    \A t \in T : /\ t \in Mine => t \in v.txs
                 /\ Inputs[t] \cap Mine # {} => t \in v.txs
                 /\ Inputs[t] \cap Mine \subseteq v.spent

(* Those of T that it has came with the block b.                           *)
Placed(v, T, b) == \A t \in T \cap v.txs : v.hashBlock[t] = b

LEMMA GrewOn ==
    ASSUME NEW w, NEW u, NEW v, NEW S \in SUBSET Txs, NEW T \in SUBSET Txs,
           Grew(w, u, S), Grew(u, v, T)
    PROVE  Grew(w, v, S \cup T)
<1>1. Sound(v) /\ w.txs \subseteq v.txs /\ v.txs \subseteq w.txs \cup (S \cup T) /\ w.spent \subseteq v.spent
    BY DEF Grew
<1>2. v.spent \subseteq w.spent \cup SpentIn(v.txs \cap (S \cup T))
    BY DEF Grew, SpentIn
<1>3. \A t \in Txs \ (S \cup T) : v.hashBlock[t] = w.hashBlock[t]
    BY DEF Grew
<1> QED
    BY <1>1, <1>2, <1>3 DEF Grew

LEMMA HasStays ==
    ASSUME NEW u, NEW v, NEW S, NEW T, Grew(u, v, S), Has(u, T)
    PROVE  Has(v, T)
BY DEF Grew, Has

(* One transaction.                                                        *)
LEMMA AddIfInvolved ==
    ASSUME NEW w, Sound(w), NEW t \in Txs, NEW b \in Blocks \cup {None}
    PROVE  LET v == AddToWalletIfInvolvingMe(w, t, b)
           IN /\ v \in Wallets /\ Grew(w, v, {t})
              /\ Inputs[t] \cap Mine \subseteq w.txs => Has(v, {t})
              /\ b # None => Placed(v, {t}, b)
<1> DEFINE v == AddToWalletIfInvolvingMe(w, t, b)
<1>0. /\ Inputs[t] \in SUBSET Txs /\ Mine \subseteq Txs
      /\ w.txs \in SUBSET Txs /\ w.spent \in SUBSET Txs /\ w.hashBlock \in [Txs -> Blocks \cup {None}]
    BY TxFacts DEF Sound, Wallets
<1>1. CASE t \in w.txs \cup Mine \/ IsFromMe(w, t)
    <2>1. v = [txs |-> w.txs \cup {t},
               spent |-> w.spent \cup (Inputs[t] \cap (w.txs \cup {t}) \cap Mine),
               hashBlock |-> [w.hashBlock EXCEPT ![t] = IF b = None THEN @ ELSE b]]
        BY <1>1, AddToWalletValue DEF AddToWalletIfInvolvingMe
    <2> HIDE DEF v
    <2>2. /\ v.txs = w.txs \cup {t}
          /\ v.spent = w.spent \cup (Inputs[t] \cap (w.txs \cup {t}) \cap Mine)
          /\ v.hashBlock = [w.hashBlock EXCEPT ![t] = IF b = None THEN @ ELSE b]
        BY <2>1
    <2>3. v.hashBlock \in [Txs -> Blocks \cup {None}]
        BY <1>0, <2>2
    <2>4. v \in Wallets
        BY <1>0, <2>1, <2>2, <2>3 DEF Wallets
    <2>5. /\ \A x \in Txs \ {t} : v.hashBlock[x] = w.hashBlock[x]
          /\ b # None => v.hashBlock[t] = b
        BY <1>0, <2>2
    <2>6. Sound(v)
        BY <1>0, <2>2, <2>4, <2>5 DEF Sound
    <2>7. v.spent \subseteq w.spent \cup SpentIn(v.txs \cap {t})
        BY <2>2 DEF SpentIn
    <2> QED
        BY <1>0, <2>2, <2>4, <2>5, <2>6, <2>7 DEF Grew, Has, Placed, v
<1>2. CASE ~(t \in w.txs \cup Mine \/ IsFromMe(w, t))
    <2>1. v = w
        BY <1>2 DEF AddToWalletIfInvolvingMe
    <2> HIDE DEF v
    <2>2. Inputs[t] \cap Mine \subseteq w.txs => Inputs[t] \cap Mine = {}
        BY <1>2 DEF IsFromMe
    <2> QED
        BY <1>2, <2>1, <2>2 DEF Grew, Has, Placed, Sound, v
<1> QED
    BY <1>1, <1>2

-----------------------------------------------------------------------------
(* A block that is connected.                                              *)

SoundWallets == {w \in Wallets : Sound(w)}

(* What the block spends of ours is in the wallet, or comes earlier in it. *)
Available(w, b) ==
    \A i \in 1 .. Len(TxsOf[b]) :
        Inputs[TxsOf[b][i]] \cap Mine \subseteq w.txs \cup {TxsOf[b][j] : j \in 1 .. i - 1}

LoopRule(w, b, after) ==
    after = [i \in 0 .. Len(TxsOf[b]) |->
                IF i = 0 THEN w ELSE AddToWalletIfInvolvingMe(after[i - 1], TxsOf[b][i], b)]
Loop(w, b) == CHOOSE after : LoopRule(w, b, after)

LEMMA LoopExists ==
    ASSUME NEW w, Sound(w), NEW b \in Blocks
    PROVE  LoopRule(w, b, Loop(w, b))
<1> DEFINE n == Len(TxsOf[b])
           step == [p \in (1 .. n) \X SoundWallets |->
                       AddToWalletIfInvolvingMe(p[2], TxsOf[b][p[1]], b)]
<1>1. n \in Nat
    BY TxFacts
<1>2. \A i \in 1 .. n, v \in SoundWallets : AddToWalletIfInvolvingMe(v, TxsOf[b][i], b) \in SoundWallets
    BY TxFacts, AddIfInvolved DEF Grew, SoundWallets
<1>3. step \in [(1 .. n) \X SoundWallets -> SoundWallets]
    BY <1>2
<1>4. w \in SoundWallets
    BY DEF Sound, SoundWallets
<1>5. PICK f : FollowsLoop(f, n, SoundWallets, w, step)
    <2> HIDE DEF n, step
    <2> QED
        BY <1>1, <1>3, <1>4, LoopRecursion
<1>6. f \in [0 .. n -> SoundWallets] /\ f[0] = w
    BY <1>5 DEF FollowsLoop
<1>7. ASSUME NEW i \in 1 .. n
      PROVE  f[i] = AddToWalletIfInvolvingMe(f[i - 1], TxsOf[b][i], b)
    <2>1. f[i] = step[<<i, f[i - 1]>>]
        BY <1>5 DEF FollowsLoop
    <2>2. f[i - 1] \in SoundWallets
        BY <1>1, <1>6
    <2> QED
        BY <2>1, <2>2
<1> HIDE DEF step
<1>8. LoopRule(w, b, f)
    <2>1. \A i \in 0 .. n : i = 0 \/ i \in 1 .. n
        BY <1>1
    <2>2. \A i \in 0 .. n : f[i] = IF i = 0 THEN w ELSE AddToWalletIfInvolvingMe(f[i - 1], TxsOf[b][i], b)
        BY <1>6, <1>7, <2>1
    <2>3. f = [i \in 0 .. n |-> f[i]]
        BY <1>6
    <2> QED
        BY <2>2, <2>3, Zenon DEF LoopRule, n
<1> QED
    BY <1>8 DEF Loop

LEMMA SyncConnectedEffect ==
    ASSUME NEW w, Sound(w), NEW b \in Blocks
    PROVE  LET v == SyncConnected(w, b)
           IN /\ Grew(w, v, TxsIn({b})) /\ Placed(v, TxsIn({b}), b)
              /\ Available(w, b) => Has(v, TxsIn({b}))
<1> DEFINE n == Len(TxsOf[b])
           f == Loop(w, b)
           T(k) == {TxsOf[b][j] : j \in 1 .. k}
           S == {k \in 0 .. n : /\ Grew(w, f[k], T(k)) /\ Placed(f[k], T(k), b)
                                /\ Available(w, b) => Has(f[k], T(k))}
<1>1. n \in Nat /\ \A i \in 1 .. n : TxsOf[b][i] \in Txs
    BY TxFacts
<1>2. f[0] = w /\ \A i \in 1 .. n : f[i] = AddToWalletIfInvolvingMe(f[i - 1], TxsOf[b][i], b)
    <2>1. LoopRule(w, b, f)
        BY LoopExists
    <2> HIDE DEF f
    <2>2. \A i \in 0 .. n : f[i] = IF i = 0 THEN w ELSE AddToWalletIfInvolvingMe(f[i - 1], TxsOf[b][i], b)
        BY <2>1, Zenon DEF LoopRule
    <2>3. 0 \in 0 .. n /\ \A i \in 1 .. n : i \in 0 .. n /\ i # 0
        BY <1>1
    <2> QED
        BY <2>2, <2>3
<1> HIDE DEF f
<1>3. 0 \in S
    <2>1. T(0) = {} /\ 0 \in 0 .. n
        BY <1>1
    <2>2. Grew(w, w, {}) /\ Placed(w, {}, b) /\ Has(w, {})
        BY DEF Grew, Placed, Has
    <2> QED
        BY <1>2, <2>1, <2>2
<1>4. ASSUME NEW k \in 1 .. n, k - 1 \in S
      PROVE  k \in S
    <2> DEFINE t == TxsOf[b][k]
               u == f[k - 1]
               v == f[k]
    <2>1. t \in Txs /\ T(k) = T(k - 1) \cup {t} /\ T(k - 1) \in SUBSET Txs /\ k \in 0 .. n
        <3>1. \A j \in 1 .. k : j \in 1 .. k - 1 \/ j = k
            BY <1>1
        <3>2. \A j \in 1 .. k - 1 : j \in 1 .. k /\ j \in 1 .. n
            BY <1>1
        <3> QED
            BY <1>1, <3>1, <3>2
    <2>2. Grew(w, u, T(k - 1)) /\ Placed(u, T(k - 1), b) /\ Sound(u)
        BY <1>4 DEF Grew
    <2>3. v = AddToWalletIfInvolvingMe(u, t, b)
        BY <1>2
    <2>4. Available(w, b) => Has(u, T(k - 1)) /\ Inputs[t] \cap Mine \subseteq w.txs \cup T(k - 1)
        BY <1>4 DEF Available
    <2> HIDE DEF t, u, v
    <2>5. /\ Grew(u, v, {t}) /\ Placed(v, {t}, b)
          /\ Inputs[t] \cap Mine \subseteq u.txs => Has(v, {t})
        <3>1. b \in Blocks \cup {None} /\ b # None
            BY TreeAssumption
        <3> QED
            BY <2>1, <2>2, <2>3, <3>1, AddIfInvolved
    <2> HIDE DEF T
    <2>6. Grew(w, v, T(k))
        BY <2>1, <2>2, <2>5, GrewOn
    <2>7. Placed(v, T(k), b)
        BY <2>1, <2>2, <2>5 DEF Placed, Grew
    <2>8. ASSUME Available(w, b) PROVE Has(v, T(k))
        <3>1. Has(u, T(k - 1)) /\ Inputs[t] \cap Mine \subseteq u.txs
            BY <2>2, <2>4, <2>8 DEF Has, Grew
        <3>2. Has(v, T(k - 1)) /\ Has(v, {t})
            BY <2>5, <3>1, HasStays
        <3> QED
            BY <2>1, <3>2 DEF Has
    <2> QED
        BY <2>1, <2>6, <2>7, <2>8 DEF v
<1>5. n \in S
    <2> HIDE DEF S, n
    <2>1. \A i \in 0 .. n : i \in S
        BY <1>1, <1>3, <1>4, LoopInduction
    <2> QED
        BY <1>1, <2>1
<1>6. T(n) = TxsIn({b})
    <2>1. ToSet(TxsOf[b]) = T(n)
        BY TxFacts DEF ToSet
    <2> HIDE DEF T
    <2> QED
        BY <2>1 DEF TxsIn
<1>7. SyncConnected(w, b) = f[n]
    BY DEF SyncConnected, f, Loop, LoopRule
<1> QED
    BY <1>5, <1>6, <1>7

-----------------------------------------------------------------------------
(* The blocks of a branch.                                                 *)

LEMMA GenesisBranch ==
    Genesis \in Blocks /\ Branch[Genesis] = {Genesis}
<1>1. Genesis \in Blocks /\ {Genesis} \in SUBSET Blocks /\ Closed({Genesis})
    BY TreeAssumption DEF Closed
<1>2. Branch[Genesis] \subseteq {Genesis} /\ Genesis \in Branch[Genesis]
    BY <1>1, BranchLeast, BranchClosed
<1> QED
    BY <1>1, <1>2

(* Two blocks of a branch: one comes before the other.                     *)
LEMMA BranchLinear ==
    \A b \in Blocks : \A x, y \in Branch[b] : x \in Branch[y] \/ y \in Branch[x]
<1> DEFINE S == {b \in Blocks : \A x, y \in Branch[b] : x \in Branch[y] \/ y \in Branch[x]}
<1>1. Genesis \in S
    BY GenesisBranch, TreeAssumption
<1>2. ASSUME NEW b \in Blocks \ {Genesis}, Prev[b] \in S
      PROVE  b \in S
    BY <1>2, BranchStep
<1> HIDE DEF S
<1>3. \A b \in Blocks : b \in S
    BY <1>1, <1>2, TreeInduction
<1> QED
    BY <1>3 DEF S

LEMMA BranchInside ==
    ASSUME NEW b \in Blocks, NEW x \in Branch[b]
    PROVE  Branch[x] \subseteq Branch[b] /\ x \in Blocks
<1>1. x \in Blocks /\ Branch[b] \in SUBSET Blocks /\ Closed(Branch[b])
    BY BranchClosed DEF Closed
<1> QED
    BY <1>1, BranchLeast

Valid(b) == Branch[b] \cap Invalid = {}

(* The blocks of a valid branch have no transaction and no input in        *)
(* common.                                                                 *)
LEMMA ValidBranch ==
    ASSUME NEW b \in Blocks, Valid(b), NEW x \in Branch[b], NEW y \in Branch[b],
           NEW t \in TxsIn({x}), NEW u \in TxsIn({y}), t = u \/ Inputs[t] \cap Inputs[u] # {}
    PROVE  x = y
<1>1. SUFFICES ASSUME x # y PROVE FALSE
    OBVIOUS
<1>2. x \in Blocks /\ y \in Blocks /\ Valid(x) /\ Valid(y)
    BY BranchInside DEF Valid
<1>3. \A o : o \in Inputs[t] \cap Inputs[u] => o \in SpentIn(TxsIn({x})) \cap SpentIn(TxsIn({y}))
    BY DEF SpentIn
<1>4. CASE y \in Branch[x]
    <2>1. TxsIn({x}) \cap TxsIn({y}) = {} /\ SpentIn(TxsIn({x})) \cap SpentIn(TxsIn({y})) = {}
        BY <1>1, <1>2, <1>4, ChainAssumption DEF Valid
    <2> QED
        BY <1>3, <2>1
<1>5. CASE x \in Branch[y]
    <2>1. TxsIn({y}) \cap TxsIn({x}) = {} /\ SpentIn(TxsIn({y})) \cap SpentIn(TxsIn({x})) = {}
        BY <1>1, <1>2, <1>5, ChainAssumption DEF Valid
    <2> QED
        BY <1>3, <2>1
<1> QED
    BY <1>4, <1>5, BranchLinear

(* What a transaction of a valid branch spends is in the branch.           *)
LEMMA InputsInBranch ==
    ASSUME NEW b \in Blocks, Valid(b), NEW x \in Branch[b], NEW t \in TxsIn({x})
    PROVE  Inputs[t] \subseteq TxsIn(Branch[b])
<1>1. x \in Blocks /\ Valid(x) /\ Branch[x] \subseteq Branch[b] /\ x \in Branch[x]
    BY BranchInside, BranchClosed DEF Valid
<1>2. PICK i \in 1 .. Len(TxsOf[x]) : t = TxsOf[x][i]
    BY <1>1, TxFacts DEF TxsIn, ToSet
<1>3. Inputs[t] \subseteq TxsIn(Branch[x] \ {x}) \cup {TxsOf[x][j] : j \in 1 .. i - 1}
    BY <1>1, <1>2, ChainAssumption DEF Valid
<1>4. {TxsOf[x][j] : j \in 1 .. i - 1} \subseteq ToSet(TxsOf[x])
    <2>1. \A j \in 1 .. i - 1 : j \in DOMAIN TxsOf[x]
        BY <1>1, TxFacts
    <2> QED
        BY <2>1 DEF ToSet
<1> QED
    BY <1>1, <1>3, <1>4 DEF TxsIn

(* SyncBranch by its equation.                                             *)
BranchRule(w, B, after) ==
    after = [x \in Blocks |->
                LET before == IF x = Genesis THEN w ELSE after[Prev[x]]
                IN IF x \in B THEN SyncConnected(before, x) ELSE before]
AfterBlock(w, B) == CHOOSE after : BranchRule(w, B, after)

LEMMA BranchRuleExists ==
    ASSUME NEW w, Sound(w), NEW B
    PROVE  BranchRule(w, B, AfterBlock(w, B))
<1> DEFINE Next1(v, x) == IF x \in B THEN SyncConnected(v, x) ELSE v
           first == Next1(w, Genesis)
           step == [p \in Blocks \X SoundWallets |-> Next1(p[2], p[1])]
<1>1. Genesis \in Blocks /\ w \in SoundWallets
    BY TreeAssumption DEF Sound, SoundWallets
<1>2. \A x \in Blocks, v \in SoundWallets : Next1(v, x) \in SoundWallets
    <2>1. ASSUME NEW x \in Blocks, NEW v \in SoundWallets PROVE SyncConnected(v, x) \in SoundWallets
        BY <2>1, SyncConnectedEffect DEF SoundWallets, Grew, Sound
    <2> QED
        BY <2>1
<1> HIDE DEF Next1
<1>3. first \in SoundWallets /\ step \in [Blocks \X SoundWallets -> SoundWallets]
    BY <1>1, <1>2
<1>4. PICK f : FollowsTree(f, SoundWallets, first, step)
    <2> HIDE DEF first, step
    <2> QED
        BY <1>3, TreeRecursion
<1>5. ASSUME NEW x \in Blocks
      PROVE  f[x] = Next1(IF x = Genesis THEN w ELSE f[Prev[x]], x)
    <2>1. CASE x = Genesis
        BY <1>4, <2>1 DEF FollowsTree
    <2>2. CASE x # Genesis
        <3>1. Prev[x] \in Blocks
            BY <2>2, TreeAssumption
        <3>2. f[Prev[x]] \in SoundWallets /\ f[x] = step[<<x, f[Prev[x]]>>]
            BY <1>4, <2>2, <3>1 DEF FollowsTree
        <3> QED
            BY <2>2, <3>2
    <2> QED
        BY <2>1, <2>2
<1>6. f = [x \in Blocks |-> f[x]]
    BY <1>4 DEF FollowsTree
<1>7. BranchRule(w, B, f)
    BY <1>5, <1>6, Zenon DEF BranchRule, Next1
<1> QED
    BY <1>7 DEF AfterBlock

LEMMA TxsInUnion ==
    ASSUME NEW A, NEW B
    PROVE  TxsIn(A \cup B) = TxsIn(A) \cup TxsIn(B)
BY Zenon DEF TxsIn

(* The blocks of B are valid, and the wallet knows what is below them.     *)
Ready(w, B, b) ==
    \A y \in B \cap Branch[b] : Valid(y) /\ TxsIn(Branch[y] \ B) \cap Mine \subseteq w.txs

PlacedAll(v, B) == \A y \in B : Placed(v, TxsIn({y}), y)

BlocksDone(w, v, B, D, b) ==
    /\ Grew(w, v, TxsIn(B \cap D))
    /\ Ready(w, B, b) => Has(v, TxsIn(B \cap D)) /\ PlacedAll(v, B \cap D)

(* One block of the branch, x, after those below it.                       *)
LEMMA BlockStep ==
    ASSUME NEW w, NEW u, NEW B, NEW x \in Blocks,
           BlocksDone(w, u, B, Branch[x] \ {x}, x)
    PROVE  BlocksDone(w, IF x \in B THEN SyncConnected(u, x) ELSE u, B, Branch[x], x)
<1> DEFINE D == Branch[x] \ {x}
           v == SyncConnected(u, x)
<1>1. x \in Branch[x] /\ Branch[x] \subseteq Blocks
    BY BranchClosed
<1>2. CASE x \notin B
    <2>1. B \cap Branch[x] = B \cap D
        BY <1>2
    <2>2. BlocksDone(w, u, B, Branch[x], x)
        BY <2>1, Zenon DEF BlocksDone
    <2> QED
        BY <1>2, <2>2
<1>3. CASE x \in B
    <2>1. TxsIn(B \cap Branch[x]) = TxsIn(B \cap D) \cup TxsIn({x})
        <3>1. B \cap Branch[x] = (B \cap D) \cup {x}
            BY <1>1, <1>3
        <3> QED
            BY <3>1, TxsInUnion, Zenon
    <2>2. TxsIn(B \cap D) \in SUBSET Txs /\ TxsIn({x}) \in SUBSET Txs
        BY <1>1, TxFacts DEF TxsIn, ToSet
    <2>3. Grew(w, u, TxsIn(B \cap D)) /\ Sound(u)
        BY DEF BlocksDone, Grew
    <2>4. /\ Grew(u, v, TxsIn({x})) /\ Placed(v, TxsIn({x}), x)
          /\ Available(u, x) => Has(v, TxsIn({x}))
        BY <2>3, SyncConnectedEffect
    <2> HIDE DEF v
    <2>5. Grew(w, v, TxsIn(B \cap Branch[x]))
        BY <2>1, <2>2, <2>3, <2>4, GrewOn
    <2>6. ASSUME Ready(w, B, x)
          PROVE  Has(v, TxsIn(B \cap Branch[x])) /\ PlacedAll(v, B \cap Branch[x])
        <3>1. /\ Valid(x) /\ TxsIn(Branch[x] \ B) \cap Mine \subseteq w.txs
              /\ Has(u, TxsIn(B \cap D)) /\ PlacedAll(u, B \cap D)
            BY <1>1, <1>3, <2>6 DEF Ready, BlocksDone
        <3>2. TxsIn(D) \cap Mine \subseteq u.txs
            <4>1. TxsIn(D) \subseteq TxsIn(B \cap D) \cup TxsIn(Branch[x] \ B)
                BY DEF TxsIn
            <4> QED
                BY <2>3, <3>1, <4>1 DEF Has, Grew
        <3>3. Available(u, x)
            <4>1. \A i \in 1 .. Len(TxsOf[x]) :
                     Inputs[TxsOf[x][i]] \subseteq TxsIn(D) \cup {TxsOf[x][j] : j \in 1 .. i - 1}
                BY <3>1, ChainAssumption DEF Valid
            <4> QED
                BY <3>2, <4>1 DEF Available
        <3>4. Has(v, TxsIn({x})) /\ Has(v, TxsIn(B \cap D))
            BY <2>4, <3>1, <3>3, HasStays
        <3>5. Has(v, TxsIn(B \cap Branch[x]))
            BY <2>1, <3>4 DEF Has
        <3>6. ASSUME NEW y \in B \cap Branch[x], NEW t \in TxsIn({y}) \cap v.txs
              PROVE  v.hashBlock[t] = y
            <4>1. CASE y = x
                BY <2>4, <3>6, <4>1 DEF Placed
            <4>2. CASE y # x
                <5>1. t \notin TxsIn({x})
                    BY <1>1, <3>1, <4>2, ValidBranch
                <5>2. t \in Txs /\ t \in u.txs /\ v.hashBlock[t] = u.hashBlock[t]
                    BY <1>1, <2>4, <5>1, TxFacts DEF Grew, Sound, Wallets
                <5>3. y \in B \cap D
                    BY <4>2
                <5> QED
                    BY <3>1, <3>6, <5>2, <5>3 DEF PlacedAll, Placed
            <4> QED
                BY <4>1, <4>2
        <3> QED
            BY <3>5, <3>6 DEF PlacedAll, Placed
    <2> QED
        BY <1>3, <2>5, <2>6 DEF BlocksDone, v
<1> QED
    BY <1>2, <1>3

LEMMA SyncBranchEffect ==
    ASSUME NEW w, Sound(w), NEW B, NEW b \in Blocks
    PROVE  BlocksDone(w, SyncBranch(w, B, b), B, Branch[b], b)
<1> DEFINE f == AfterBlock(w, B)
           S == {x \in Blocks : BlocksDone(w, f[x], B, Branch[x], x)}
<1>1. \A x \in Blocks : f[x] = IF x \in B THEN SyncConnected(IF x = Genesis THEN w ELSE f[Prev[x]], x)
                               ELSE IF x = Genesis THEN w ELSE f[Prev[x]]
    <2>1. BranchRule(w, B, f)
        BY BranchRuleExists
    <2> HIDE DEF f
    <2> QED
        BY <2>1, Zenon DEF BranchRule
<1> HIDE DEF f
<1>2. Genesis \in S
    <2>1. BlocksDone(w, w, B, Branch[Genesis] \ {Genesis}, Genesis)
        <3>1. B \cap (Branch[Genesis] \ {Genesis}) = {} /\ TxsIn({}) = {}
            BY GenesisBranch DEF TxsIn
        <3> QED
            BY <3>1 DEF BlocksDone, Grew, Has, PlacedAll
    <2> QED
        BY <1>1, <2>1, BlockStep, GenesisBranch
<1>3. ASSUME NEW x \in Blocks \ {Genesis}, Prev[x] \in S
      PROVE  x \in S
    <2>1. Prev[x] \in Blocks /\ Branch[x] \ {x} = Branch[Prev[x]]
        BY BranchStep, BranchIrreflexive
    <2>2. Ready(w, B, x) => Ready(w, B, Prev[x])
        BY <2>1 DEF Ready
    <2>3. BlocksDone(w, f[Prev[x]], B, Branch[x] \ {x}, x)
        BY <1>3, <2>1, <2>2 DEF BlocksDone
    <2> QED
        BY <1>1, <2>3, BlockStep
<1> HIDE DEF S
<1>4. \A x \in Blocks : x \in S
    BY <1>2, <1>3, TreeInduction
<1>5. SyncBranch(w, B, b) = f[b]
    BY DEF SyncBranch, f, AfterBlock, BranchRule
<1> QED
    BY <1>4, <1>5 DEF S

-----------------------------------------------------------------------------
(* The pool takes only what it is offered, and no coinstake.               *)

PoolRule(pool, ts, after) ==
    after = [i \in 0 .. Len(ts) |->
                IF i = 0 THEN pool
                ELSE IF Accepts(after[i - 1], ts[i], FALSE) THEN after[i - 1] \cup {ts[i]} ELSE after[i - 1]]
PoolLoop(pool, ts) == CHOOSE after : PoolRule(pool, ts, after)

LEMMA PoolLoopExists ==
    ASSUME NEW pool \in SUBSET Txs, NEW ts \in Seq(Txs)
    PROVE  PoolRule(pool, ts, PoolLoop(pool, ts))
<1> DEFINE n == Len(ts)
           Take(v, t) == IF Accepts(v, t, FALSE) THEN v \cup {t} ELSE v
           step == [p \in (1 .. n) \X SUBSET Txs |-> Take(p[2], ts[p[1]])]
<1>1. n \in Nat /\ \A i \in 1 .. n : ts[i] \in Txs
    OBVIOUS
<1>2. \A v \in SUBSET Txs, t \in Txs : Take(v, t) \in SUBSET Txs
    OBVIOUS
<1> HIDE DEF Take
<1>3. step \in [(1 .. n) \X SUBSET Txs -> SUBSET Txs]
    BY <1>1, <1>2
<1>4. PICK f : FollowsLoop(f, n, SUBSET Txs, pool, step)
    <2> HIDE DEF n, step
    <2> QED
        BY <1>1, <1>3, LoopRecursion
<1>5. f \in [0 .. n -> SUBSET Txs] /\ f[0] = pool
    BY <1>4 DEF FollowsLoop
<1>6. ASSUME NEW i \in 1 .. n
      PROVE  f[i] = Take(f[i - 1], ts[i])
    <2>1. f[i] = step[<<i, f[i - 1]>>]
        BY <1>4 DEF FollowsLoop
    <2>2. f[i - 1] \in SUBSET Txs
        BY <1>1, <1>5
    <2> QED
        BY <2>1, <2>2
<1> HIDE DEF step
<1>7. \A i \in 0 .. n : f[i] = IF i = 0 THEN pool ELSE Take(f[i - 1], ts[i])
    BY <1>1, <1>5, <1>6
<1>8. f = [i \in 0 .. n |-> f[i]]
    BY <1>5
<1>9. PoolRule(pool, ts, f)
    BY <1>7, <1>8, Zenon DEF PoolRule, n, Take
<1> QED
    BY <1>9 DEF PoolLoop

LEMMA AcceptAllBounds ==
    ASSUME NEW pool \in SUBSET Txs, NEW T \in SUBSET Txs, NEW ts \in SetToSeqs(T)
    PROVE  /\ AcceptAll(pool, ts) \subseteq pool \cup T
           /\ pool \cap CoinStakes = {} => AcceptAll(pool, ts) \cap CoinStakes = {}
<1> DEFINE n == Len(ts)
           f == PoolLoop(pool, ts)
           S == {k \in 0 .. n : /\ f[k] \subseteq pool \cup T
                                /\ pool \cap CoinStakes = {} => f[k] \cap CoinStakes = {}}
<1>1. ts \in Seq(T) /\ n \in Nat /\ ts \in Seq(Txs) /\ \A i \in 1 .. n : ts[i] \in T
    <2>1. Cardinality(T) \in Nat
        BY WalletAssumption, FS_Subset, FS_CardinalityType
    <2>2. ts \in [1 .. Cardinality(T) -> T]
        BY DEF SetToSeqs
    <2>3. ts \in Seq(T)
        BY <2>1, <2>2
    <2> QED
        BY <2>3
<1>2. f[0] = pool /\ \A i \in 1 .. n : f[i] = IF Accepts(f[i - 1], ts[i], FALSE) THEN f[i - 1] \cup {ts[i]}
                                              ELSE f[i - 1]
    <2>1. PoolRule(pool, ts, f)
        BY <1>1, PoolLoopExists
    <2> HIDE DEF f
    <2>2. \A i \in 0 .. n : f[i] = IF i = 0 THEN pool
                                   ELSE IF Accepts(f[i - 1], ts[i], FALSE) THEN f[i - 1] \cup {ts[i]} ELSE f[i - 1]
        BY <2>1, Zenon DEF PoolRule
    <2>3. 0 \in 0 .. n /\ \A i \in 1 .. n : i \in 0 .. n /\ i # 0
        BY <1>1
    <2> QED
        BY <2>2, <2>3
<1> HIDE DEF f
<1>3. 0 \in S
    BY <1>1, <1>2
<1>4. ASSUME NEW k \in 1 .. n, k - 1 \in S
      PROVE  k \in S
    <2>1. Accepts(f[k - 1], ts[k], FALSE) => ts[k] \notin CoinStakes
        BY DEF Accepts
    <2>2. f[k] = f[k - 1] \/ (f[k] = f[k - 1] \cup {ts[k]} /\ ts[k] \notin CoinStakes)
        BY <1>2, <2>1
    <2>3. k \in 0 .. n /\ ts[k] \in T
        BY <1>1
    <2> QED
        BY <1>4, <2>2, <2>3
<1>5. n \in S
    <2> HIDE DEF S, n
    <2>1. \A i \in 0 .. n : i \in S
        BY <1>1, <1>3, <1>4, LoopInduction
    <2> QED
        BY <1>1, <2>1
<1>6. AcceptAll(pool, ts) = f[n]
    BY DEF AcceptAll, f, PoolLoop, PoolRule
<1> QED
    BY <1>5, <1>6

-----------------------------------------------------------------------------
(* A reorganisation.                                                       *)

Refunded(b) == SpentIn(TxsIn(Disconnected(b)) \cap CoinStakes) \cap wallet.txs \cap Mine

LEMMA SyncedWalletEffect ==
    ASSUME Sound(wallet), best \in Blocks, NEW b \in Blocks
    PROVE  LET v == SyncedWallet(b)
               T == TxsIn(Connected(b))
           IN /\ Sound(v) /\ wallet.txs \subseteq v.txs /\ v.txs \subseteq wallet.txs \cup T
              /\ wallet.spent \ Refunded(b) \subseteq v.spent
              /\ v.spent \subseteq (wallet.spent \ Refunded(b)) \cup SpentIn(v.txs \cap T)
              /\ \A t \in Txs \ T : v.hashBlock[t] = wallet.hashBlock[t]
              /\ TxsIn(Branch[best]) \cap Mine \subseteq wallet.txs
                    => Has(v, T) /\ PlacedAll(v, Connected(b))
<1> DEFINE w == SyncDisconnected(wallet, Disconnected(b))
           v == SyncedWallet(b)
           C == Connected(b)
<1>1. /\ w.txs = wallet.txs /\ w.hashBlock = wallet.hashBlock
      /\ w.spent = wallet.spent \ Refunded(b) /\ w \in Wallets
    BY DEF SyncDisconnected, DisableTransaction, Refunded, Sound, Wallets
<1> HIDE DEF w
<1>2. Sound(w)
    BY <1>1 DEF Sound
<1>3. v = SyncBranch(w, C, b)
    BY DEF SyncedWallet, w
<1>4. BlocksDone(w, v, C, Branch[b], b)
    BY <1>2, <1>3, SyncBranchEffect
<1>5. C \cap Branch[b] = C /\ C \subseteq Branch[b]
    BY DEF Connected, ToConnect
<1> HIDE DEF v
<1>6. Grew(w, v, TxsIn(C)) /\ (Ready(w, C, b) => Has(v, TxsIn(C)) /\ PlacedAll(v, C))
    BY <1>4, <1>5, Zenon DEF BlocksDone
<1>7. ASSUME TxsIn(Branch[best]) \cap Mine \subseteq wallet.txs
      PROVE  Ready(w, C, b)
    <2>1. ASSUME NEW y \in C
          PROVE  Valid(y) /\ Branch[y] \ C \subseteq Branch[best]
        <3>1. y \in Branch[b] /\ Branch[y] \cap Invalid = {}
            BY DEF Connected, ToConnect
        <3>2. ASSUME NEW z \in Branch[y], z \notin Branch[best]
              PROVE  z \in C
            <4>1. z \in Branch[b] /\ Branch[z] \subseteq Branch[y]
                BY <3>1, BranchInside
            <4> QED
                BY <3>1, <3>2, <4>1 DEF Connected, ToConnect
        <3> QED
            BY <3>1, <3>2 DEF Valid
    <2>2. ASSUME NEW y \in C
          PROVE  TxsIn(Branch[y] \ C) \cap Mine \subseteq wallet.txs
        BY <1>7, <2>1 DEF TxsIn
    <2> QED
        BY <1>1, <2>1, <2>2 DEF Ready
<1> HIDE DEF C
<1> QED
    BY <1>1, <1>6, <1>7 DEF Grew, v, C

-----------------------------------------------------------------------------
(* The invariant.                                                          *)

Known(w, T) == \A t \in T : t \in Mine \/ Inputs[t] \cap Mine # {} => t \in w.txs
ClosedUp(w) == \A t \in w.txs : Inputs[t] \cap Mine \subseteq w.txs

Follows(w, b) ==
    /\ TxsIn(Branch[b]) \cap Mine \subseteq w.txs
    /\ \A t \in TxsIn(Branch[b]) : Inputs[t] \cap Mine \subseteq w.spent
    /\ PlacedAll(w, Branch[b])

StakesRefunded(w, b) == w.spent \subseteq SpentIn(w.txs \cap (TxsIn(Branch[b]) \cup (Txs \ CoinStakes)))

StateType ==
    /\ index \subseteq Blocks /\ best \in index /\ Valid(best)
    /\ mempool \subseteq Txs \ CoinStakes /\ Sound(wallet)
    /\ created \subseteq Txs /\ old \subseteq Txs /\ stakeSet \subseteq Mine
    /\ failed \in BOOLEAN /\ repaired \in BOOLEAN

WalletInv ==
    /\ StateType
    /\ ~repaired => /\ Known(wallet, TxsIn(Branch[best]) \cup mempool) /\ ClosedUp(wallet)
                    /\ stakeSet \subseteq wallet.txs
    /\ ~failed => Follows(wallet, best)
    /\ ~failed /\ ~repaired => StakesRefunded(wallet, best)

LEMMA BranchTxs ==
    ASSUME NEW b \in Blocks
    PROVE  /\ TxsIn(Branch[b]) \in SUBSET Txs
           /\ \A t : t \in TxsIn(Branch[b]) <=> \E x \in Branch[b] : t \in TxsIn({x})
<1>1. Branch[b] \in SUBSET Blocks
    BY BranchClosed
<1>2. \A x \in Blocks : TxsIn({x}) \in SUBSET Txs
    BY TxFacts DEF TxsIn, ToSet
<1>3. \A t : t \in TxsIn(Branch[b]) <=> \E x \in Branch[b] : t \in TxsIn({x})
    BY DEF TxsIn
<1> QED
    BY <1>1, <1>2, <1>3

(* Where the chain has spent what it contains.                             *)
LEMMA ChainInputs ==
    ASSUME NEW b \in Blocks, Valid(b)
    PROVE  SpentIn(TxsIn(Branch[b])) \subseteq TxsIn(Branch[b])
<1> SUFFICES ASSUME NEW t \in TxsIn(Branch[b])
             PROVE  Inputs[t] \subseteq TxsIn(Branch[b])
    BY DEF SpentIn
<1>1. PICK x \in Branch[b] : t \in TxsIn({x})
    BY BranchTxs
<1> QED
    BY <1>1, InputsInBranch

-----------------------------------------------------------------------------
(* ReacceptWalletTransactions.                                             *)

LEMMA ReacceptedEffect ==
    ASSUME NEW w, Sound(w), best \in Blocks, Valid(best)
    PROVE  LET v == Reaccepted(w)
           IN /\ Sound(v) /\ w.txs \subseteq v.txs /\ v.txs \subseteq w.txs \cup InChain
              /\ v.txs = w.txs \/ Has(v, InChain)
              /\ v.txs \cap Mine \cap SpentIn(InChain) \subseteq v.spent
              /\ w.txs \cap Mine \cap SpentIn(InChain) \subseteq w.spent => v = w
<1> DEFINE missing == (w.txs \cap Mine \cap InChain \cap SpentIn(InChain)) \ w.spent
           marked == [w EXCEPT !.spent = @ \cup missing]
           v == Reaccepted(w)
<1>1. SpentIn(InChain) \subseteq InChain /\ InChain \in SUBSET Txs
    BY ChainInputs, BranchTxs DEF InChain
<1>2. CASE missing = {}
    <2>1. marked = w
        BY <1>2 DEF Sound, Wallets
    <2>2. v = w
        BY <1>2, <2>1 DEF Reaccepted
    <2> HIDE DEF v
    <2>3. w.txs \cap Mine \cap SpentIn(InChain) \subseteq w.spent
        BY <1>1, <1>2
    <2> QED
        BY <2>2, <2>3 DEF v
<1>3. CASE missing # {}
    <2>1. /\ marked.txs = w.txs /\ marked.hashBlock = w.hashBlock
          /\ marked.spent = w.spent \cup missing /\ marked \in Wallets
        BY <1>1 DEF Sound, Wallets
    <2>2. v = SyncBranch(marked, Branch[best], best)
        BY <1>3 DEF Reaccepted
    <2> HIDE DEF marked, v
    <2>3. Sound(marked)
        BY <2>1 DEF Sound
    <2>4. BlocksDone(marked, v, Branch[best], Branch[best], best)
        BY <2>2, <2>3, SyncBranchEffect
    <2>5. Ready(marked, Branch[best], best)
        <3>1. ASSUME NEW y \in Branch[best]
              PROVE  Valid(y) /\ Branch[y] \ Branch[best] = {}
            BY BranchInside DEF Valid
        <3>2. TxsIn({}) = {}
            BY DEF TxsIn
        <3>3. \A y \in Branch[best] : TxsIn(Branch[y] \ Branch[best]) = {}
            BY <3>1, <3>2
        <3> QED
            BY <3>1, <3>3 DEF Ready
    <2>6. Branch[best] \cap Branch[best] = Branch[best]
        OBVIOUS
    <2>7. Grew(marked, v, InChain) /\ Has(v, InChain)
        BY <2>4, <2>5, <2>6, Zenon DEF BlocksDone, InChain
    <2>8. v.txs \cap Mine \cap SpentIn(InChain) \subseteq v.spent
        BY <2>7 DEF Has, SpentIn
    <2>9. ~(w.txs \cap Mine \cap SpentIn(InChain) \subseteq w.spent)
        BY <1>3
    <2> QED
        BY <2>1, <2>7, <2>8, <2>9 DEF Grew, v
<1> QED
    BY <1>2, <1>3

(* The start of the process with v, which the chain or SetBestChain left.  *)
LEMMA StartUpKeeps ==
    ASSUME WalletInv, NEW v, Sound(v), StartUp(v),
           ~repaired => Known(v, TxsIn(Branch[best])) /\ ClosedUp(v)
    PROVE  /\ mempool' \subseteq Txs \ CoinStakes /\ Sound(wallet') /\ stakeSet' = {}
           /\ UNCHANGED <<best, created, old, repaired>>
           /\ ~repaired => Known(wallet', TxsIn(Branch[best]) \cup mempool') /\ ClosedUp(wallet')
           /\ Follows(v, best) => wallet' = v
<1>1. best \in Blocks /\ Valid(best)
    BY DEF WalletInv, StateType
<1>2. wallet' = Reaccepted(v) /\ stakeSet' = {} /\ UNCHANGED <<best, created, old, repaired>>
    BY DEF StartUp
<1>3. /\ Sound(wallet') /\ v.txs \subseteq wallet'.txs /\ wallet'.txs \subseteq v.txs \cup InChain
      /\ wallet'.txs = v.txs \/ Has(wallet', InChain)
      /\ v.txs \cap Mine \cap SpentIn(InChain) \subseteq v.spent => wallet' = v
    BY <1>1, <1>2, ReacceptedEffect
<1>4. wallet'.txs \in SUBSET Txs
    BY <1>3 DEF Sound, Wallets
<1>5. mempool' \subseteq Txs \ CoinStakes /\ mempool' \subseteq wallet'.txs
    <2>1. PICK ts \in SetToSeqs(wallet'.txs \ (InChain \cup CoinStakes)) : mempool' = AcceptAll({}, ts)
        BY DEF StartUp
    <2> DEFINE T == wallet'.txs \ (InChain \cup CoinStakes)
    <2>2. T \in SUBSET Txs /\ {} \in SUBSET Txs
        BY <1>4
    <2>3. mempool' \subseteq {} \cup T
        BY <2>1, <2>2, AcceptAllBounds
    <2> QED
        BY <1>4, <2>3
<1>6. ASSUME ~repaired
      PROVE  Known(wallet', TxsIn(Branch[best]) \cup mempool') /\ ClosedUp(wallet')
    <2>1. Known(wallet', TxsIn(Branch[best]) \cup mempool')
        BY <1>3, <1>5, <1>6 DEF Known
    <2>2. ClosedUp(wallet')
        <3>1. CASE wallet'.txs = v.txs
            BY <1>6, <3>1 DEF ClosedUp
        <3>2. CASE Has(wallet', InChain)
            <4>1. wallet'.spent \subseteq wallet'.txs
                BY <1>3 DEF Sound
            <4> QED
                BY <1>3, <1>6, <3>2, <4>1 DEF ClosedUp, Has
        <3> QED
            BY <1>3, <3>1, <3>2
    <2> QED
        BY <2>1, <2>2
<1>7. Follows(v, best) => v.txs \cap Mine \cap SpentIn(InChain) \subseteq v.spent
    BY DEF Follows, SpentIn, InChain
<1> QED
    BY <1>2, <1>3, <1>5, <1>6, <1>7

-----------------------------------------------------------------------------
(* Each step keeps the invariant.                                          *)

LEMMA ReorgKeepsTxs ==
    ASSUME WalletInv, NEW b \in Blocks
    PROVE  LET v == SyncedWallet(b)
           IN /\ Sound(v) /\ wallet.txs \subseteq v.txs
              /\ ~repaired => /\ Known(v, TxsIn(Branch[best]) \cup mempool \cup TxsIn(Connected(b)))
                              /\ ClosedUp(v)
<1> DEFINE v == SyncedWallet(b)
           T == TxsIn(Connected(b))
<1>1. Sound(wallet) /\ best \in Blocks
    BY DEF WalletInv, StateType
<1>2. /\ Sound(v) /\ wallet.txs \subseteq v.txs /\ v.txs \subseteq wallet.txs \cup T
      /\ TxsIn(Branch[best]) \cap Mine \subseteq wallet.txs => Has(v, T)
    BY <1>1, SyncedWalletEffect
<1> HIDE DEF v, T
<1>3. ASSUME ~repaired
      PROVE  Known(v, TxsIn(Branch[best]) \cup mempool \cup T) /\ ClosedUp(v)
    <2>1. Known(wallet, TxsIn(Branch[best]) \cup mempool) /\ ClosedUp(wallet)
        BY <1>3 DEF WalletInv
    <2>2. Has(v, T)
        BY <1>2, <2>1 DEF Known
    <2>3. v.spent \subseteq v.txs
        BY <1>2 DEF Sound
    <2> QED
        BY <1>2, <2>1, <2>2, <2>3 DEF Known, ClosedUp, Has
<1> QED
    BY <1>2, <1>3 DEF v, T

LEMMA ReorgFollows ==
    ASSUME WalletInv, NEW b \in Blocks, Valid(b), ~failed
    PROVE  /\ Follows(SyncedWallet(b), b)
           /\ ~repaired => StakesRefunded(SyncedWallet(b), b)
<1> DEFINE v == SyncedWallet(b)
           C == Connected(b)
           T == TxsIn(C)
<1>1. /\ Sound(wallet) /\ best \in Blocks /\ Valid(best) /\ Follows(wallet, best)
      /\ Branch[best] \in SUBSET Blocks /\ Branch[b] \in SUBSET Blocks
    BY BranchClosed DEF WalletInv, StateType
<1>2. /\ Sound(v) /\ wallet.txs \subseteq v.txs /\ v.txs \subseteq wallet.txs \cup T
      /\ wallet.spent \ Refunded(b) \subseteq v.spent
      /\ v.spent \subseteq (wallet.spent \ Refunded(b)) \cup SpentIn(v.txs \cap T)
      /\ \A t \in Txs \ T : v.hashBlock[t] = wallet.hashBlock[t]
      /\ Has(v, T) /\ PlacedAll(v, C)
    <2>1. TxsIn(Branch[best]) \cap Mine \subseteq wallet.txs
        BY <1>1 DEF Follows
    <2> QED
        BY <1>1, <2>1, SyncedWalletEffect
<1>3. /\ C \subseteq Branch[b] /\ \A x \in Branch[b] : x \in C \/ x \in Branch[best]
      /\ C \cap Branch[best] = {}
    <2>1. ASSUME NEW x \in Branch[b], x \notin Branch[best] PROVE x \in C
        BY <2>1, BranchInside DEF Connected, ToConnect, Valid
    <2> QED
        BY <2>1 DEF Connected, ToConnect
<1> HIDE DEF v, C
<1>4. ASSUME NEW x \in Branch[b], x \notin C, NEW t \in TxsIn({x})
      PROVE  /\ x \in Branch[best] /\ t \in TxsIn(Branch[best]) /\ t \notin T
             /\ Inputs[t] \cap Refunded(b) = {}
    <2>1. x \in Branch[best] /\ t \in TxsIn(Branch[best])
        BY <1>1, <1>3, <1>4, BranchTxs
    <2>2. ASSUME t \in T PROVE FALSE
        <3>1. PICK y \in C : t \in TxsIn({y})
            BY <2>2 DEF TxsIn
        <3>2. x = y
            BY <1>3, <3>1, ValidBranch
        <3> QED
            BY <1>4, <3>1, <3>2
    <2>3. ASSUME NEW o \in Inputs[t], o \in Refunded(b) PROVE FALSE
        <3>1. PICK s \in TxsIn(Disconnected(b)) : o \in Inputs[s]
            BY <2>3 DEF Refunded, SpentIn
        <3>2. PICK z \in Disconnected(b) : s \in TxsIn({z})
            BY <3>1 DEF TxsIn
        <3>3. z \in Branch[best] /\ z \notin Branch[b]
            BY <3>2 DEF Disconnected
        <3>4. x = z
            BY <1>1, <2>1, <2>3, <3>1, <3>2, <3>3, ValidBranch
        <3> QED
            BY <3>3, <3>4
    <2> QED
        BY <2>1, <2>2, <2>3
<1>5. ASSUME NEW x \in Branch[b], NEW t \in TxsIn({x})
      PROVE  /\ t \in Mine => t \in v.txs
             /\ Inputs[t] \cap Mine \subseteq v.spent
             /\ t \in v.txs => v.hashBlock[t] = x
    <2>1. CASE x \in C
        <3>1. t \in T
            BY <2>1 DEF TxsIn
        <3> QED
            BY <1>2, <2>1, <3>1 DEF Has, PlacedAll, Placed
    <2>2. CASE x \notin C
        <3>1. /\ x \in Branch[best] /\ t \in TxsIn(Branch[best]) /\ t \notin T
              /\ Inputs[t] \cap Refunded(b) = {} /\ t \in Txs
            BY <1>1, <1>4, <2>2, BranchTxs
        <3>2. /\ t \in Mine => t \in wallet.txs
              /\ Inputs[t] \cap Mine \subseteq wallet.spent
              /\ t \in wallet.txs => wallet.hashBlock[t] = x
            BY <1>1, <3>1 DEF Follows, PlacedAll, Placed
        <3> QED
            BY <1>2, <3>1, <3>2
    <2> QED
        BY <2>1, <2>2
<1>6. Follows(v, b)
    <2>1. \A t \in TxsIn(Branch[b]) : \E x \in Branch[b] : t \in TxsIn({x})
        BY BranchTxs
    <2> QED
        BY <1>5, <2>1 DEF Follows, PlacedAll, Placed
<1>7. ASSUME ~repaired
      PROVE  StakesRefunded(v, b)
    <2> SUFFICES ASSUME NEW o \in v.spent
                 PROVE  \E t \in v.txs : o \in Inputs[t] /\ (t \in TxsIn(Branch[b]) \/ t \in Txs \ CoinStakes)
        BY DEF StakesRefunded, SpentIn
    <2>1. T \subseteq TxsIn(Branch[b])
        BY <1>3 DEF TxsIn
    <2>2. CASE o \in SpentIn(v.txs \cap T)
        BY <2>1, <2>2 DEF SpentIn
    <2>3. CASE o \in wallet.spent \ Refunded(b)
        <3>1. PICK t \in wallet.txs : /\ o \in Inputs[t]
                                      /\ t \in TxsIn(Branch[best]) \/ t \in Txs \ CoinStakes
            BY <1>7, <2>3 DEF WalletInv, StakesRefunded, SpentIn
        <3>2. CASE t \in Txs \ CoinStakes
            BY <1>2, <3>1, <3>2
        <3>3. CASE t \notin Txs \ CoinStakes
            <4>1. PICK x \in Branch[best] : t \in TxsIn({x})
                BY <1>1, <3>1, <3>3, BranchTxs
            <4>2. t \in CoinStakes /\ o \in wallet.txs \cap Mine
                BY <1>1, <2>3, <3>3 DEF Sound, Wallets
            <4>3. x \in Branch[b]
                <5>1. SUFFICES ASSUME x \in Disconnected(b) PROVE FALSE
                    BY DEF Disconnected
                <5>2. t \in TxsIn(Disconnected(b))
                    BY <4>1, <5>1 DEF TxsIn
                <5> QED
                    BY <2>3, <3>1, <4>2, <5>2 DEF Refunded, SpentIn
            <4>4. t \in TxsIn(Branch[b])
                BY <4>1, <4>3, BranchTxs
            <4> QED
                BY <1>2, <3>1, <4>4
        <3> QED
            BY <3>2, <3>3
    <2> QED
        BY <1>2, <2>2, <2>3
<1> QED
    BY <1>6, <1>7 DEF v

LEMMA SetBestChainKeeps ==
    ASSUME WalletInv, NEW b \in Blocks, SetBestChain(b)
    PROVE  WalletInv'
<1>1. /\ index' = index \cup {b} /\ best' = b /\ wallet' = SyncedWallet(b)
      /\ UNCHANGED <<created, old, stakeSet, failed, repaired>>
    BY DEF SetBestChain, ghosts
<1>2. /\ StateType /\ best \in Blocks
      /\ TxsIn(Branch[best]) \in SUBSET Txs /\ mempool \in SUBSET Txs
      /\ Branch[best] \in SUBSET Blocks
    BY BranchTxs, BranchClosed, TxFacts DEF WalletInv, StateType
<1>3. Valid(b) /\ TxsIn(Branch[b]) \subseteq TxsIn(Branch[best]) \cup TxsIn(Connected(b))
    <2>1. Height[b] > Height[best] /\ Connected(b) = ToConnect(b)
        BY DEF SetBestChain, Better
    <2>2. b \notin Branch[best]
        <3>1. Height[b] \in Nat /\ Height[best] \in Nat
            BY <1>2, TreeAssumption
        <3> QED
            BY <1>2, <2>1, <3>1, BranchHeight
    <2>3. b \in Connected(b)
        BY <2>1, <2>2, BranchClosed DEF ToConnect
    <2>4. Branch[b] \subseteq Branch[best] \cup Connected(b)
        BY <2>1 DEF ToConnect
    <2> QED
        BY <2>3, <2>4 DEF Connected, Valid, TxsIn
<1>4. mempool' \subseteq mempool \cup TxsIn(Branch[best]) /\ mempool' \cap CoinStakes = {}
    <2>1. PICK ts \in SetToSeqs(TxsIn(Disconnected(b)) \ CoinStakes) :
               mempool' = AcceptAll(mempool, ts) \ TxsIn(ToConnect(b))
        BY DEF SetBestChain
    <2>2. TxsIn(Disconnected(b)) \subseteq TxsIn(Branch[best])
        BY DEF Disconnected, TxsIn
    <2> DEFINE T == TxsIn(Disconnected(b)) \ CoinStakes
    <2>3. T \in SUBSET Txs /\ mempool \cap CoinStakes = {}
        BY <1>2, <2>2 DEF StateType
    <2>a. ts \in SetToSeqs(T)
        BY <2>1
    <2> HIDE DEF T
    <2>4. AcceptAll(mempool, ts) \subseteq mempool \cup T /\ AcceptAll(mempool, ts) \cap CoinStakes = {}
        BY <1>2, <2>a, <2>3, AcceptAllBounds
    <2> QED
        BY <2>1, <2>2, <2>4 DEF T
<1>5. /\ Sound(wallet') /\ wallet.txs \subseteq wallet'.txs
      /\ ~repaired => /\ Known(wallet', TxsIn(Branch[best]) \cup mempool \cup TxsIn(Connected(b)))
                      /\ ClosedUp(wallet')
    BY <1>1, ReorgKeepsTxs
<1>6. ~repaired => Known(wallet', TxsIn(Branch[b]) \cup mempool')
    BY <1>3, <1>4, <1>5 DEF Known
<1>7. StateType'
    BY <1>1, <1>2, <1>3, <1>4, <1>5 DEF StateType, Valid
<1>8. ~repaired => stakeSet \subseteq wallet'.txs
    BY <1>5 DEF WalletInv
<1>9. /\ ~failed => Follows(wallet', b)
      /\ ~failed /\ ~repaired => StakesRefunded(wallet', b)
    BY <1>1, <1>3, ReorgFollows
<1> QED
    BY <1>1, <1>5, <1>6, <1>7, <1>8, <1>9 DEF WalletInv

LEMMA SetBestChainFailsKeeps ==
    ASSUME WalletInv, NEW b \in Blocks, SetBestChainFails(b)
    PROVE  WalletInv'
<1>1. /\ index' = index \cup {b} /\ wallet' = SyncedWallet(b) /\ failed' = TRUE
      /\ UNCHANGED <<best, mempool, created, old, stakeSet, repaired>>
    BY DEF SetBestChainFails
<1>2. /\ Sound(wallet') /\ wallet.txs \subseteq wallet'.txs
      /\ ~repaired => /\ Known(wallet', TxsIn(Branch[best]) \cup mempool \cup TxsIn(Connected(b)))
                      /\ ClosedUp(wallet')
    BY <1>1, ReorgKeepsTxs
<1>3. ~repaired => Known(wallet', TxsIn(Branch[best]) \cup mempool) /\ stakeSet \subseteq wallet'.txs
    BY <1>2 DEF Known, WalletInv
<1>4. StateType'
    BY <1>1, <1>2 DEF WalletInv, StateType, Valid
<1> QED
    BY <1>1, <1>2, <1>3, <1>4 DEF WalletInv

LEMMA CrashKeeps ==
    ASSUME WalletInv, NEW b \in Blocks, CrashInSetBestChain(b)
    PROVE  WalletInv'
<1> DEFINE v == SyncedWallet(b)
<1>1. /\ index' = index \cup {b} /\ StartUp(v) /\ failed' = TRUE
    BY DEF CrashInSetBestChain
<1>2. /\ Sound(v)
      /\ ~repaired => /\ Known(v, TxsIn(Branch[best]) \cup mempool \cup TxsIn(Connected(b))) /\ ClosedUp(v)
    BY ReorgKeepsTxs
<1> HIDE DEF v
<1>3. ~repaired => Known(v, TxsIn(Branch[best])) /\ ClosedUp(v)
    BY <1>2 DEF Known
<1>4. /\ mempool' \subseteq Txs \ CoinStakes /\ Sound(wallet') /\ stakeSet' = {}
      /\ UNCHANGED <<best, created, old, repaired>>
      /\ ~repaired => Known(wallet', TxsIn(Branch[best]) \cup mempool') /\ ClosedUp(wallet')
    BY <1>1, <1>2, <1>3, StartUpKeeps
<1>5. StateType'
    BY <1>1, <1>4 DEF WalletInv, StateType, Valid
<1> QED
    BY <1>1, <1>4, <1>5 DEF WalletInv

LEMMA RestartKeeps ==
    ASSUME WalletInv, Restart
    PROVE  WalletInv'
<1>1. StartUp(wallet) /\ UNCHANGED <<index, failed>>
    BY DEF Restart
<1>2. Sound(wallet) /\ (~repaired => Known(wallet, TxsIn(Branch[best])) /\ ClosedUp(wallet))
    BY DEF WalletInv, StateType, Known
<1>3. /\ mempool' \subseteq Txs \ CoinStakes /\ Sound(wallet') /\ stakeSet' = {}
      /\ UNCHANGED <<best, created, old, repaired>>
      /\ ~repaired => Known(wallet', TxsIn(Branch[best]) \cup mempool') /\ ClosedUp(wallet')
      /\ Follows(wallet, best) => wallet' = wallet
    BY <1>1, <1>2, StartUpKeeps
<1>4. StateType'
    BY <1>1, <1>3 DEF WalletInv, StateType, Valid
<1>5. ~failed => wallet' = wallet
    BY <1>3 DEF WalletInv
<1> QED
    BY <1>1, <1>3, <1>4, <1>5 DEF WalletInv

(* Steps that change neither the chain nor the transactions of the wallet. *)
LEMMA OtherKeeps ==
    ASSUME WalletInv, UNCHANGED <<best, mempool, wallet, ghosts>>,
           index \subseteq index' /\ index' \subseteq Blocks,
           created' \subseteq Txs /\ old' \subseteq Txs, stakeSet' = stakeSet \/ stakeSet' \subseteq AvailableCoins
    PROVE  WalletInv'
<1>1. AvailableCoins \subseteq wallet.txs \cap Mine
    BY DEF AvailableCoins
<1>2. stakeSet' \subseteq Mine /\ (~repaired => stakeSet' \subseteq wallet.txs)
    BY <1>1 DEF WalletInv, StateType
<1>3. StateType'
    BY <1>2 DEF WalletInv, StateType, Valid, ghosts
<1> QED
    BY <1>2, <1>3 DEF WalletInv, ghosts

LEMMA ReceiveTxKeeps ==
    ASSUME WalletInv, NEW t \in Txs, ReceiveTx(t)
    PROVE  WalletInv'
<1>1. /\ t \notin CoinStakes /\ t \notin InChain /\ Inputs[t] \subseteq InChain \cup mempool
      /\ mempool' = mempool \cup {t} /\ wallet' = AddToWalletIfInvolvingMe(wallet, t, None)
      /\ UNCHANGED <<index, best, created, old, stakeSet, failed, repaired>>
    BY DEF ReceiveTx, Accepts, ghosts
<1>2. Sound(wallet) /\ best \in Blocks
    BY DEF WalletInv, StateType
<1>3. /\ Grew(wallet, wallet', {t})
      /\ Inputs[t] \cap Mine \subseteq wallet.txs => Has(wallet', {t})
    BY <1>1, <1>2, AddIfInvolved
<1>4. StateType'
    BY <1>1, <1>3 DEF WalletInv, StateType, Grew, Valid
<1>5. ASSUME ~repaired
      PROVE  /\ Known(wallet', TxsIn(Branch[best]) \cup mempool') /\ ClosedUp(wallet')
             /\ stakeSet' \subseteq wallet'.txs
    <2>1. /\ Known(wallet, TxsIn(Branch[best]) \cup mempool) /\ ClosedUp(wallet)
          /\ stakeSet \subseteq wallet.txs
        BY <1>5 DEF WalletInv
    <2>2. Inputs[t] \cap Mine \subseteq wallet.txs
        BY <1>1, <2>1 DEF Known, InChain
    <2>3. Has(wallet', {t})
        BY <1>3, <2>2
    <2>4. Known(wallet', TxsIn(Branch[best]) \cup mempool')
        BY <1>1, <1>3, <2>1, <2>3 DEF Known, Grew, Has
    <2>5. ClosedUp(wallet')
        BY <1>3, <2>1, <2>2 DEF ClosedUp, Grew
    <2> QED
        BY <1>1, <1>3, <2>1, <2>4, <2>5 DEF Grew
<1>6. ASSUME ~failed
      PROVE  Follows(wallet', best)
    <2>1. Follows(wallet, best)
        BY <1>6 DEF WalletInv
    <2>2. ASSUME NEW x \in Branch[best], NEW u \in TxsIn({x}) \cap wallet'.txs
          PROVE  wallet'.hashBlock[u] = x
        <3>1. u \in InChain /\ u \in Txs
            BY <1>2, BranchTxs DEF InChain
        <3>2. u # t /\ u \in wallet.txs /\ wallet'.hashBlock[u] = wallet.hashBlock[u]
            BY <1>1, <1>3, <3>1 DEF Grew
        <3> QED
            BY <2>1, <3>2 DEF Follows, PlacedAll, Placed
    <2> QED
        BY <1>3, <2>1, <2>2 DEF Follows, PlacedAll, Placed, Grew
<1>7. ASSUME ~failed, ~repaired
      PROVE  StakesRefunded(wallet', best)
    <2>1. wallet.spent \subseteq SpentIn(wallet.txs \cap (TxsIn(Branch[best]) \cup (Txs \ CoinStakes)))
        BY <1>7 DEF WalletInv, StakesRefunded
    <2>2. /\ wallet'.spent \subseteq wallet.spent \cup SpentIn(wallet'.txs \cap {t})
          /\ wallet.txs \subseteq wallet'.txs /\ t \in Txs \ CoinStakes
        BY <1>1, <1>3 DEF Grew
    <2> QED
        BY <2>1, <2>2 DEF StakesRefunded, SpentIn
<1> QED
    BY <1>1, <1>4, <1>5, <1>6, <1>7 DEF WalletInv

LEMMA CommitTransactionKeeps ==
    ASSUME WalletInv, NEW t \in Txs, CommitTransaction(t)
    PROVE  WalletInv'
<1>1. /\ t \notin wallet.txs /\ t \notin CoinStakes /\ Inputs[t] # {}
      /\ wallet' = [AddToWallet(wallet, t, None) EXCEPT !.spent = @ \cup Inputs[t]]
      /\ mempool' \subseteq mempool \cup {t} /\ created' = created \cup {t}
      /\ UNCHANGED <<index, best, old, stakeSet, failed, repaired>>
    BY DEF CommitTransaction, ghosts
<1>2. Inputs[t] \subseteq wallet.txs \cap Mine /\ Inputs[t] \cap wallet.spent = {}
    BY DEF CommitTransaction, AvailableCoins
<1>3. Sound(wallet) /\ best \in Blocks /\ wallet.hashBlock \in [Txs -> Blocks \cup {None}]
    BY DEF WalletInv, StateType, Sound, Wallets
<1>4. /\ wallet'.txs = wallet.txs \cup {t} /\ wallet'.spent = wallet.spent \cup Inputs[t]
      /\ wallet'.hashBlock = wallet.hashBlock /\ wallet' \in Wallets
    <2> DEFINE H == [wallet.hashBlock EXCEPT ![t] = IF None = None THEN @ ELSE None]
               S == wallet.spent \cup (Inputs[t] \cap (wallet.txs \cup {t}) \cap Mine)
    <2>1. AddToWallet(wallet, t, None) = [txs |-> wallet.txs \cup {t}, spent |-> S, hashBlock |-> H]
        BY <1>3, AddToWalletValue
    <2>2. H = wallet.hashBlock /\ S \cup Inputs[t] = wallet.spent \cup Inputs[t]
        BY <1>3
    <2> HIDE DEF H, S
    <2>3. wallet' = [txs |-> wallet.txs \cup {t}, spent |-> S \cup Inputs[t], hashBlock |-> H]
        BY <1>1, <2>1
    <2> QED
        BY <1>2, <1>3, <2>2, <2>3 DEF Sound, Wallets
<1>5. Sound(wallet')
    BY <1>2, <1>3, <1>4 DEF Sound
<1>6. StateType'
    BY <1>1, <1>5 DEF WalletInv, StateType, Valid
<1>7. ASSUME ~repaired
      PROVE  /\ Known(wallet', TxsIn(Branch[best]) \cup mempool') /\ ClosedUp(wallet')
             /\ stakeSet' \subseteq wallet'.txs
    BY <1>1, <1>2, <1>4, <1>7 DEF WalletInv, Known, ClosedUp
<1>8. ASSUME ~failed
      PROVE  Follows(wallet', best)
    <2>1. Follows(wallet, best)
        BY <1>8 DEF WalletInv
    <2>2. t \notin TxsIn(Branch[best])
        BY <1>1, <1>2, <2>1 DEF Follows
    <2>3. \A x \in Branch[best] : TxsIn({x}) \subseteq TxsIn(Branch[best])
        BY DEF TxsIn
    <2> QED
        BY <1>4, <2>1, <2>2, <2>3 DEF Follows, PlacedAll, Placed
<1>9. ASSUME ~failed, ~repaired
      PROVE  StakesRefunded(wallet', best)
    BY <1>1, <1>4, <1>9 DEF WalletInv, StakesRefunded, SpentIn
<1> QED
    BY <1>1, <1>6, <1>7, <1>8, <1>9 DEF WalletInv

(* repairwallet erases nothing that is in the chain, and clears no flag    *)
(* that the chain has set.                                                 *)
LEMMA FixSpentCoinsKeeps ==
    ASSUME WalletInv, FixSpentCoins
    PROVE  WalletInv'
<1> DEFINE T == Rejected \cup OrphanedStakes
<1>1. /\ wallet' = EraseFromWallet([wallet EXCEPT !.spent = RepairedFlags], T)
      /\ old' = old \cap wallet'.txs /\ repaired' = TRUE
      /\ UNCHANGED <<index, best, mempool, created, stakeSet, failed>>
    BY DEF FixSpentCoins
<1>2. /\ Sound(wallet) /\ best \in Blocks /\ Valid(best)
      /\ wallet.txs \in SUBSET Txs /\ wallet.spent \in SUBSET Txs
      /\ wallet.hashBlock \in [Txs -> Blocks \cup {None}]
    BY DEF WalletInv, StateType, Sound, Wallets
<1>3. \A t \in T : t \in wallet.txs /\ Depth(t) = 0
    BY DEF Rejected, OrphanedStakes
<1> HIDE DEF T
<1>4. /\ wallet'.txs = wallet.txs \ T /\ wallet'.spent = RepairedFlags \ T
      /\ wallet'.hashBlock = [t \in Txs |-> IF t \in T THEN None ELSE wallet.hashBlock[t]]
      /\ wallet' = [txs |-> wallet.txs \ T, spent |-> RepairedFlags \ T, hashBlock |-> wallet'.hashBlock]
    <2>1. /\ [wallet EXCEPT !.spent = RepairedFlags].txs = wallet.txs
          /\ [wallet EXCEPT !.spent = RepairedFlags].spent = RepairedFlags
          /\ [wallet EXCEPT !.spent = RepairedFlags].hashBlock = wallet.hashBlock
        BY <1>2 DEF Sound, Wallets
    <2> QED
        BY <1>1, <2>1 DEF EraseFromWallet
<1>5. RepairedFlags \subseteq wallet.txs \cap Mine
    BY <1>2 DEF RepairedFlags, Compared, Sound
<1>6. Sound(wallet')
    <2>1. wallet' \in Wallets
        BY <1>2, <1>4, <1>5 DEF Wallets
    <2> QED
        BY <1>2, <1>4, <1>5, <2>1 DEF Sound
<1>7. StateType'
    BY <1>1, <1>6 DEF WalletInv, StateType, Valid
<1>8. ASSUME ~failed
      PROVE  Follows(wallet', best)
    <2>1. Follows(wallet, best)
        BY <1>8 DEF WalletInv
    <2>2. ASSUME NEW x \in Branch[best], NEW t \in TxsIn({x})
          PROVE  t \notin T /\ t \in Txs /\ t \in TxsIn(Branch[best])
        <3>1. t \in Txs /\ t \in TxsIn(Branch[best])
            BY <1>2, <2>2, BranchTxs
        <3>2. SUFFICES ASSUME t \in T PROVE FALSE
            BY <3>1
        <3>3. wallet.hashBlock[t] = x /\ Depth(t) = 0
            BY <1>3, <2>1, <2>2, <3>2 DEF Follows, PlacedAll, Placed
        <3>4. x \in Blocks /\ x # None /\ Height[x] \in Nat /\ Height[best] \in Nat /\ Height[x] <= Height[best]
            BY <1>2, <2>2, BranchInside, BranchHeight, TreeAssumption
        <3>5. Depth(t) = Height[best] - Height[x] + 1
            BY <2>2, <3>3, <3>4 DEF Depth
        <3> QED
            BY <3>3, <3>4, <3>5
    <2>3. \A t \in TxsIn(Branch[best]) : t \notin T /\ t \in Txs
        BY <1>2, <2>2, BranchTxs
    <2>4. ASSUME NEW t \in TxsIn(Branch[best]), NEW o \in Inputs[t] \cap Mine
          PROVE  o \in wallet'.spent
        <3>1. o \in SpentIn(InChain) /\ o \in wallet.spent
            BY <2>1, <2>4 DEF Follows, SpentIn, InChain
        <3>2. o \notin T
            BY <1>2, <2>3, <3>1, ChainInputs DEF InChain
        <3> QED
            BY <1>4, <3>1, <3>2 DEF RepairedFlags
    <2>5. TxsIn(Branch[best]) \cap Mine \subseteq wallet'.txs
        BY <1>4, <2>1, <2>3 DEF Follows
    <2>6. PlacedAll(wallet', Branch[best])
        BY <1>4, <2>1, <2>2 DEF Follows, PlacedAll, Placed
    <2> QED
        BY <2>4, <2>5, <2>6 DEF Follows
<1> QED
    BY <1>1, <1>7, <1>8 DEF WalletInv

LEMMA InitGood == Init => WalletInv
<1> SUFFICES ASSUME Init PROVE WalletInv
    OBVIOUS
<1> DEFINE none == [txs |-> {}, spent |-> {}, hashBlock |-> [t \in Txs |-> None]]
<1>1. /\ index = {Genesis} /\ best = Genesis /\ mempool = {} /\ wallet = SyncConnected(none, Genesis)
      /\ created = {} /\ old = {} /\ stakeSet = {} /\ failed = FALSE /\ repaired = FALSE
    BY DEF Init
<1>2. Sound(none) /\ none.txs = {} /\ none.spent = {}
    BY DEF Sound, Wallets
<1> HIDE DEF none
<1>3. Genesis \in Blocks /\ Branch[Genesis] = {Genesis} /\ Valid(Genesis)
    BY GenesisBranch, WalletAssumption DEF Valid
<1> DEFINE T == TxsIn({Genesis})
<1>4. Available(none, Genesis)
    <2>1. Branch[Genesis] \ {Genesis} = {} /\ TxsIn({}) = {}
        BY <1>3 DEF TxsIn
    <2>2. \A i \in 1 .. Len(TxsOf[Genesis]) :
             Inputs[TxsOf[Genesis][i]] \subseteq TxsIn({}) \cup {TxsOf[Genesis][j] : j \in 1 .. i - 1}
        BY <1>3, <2>1, ChainAssumption DEF Valid
    <2> QED
        BY <2>1, <2>2 DEF Available
<1>5. Grew(none, wallet, T) /\ Placed(wallet, T, Genesis) /\ Has(wallet, T)
    BY <1>1, <1>2, <1>3, <1>4, SyncConnectedEffect
<1>6. TxsIn(Branch[best]) = T /\ Branch[best] = {Genesis}
    BY <1>1, <1>3
<1> HIDE DEF T
<1>7. /\ Sound(wallet) /\ wallet.txs \subseteq T /\ wallet.spent \subseteq wallet.txs
      /\ wallet.spent \subseteq SpentIn(wallet.txs \cap T)
    BY <1>2, <1>5 DEF Grew, Sound
<1>8. StateType
    BY <1>1, <1>3, <1>7 DEF StateType
<1>9. Known(wallet, TxsIn(Branch[best]) \cup mempool) /\ ClosedUp(wallet)
    BY <1>1, <1>5, <1>6, <1>7 DEF Known, ClosedUp, Has
<1>10. Follows(wallet, best)
    BY <1>5, <1>6, <1>7 DEF Follows, Has, PlacedAll, T
<1>11. StakesRefunded(wallet, best)
    BY <1>6, <1>7 DEF StakesRefunded, SpentIn
<1> QED
    BY <1>1, <1>8, <1>9, <1>10, <1>11 DEF WalletInv

LEMMA WalletStep == WalletInv /\ [Next]_vars => WalletInv'
<1> SUFFICES ASSUME WalletInv, [Next]_vars PROVE WalletInv'
    OBVIOUS
<1>0. index \subseteq Blocks /\ created \subseteq Txs /\ old \subseteq Txs /\ wallet.txs \subseteq Txs
    BY DEF WalletInv, StateType, Sound, Wallets
<1>1. ASSUME NEW b \in Blocks, AcceptSideBlock(b) PROVE WalletInv'
    BY <1>0, <1>1, OtherKeeps DEF AcceptSideBlock, ghosts
<1>2. ASSUME NEW b \in Blocks, SetBestChain(b) PROVE WalletInv'
    BY <1>2, SetBestChainKeeps
<1>3. ASSUME NEW b \in Blocks, SetBestChainFails(b) PROVE WalletInv'
    BY <1>3, SetBestChainFailsKeeps
<1>4. ASSUME NEW b \in Blocks, CrashInSetBestChain(b) PROVE WalletInv'
    BY <1>4, CrashKeeps
<1>5. ASSUME NEW t \in Txs, ReceiveTx(t) PROVE WalletInv'
    BY <1>5, ReceiveTxKeeps
<1>6. ASSUME NEW t \in Txs, CommitTransaction(t) PROVE WalletInv'
    BY <1>6, CommitTransactionKeeps
<1>7. CASE Age
    BY <1>0, <1>7, OtherKeeps DEF Age, ghosts
<1>8. CASE SelectStakeCoins
    BY <1>0, <1>8, OtherKeeps DEF SelectStakeCoins, ghosts
<1>9. CASE FixSpentCoins
    BY <1>9, FixSpentCoinsKeeps
<1>10. CASE Restart
    BY <1>10, RestartKeeps
<1>11. CASE UNCHANGED vars
    BY <1>0, <1>11, OtherKeeps DEF vars, ghosts
<1> QED
    BY <1>1, <1>2, <1>3, <1>4, <1>5, <1>6, <1>7, <1>8, <1>9, <1>10, <1>11 DEF Next

-----------------------------------------------------------------------------
(* The theorems.                                                           *)

(* Through every reorganisation, restart, repair and payment: an output of *)
(* ours that the chain has spent is marked (WalletUpdateSpent), and what   *)
(* is in the chain has a depth, unless SetBestChain has failed; and, with  *)
(* no repair either, every mark has a transaction that may still spend the *)
(* output (DisableTransaction).                                            *)
THEOREM WalletAlwaysFollowsChain == Spec => []WalletFollowsChain
<1>1. WalletInv => WalletFollowsChain
    <2> SUFFICES ASSUME WalletInv PROVE WalletFollowsChain
        OBVIOUS
    <2>1. StateType /\ Sound(wallet) /\ best \in Blocks
        BY DEF WalletInv, StateType
    <2>2. TypeOK
        BY <2>1 DEF TypeOK, StateType, Sound, Wallets
    <2>3. ASSUME ~failed PROVE ChainSpendsAreFlagged /\ ConfirmedHasDepth
        <3>1. Follows(wallet, best)
            BY <2>3 DEF WalletInv
        <3>2. ChainSpendsAreFlagged
            BY <3>1 DEF ChainSpendsAreFlagged, Follows, SpentIn, InChain
        <3>3. ASSUME NEW t \in wallet.txs \cap InChain PROVE Depth(t) >= 1
            <4>1. PICK x \in Branch[best] : t \in TxsIn({x})
                BY <2>1, <3>3, BranchTxs DEF InChain
            <4>2. wallet.hashBlock[t] = x
                BY <3>1, <3>3, <4>1 DEF Follows, PlacedAll, Placed
            <4>3. x \in Blocks /\ x # None /\ Height[x] \in Nat /\ Height[best] \in Nat /\ Height[x] <= Height[best]
                BY <2>1, <4>1, BranchInside, BranchHeight, TreeAssumption
            <4>4. Depth(t) = Height[best] - Height[x] + 1
                BY <4>1, <4>2, <4>3 DEF Depth
            <4> QED
                BY <4>3, <4>4
        <3> QED
            BY <3>2, <3>3 DEF ConfirmedHasDepth
    <2>4. ASSUME ~failed, ~repaired PROVE OrphanedStakesRefunded
        BY <2>4 DEF WalletInv, StakesRefunded, OrphanedStakesRefunded, InChain
    <2> QED
        BY <2>2, <2>3, <2>4 DEF WalletFollowsChain
<1> QED
    BY <1>1, InitGood, WalletStep, PTL DEF Spec

(* Until repairwallet is called, and whatever fails or crashes, mapWallet  *)
(* has every transaction of the chain or the pool that concerns it, and    *)
(* setStakeCoins points into it.                                           *)
THEOREM WalletAlwaysKeepsItsTxs == Spec => []WalletKeepsItsTxs
<1>1. WalletInv => WalletKeepsItsTxs
    <2> SUFFICES ASSUME WalletInv, ~repaired PROVE OwnTxsKnown /\ StakeSetValid
        BY DEF WalletKeepsItsTxs
    <2>1. OwnTxsKnown
        BY DEF WalletInv, Known, OwnTxsKnown, IsFromMe, InChain
    <2> QED
        BY <2>1 DEF WalletInv, StakeSetValid
<1> QED
    BY <1>1, InitGood, WalletStep, PTL DEF Spec

(* After a restart (ReacceptWalletTransactions) every output of ours that  *)
(* the chain has spent is marked, whatever a failed SetBestChain did.      *)
THEOREM RestartAlwaysMendsFlags == Spec => RestartMendsFlags
<1>1. WalletInv /\ [Next]_vars =>
         [Restart => wallet'.txs \cap Mine \cap SpentIn(InChain) \subseteq wallet'.spent]_vars
    <2> SUFFICES ASSUME WalletInv, Restart
                 PROVE  wallet'.txs \cap Mine \cap SpentIn(InChain) \subseteq wallet'.spent
        OBVIOUS
    <2>1. Sound(wallet) /\ best \in Blocks /\ Valid(best) /\ wallet' = Reaccepted(wallet)
        BY DEF WalletInv, StateType, Restart, StartUp
    <2> QED
        BY <2>1, ReacceptedEffect
<1> QED
    BY <1>1, InitGood, WalletStep, PTL DEF Spec, RestartMendsFlags
=============================================================================
