-------------------------- MODULE BlockTreeProofs ---------------------------
(***************************************************************************)
(* Facts about the branches of the block tree, for every tree.             *)
(***************************************************************************)
EXTENDS BlockTree, WellFoundedInduction, TLAPS

(* Every non-empty set of natural numbers has a least element. *)
LEMMA LeastNat ==
    ASSUME NEW T \in SUBSET Nat, T # {}
    PROVE  \E m \in T : \A n \in T : m <= n
<1>1. PICK m \in T : \A n \in T : ~(<<n, m>> \in OpToRel(<, Nat))
    BY NatLessThanWellFounded, WFMin
<1>2. \A n \in T : ~(n < m)
    BY <1>1 DEF OpToRel
<1>3. \A n \in T : m <= n
    BY <1>2, SMT
<1> QED
    BY <1>3

-----------------------------------------------------------------------------
(* The branches of the block tree *)

(* A branch holds its tip, and with a block the block's parent. *)
LEMMA BranchClosed ==
    ASSUME NEW b \in Blocks
    PROVE  /\ Branch[b] \in SUBSET Blocks
           /\ b \in Branch[b]
           /\ \A x \in Branch[b] : x # Genesis => Prev[x] \in Branch[b]
<1>1. Branch[b] \in SUBSET Blocks /\ b \in Branch[b]
    BY DEF Branch
<1>2. ASSUME NEW x \in Branch[b], x # Genesis
      PROVE  Prev[x] \in Branch[b]
    <2>1. x \in Blocks /\ Prev[x] \in Blocks
        BY <1>1, <1>2, TreeAssumption
    <2>2. ASSUME NEW S \in SUBSET Blocks, b \in S, Closed(S)
          PROVE  Prev[x] \in S
        <3>1. x \in S
            BY <2>2 DEF Branch
        <3> QED
            BY <3>1, <2>2, <1>2 DEF Closed
    <2> QED
        BY <2>1, <2>2 DEF Branch
<1> QED
    BY <1>1, <1>2

(* A branch is inside every closed set that holds its tip. *)
LEMMA BranchLeast ==
    ASSUME NEW b \in Blocks, NEW S \in SUBSET Blocks, b \in S, Closed(S)
    PROVE  Branch[b] \subseteq S
BY DEF Branch

(* A branch is its tip and the branch of the tip's parent. *)
LEMMA BranchStep ==
    ASSUME NEW b \in Blocks \ {Genesis}
    PROVE  Prev[b] \in Blocks /\ Branch[b] = {b} \cup Branch[Prev[b]]
<1>1. Prev[b] \in Blocks
    BY TreeAssumption
<1>2. Closed(Branch[b]) /\ Prev[b] \in Branch[b] /\ b \in Branch[b]
    BY BranchClosed DEF Closed
<1>3. Branch[Prev[b]] \subseteq Branch[b]
    BY <1>1, <1>2, BranchLeast, BranchClosed
<1>4. {b} \cup Branch[Prev[b]] \in SUBSET Blocks
    BY <1>1, BranchClosed
<1>5. Closed({b} \cup Branch[Prev[b]])
    BY <1>1, BranchClosed DEF Closed
<1>6. Branch[b] \subseteq {b} \cup Branch[Prev[b]]
    BY <1>4, <1>5, BranchLeast
<1> QED
    BY <1>1, <1>2, <1>3, <1>6

(* Heights grow along a branch. *)
LEMMA BranchHeight ==
    ASSUME NEW b \in Blocks, NEW x \in Branch[b]
    PROVE  Height[x] <= Height[b]
<1> DEFINE S == {y \in Blocks : Height[y] <= Height[b]}
<1>1. b \in S
    BY TreeAssumption
<1>2. ASSUME NEW y \in S, y # Genesis
      PROVE  Prev[y] \in S
    <2>1. Prev[y] \in Blocks /\ Height[y] = Height[Prev[y]] + 1
        BY <1>2, TreeAssumption
    <2>2. Height[y] <= Height[b] /\ Height[b] \in Nat /\ Height[Prev[y]] \in Nat
        BY <2>1, TreeAssumption
    <2> QED
        BY <2>1, <2>2
<1>3. Closed(S)
    BY <1>2 DEF Closed
<1> QED
    BY <1>1, <1>3, BranchLeast

(* No block is below its own parent. *)
LEMMA BranchIrreflexive ==
    ASSUME NEW b \in Blocks \ {Genesis}
    PROVE  b \notin Branch[Prev[b]]
<1>1. Prev[b] \in Blocks /\ Height[b] = Height[Prev[b]] + 1 /\ Height[Prev[b]] \in Nat
    BY TreeAssumption
<1> QED
    BY <1>1, BranchHeight

(* Every branch starts at Genesis. *)
LEMMA GenesisInBranch ==
    ASSUME NEW b \in Blocks
    PROVE  Genesis \in Branch[b]
<1> DEFINE Bad == {c \in Blocks : Genesis \notin Branch[c]}
           T == {Height[c] : c \in Bad}
<1>1. SUFFICES ASSUME Bad # {} PROVE FALSE
    OBVIOUS
<1>2. T \in SUBSET Nat /\ T # {}
    BY <1>1, TreeAssumption
<1>3. PICK m \in T : \A n \in T : m <= n
    BY <1>2, LeastNat
<1>4. PICK c \in Bad : Height[c] = m
    BY <1>3
<1>5. c # Genesis
    BY BranchClosed, TreeAssumption
<1>6. Prev[c] \in Blocks /\ Height[c] = Height[Prev[c]] + 1 /\ Height[Prev[c]] \in Nat
    BY <1>5, TreeAssumption
<1>7. Prev[c] \notin Bad
    BY <1>3, <1>4, <1>6
<1>8. Branch[c] = {c} \cup Branch[Prev[c]]
    BY <1>5, BranchStep
<1> QED
    BY <1>6, <1>7, <1>8

(* Two blocks that are on each other's branch are the same. *)
LEMMA BranchAntisymmetric ==
    ASSUME NEW b \in Blocks, NEW c \in Blocks, b \in Branch[c], c \in Branch[b]
    PROVE  b = c
<1>1. SUFFICES ASSUME b # c PROVE FALSE
    OBVIOUS
<1>2. CASE c = Genesis
    <2>1. Closed({Genesis})
        BY DEF Closed
    <2> QED
        BY <1>1, <1>2, <2>1, BranchLeast, TreeAssumption
<1>3. CASE c # Genesis
    <2>1. b \in Branch[Prev[c]] /\ Prev[c] \in Blocks
        BY <1>1, <1>3, BranchStep
    <2>2. Height[b] <= Height[Prev[c]] /\ Height[c] <= Height[b]
        BY <2>1, BranchHeight
    <2> QED
        BY <2>1, <2>2, <1>3, TreeAssumption
<1> QED
    BY <1>2, <1>3

(* From a block below the tip of a branch, the branch goes on.             *)
LEMMA BranchGoesOn ==
    ASSUME NEW b \in Blocks, NEW x \in Branch[b], x # b
    PROVE  \E c \in Branch[b] : c # Genesis /\ Prev[c] = x
<1>1. SUFFICES ASSUME \A c \in Branch[b] : c # Genesis => Prev[c] # x
               PROVE  FALSE
    OBVIOUS
<1> DEFINE S == Branch[b] \ {x}
<1>2. S \in SUBSET Blocks /\ b \in S
    BY BranchClosed
<1>3. Closed(S)
    BY <1>1, BranchClosed DEF Closed
<1>4. Branch[b] \subseteq S
    BY <1>2, <1>3, BranchLeast
<1> QED
    BY <1>4
-----------------------------------------------------------------------------
(* Induction and recursion along pprev *)

(* A set with Genesis, and with every block whose parent it has, has every *)
(* block.                                                                  *)
LEMMA TreeInduction ==
    ASSUME NEW S, Genesis \in S,
           \A b \in Blocks \ {Genesis} : Prev[b] \in S => b \in S
    PROVE  \A b \in Blocks : b \in S
<1> DEFINE Bad == Blocks \ S
           T == {Height[c] : c \in Bad}
<1>1. SUFFICES ASSUME Bad # {} PROVE FALSE
    OBVIOUS
<1>2. T \in SUBSET Nat /\ T # {}
    BY <1>1, TreeAssumption
<1>3. PICK m \in T : \A n \in T : m <= n
    BY <1>2, LeastNat
<1>4. PICK c \in Bad : Height[c] = m
    BY <1>3
<1>5. c \in Blocks \ {Genesis}
    BY <1>4
<1>6. Prev[c] \in Bad
    BY <1>4, <1>5, TreeAssumption
<1>7. Height[Prev[c]] \in T /\ Height[c] = Height[Prev[c]] + 1 /\ Height[Prev[c]] \in Nat
    BY <1>5, <1>6, TreeAssumption
<1> HIDE DEF T, Bad
<1> QED
    BY <1>3, <1>4, <1>7

(* f has first at Genesis and computes a block's value from its parent's.  *)
FollowsTree(f, V, first, step) ==
    /\ f \in [Blocks -> V]
    /\ \A b \in Blocks : f[b] = IF b = Genesis THEN first ELSE step[<<b, f[Prev[b]]>>]

(* There is such a function, whatever is computed.  R is the least         *)
(* relation that the two rules generate.                                   *)
LEMMA TreeRecursion ==
    ASSUME NEW V, NEW first \in V, NEW step \in [Blocks \X V -> V]
    PROVE  \E f : FollowsTree(f, V, first, step)
<1> DEFINE Pairs == Blocks \X V
           Good(S) == /\ <<Genesis, first>> \in S
                      /\ \A b \in Blocks \ {Genesis} : \A v \in V :
                            <<Prev[b], v>> \in S => <<b, step[<<b, v>>]>> \in S
           R == {p \in Pairs : \A S \in SUBSET Pairs : Good(S) => p \in S}
           Came(b, v) == IF b = Genesis THEN v = first
                         ELSE \E w \in V : <<Prev[b], w>> \in R /\ v = step[<<b, w>>]
<1>1. Genesis \in Blocks /\ \A b \in Blocks \ {Genesis} : Prev[b] \in Blocks
    BY TreeAssumption
<1>2. \A b \in Blocks : \A v \in V : step[<<b, v>>] \in V
    OBVIOUS
<1>3. Good(R)
    <2>1. <<Genesis, first>> \in R
        BY <1>1
    <2>2. ASSUME NEW b \in Blocks \ {Genesis}, NEW v \in V, <<Prev[b], v>> \in R
          PROVE  <<b, step[<<b, v>>]>> \in R
        <3>1. <<b, step[<<b, v>>]>> \in Pairs
            BY <1>2
        <3>2. ASSUME NEW S \in SUBSET Pairs, Good(S)
              PROVE  <<b, step[<<b, v>>]>> \in S
            <4>1. <<Prev[b], v>> \in S
                BY <2>2, <3>2
            <4> QED
                BY <4>1, <3>2
        <3> HIDE DEF Good
        <3> QED
            BY <3>1, <3>2
    <2> QED
        BY <2>1, <2>2
<1>4. ASSUME NEW b \in Blocks, NEW v \in V, <<b, v>> \in R
      PROVE  Came(b, v)
    <2> DEFINE S == {p \in R : Came(p[1], p[2])}
    <2>1. S \in SUBSET Pairs
        OBVIOUS
    <2>2. <<Genesis, first>> \in S
        BY <1>3
    <2>3. ASSUME NEW c \in Blocks \ {Genesis}, NEW w \in V, <<Prev[c], w>> \in S
          PROVE  <<c, step[<<c, w>>]>> \in S
        <3>1. <<Prev[c], w>> \in R
            BY <2>3
        <3>2. <<c, step[<<c, w>>]>> \in R
            BY <3>1, <1>3
        <3>3. Came(c, step[<<c, w>>])
            BY <3>1
        <3> QED
            BY <3>2, <3>3
    <2>4. Good(S)
        BY <2>2, <2>3
    <2>5. <<b, v>> \in S
        BY <1>4, <2>1, <2>4
    <2> QED
        BY <2>5
<1>r. /\ <<Genesis, first>> \in R
      /\ \A b \in Blocks \ {Genesis} : \A v \in V :
            <<Prev[b], v>> \in R => <<b, step[<<b, v>>]>> \in R
    BY <1>3
<1>c. \A b \in Blocks : \A v \in V : <<b, v>> \in R => Came(b, v)
    BY <1>4
<1> HIDE DEF R
<1> DEFINE One(b) == \E v \in V : <<b, v>> \in R /\ \A w \in V : <<b, w>> \in R => w = v
           All == {b \in Blocks : One(b)}
<1>5. \A b \in Blocks : b \in All
    <2>1. Genesis \in All
        BY <1>1, <1>r, <1>c
    <2>2. ASSUME NEW c \in Blocks \ {Genesis}, Prev[c] \in All
          PROVE  c \in All
        <3>1. PICK v \in V : <<Prev[c], v>> \in R /\ \A w \in V : <<Prev[c], w>> \in R => w = v
            BY <2>2
        <3>2. <<c, step[<<c, v>>]>> \in R /\ step[<<c, v>>] \in V
            BY <1>2, <1>r, <3>1
        <3>3. ASSUME NEW w \in V, <<c, w>> \in R
              PROVE  w = step[<<c, v>>]
            BY <1>c, <3>1, <3>3
        <3> QED
            BY <3>2, <3>3
    <2> HIDE DEF All
    <2> QED
        BY <2>1, <2>2, TreeInduction
<1> DEFINE f == [b \in Blocks |-> CHOOSE v \in V : <<b, v>> \in R]
<1>6. ASSUME NEW b \in Blocks
      PROVE  f[b] \in V /\ <<b, f[b]>> \in R /\ \A w \in V : <<b, w>> \in R => w = f[b]
    BY <1>5
<1>7. f \in [Blocks -> V]
    <2> DEFINE pick(b) == CHOOSE v \in V : <<b, v>> \in R
    <2>1. \A b \in Blocks : pick(b) \in V
        BY <1>6
    <2> HIDE DEF pick
    <2>2. [b \in Blocks |-> pick(b)] \in [Blocks -> V]
        BY <2>1
    <2> QED
        BY <2>2 DEF pick
<1> HIDE DEF f
<1>8. ASSUME NEW b \in Blocks
      PROVE  f[b] = IF b = Genesis THEN first ELSE step[<<b, f[Prev[b]]>>]
    <2>1. CASE b = Genesis
        BY <1>r, <1>6, <2>1
    <2>2. CASE b # Genesis
        <3>1. f[Prev[b]] \in V /\ <<Prev[b], f[Prev[b]]>> \in R
            BY <1>1, <1>6, <2>2
        <3>2. <<b, step[<<b, f[Prev[b]]>>]>> \in R /\ step[<<b, f[Prev[b]]>>] \in V
            BY <3>1, <2>2, <1>r, <1>2
        <3> QED
            BY <3>2, <1>6, <2>2
    <2> QED
        BY <2>1, <2>2
<1> QED
    BY <1>7, <1>8 DEF FollowsTree
=============================================================================
