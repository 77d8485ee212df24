-------------------------- MODULE ChainStateProofs --------------------------
(***************************************************************************)
(* Proofs about ChainState, for every block tree, every set of             *)
(* transactions and any number of restarts.  The index describes the chain *)
(* of its best block.  The chain state implements the ledger: each commit  *)
(* moves to a heavier chain, and what it leaves is the ledger of that      *)
(* chain.  And the committed index depends on the best block alone:        *)
(* DisconnectBlock undoes ConnectBlock exactly, so no route of             *)
(* reorganisations leaves a trace.  From that: which chain a node ends on, *)
(* which orphans it keeps, and which transactions it may lose.             *)
(***************************************************************************)
EXTENDS ChainRefinement, BlockTreeProofs, SequenceTheorems, TLAPS

-----------------------------------------------------------------------------
(* ConnectBlock and DisconnectBlock *)

(* What the transactions of a block are. *)
LEMMA TxsOfType ==
    ASSUME NEW b \in Blocks
    PROVE  /\ TxsOf(b) \in SUBSET Txs
           /\ DOMAIN Vtx[b] \in SUBSET Nat
           /\ \A i \in DOMAIN Vtx[b] : /\ Vtx[b][i] \in TxsOf(b)
                                       /\ Earlier(b, i) \subseteq TxsOf(b)
<1>1. Vtx[b] \in Seq(Txs)
    BY TxAssumption
<1> QED
    BY <1>1 DEF TxsOf, Earlier

(* No transaction of a block that passes ConnectBlock on top of a          *)
(* consistent view is indexed already: BIP30's exception for fully spent   *)
(* transactions is never taken, because an indexed transaction has its     *)
(* inputs marked spent and a coinbase names its height.                    *)
LEMMA ConnectFresh ==
    ASSUME NEW v \in View, ViewOK(v),
           NEW b \in Blocks \ {Genesis}, Prev[b] = v.best, Connectable(b, v)
    PROVE  \A t \in TxsOf(b) : v.pos[t] = None
<1> DEFINE I == {i \in DOMAIN Vtx[b] : v.pos[Vtx[b][i]] # None}
<1>1. SUFFICES ASSUME I # {} PROVE FALSE
    BY DEF TxsOf
<1>2. I \in SUBSET Nat
    BY TxsOfType
<1>3. PICK m \in I : \A n \in I : m <= n
    BY <1>1, <1>2, LeastNat
<1> DEFINE t == Vtx[b][m]
           c == v.pos[t]
<1>4. t \in TxsOf(b) /\ t \in Txs /\ m \in DOMAIN Vtx[b] /\ m \in Nat
    BY <1>2, TxsOfType
<1>5. c # None /\ c \in Branch[v.best] /\ t \in TxsOf(c) /\ v.best \in Blocks
    BY <1>4 DEF ViewOK, PosOK, View
<1>6. CASE Vin[t] = {}
    <2>1. c \in Blocks /\ Height[c] <= Height[v.best]
        BY <1>5, BranchClosed, BranchHeight
    <2>2. Height[b] = Height[c]
        BY <1>4, <1>5, <1>6, <2>1, CoinbaseHeightAssumption
    <2> QED
        BY <2>1, <2>2, <1>5, TreeAssumption, TrustAssumption
<1>7. CASE Vin[t] # {}
    <2>1. PICK o \in Vin[t] : TRUE
        BY <1>7
    <2>2. v.spent[o] = t /\ v.pos[OutTx[o]] # None /\ t # None
        BY <1>4, <1>5, TreeAssumption, TrustAssumption DEF ViewOK, SpentOK
    <2>3. InputOK(b, m, o, v)
        BY <1>4 DEF Connectable
    <2>4. OutTx[o] \in Earlier(b, m)
        BY <2>2, <2>3 DEF InputOK
    <2>5. PICK k \in DOMAIN Vtx[b] : k < m /\ OutTx[o] = Vtx[b][k]
        BY <2>4 DEF Earlier
    <2>6. k \in I /\ k \in Nat
        BY <2>2, <2>5, TxsOfType
    <2> QED
        BY <2>5, <2>6, <1>3, <1>4
<1> QED
    BY <1>6, <1>7

(* In a block that passes ConnectBlock an output is spent at most once.    *)
LEMMA ConnectSpendsOnce ==
    ASSUME NEW v \in View, NEW b \in Blocks, Connectable(b, v),
           NEW o \in OutPoints, NEW s \in Spends(b, o), NEW t \in Spends(b, o)
    PROVE  s = t
<1>1. PICK i \in DOMAIN Vtx[b] : s = Vtx[b][i]
    BY DEF Spends, TxsOf
<1>2. PICK j \in DOMAIN Vtx[b] : t = Vtx[b][j]
    BY DEF Spends, TxsOf
<1>3. i \in Nat /\ j \in Nat
    BY TxsOfType
<1>4. ~(i < j) /\ ~(j < i)
    BY <1>1, <1>2 DEF Connectable, InputOK, Earlier, Spends
<1> QED
    BY <1>1, <1>2, <1>3, <1>4

(* ConnectBlock keeps a view consistent. *)
LEMMA ConnectOK ==
    ASSUME NEW v \in View, ViewOK(v),
           NEW b \in Blocks \ {Genesis}, Prev[b] = v.best, Connectable(b, v)
    PROVE  Connect(b, v, None) \in View /\ ViewOK(Connect(b, v, None))
<1> DEFINE w == Connect(b, v, None)
<1>0. /\ v.best \in Blocks
      /\ v.next \in [Blocks -> Blocks \cup {None}]
      /\ v.pos \in [Txs -> Blocks \cup {None}]
      /\ v.spent \in [OutPoints -> Txs \cup {None}]
    BY DEF View
<1>1. /\ w.best = b
      /\ w.next = [v.next EXCEPT ![b] = None, ![v.best] = b]
      /\ w.pos = [t \in Txs |-> IF t \in TxsOf(b) THEN b ELSE v.pos[t]]
      /\ w.spent = [o \in OutPoints |->
                      IF Spends(b, o) # {} THEN CHOOSE t \in Spends(b, o) : TRUE
                      ELSE IF OutTx[o] \in TxsOf(b) THEN None
                      ELSE v.spent[o]]
    BY DEF Connect
<1>2. Branch[b] = {b} \cup Branch[v.best] /\ b \notin Branch[v.best] /\ b # v.best
    BY BranchStep, BranchIrreflexive, BranchClosed
<1>3. \A t \in TxsOf(b) : v.pos[t] = None
    BY ConnectFresh
<1>4. TxsOf(b) \in SUBSET Txs
    BY TxsOfType
<1>5. \A o \in OutPoints : Spends(b, o) # {} =>
          w.spent[o] \in Spends(b, o) /\ w.spent[o] \in Txs
    BY <1>1, <1>4 DEF Spends
<1>6. w \in View
    <2>1. w.next \in [Blocks -> Blocks \cup {None}]
        BY <1>0, <1>1
    <2>2. w.pos \in [Txs -> Blocks \cup {None}]
        BY <1>0, <1>1
    <2>3. w.spent \in [OutPoints -> Txs \cup {None}]
        BY <1>0, <1>1, <1>5
    <2> QED
        BY <2>1, <2>2, <2>3 DEF View, Connect
<1>7. ChainOK(w.next, w.best)
    <2>1. ASSUME NEW y \in Branch[b] \ {Genesis}
          PROVE  w.next[Prev[y]] = y
        <3>1. CASE y = b
            BY <3>1, <1>0, <1>1
        <3>2. CASE y # b
            <4>1. y \in Branch[v.best] /\ Prev[y] \in Branch[v.best] /\ y \in Blocks
                BY <3>2, <1>0, <1>2, <2>1, BranchClosed
            <4>2. v.next[Prev[y]] = y
                BY <4>1, <2>1 DEF ViewOK, ChainOK
            <4>3. Height[y] = Height[Prev[y]] + 1 /\ Height[y] <= Height[v.best]
                BY <4>1, <2>1, <1>0, TreeAssumption, TrustAssumption, BranchHeight
            <4>4. Prev[y] # v.best
                BY <4>3, <1>0, TreeAssumption, TrustAssumption
            <4>5. Prev[y] # b /\ Prev[y] \in Blocks
                BY <4>1, <1>0, <1>2, BranchClosed
            <4> QED
                BY <4>2, <4>4, <4>5, <1>0, <1>1
        <3> QED
            BY <3>1, <3>2
    <2>2. ASSUME NEW x \in Blocks, w.next[x] # None
          PROVE  w.next[x] \in Branch[b] \ {Genesis} /\ Prev[w.next[x]] = x
        <3>1. CASE x = v.best
            BY <3>1, <1>0, <1>1, <1>2
        <3>2. CASE x # v.best
            <4>1. x # b /\ w.next[x] = v.next[x]
                BY <3>2, <2>2, <1>0, <1>1
            <4> QED
                BY <4>1, <2>2, <1>2 DEF ViewOK, ChainOK
        <3> QED
            BY <3>1, <3>2
    <2> QED
        BY <2>1, <2>2, <1>1 DEF ChainOK
<1>8. PosOK(w)
    <2>1. ASSUME NEW c \in Branch[b], NEW t \in TxsOf(c)
          PROVE  w.pos[t] = c
        <3>1. CASE c = b
            BY <3>1, <1>1, <1>4
        <3>2. CASE c # b
            <4>1. c \in Branch[v.best] /\ c \in Blocks /\ c # None
                BY <3>2, <1>0, <1>2, BranchClosed, TreeAssumption, TrustAssumption
            <4>2. t \in Txs /\ v.pos[t] = c
                BY <4>1, TxsOfType DEF ViewOK, PosOK
            <4>3. t \notin TxsOf(b)
                BY <4>1, <4>2, <1>3
            <4> QED
                BY <4>2, <4>3, <1>1
        <3> QED
            BY <3>1, <3>2
    <2>2. ASSUME NEW t \in Txs, w.pos[t] # None
          PROVE  w.pos[t] \in Branch[b] /\ t \in TxsOf(w.pos[t])
        BY <2>2, <1>1, <1>2 DEF ViewOK, PosOK
    <2> QED
        BY <2>1, <2>2, <1>1 DEF PosOK
<1>9. SpentOK(w)
    <2>1. ASSUME NEW o \in OutPoints, w.spent[o] # None
          PROVE  w.pos[w.spent[o]] # None /\ o \in Vin[w.spent[o]]
        <3>1. CASE Spends(b, o) # {}
            <4>1. w.spent[o] \in TxsOf(b) /\ o \in Vin[w.spent[o]] /\ w.spent[o] \in Txs
                BY <3>1, <1>5 DEF Spends
            <4> QED
                BY <4>1, <1>1, TreeAssumption, TrustAssumption
        <3>2. CASE Spends(b, o) = {}
            <4>1. w.spent[o] = v.spent[o] /\ v.spent[o] \in Txs
                BY <3>2, <2>1, <1>0, <1>1
            <4>2. v.pos[v.spent[o]] # None /\ o \in Vin[v.spent[o]]
                BY <4>1, <2>1 DEF ViewOK, SpentOK
            <4> QED
                BY <4>1, <4>2, <1>1, <1>3
        <3> QED
            BY <3>1, <3>2
    <2>2. ASSUME NEW t \in Txs, w.pos[t] # None, NEW o \in Vin[t]
          PROVE  /\ w.spent[o] = t
                 /\ w.pos[OutTx[o]] # None
                 /\ Height[w.pos[OutTx[o]]] <= Height[w.pos[t]]
        <3>0. o \in OutPoints /\ OutTx[o] \in Txs
            BY TxAssumption
        <3>1. CASE t \in TxsOf(b)
            <4>1. t \in Spends(b, o)
                BY <3>1 DEF Spends
            <4>2. w.spent[o] = t
                BY <4>1, <3>0, <1>5, ConnectSpendsOnce
            <4>3. PICK i \in DOMAIN Vtx[b] : t = Vtx[b][i]
                BY <3>1 DEF TxsOf
            <4>4. InputOK(b, i, o, v)
                BY <4>3 DEF Connectable
            <4>5. OutTx[o] \in TxsOf(b) \/ v.pos[OutTx[o]] # None
                BY <4>4, TxsOfType DEF InputOK
            <4>6. w.pos[t] = b
                BY <3>1, <1>1
            <4>7. CASE OutTx[o] \in TxsOf(b)
                <5>1. w.pos[OutTx[o]] = b
                    BY <4>7, <3>0, <1>1
                <5> QED
                    BY <5>1, <4>2, <4>6, TreeAssumption, TrustAssumption
            <4>8. CASE OutTx[o] \notin TxsOf(b)
                <5>1. w.pos[OutTx[o]] = v.pos[OutTx[o]] /\ v.pos[OutTx[o]] # None
                    BY <4>5, <4>8, <3>0, <1>1
                <5>2. v.pos[OutTx[o]] \in Branch[b]
                    BY <5>1, <3>0, <1>2 DEF ViewOK, PosOK
                <5>3. Height[v.pos[OutTx[o]]] <= Height[b]
                    BY <5>2, BranchHeight
                <5> QED
                    BY <5>1, <5>3, <4>2, <4>6
            <4> QED
                BY <4>7, <4>8
        <3>2. CASE t \notin TxsOf(b)
            <4>1. w.pos[t] = v.pos[t] /\ v.pos[t] # None
                BY <3>2, <2>2, <1>1
            <4>2. /\ v.spent[o] = t /\ v.pos[OutTx[o]] # None
                  /\ Height[v.pos[OutTx[o]]] <= Height[v.pos[t]]
                BY <4>1 DEF ViewOK, SpentOK
            <4>3. OutTx[o] \notin TxsOf(b)
                BY <4>2, <1>3
            <4>4. Spends(b, o) = {}
                <5>1. SUFFICES ASSUME NEW s \in Spends(b, o) PROVE FALSE
                    OBVIOUS
                <5>2. PICK i \in DOMAIN Vtx[b] : s = Vtx[b][i] /\ o \in Vin[Vtx[b][i]]
                    BY DEF Spends, TxsOf
                <5>3. InputOK(b, i, o, v)
                    BY <5>2 DEF Connectable
                <5> QED
                    BY <5>3, <4>2, <4>3, TxsOfType, TreeAssumption, TrustAssumption DEF InputOK
            <4> QED
                BY <4>1, <4>2, <4>3, <4>4, <3>0, <1>1
        <3> QED
            BY <3>1, <3>2
    <2> QED
        BY <2>1, <2>2 DEF SpentOK
<1> QED
    BY <1>6, <1>7, <1>8, <1>9 DEF ViewOK

(* DisconnectBlock of the tip keeps a view consistent. *)
LEMMA DisconnectOK ==
    ASSUME NEW v \in View, ViewOK(v), v.best # Genesis
    PROVE  Disconnect(v.best, v) \in View /\ ViewOK(Disconnect(v.best, v))
<1> DEFINE b == v.best
           w == Disconnect(b, v)
<1>0. /\ b \in Blocks \ {Genesis}
      /\ v.next \in [Blocks -> Blocks \cup {None}]
      /\ v.pos \in [Txs -> Blocks \cup {None}]
      /\ v.spent \in [OutPoints -> Txs \cup {None}]
    BY DEF View
<1>1. /\ w.best = Prev[b]
      /\ w.next = [v.next EXCEPT ![Prev[b]] = None]
      /\ w.pos = [t \in Txs |-> IF t \in TxsOf(b) THEN None ELSE v.pos[t]]
      /\ w.spent = [o \in OutPoints |->
                      IF Spends(b, o) # {} \/ OutTx[o] \in TxsOf(b) THEN None
                      ELSE v.spent[o]]
    BY DEF Disconnect
<1>2. /\ Prev[b] \in Blocks /\ Branch[b] = {b} \cup Branch[Prev[b]]
      /\ b \notin Branch[Prev[b]] /\ b # None
    BY <1>0, BranchStep, BranchIrreflexive, TreeAssumption, TrustAssumption
<1>3. \A t \in TxsOf(b) : t \in Txs /\ v.pos[t] = b
    BY <1>0, <1>2, TxsOfType DEF ViewOK, PosOK
<1>4. w \in View
    BY <1>0, <1>2 DEF View, Disconnect
<1>5. ChainOK(w.next, w.best)
    <2>1. ASSUME NEW y \in Branch[Prev[b]] \ {Genesis}
          PROVE  w.next[Prev[y]] = y
        <3>1. v.next[Prev[y]] = y /\ v.next[Prev[b]] = b
            BY <1>0, <1>2, <2>1 DEF ViewOK, ChainOK
        <3>2. Prev[y] # Prev[b]
            BY <3>1, <1>2
        <3> QED
            BY <3>1, <3>2, <1>0, <1>1
    <2>2. ASSUME NEW x \in Blocks, w.next[x] # None
          PROVE  w.next[x] \in Branch[Prev[b]] \ {Genesis} /\ Prev[w.next[x]] = x
        <3>1. x # Prev[b] /\ w.next[x] = v.next[x]
            BY <2>2, <1>0, <1>1
        <3> QED
            BY <3>1, <2>2, <1>2 DEF ViewOK, ChainOK
    <2> QED
        BY <2>1, <2>2, <1>1 DEF ChainOK
<1>6. PosOK(w)
    <2>1. ASSUME NEW c \in Branch[Prev[b]], NEW t \in TxsOf(c)
          PROVE  w.pos[t] = c
        <3>1. v.pos[t] = c /\ c # b /\ t \in Txs
            BY <2>1, <1>2, BranchClosed, TxsOfType DEF ViewOK, PosOK
        <3> QED
            BY <3>1, <1>1, <1>3
    <2>2. ASSUME NEW t \in Txs, w.pos[t] # None
          PROVE  w.pos[t] \in Branch[Prev[b]] /\ t \in TxsOf(w.pos[t])
        <3>1. t \notin TxsOf(b) /\ w.pos[t] = v.pos[t]
            BY <2>2, <1>1
        <3> QED
            BY <3>1, <2>2, <1>2 DEF ViewOK, PosOK
    <2> QED
        BY <2>1, <2>2, <1>1 DEF PosOK
<1>7. SpentOK(w)
    <2>1. ASSUME NEW o \in OutPoints, w.spent[o] # None
          PROVE  w.pos[w.spent[o]] # None /\ o \in Vin[w.spent[o]]
        <3>1. Spends(b, o) = {} /\ w.spent[o] = v.spent[o] /\ v.spent[o] \in Txs
            BY <2>1, <1>0, <1>1
        <3>2. v.pos[v.spent[o]] # None /\ o \in Vin[v.spent[o]]
            BY <3>1, <2>1 DEF ViewOK, SpentOK
        <3>3. v.spent[o] \notin TxsOf(b)
            BY <3>1, <3>2 DEF Spends
        <3> QED
            BY <3>1, <3>2, <3>3, <1>1
    <2>2. ASSUME NEW t \in Txs, w.pos[t] # None, NEW o \in Vin[t]
          PROVE  /\ w.spent[o] = t
                 /\ w.pos[OutTx[o]] # None
                 /\ Height[w.pos[OutTx[o]]] <= Height[w.pos[t]]
        <3>0. o \in OutPoints /\ OutTx[o] \in Txs
            BY TxAssumption
        <3>1. t \notin TxsOf(b) /\ w.pos[t] = v.pos[t] /\ v.pos[t] # None
            BY <2>2, <1>1
        <3>2. /\ v.spent[o] = t /\ v.pos[OutTx[o]] # None
              /\ Height[v.pos[OutTx[o]]] <= Height[v.pos[t]]
            BY <3>1 DEF ViewOK, SpentOK
        <3>3. Spends(b, o) = {}
            <4>1. SUFFICES ASSUME NEW s \in Spends(b, o) PROVE FALSE
                OBVIOUS
            <4>2. s \in TxsOf(b) /\ o \in Vin[s]
                BY DEF Spends
            <4>3. v.spent[o] = s
                BY <4>2, <1>2, <1>3 DEF ViewOK, SpentOK
            <4> QED
                BY <4>2, <4>3, <3>1, <3>2
        <3>4. OutTx[o] \notin TxsOf(b)
            <4>1. SUFFICES ASSUME OutTx[o] \in TxsOf(b) PROVE FALSE
                OBVIOUS
            <4>2. v.pos[t] \in Branch[b] /\ t \in TxsOf(v.pos[t])
                BY <3>1 DEF ViewOK, PosOK
            <4>3. v.pos[t] \in Branch[Prev[b]]
                BY <4>2, <3>1, <1>2
            <4>4. Height[v.pos[t]] <= Height[Prev[b]] /\ v.pos[t] \in Blocks
                BY <4>3, <1>2, BranchHeight, BranchClosed
            <4>5. Height[b] <= Height[v.pos[t]]
                BY <4>1, <1>3, <3>2
            <4> QED
                BY <4>4, <4>5, <1>0, <1>2, TreeAssumption, TrustAssumption
        <3> QED
            BY <3>0, <3>1, <3>2, <3>3, <3>4, <1>1
    <2> QED
        BY <2>1, <2>2 DEF SpentOK
<1> QED
    BY <1>4, <1>5, <1>6, <1>7 DEF ViewOK
-----------------------------------------------------------------------------
(* Type correctness *)

LEMMA ConnectType ==
    ASSUME NEW v \in View, NEW b \in Blocks \ {Genesis}, NEW n \in Blocks \cup {None}
    PROVE  Connect(b, v, n) \in View
<1> DEFINE w == Connect(b, v, n)
<1>0. /\ v.next \in [Blocks -> Blocks \cup {None}]
      /\ v.pos \in [Txs -> Blocks \cup {None}]
      /\ v.spent \in [OutPoints -> Txs \cup {None}]
    BY DEF View
<1>1. w.next \in [Blocks -> Blocks \cup {None}]
    BY <1>0 DEF Connect
<1>2. w.pos \in [Txs -> Blocks \cup {None}]
    BY <1>0 DEF Connect
<1>3. \A o \in OutPoints : Spends(b, o) # {} =>
          (CHOOSE t \in Spends(b, o) : TRUE) \in Txs
    BY TxsOfType DEF Spends
<1>4. w.spent \in [OutPoints -> Txs \cup {None}]
    BY <1>0, <1>3 DEF Connect
<1> QED
    BY <1>1, <1>2, <1>4 DEF View, Connect

LEMMA DisconnectType ==
    ASSUME NEW v \in View, NEW b \in Blocks \ {Genesis}
    PROVE  Disconnect(b, v) \in View
<1>0. /\ v.next \in [Blocks -> Blocks \cup {None}]
      /\ v.pos \in [Txs -> Blocks \cup {None}]
      /\ v.spent \in [OutPoints -> Txs \cup {None}]
    BY DEF View
<1>1. Prev[b] \in Blocks
    BY TreeAssumption, TrustAssumption
<1> QED
    BY <1>0, <1>1 DEF View, Disconnect

LEMMA ProofsOfType ==
    ASSUME NEW B \in SUBSET Blocks
    PROVE  ProofsOf(B) \subseteq Proofs
BY StakeAssumption DEF ProofsOf

LEMMA PoolType ==
    ASSUME TypeOK
    PROVE  /\ \A t \in Txs : addUnchecked(t) =>
                mapTx' \in SUBSET Txs /\ mapNextTx' \in [OutPoints -> Txs \cup {None}]
           /\ \A T : RemoveFromPool(T) =>
                mapTx' \in SUBSET Txs /\ mapNextTx' \in [OutPoints -> Txs \cup {None}]
BY DEF TypeOK, addUnchecked, RemoveFromPool

LEMMA InnerType ==
    ASSUME TypeOK, NEW b \in Blocks \ {Genesis}, SetBestChainInner(b)
    PROVE  /\ disk' \in View /\ txn' \in View
           /\ pnext' \in [Blocks -> Blocks \cup {None}]
           /\ mapTx' \in SUBSET Txs
           /\ mapNextTx' \in [OutPoints -> Txs \cup {None}]
<1>1. pnext[b] \in Blocks \cup {None} /\ disk \in View
    BY DEF TypeOK
<1>2. disk' \in View
    BY <1>1, ConnectType DEF SetBestChainInner
<1>3. pnext' \in [Blocks -> Blocks \cup {None}]
    BY DEF TypeOK, SetBestChainInner
<1> QED
    BY <1>2, <1>3, PoolType DEF SetBestChainInner

LEMMA RelinkType ==
    ASSUME TypeOK, pindexIntermediate \in Blocks
    PROVE  Relink \in [Blocks -> Blocks \cup {None}]
<1>1. vConnect \in SUBSET Blocks
    BY BranchClosed DEF vConnect
<1> QED
    BY <1>1 DEF Relink, TypeOK

LEMMA AcceptType ==
    ASSUME TypeOK, NEW b \in Blocks \ {Genesis}, AddToBlockIndex(b)
    PROVE  /\ mapBlockIndex' \in SUBSET Blocks /\ Genesis \in mapBlockIndex'
           /\ setStakeSeen' \subseteq Proofs
           /\ pc' \in {"setbest", "orphans"}
           /\ pindexNew' \in (Blocks \ {Genesis}) \cup {None}
           /\ pc' = "setbest" => pindexNew' # None
           /\ vWorkQueue' \in Seq(Blocks)
           /\ pc' = "orphans" => vWorkQueue' # <<>>
<1>1. vWorkQueue \in Seq(Blocks) /\ b # None
    BY TreeAssumption, TrustAssumption DEF TypeOK
<1>2. Append(vWorkQueue, b) \in Seq(Blocks) /\ Append(vWorkQueue, b) # <<>>
    BY <1>1, AppendProperties
<1>3. ProofsOf({b}) \subseteq Proofs
    BY ProofsOfType
<1> QED
    BY <1>1, <1>2, <1>3 DEF TypeOK, AddToBlockIndex, Accepted

LEMMA FailType ==
    ASSUME TypeOK, SetBestChainFailed
    PROVE  TypeOK'
<1>1. pc' \in {"idle", "orphans"} /\ (pc' = "orphans" => vWorkQueue # <<>>)
    BY DEF SetBestChainFailed, Rejected
<1> QED
    BY <1>1 DEF TypeOK, SetBestChainFailed, Rejected, index, best, orphans, pool

LEMMA DoneType ==
    ASSUME TypeOK, pindexNew \in Blocks, SetBestChainDone
    PROVE  /\ pindexBest' \in Blocks
           /\ pc' = "orphans" /\ vWorkQueue' \in Seq(Blocks) /\ vWorkQueue' # <<>>
           /\ pindexNew' = None /\ pindexIntermediate' = None /\ vResurrect' = {}
BY DEF TypeOK, SetBestChainDone, Accepted

USE DEF index, pool, orphans, best, work

(* TypeOK is preserved by every step of the node. *)
LEMMA TypeStep == TypeOK /\ [Next]_vars => TypeOK'
<1> SUFFICES ASSUME TypeOK, [Next]_vars PROVE TypeOK'
    OBVIOUS
<1>1. CASE BeginReorganize
    <2>1. pindexNew \in Blocks /\ Branch[pindexNew] \in SUBSET Blocks
        BY <1>1, BranchClosed DEF TypeOK, BeginReorganize
    <2>2. pindexIntermediate' \in Blocks /\ pindexIntermediate' # None
        BY <1>1, <2>1, TreeAssumption, TrustAssumption DEF BeginReorganize
    <2>3. txn' \in View
        BY <1>1 DEF BeginReorganize, TypeOK, View
    <2> QED
        BY <1>1, <2>2, <2>3 DEF TypeOK, BeginReorganize
<1>2. CASE DisconnectBlock
    <2>1. txn.best \in Blocks /\ pindexIntermediate \in Blocks
        BY <1>2 DEF TypeOK, View, DisconnectBlock
    <2>2. txn.best # Genesis
        BY <1>2, <2>1, GenesisInBranch DEF DisconnectBlock, vDisconnect
    <2>3. txn' \in View
        BY <1>2, <2>1, <2>2, DisconnectType DEF DisconnectBlock, TypeOK
    <2>4. vResurrect' \in SUBSET Txs
        BY <1>2, <2>1, TxsOfType DEF DisconnectBlock, Resurrectable, TypeOK
    <2> QED
        BY <1>2, <2>3, <2>4 DEF TypeOK, DisconnectBlock
<1>3. CASE DisconnectBlockFails \/ ConnectBlockFails \/ ExtendBestChainFails
    BY <1>3, FailType DEF DisconnectBlockFails, ConnectBlockFails, ExtendBestChainFails
<1>4. CASE ConnectBlock
    <2>1. pindexIntermediate \in Blocks /\ pindexBest \in Blocks /\ txn \in View
        BY <1>4 DEF TypeOK, ConnectBlock
    <2>2. PICK c \in vConnect : txn' = Connect(c, txn, pnext[c])
        BY <1>4 DEF ConnectBlock
    <2>3. c \in Blocks \ {Genesis} /\ pnext[c] \in Blocks \cup {None}
        BY <2>1, <2>2, BranchClosed, GenesisInBranch DEF vConnect, TypeOK
    <2>4. txn' \in View
        BY <2>1, <2>2, <2>3, ConnectType
    <2> QED
        BY <1>4, <2>4 DEF TypeOK, ConnectBlock
<1>5. CASE CommitReorganize
    <2>1. pindexIntermediate \in Blocks
        BY <1>5 DEF TypeOK, CommitReorganize
    <2>2. pnext' \in [Blocks -> Blocks \cup {None}]
        BY <1>5, <2>1, RelinkType DEF CommitReorganize
    <2> QED
        BY <1>5, <2>2 DEF TypeOK, CommitReorganize
<1>6. CASE ResurrectTx
    <2>1. PICK t \in vResurrect : /\ addUnchecked(t) \/ UNCHANGED pool
                                  /\ vResurrect' = vResurrect \ {t}
        BY <1>6 DEF ResurrectTx
    <2>2. mapTx' \in SUBSET Txs /\ mapNextTx' \in [OutPoints -> Txs \cup {None}]
        BY <2>1, PoolType DEF TypeOK
    <2> QED
        BY <1>6, <2>1, <2>2 DEF TypeOK, ResurrectTx
<1>7. CASE DeleteRedundantTxs
    <2>1. mapTx' \in SUBSET Txs /\ mapNextTx' \in [OutPoints -> Txs \cup {None}]
        BY <1>7, PoolType DEF DeleteRedundantTxs
    <2> QED
        BY <1>7, <2>1 DEF TypeOK, DeleteRedundantTxs
<1>8. CASE ConnectSecondary
    <2>1. PICK c \in NextSecondary : SetBestChainInner(c)
        BY <1>8 DEF ConnectSecondary
    <2>2. c \in Blocks \ {Genesis}
        BY <1>8, BranchClosed DEF NextSecondary, ConnectSecondary, TypeOK
    <2> QED
        BY <1>8, <2>1, <2>2, InnerType DEF TypeOK, ConnectSecondary
<1>9. CASE FinishReorganize
    <2>1. pindexNew \in Blocks /\ disk.best \in Blocks
        BY <1>9 DEF TypeOK, FinishReorganize, View
    <2>2. skipped' \in SUBSET Blocks
        BY <1>9, <2>1, BranchClosed DEF FinishReorganize, TypeOK
    <2> QED
        BY <1>9, <2>1, <2>2, DoneType DEF TypeOK, FinishReorganize
<1>10. CASE ExtendBestChain
    <2>1. pindexNew \in Blocks \ {Genesis}
        BY <1>10 DEF TypeOK, ExtendBestChain
    <2> QED
        BY <1>10, <2>1, InnerType, DoneType DEF TypeOK, ExtendBestChain
<1>11. CASE NextInWorkQueue
    <2>1. vWorkQueue \in Seq(Blocks) /\ vWorkQueue # <<>>
        BY <1>11 DEF TypeOK, NextInWorkQueue
    <2>2. Tail(vWorkQueue) \in Seq(Blocks)
        BY <2>1, HeadTailProperties
    <2> QED
        BY <1>11, <2>2 DEF TypeOK, NextInWorkQueue
<1>12. ASSUME NEW o \in Blocks, AcceptOrphanBlock(o)
       PROVE  TypeOK'
    <2>1. mapOrphanBlocks' \in SUBSET (Blocks \ {Genesis})
             /\ setStakeSeenOrphan' \subseteq Proofs /\ o \in Blocks \ {Genesis}
        BY <1>12 DEF AcceptOrphanBlock, EraseOrphan, TypeOK
    <2>2. CASE AcceptBlockOK(o)
        <3>1. AddToBlockIndex(o)
            BY <1>12, <2>2 DEF AcceptOrphanBlock
        <3> QED
            BY <1>12, <2>1, <3>1, AcceptType
            DEF TypeOK, AcceptOrphanBlock, AddToBlockIndex
    <2>3. CASE ~AcceptBlockOK(o)
        BY <1>12, <2>1, <2>3 DEF TypeOK, AcceptOrphanBlock
    <2> QED
        BY <2>2, <2>3
<1>13. ASSUME NEW b \in Blocks \ {Genesis}, ProcessDuplicateStake(b)
       PROVE  TypeOK'
    BY <1>13 DEF TypeOK, ProcessDuplicateStake
<1>14. ASSUME NEW b \in Blocks \ {Genesis}, ProcessOrphanBlock(b)
       PROVE  TypeOK'
    <2>1. ProofsOf({b}) \subseteq Proofs
        BY ProofsOfType
    <2> QED
        BY <1>14, <2>1 DEF TypeOK, ProcessOrphanBlock
<1>15. ASSUME NEW b \in Blocks \ {Genesis}, ProcessBlock(b)
       PROVE  TypeOK'
    <2>1. AddToBlockIndex(b)
        BY <1>15 DEF ProcessBlock
    <2> QED
        BY <1>15, <2>1, AcceptType DEF TypeOK, ProcessBlock, AddToBlockIndex
<1>16. ASSUME NEW t \in Txs, AcceptToMemoryPool(t)
       PROVE  TypeOK'
    BY <1>16, PoolType DEF TypeOK, AcceptToMemoryPool
<1>17. CASE Restart
    <2>1. ProofsOf(mapBlockIndex) \subseteq Proofs
        BY ProofsOfType DEF TypeOK
    <2>2. disk.best \in Blocks /\ disk.next \in [Blocks -> Blocks \cup {None}]
        BY DEF TypeOK, View
    <2>3. restarts' \in 0..MaxRestarts
        BY <1>17, StakeAssumption DEF TypeOK, Restart
    <2>4. <<>> \in Seq(Blocks)
        OBVIOUS
    <2> QED
        BY <1>17, <2>1, <2>2, <2>3, <2>4 DEF TypeOK, Restart
<1>18. CASE UNCHANGED vars
    BY <1>18 DEF TypeOK, vars
<1> QED
    BY <1>1, <1>2, <1>3, <1>4, <1>5, <1>6, <1>7, <1>8, <1>9, <1>10, <1>11, <1>12,
       <1>13, <1>14, <1>15, <1>16, <1>17, <1>18
    DEF Next, Step, Reorganize, Receive, ReceiveBlock

LEMMA TypeInit == Init => TypeOK
<1>1. GenesisView \in View
    BY TreeAssumption, TrustAssumption DEF GenesisView, View
<1>2. 0 \in 0..MaxRestarts /\ <<>> \in Seq(Blocks)
    BY StakeAssumption
<1> QED
    BY <1>1, <1>2, TreeAssumption, TrustAssumption DEF Init, TypeOK

(* Every variable keeps its type, and the thread is never in a phase of    *)
(* SetBestChain without the block, the target or the queue it works on.    *)
THEOREM TypeCorrect == Spec => []TypeOK
BY TypeInit, TypeStep, PTL DEF Spec
-----------------------------------------------------------------------------
(* The committed index is consistent *)

(* What holds between the disk, the open transaction and memory in each    *)
(* phase, as long as every block made best has been connected.             *)
ChainInv ==
    /\ ViewOK(disk)
    /\ pnext = disk.next
    /\ pc \in {"idle", "orphans", "setbest", "reorg"} => pindexBest = disk.best
    /\ pc = "reorg" => ViewOK(txn) /\ pindexIntermediate \in Branch[pindexNew]
    /\ pc \in {"resurrect", "secondary"} => disk.best \in Branch[pindexNew]

IInv == TypeOK /\ (skipped = {} => ChainInv)

(* A block that is not on the best branch has no pnext. *)
LEMMA OffBranchNextIsNull ==
    ASSUME NEW next \in [Blocks -> Blocks \cup {None}], NEW tip \in Blocks,
           ChainOK(next, tip), NEW x \in Blocks, x \notin Branch[tip]
    PROVE  next[x] = None
<1>1. SUFFICES ASSUME next[x] # None PROVE FALSE
    OBVIOUS
<1>2. next[x] \in Branch[tip] \ {Genesis} /\ Prev[next[x]] = x
    BY <1>1 DEF ChainOK
<1> QED
    BY <1>2, BranchClosed

(* SetBestChainInner on top of a consistent disk leaves a consistent disk  *)
(* and memory that agrees with it.                                         *)
LEMMA InnerOK ==
    ASSUME TypeOK, ViewOK(disk), pnext = disk.next,
           NEW b \in Blocks \ {Genesis}, Prev[b] = disk.best, SetBestChainInner(b)
    PROVE  ViewOK(disk') /\ pnext' = disk'.next /\ disk'.best = b
<1>1. disk \in View /\ disk.best \in Blocks /\ disk.next \in [Blocks -> Blocks \cup {None}]
    BY DEF TypeOK, View
<1>2. b \notin Branch[disk.best]
    BY BranchIrreflexive
<1>3. pnext[b] = None
    BY <1>1, <1>2, OffBranchNextIsNull DEF ViewOK
<1>4. disk' = Connect(b, disk, None) /\ Connectable(b, disk)
    BY <1>3 DEF SetBestChainInner
<1>5. ViewOK(disk')
    BY <1>1, <1>4, ConnectOK
<1>6. disk'.next = [disk.next EXCEPT ![b] = None, ![Prev[b]] = b] /\ disk'.best = b
    BY <1>4 DEF Connect
<1>7. [disk.next EXCEPT ![b] = None] = disk.next
    BY <1>1, <1>3
<1>8. disk'.next = [disk.next EXCEPT ![Prev[b]] = b]
    BY <1>1, <1>6, <1>7
<1> QED
    BY <1>5, <1>6, <1>8 DEF SetBestChainInner

(* After TxnCommit the two loops of Reorganize bring the pnext pointers of *)
(* memory to what the transaction wrote.                                   *)
LEMMA RelinkMatchesTxn ==
    ASSUME TypeOK, pindexIntermediate \in Blocks,
           ChainOK(pnext, pindexBest), ChainOK(txn.next, pindexIntermediate)
    PROVE  Relink = txn.next
<1>1. txn.next \in [Blocks -> Blocks \cup {None}] /\ pnext \in [Blocks -> Blocks \cup {None}]
         /\ pindexBest \in Blocks
    BY DEF TypeOK, View
<1>2. vConnect \in SUBSET (Blocks \ {Genesis}) /\ vDisconnect \in SUBSET (Blocks \ {Genesis})
    BY <1>1, BranchClosed, GenesisInBranch DEF vConnect, vDisconnect
<1>3. ASSUME NEW x \in Blocks
      PROVE  Relink[x] = txn.next[x]
    <2>1. CASE \E c \in vConnect : Prev[c] = x
        <3>1. PICK c \in vConnect : Prev[c] = x /\ Relink[x] = c
            BY <2>1 DEF Relink
        <3>2. c \in Branch[pindexIntermediate] \ {Genesis}
            BY <3>1, <1>2 DEF vConnect
        <3> QED
            BY <3>1, <3>2 DEF ChainOK
    <2>2. CASE /\ ~\E c \in vConnect : Prev[c] = x
               /\ \E c \in vDisconnect : Prev[c] = x
        <3>1. Relink[x] = None
            BY <2>2 DEF Relink
        <3>2. PICK c \in vDisconnect : Prev[c] = x
            BY <2>2
        <3>3. pnext[x] = c /\ c \notin Branch[pindexIntermediate]
            BY <3>2, <1>2 DEF ChainOK, vDisconnect
        <3>4. ASSUME txn.next[x] # None PROVE FALSE
            <4>1. txn.next[x] \in Branch[pindexIntermediate] \ {Genesis}
                     /\ Prev[txn.next[x]] = x
                BY <3>4 DEF ChainOK
            <4>2. txn.next[x] \in Branch[pindexBest]
                BY <4>1, <2>2 DEF vConnect
            <4>3. pnext[x] = txn.next[x]
                BY <4>1, <4>2 DEF ChainOK
            <4> QED
                BY <4>1, <4>3, <3>3
        <3> QED
            BY <3>1, <3>4
    <2>3. CASE /\ ~\E c \in vConnect : Prev[c] = x
               /\ ~\E c \in vDisconnect : Prev[c] = x
        <3>1. Relink[x] = pnext[x]
            BY <2>3 DEF Relink
        <3>2. CASE txn.next[x] # None
            <4>1. txn.next[x] \in Branch[pindexIntermediate] \ {Genesis}
                     /\ Prev[txn.next[x]] = x
                BY <3>2 DEF ChainOK
            <4>2. txn.next[x] \in Branch[pindexBest]
                BY <4>1, <2>3 DEF vConnect
            <4> QED
                BY <3>1, <4>1, <4>2 DEF ChainOK
        <3>3. CASE pnext[x] # None
            <4>1. pnext[x] \in Branch[pindexBest] \ {Genesis} /\ Prev[pnext[x]] = x
                BY <3>3 DEF ChainOK
            <4>2. pnext[x] \in Branch[pindexIntermediate]
                BY <4>1, <2>3 DEF vDisconnect
            <4> QED
                BY <3>1, <4>1, <4>2 DEF ChainOK
        <3> QED
            BY <3>1, <3>2, <3>3
    <2> QED
        BY <2>1, <2>2, <2>3
<1> QED
    BY <1>1, <1>3 DEF Relink

LEMMA ChainInvInit == Init => ChainInv
<1> SUFFICES ASSUME Init PROVE ChainInv
    OBVIOUS
<1>1. disk = GenesisView /\ pnext = GenesisView.next /\ pindexBest = GenesisView.best
         /\ pc = "idle"
    BY DEF Init, GenesisView
<1>2. Branch[Genesis] = {Genesis}
    <2>1. Closed({Genesis})
        BY DEF Closed
    <2> QED
        BY <2>1, BranchLeast, BranchClosed, TreeAssumption, TrustAssumption
<1>3. TxsOf(Genesis) = {}
    BY TxAssumption DEF TxsOf
<1>4. ChainOK(GenesisView.next, Genesis)
    BY <1>2 DEF ChainOK, GenesisView
<1>5. PosOK(GenesisView) /\ SpentOK(GenesisView)
    BY <1>2, <1>3 DEF PosOK, SpentOK, GenesisView
<1>6. GenesisView.best = Genesis
    BY DEF GenesisView
<1> QED
    BY <1>1, <1>4, <1>5, <1>6 DEF ChainInv, ViewOK

LEMMA ChainInvStep == IInv /\ [Next]_vars => IInv'
<1> SUFFICES ASSUME IInv, [Next]_vars PROVE IInv'
    OBVIOUS
<1>0. TypeOK /\ TypeOK'
    BY TypeStep DEF IInv
<1> SUFFICES ASSUME skipped' = {} PROVE ChainInv'
    BY <1>0 DEF IInv
<1>a. skipped = {} => ChainInv
    BY DEF IInv
<1>b. disk \in View /\ txn \in View /\ disk.best \in Blocks /\ txn.best \in Blocks
         /\ pindexBest \in Blocks /\ disk.next \in [Blocks -> Blocks \cup {None}]
    BY <1>0 DEF TypeOK, View
<1>1. CASE BeginReorganize
    <2>1. ChainInv /\ pindexBest = disk.best /\ pc' = "reorg"
        BY <1>1, <1>a DEF BeginReorganize, ChainInv
    <2>2. txn' = disk
        BY <1>1, <2>1, <1>b DEF BeginReorganize, View
    <2>3. pindexIntermediate' \in Branch[pindexNew]
        BY <1>1 DEF BeginReorganize
    <2> QED
        BY <1>1, <2>1, <2>2, <2>3 DEF BeginReorganize, ChainInv
<1>2. CASE DisconnectBlock
    <2>1. ChainInv /\ ViewOK(txn) /\ pindexIntermediate \in Blocks
        BY <1>2, <1>0, <1>a DEF DisconnectBlock, ChainInv, TypeOK
    <2>2. txn.best # Genesis
        BY <1>2, <2>1, GenesisInBranch DEF DisconnectBlock, vDisconnect
    <2>3. ViewOK(txn')
        BY <1>2, <1>b, <2>1, <2>2, DisconnectOK DEF DisconnectBlock
    <2> QED
        BY <1>2, <2>1, <2>3 DEF DisconnectBlock, ChainInv
<1>3. CASE DisconnectBlockFails \/ ConnectBlockFails \/ ExtendBestChainFails
    <2>1. SetBestChainFailed /\ pc \in {"reorg", "setbest"}
        BY <1>3 DEF DisconnectBlockFails, ConnectBlockFails, ExtendBestChainFails
    <2>2. ChainInv
        BY <2>1, <1>a DEF SetBestChainFailed
    <2>3. pc' \in {"idle", "orphans"}
        BY <2>1 DEF SetBestChainFailed, Rejected
    <2> QED
        BY <2>1, <2>2, <2>3 DEF SetBestChainFailed, ChainInv
<1>4. CASE ConnectBlock
    <2>1. ChainInv /\ ViewOK(txn) /\ pindexIntermediate \in Blocks
             /\ pnext = disk.next /\ pindexBest = disk.best
        BY <1>4, <1>0, <1>a DEF ConnectBlock, ChainInv, TypeOK
    <2>2. PICK c \in vConnect : /\ Prev[c] = txn.best
                                /\ Connectable(c, txn)
                                /\ txn' = Connect(c, txn, pnext[c])
        BY <1>4 DEF ConnectBlock
    <2>3. c \in Blocks \ {Genesis} /\ c \notin Branch[pindexBest]
        BY <1>b, <2>1, <2>2, BranchClosed, GenesisInBranch DEF vConnect
    <2>4. pnext[c] = None
        BY <1>b, <2>1, <2>3, OffBranchNextIsNull DEF ChainInv, ViewOK
    <2>5. ViewOK(txn')
        BY <1>b, <2>1, <2>2, <2>3, <2>4, ConnectOK
    <2> QED
        BY <1>4, <2>1, <2>5 DEF ConnectBlock, ChainInv
<1>5. CASE CommitReorganize
    <2>1. ChainInv /\ ViewOK(txn) /\ pindexIntermediate \in Blocks
             /\ pnext = disk.next /\ pindexBest = disk.best
             /\ pindexIntermediate \in Branch[pindexNew]
        BY <1>5, <1>0, <1>a DEF CommitReorganize, ChainInv, TypeOK
    <2>2. txn.best = pindexIntermediate /\ disk' = txn /\ pnext' = Relink
             /\ pc' = "resurrect" /\ pindexNew' = pindexNew
        BY <1>5 DEF CommitReorganize
    <2>3. ChainOK(pnext, pindexBest) /\ ChainOK(txn.next, pindexIntermediate)
        BY <2>1, <2>2 DEF ChainInv, ViewOK
    <2>4. pnext' = txn.next
        BY <1>0, <2>1, <2>2, <2>3, RelinkMatchesTxn
    <2> QED
        BY <2>1, <2>2, <2>4 DEF ChainInv
<1>6. CASE ResurrectTx \/ DeleteRedundantTxs
    BY <1>6, <1>a DEF ResurrectTx, DeleteRedundantTxs, ChainInv
<1>7. CASE ConnectSecondary
    <2>1. ChainInv
        BY <1>7, <1>a DEF ConnectSecondary
    <2>2. PICK c \in NextSecondary : SetBestChainInner(c)
        BY <1>7 DEF ConnectSecondary
    <2>3. c \in Branch[pindexNew] /\ c \in Blocks \ {Genesis} /\ Prev[c] = disk.best
        BY <1>7, <1>0, BranchClosed DEF NextSecondary, ConnectSecondary, TypeOK
    <2>4. ViewOK(disk') /\ pnext' = disk'.next /\ disk'.best = c
        BY <1>0, <2>1, <2>2, <2>3, InnerOK DEF ChainInv
    <2> QED
        BY <1>7, <2>3, <2>4 DEF ConnectSecondary, ChainInv
<1>8. CASE FinishReorganize
    <2>1. skipped = {} /\ Branch[pindexNew] \subseteq Branch[disk.best]
        BY <1>8 DEF FinishReorganize
    <2>2. ChainInv /\ disk.best \in Branch[pindexNew] /\ pindexNew \in Blocks
        BY <1>8, <1>0, <1>a, <2>1 DEF FinishReorganize, ChainInv, TypeOK
    <2>3. pindexNew \in Branch[disk.best]
        BY <2>1, <2>2, BranchClosed
    <2>4. pindexNew = disk.best
        BY <1>b, <2>2, <2>3, BranchAntisymmetric
    <2> QED
        BY <1>8, <2>2, <2>4 DEF FinishReorganize, SetBestChainDone, Accepted, ChainInv
<1>9. CASE ExtendBestChain
    <2>1. ChainInv /\ pindexBest = disk.best /\ pindexNew \in Blocks \ {Genesis}
        BY <1>9, <1>0, <1>a DEF ExtendBestChain, ChainInv, TypeOK
    <2>2. ViewOK(disk') /\ pnext' = disk'.next /\ disk'.best = pindexNew
        BY <1>9, <1>0, <2>1, InnerOK DEF ExtendBestChain, ChainInv
    <2> QED
        BY <1>9, <2>2 DEF ExtendBestChain, SetBestChainDone, Accepted, ChainInv
<1>10. CASE NextInWorkQueue
    BY <1>10, <1>a DEF NextInWorkQueue, ChainInv
<1>11. ASSUME NEW o \in Blocks, AcceptOrphanBlock(o)
       PROVE  ChainInv'
    BY <1>11, <1>a DEF AcceptOrphanBlock, AddToBlockIndex, Accepted, ChainInv
<1>12. ASSUME NEW b \in Blocks, ReceiveBlock(b)
       PROVE  ChainInv'
    BY <1>12, <1>a DEF ReceiveBlock, ProcessDuplicateStake, ProcessOrphanBlock,
       ProcessBlock, AddToBlockIndex, Accepted, ChainInv
<1>13. ASSUME NEW t \in Txs, AcceptToMemoryPool(t)
       PROVE  ChainInv'
    BY <1>13, <1>a DEF AcceptToMemoryPool, ChainInv
<1>14. CASE Restart
    BY <1>14, <1>a DEF Restart, ChainInv
<1>15. CASE UNCHANGED vars
    BY <1>15, <1>a DEF vars, ChainInv, vConnect
<1> QED
    BY <1>1, <1>2, <1>3, <1>4, <1>5, <1>6, <1>7, <1>8, <1>9, <1>10, <1>11, <1>12,
       <1>13, <1>14, <1>15
    DEF Next, Step, Reorganize, Receive

LEMMA IInvariant == Spec => []IInv
<1>1. Init => IInv
    BY TypeInit, ChainInvInit DEF IInv
<1> QED
    BY <1>1, ChainInvStep, PTL DEF Spec

(* Whatever blocks arrive in whatever order, whichever reorganisations     *)
(* fail half way and wherever the process stops, the committed transaction *)
(* index describes exactly the best branch, with no output spent twice,    *)
(* until a postponed reconnect fails.                                      *)
THEOREM DiskAlwaysConsistent == Spec => []DiskConsistent
<1>1. IInv => DiskConsistent
    BY DEF IInv, ChainInv, DiskConsistent
<1> QED
    BY <1>1, IInvariant, PTL

(* Between calls memory and disk hold the same best chain, until a         *)
(* postponed reconnect fails.                                              *)
THEOREM MemoryAlwaysMatchesDisk == Spec => []MemoryMatchesDisk
<1>1. IInv => MemoryMatchesDisk
    BY DEF IInv, ChainInv, MemoryMatchesDisk
<1> QED
    BY <1>1, IInvariant, PTL
-----------------------------------------------------------------------------
(* The memory pool and the orphan map *)

LEMMA AddKeepsPool ==
    ASSUME TypeOK, PoolConsistent, NEW t \in Txs, t \notin mapTx,
           NoPoolConflict(t), addUnchecked(t)
    PROVE  PoolConsistent'
<1> SUFFICES ASSUME NEW o \in OutPoints, NEW u \in Txs
             PROVE  mapNextTx'[o] = u <=> u \in mapTx' /\ o \in Vin[u]
    BY DEF PoolConsistent
<1>1. mapNextTx[o] = u <=> u \in mapTx /\ o \in Vin[u]
    BY DEF PoolConsistent
<1>2. u # None /\ mapTx' = mapTx \cup {t}
    BY TreeAssumption, TrustAssumption DEF addUnchecked
<1>3. CASE o \in Vin[t]
    <2>1. mapNextTx'[o] = t /\ mapNextTx[o] = None
        BY <1>3 DEF addUnchecked, NoPoolConflict
    <2> QED
        BY <1>1, <1>2, <1>3, <2>1
<1>4. CASE o \notin Vin[t]
    <2>1. mapNextTx'[o] = mapNextTx[o]
        BY <1>4 DEF addUnchecked
    <2> QED
        BY <1>1, <1>2, <1>4, <2>1
<1> QED
    BY <1>3, <1>4

LEMMA RemoveKeepsPool ==
    ASSUME TypeOK, PoolConsistent, NEW T, RemoveFromPool(T)
    PROVE  PoolConsistent'
<1> SUFFICES ASSUME NEW o \in OutPoints, NEW t \in Txs
             PROVE  mapNextTx'[o] = t <=> t \in mapTx' /\ o \in Vin[t]
    BY DEF PoolConsistent
<1>1. mapTx' = mapTx \ T /\ t # None /\ mapTx \in SUBSET Txs
    BY TreeAssumption, TrustAssumption DEF RemoveFromPool, TypeOK
<1>2. mapNextTx[o] = t <=> t \in mapTx /\ o \in Vin[t]
    BY DEF PoolConsistent
<1>3. CASE \E u \in T \cap mapTx : o \in Vin[u]
    <2>1. PICK u \in T \cap mapTx : o \in Vin[u]
        BY <1>3
    <2>2. mapNextTx[o] = u
        BY <1>1, <2>1 DEF PoolConsistent
    <2>3. mapNextTx'[o] = None
        BY <1>3 DEF RemoveFromPool
    <2> QED
        BY <1>1, <1>2, <2>1, <2>2, <2>3
<1>4. CASE ~\E u \in T \cap mapTx : o \in Vin[u]
    <2>1. mapNextTx'[o] = mapNextTx[o]
        BY <1>4 DEF RemoveFromPool
    <2> QED
        BY <1>1, <1>2, <1>4, <2>1
<1> QED
    BY <1>3, <1>4

(* The pool's input map stays the exact inverse of its transactions        *)
(* through accepts, resurrections and removals, so the pool never holds a  *)
(* double spend.                                                           *)
THEOREM PoolAlwaysConsistent == Spec => []PoolConsistent
<1>1. Init => PoolConsistent
    BY TreeAssumption, TrustAssumption DEF Init, PoolConsistent
<1>2. TypeOK /\ PoolConsistent /\ [Next]_vars => PoolConsistent'
    <2> SUFFICES ASSUME TypeOK, PoolConsistent, [Next]_vars PROVE PoolConsistent'
        OBVIOUS
    <2>1. CASE UNCHANGED pool
        BY <2>1 DEF PoolConsistent
    <2>2. ASSUME NEW t \in Txs, AcceptToMemoryPool(t)
          PROVE  PoolConsistent'
        BY <2>2, AddKeepsPool DEF AcceptToMemoryPool
    <2>3. CASE ResurrectTx
        <3>1. PICK t \in vResurrect :
                 IF t \notin mapTx /\ NoPoolConflict(t) THEN addUnchecked(t) ELSE UNCHANGED pool
            BY <2>3 DEF ResurrectTx
        <3>2. t \in Txs
            BY DEF TypeOK
        <3> QED
            BY <3>1, <3>2, <2>1, AddKeepsPool
    <2>4. CASE DeleteRedundantTxs
        BY <2>4, RemoveKeepsPool DEF DeleteRedundantTxs
    <2>5. CASE ConnectSecondary
        BY <2>5, RemoveKeepsPool DEF ConnectSecondary, SetBestChainInner
    <2>6. CASE ExtendBestChain
        BY <2>6, RemoveKeepsPool DEF ExtendBestChain, SetBestChainInner
    <2>7. CASE Restart
        BY <2>7, TreeAssumption, TrustAssumption DEF Restart, PoolConsistent
    <2>8. CASE \/ BeginReorganize \/ DisconnectBlock \/ DisconnectBlockFails
               \/ ConnectBlock \/ ConnectBlockFails \/ CommitReorganize
               \/ FinishReorganize \/ ExtendBestChainFails \/ NextInWorkQueue
        <3>1. UNCHANGED pool
            BY <2>8 DEF BeginReorganize, DisconnectBlock, DisconnectBlockFails,
               ConnectBlock, ConnectBlockFails, CommitReorganize, FinishReorganize,
               ExtendBestChainFails, NextInWorkQueue, SetBestChainFailed
        <3> QED
            BY <3>1, <2>1
    <2>9. ASSUME NEW b \in Blocks, AcceptOrphanBlock(b) \/ ReceiveBlock(b)
          PROVE  PoolConsistent'
        <3>1. UNCHANGED pool
            BY <2>9 DEF AcceptOrphanBlock, ReceiveBlock, ProcessDuplicateStake,
               ProcessOrphanBlock, ProcessBlock
        <3> QED
            BY <3>1, <2>1
    <2>10. CASE UNCHANGED vars
        BY <2>10, <2>1 DEF vars
    <2> QED
        BY <2>2, <2>3, <2>4, <2>5, <2>6, <2>7, <2>8, <2>9, <2>10
        DEF Next, Step, Reorganize, Receive
<1> QED
    BY <1>1, <1>2, TypeCorrect, PTL DEF Spec

(* Index, memory and pool describe one chain, through every order of       *)
(* blocks, failing reorganisation and restart (SetBestChain, Reorganize).  *)
THEOREM ChainStateAlwaysConsistent == Spec => []ChainStateConsistent
BY TypeCorrect, DiskAlwaysConsistent, MemoryAlwaysMatchesDisk, PoolAlwaysConsistent, PTL
DEF ChainStateConsistent

(* A proof of stake in setStakeSeenOrphan always belongs to a block that   *)
(* still waits in the orphan map.                                          *)
THEOREM OrphanStakeNeverLeaks == Spec => []NoLeakedOrphanStake
<1>1. Init => NoLeakedOrphanStake
    BY DEF Init, NoLeakedOrphanStake
<1>2. NoLeakedOrphanStake /\ [Next]_vars => NoLeakedOrphanStake'
    <2> SUFFICES ASSUME NoLeakedOrphanStake, [Next]_vars PROVE NoLeakedOrphanStake'
        OBVIOUS
    <2>1. CASE UNCHANGED orphans
        BY <2>1 DEF NoLeakedOrphanStake, ProofsOf
    <2>2. ASSUME NEW b \in Blocks, ProcessOrphanBlock(b)
          PROVE  NoLeakedOrphanStake'
        BY <2>2 DEF ProcessOrphanBlock, NoLeakedOrphanStake, ProofsOf
    <2>3. ASSUME NEW o \in Blocks, AcceptOrphanBlock(o)
          PROVE  NoLeakedOrphanStake'
        BY <2>3 DEF AcceptOrphanBlock, EraseOrphan, NoLeakedOrphanStake, ProofsOf
    <2>4. CASE Restart
        BY <2>4 DEF Restart, NoLeakedOrphanStake
    <2>5. CASE Reorganize \/ ExtendBestChain \/ ExtendBestChainFails \/ NextInWorkQueue
        <3>1. UNCHANGED orphans
            BY <2>5 DEF Reorganize, BeginReorganize, DisconnectBlock,
               DisconnectBlockFails, ConnectBlock, ConnectBlockFails,
               CommitReorganize, ResurrectTx, DeleteRedundantTxs, ConnectSecondary,
               FinishReorganize, ExtendBestChain, ExtendBestChainFails,
               NextInWorkQueue, SetBestChainFailed
        <3> QED
            BY <3>1, <2>1
    <2>6. ASSUME NEW b \in Blocks, ProcessDuplicateStake(b) \/ ProcessBlock(b)
          PROVE  NoLeakedOrphanStake'
        <3>1. UNCHANGED orphans
            BY <2>6 DEF ProcessDuplicateStake, ProcessBlock
        <3> QED
            BY <3>1, <2>1
    <2>7. ASSUME NEW t \in Txs, AcceptToMemoryPool(t)
          PROVE  NoLeakedOrphanStake'
        <3>1. UNCHANGED orphans
            BY <2>7 DEF AcceptToMemoryPool
        <3> QED
            BY <3>1, <2>1
    <2>8. CASE UNCHANGED vars
        BY <2>8, <2>1 DEF vars
    <2> QED
        BY <2>2, <2>3, <2>4, <2>5, <2>6, <2>7, <2>8
        DEF Next, Step, Receive, ReceiveBlock
<1> QED
    BY <1>1, <1>2, PTL DEF Spec

-----------------------------------------------------------------------------
(* The chain state implements the ledger *)


(* bnChainTrust as AddToBlockIndex computes it: the recursion over pprev   *)
(* is a function.                                                          *)
LEMMA ChainTrustDef ==
    /\ ChainTrust \in [Blocks -> Nat]
    /\ \A b \in Blocks :
          ChainTrust[b] = Trust[b] + (IF b = Genesis THEN 0 ELSE ChainTrust[Prev[b]])
<1> DEFINE step == [p \in Blocks \X Nat |-> Trust[p[1]] + p[2]]
           Rule(g) == g = [b \in Blocks |->
                             Trust[b] + (IF b = Genesis THEN 0 ELSE g[Prev[b]])]
<1>1. Genesis \in Blocks /\ \A b \in Blocks : Trust[b] \in Nat
    BY TreeAssumption, TrustAssumption
<1>2. step \in [Blocks \X Nat -> Nat]
    BY <1>1
<1>3. \A b \in Blocks : \A n \in Nat : step[<<b, n>>] = Trust[b] + n
    OBVIOUS
<1> HIDE DEF step
<1>4. PICK f : FollowsTree(f, Nat, Trust[Genesis], step)
    BY <1>1, <1>2, TreeRecursion
<1>5. ASSUME NEW b \in Blocks
      PROVE  f[b] = Trust[b] + (IF b = Genesis THEN 0 ELSE f[Prev[b]])
    <2>1. CASE b = Genesis
        <3>1. f[b] = Trust[b] /\ Trust[b] \in Nat
            BY <1>1, <1>4, <2>1 DEF FollowsTree
        <3> QED
            BY <2>1, <3>1
    <2>2. CASE b # Genesis
        <3>1. Prev[b] \in Blocks /\ f[Prev[b]] \in Nat
            BY <1>4, <2>2, TreeAssumption DEF FollowsTree
        <3> QED
            BY <1>3, <1>4, <2>2, <3>1 DEF FollowsTree
    <2> QED
        BY <2>1, <2>2
<1>6. Rule(f)
    BY <1>4, <1>5 DEF FollowsTree
<1>7. Rule(ChainTrust)
    <2>1. ChainTrust = CHOOSE g : Rule(g)
        BY DEF ChainTrust
    <2> HIDE DEF Rule
    <2> QED
        BY <2>1, <1>6
<1>8. \A b \in Blocks :
         ChainTrust[b] = Trust[b] + (IF b = Genesis THEN 0 ELSE ChainTrust[Prev[b]])
    BY <1>7
<1> DEFINE S == {b \in Blocks : ChainTrust[b] \in Nat}
<1>9. \A b \in Blocks : b \in S
    <2>1. Genesis \in S
        BY <1>1, <1>8
    <2>2. \A b \in Blocks \ {Genesis} : Prev[b] \in S => b \in S
        BY <1>1, <1>8
    <2> HIDE DEF S
    <2> QED
        BY <2>1, <2>2, TreeInduction
<1> QED
    BY <1>7, <1>8, <1>9

(* Every block adds trust to its parent's chain. *)
LEMMA TrustGrows ==
    ASSUME NEW b \in Blocks \ {Genesis}
    PROVE  ChainTrust[Prev[b]] < ChainTrust[b]
<1>1. Prev[b] \in Blocks
    BY TreeAssumption
<1>2. Trust[b] \in Nat /\ Trust[b] # 0
    BY TrustAssumption
<1>3. ChainTrust[b] = Trust[b] + ChainTrust[Prev[b]] /\ ChainTrust[Prev[b]] \in Nat
    BY <1>1, ChainTrustDef
<1> QED
    BY <1>2, <1>3

LEMMA BranchTrust ==
    ASSUME NEW b \in Blocks, NEW x \in Branch[b]
    PROVE  ChainTrust[x] <= ChainTrust[b]
<1> DEFINE S == {y \in Blocks : ChainTrust[y] <= ChainTrust[b]}
<1>0. \A y \in Blocks : ChainTrust[y] \in Nat
    BY ChainTrustDef
<1>1. b \in S
    BY <1>0
<1>2. ASSUME NEW y \in S, y # Genesis
      PROVE  Prev[y] \in S
    <2>1. Prev[y] \in Blocks /\ ChainTrust[Prev[y]] < ChainTrust[y]
        BY <1>2, TreeAssumption, TrustGrows
    <2> QED
        BY <2>1, <1>0
<1>3. Closed(S) /\ S \in SUBSET Blocks
    BY <1>2 DEF Closed
<1>4. Branch[b] \subseteq S
    BY <1>1, <1>3, BranchLeast
<1> QED
    BY <1>4

-----------------------------------------------------------------------------
(* Where trust stands in each phase, whether or not a postponed reconnect  *)
(* has failed.                                                             *)
TrustInv ==
    /\ Closed(mapBlockIndex)
    /\ pindexNew # None => pindexNew \in mapBlockIndex
    /\ disk.best \in mapBlockIndex
    /\ pc \in {"setbest", "reorg"} => NewBest(pindexNew)
    /\ pc \in {"idle", "orphans", "setbest", "reorg"} =>
          ChainTrust[disk.best] <= ChainTrust[pindexBest]
    /\ pc = "reorg" => /\ pindexIntermediate \in Branch[pindexNew]
                       /\ ChainTrust[pindexIntermediate] > ChainTrust[pindexBest]
    /\ pc \in {"resurrect", "secondary"} => disk.best \in Branch[pindexNew]

LEMMA TrustInit == Init => TrustInv
<1> SUFFICES ASSUME Init PROVE TrustInv
    OBVIOUS
<1>1. disk.best = Genesis /\ pindexBest = Genesis /\ mapBlockIndex = {Genesis}
         /\ pc = "idle" /\ pindexNew = None
    BY DEF Init, GenesisView
<1>2. ChainTrust[Genesis] \in Nat
    BY ChainTrustDef, TreeAssumption
<1> QED
    BY <1>1, <1>2 DEF TrustInv, Closed

(* The intermediate block of Reorganize already beats the best chain: it   *)
(* is the new block itself, or its child is postponed because it does.     *)
LEMMA IntermediateIsHeavier ==
    ASSUME TypeOK, pindexNew \in Blocks, NewBest(pindexNew),
           NEW x \in Branch[pindexNew] \ vpindexSecondary,
           \A y \in Branch[pindexNew] \ vpindexSecondary : Height[y] <= Height[x]
    PROVE  ChainTrust[x] > ChainTrust[pindexBest]
<1>1. CASE x = pindexNew
    BY <1>1 DEF NewBest
<1>2. CASE x # pindexNew
    <2>1. PICK c \in Branch[pindexNew] : c # Genesis /\ Prev[c] = x
        BY <1>2, BranchGoesOn
    <2>2. c \in Blocks /\ x \in Blocks
        BY BranchClosed
    <2>3. Height[c] = Height[x] + 1 /\ Height[x] \in Nat
        BY <2>1, <2>2, TreeAssumption
    <2>4. c \in vpindexSecondary
        BY <2>3
    <2> QED
        BY <2>1, <2>4 DEF vpindexSecondary
<1> QED
    BY <1>1, <1>2

LEMMA AddKeepsTrust ==
    ASSUME TypeOK, TrustInv, pc \in {"idle", "orphans"}, NEW b \in Blocks,
           AcceptBlockOK(b), AddToBlockIndex(b), UNCHANGED <<disk, best>>
    PROVE  TrustInv'
<1>1. mapBlockIndex' = mapBlockIndex \cup {b} /\ Prev[b] \in mapBlockIndex
    BY DEF AddToBlockIndex, AcceptBlockOK
<1>2. Closed(mapBlockIndex')
    BY <1>1 DEF TrustInv, Closed
<1>3. disk' = disk /\ pindexBest' = pindexBest
    BY DEF best
<1>4. CASE NewBest(b)
    <2>1. pindexNew' = b /\ pc' = "setbest"
        BY <1>4 DEF AddToBlockIndex
    <2> QED
        BY <1>1, <1>2, <1>3, <1>4, <2>1 DEF TrustInv, NewBest
<1>5. CASE ~NewBest(b)
    <2>1. pindexNew' = pindexNew /\ pc' = "orphans"
        BY <1>5 DEF AddToBlockIndex, Accepted
    <2> QED
        BY <1>1, <1>2, <1>3, <2>1 DEF TrustInv
<1> QED
    BY <1>4, <1>5

LEMMA TrustStep == TypeOK /\ TrustInv /\ [Next]_vars => TrustInv'
<1> SUFFICES ASSUME TypeOK, TrustInv, [Next]_vars PROVE TrustInv'
    OBVIOUS
<1>0. /\ \A y \in Blocks : ChainTrust[y] \in Nat
      /\ disk.best \in Blocks /\ pindexBest \in Blocks
    BY ChainTrustDef DEF TypeOK, View
<1>b. \A y \in Branch[pindexNew] : pindexNew # None =>
         y \in mapBlockIndex /\ y \in Blocks /\ ChainTrust[y] <= ChainTrust[pindexNew]
    <2> SUFFICES ASSUME NEW y \in Branch[pindexNew], pindexNew # None
                 PROVE  y \in mapBlockIndex /\ y \in Blocks
                           /\ ChainTrust[y] <= ChainTrust[pindexNew]
        OBVIOUS
    <2>1. pindexNew \in Blocks /\ pindexNew \in mapBlockIndex /\ mapBlockIndex \in SUBSET Blocks
        BY DEF TypeOK, TrustInv
    <2>2. Branch[pindexNew] \subseteq mapBlockIndex
        BY <2>1, BranchLeast DEF TrustInv
    <2> QED
        BY <2>1, <2>2, BranchTrust
<1>1. CASE SetBestChainFailed /\ pc \in {"setbest", "reorg"}
    BY <1>1 DEF SetBestChainFailed, Rejected, index, best, TrustInv
<1>2. CASE BeginReorganize
    <2>1. PICK x \in Branch[pindexNew] \ vpindexSecondary :
             /\ \A y \in Branch[pindexNew] \ vpindexSecondary : Height[y] <= Height[x]
             /\ pindexIntermediate' = x
        BY <1>2 DEF BeginReorganize
    <2>2. pc = "setbest" /\ pc' = "reorg" /\ pindexNew' = pindexNew /\ disk' = disk
             /\ pindexBest' = pindexBest /\ mapBlockIndex' = mapBlockIndex
        BY <1>2 DEF BeginReorganize, index, best
    <2>3. NewBest(pindexNew) /\ pindexNew \in Blocks
        BY <2>2 DEF TrustInv, TypeOK
    <2>4. ChainTrust[x] > ChainTrust[pindexBest]
        BY <2>1, <2>3, IntermediateIsHeavier
    <2> QED
        BY <2>1, <2>2, <2>3, <2>4 DEF TrustInv, NewBest
<1>3. CASE DisconnectBlock \/ ConnectBlock
    BY <1>3 DEF DisconnectBlock, ConnectBlock, index, best, work, TrustInv, NewBest
<1>4. CASE CommitReorganize
    <2>1. pc = "reorg" /\ pc' = "resurrect" /\ disk'.best = pindexIntermediate
             /\ pindexNew' = pindexNew /\ mapBlockIndex' = mapBlockIndex
        BY <1>4 DEF CommitReorganize, index, work
    <2>2. pindexIntermediate \in Branch[pindexNew] /\ pindexNew # None
        BY <2>1 DEF TrustInv, TypeOK
    <2> QED
        BY <2>1, <2>2, <1>b DEF TrustInv
<1>5. CASE ResurrectTx \/ DeleteRedundantTxs
    BY <1>5 DEF ResurrectTx, DeleteRedundantTxs, index, best, work, TrustInv
<1>6. CASE ConnectSecondary
    <2>1. PICK c \in NextSecondary : SetBestChainInner(c)
        BY <1>6 DEF ConnectSecondary
    <2>2. pc = "secondary" /\ pc' = pc /\ pindexNew' = pindexNew
             /\ mapBlockIndex' = mapBlockIndex /\ pindexNew # None
        BY <1>6 DEF ConnectSecondary, index, work, TypeOK
    <2>3. c \in Branch[pindexNew] /\ disk'.best = c
        BY <2>1 DEF NextSecondary, SetBestChainInner, Connect
    <2> QED
        BY <2>2, <2>3, <1>b DEF TrustInv
<1>7. CASE FinishReorganize
    <2>1. pc = "secondary" /\ pc' = "orphans" /\ pindexNew' = None /\ disk' = disk
             /\ pindexBest' = pindexNew /\ mapBlockIndex' = mapBlockIndex /\ pindexNew # None
        BY <1>7 DEF FinishReorganize, SetBestChainDone, Accepted, index, TypeOK
    <2>2. ChainTrust[disk.best] <= ChainTrust[pindexNew]
        BY <2>1, <1>b DEF TrustInv
    <2> QED
        BY <2>1, <2>2 DEF TrustInv
<1>8. CASE ExtendBestChain
    <2>1. pc' = "orphans" /\ pindexNew' = None /\ disk'.best = pindexNew
             /\ pindexBest' = pindexNew /\ mapBlockIndex' = mapBlockIndex
             /\ pindexNew # None /\ pindexNew \in Blocks
        BY <1>8 DEF ExtendBestChain, SetBestChainInner, Connect, SetBestChainDone,
           Accepted, index, TypeOK
    <2> QED
        BY <2>1, <1>0 DEF TrustInv
<1>9. CASE NextInWorkQueue
    BY <1>9 DEF NextInWorkQueue, index, best, work, TrustInv
<1>10. ASSUME NEW o \in Blocks, AcceptOrphanBlock(o)
       PROVE  TrustInv'
    <2>1. CASE AcceptBlockOK(o)
        BY <1>10, <2>1, AddKeepsTrust DEF AcceptOrphanBlock
    <2>2. CASE ~AcceptBlockOK(o)
        BY <1>10, <2>2 DEF AcceptOrphanBlock, index, best, work, TrustInv
    <2> QED
        BY <2>1, <2>2
<1>11. ASSUME NEW b \in Blocks, ReceiveBlock(b)
       PROVE  TrustInv'
    <2>1. CASE ProcessBlock(b)
        BY <2>1, AddKeepsTrust DEF ProcessBlock
    <2>2. CASE ProcessDuplicateStake(b) \/ ProcessOrphanBlock(b)
        BY <2>2 DEF ProcessDuplicateStake, ProcessOrphanBlock, index, best, work, TrustInv
    <2> QED
        BY <1>11, <2>1, <2>2 DEF ReceiveBlock
<1>12. ASSUME NEW t \in Txs, AcceptToMemoryPool(t)
       PROVE  TrustInv'
    BY <1>12 DEF AcceptToMemoryPool, index, best, work, TrustInv
<1>13. CASE Restart
    BY <1>13, <1>0 DEF Restart, TrustInv
<1>14. CASE UNCHANGED vars
    BY <1>14 DEF vars, index, best, work, TrustInv, NewBest
<1> QED
    BY <1>1, <1>2, <1>3, <1>4, <1>5, <1>6, <1>7, <1>8, <1>9, <1>10, <1>11, <1>12,
       <1>13, <1>14
    DEF Next, Step, Reorganize, Receive, DisconnectBlockFails, ConnectBlockFails,
        ExtendBestChainFails

-----------------------------------------------------------------------------
(* What one step can do to the ledger: learn a block, let a postponed      *)
(* reconnect fail, or commit a heavier chain of known blocks.              *)
Learns ==
    /\ disk' = disk /\ skipped' = skipped
    /\ \/ mapBlockIndex' = mapBlockIndex
       \/ \E b \in Blocks : /\ b \notin mapBlockIndex /\ Prev[b] \in mapBlockIndex
                            /\ mapBlockIndex' = mapBlockIndex \cup {b}
Skips ==
    disk' = disk /\ mapBlockIndex' = mapBlockIndex /\ skipped \subseteq skipped'
Commits ==
    /\ mapBlockIndex' = mapBlockIndex /\ skipped' = skipped
    /\ disk'.best \in mapBlockIndex
    /\ ChainTrust[disk'.best] > ChainTrust[disk.best]

LEMMA StepShape ==
    ASSUME TypeOK, TrustInv, TrustInv', [Next]_vars
    PROVE  Learns \/ Skips \/ Commits
<1>0. /\ \A y \in Blocks : ChainTrust[y] \in Nat
      /\ disk.best \in Blocks /\ pindexBest \in Blocks
    BY ChainTrustDef DEF TypeOK, View
<1>1. CASE \/ SetBestChainFailed \/ BeginReorganize \/ DisconnectBlock \/ ConnectBlock
           \/ ResurrectTx \/ DeleteRedundantTxs \/ NextInWorkQueue \/ Restart
    BY <1>1 DEF SetBestChainFailed, BeginReorganize, DisconnectBlock, ConnectBlock,
       ResurrectTx, DeleteRedundantTxs, NextInWorkQueue, Restart, index, best, Learns
<1>2. CASE CommitReorganize
    <2>1. pc = "reorg" /\ disk'.best = pindexIntermediate
             /\ mapBlockIndex' = mapBlockIndex /\ skipped' = skipped
        BY <1>2 DEF CommitReorganize, index
    <2>2. ChainTrust[pindexIntermediate] > ChainTrust[pindexBest]
             /\ ChainTrust[disk.best] <= ChainTrust[pindexBest] /\ pindexIntermediate \in Blocks
        BY <2>1 DEF TrustInv, TypeOK
    <2> QED
        BY <2>1, <2>2, <1>0 DEF Commits, TrustInv
<1>3. CASE ConnectSecondary
    <2>1. PICK c \in NextSecondary : SetBestChainInner(c)
        BY <1>3 DEF ConnectSecondary
    <2>2. pindexNew \in Blocks
        BY <1>3 DEF ConnectSecondary, TypeOK
    <2>3. c \in Blocks \ {Genesis} /\ Prev[c] = disk.best /\ disk'.best = c
        BY <2>1, <2>2, BranchClosed DEF NextSecondary, SetBestChainInner, Connect
    <2>4. mapBlockIndex' = mapBlockIndex /\ skipped' = skipped
        BY <1>3 DEF ConnectSecondary, index
    <2> QED
        BY <2>3, <2>4, <1>0, TrustGrows DEF Commits, TrustInv
<1>4. CASE FinishReorganize
    BY <1>4 DEF FinishReorganize, index, Skips
<1>5. CASE ExtendBestChain
    <2>1. pc = "setbest" /\ disk'.best = pindexNew /\ pindexNew \in Blocks
             /\ mapBlockIndex' = mapBlockIndex /\ skipped' = skipped
        BY <1>5 DEF ExtendBestChain, SetBestChainInner, Connect, index, TypeOK
    <2> QED
        BY <2>1, <1>0 DEF Commits, TrustInv, NewBest
<1>6. ASSUME NEW o \in Blocks, AcceptOrphanBlock(o)
      PROVE  Learns
    BY <1>6 DEF AcceptOrphanBlock, AcceptBlockOK, AddToBlockIndex, index, best, Learns
<1>7. ASSUME NEW b \in Blocks, ReceiveBlock(b)
      PROVE  Learns
    BY <1>7 DEF ReceiveBlock, ProcessDuplicateStake, ProcessOrphanBlock, ProcessBlock,
       AcceptBlockOK, AddToBlockIndex, index, best, Learns
<1>8. ASSUME NEW t \in Txs, AcceptToMemoryPool(t)
      PROVE  Learns
    BY <1>8 DEF AcceptToMemoryPool, index, best, Learns
<1>9. CASE UNCHANGED vars
    BY <1>9 DEF vars, index, best, Learns
<1> QED
    BY <1>1, <1>2, <1>3, <1>4, <1>5, <1>6, <1>7, <1>8, <1>9
    DEF Next, Step, Reorganize, Receive, DisconnectBlockFails, ConnectBlockFails,
        ExtendBestChainFails

LEMMA TrustInvariant == Spec => []TrustInv
BY TrustInit, TrustStep, TypeCorrect, PTL DEF Spec

(* Every commit of hashBestChain moves to a chain of more trust, through   *)
(* reorganisations in two parts, failed ones and restarts, even after a    *)
(* postponed reconnect has failed.                                         *)
THEOREM BestTrustAlwaysIncreases == Spec => BestTrustIncreases
<1>1. TypeOK /\ TrustInv /\ [Next]_vars =>
         [disk'.best # disk.best => ChainTrust[disk'.best] > ChainTrust[disk.best]]_vars
    BY TrustStep, StepShape DEF Learns, Skips, Commits
<1> QED
    BY <1>1, TypeCorrect, TrustInvariant, PTL DEF Spec, BestTrustIncreases

-----------------------------------------------------------------------------
(* A consistent view is the ledger of its branch *)

LEMMA SameBranch == L!Branch = Branch
<1>1. \A S : L!Closed(S) <=> Closed(S)
    BY DEF L!Closed, Closed
<1> QED
    BY <1>1 DEF L!Branch, Branch

LEMMA ViewIsLedger ==
    ASSUME disk \in View, ViewOK(disk)
    PROVE  /\ confirmedTxs = L!TxsOn(disk.best)
           /\ unspentOuts = L!UnspentOn(disk.best)
           /\ L!ValidChain(disk.best)
<1> DEFINE T == L!TxsOn(disk.best)
<1>0. /\ disk.best \in Blocks /\ Branch[disk.best] \in SUBSET Blocks
      /\ disk.spent \in [OutPoints -> Txs \cup {None}]
    BY BranchClosed DEF View
<1>1. \A t : t \in T <=> \E x \in Branch[disk.best] : t \in TxsOf(x)
    BY <1>0, SameBranch DEF L!TxsOn
<1>2. T = confirmedTxs
    <2>1. ASSUME NEW t \in T PROVE t \in confirmedTxs
        <3>1. PICK x \in Branch[disk.best] : t \in TxsOf(x)
            BY <1>1
        <3>2. disk.pos[t] = x /\ x \in Blocks /\ t \in Txs
            BY <3>1, <1>0, TxsOfType DEF ViewOK, PosOK
        <3> QED
            BY <3>2, TreeAssumption DEF confirmedTxs
    <2>2. ASSUME NEW t \in confirmedTxs PROVE t \in T
        BY <1>1 DEF confirmedTxs, ViewOK, PosOK
    <2> QED
        BY <2>1, <2>2
<1>3. \A t \in T : t \in Txs /\ disk.pos[t] # None
    BY <1>2 DEF confirmedTxs
<1>4. ASSUME NEW o \in OutPoints
      PROVE  disk.spent[o] = None <=> o \notin L!SpentOn(disk.best)
    <2>1. ASSUME NEW t \in T, o \in Vin[t] PROVE disk.spent[o] # None
        BY <2>1, <1>3, TrustAssumption DEF ViewOK, SpentOK
    <2>2. ASSUME disk.spent[o] # None PROVE \E t \in T : o \in Vin[t]
        <3>1. disk.spent[o] \in Txs /\ disk.pos[disk.spent[o]] # None
                 /\ o \in Vin[disk.spent[o]]
            BY <2>2, <1>0 DEF ViewOK, SpentOK
        <3> QED
            BY <3>1, <1>2 DEF confirmedTxs
    <2> QED
        BY <2>1, <2>2 DEF L!SpentOn
<1>5. unspentOuts = L!UnspentOn(disk.best)
    <2>1. \A o \in OutPoints : OutTx[o] \in Txs
        BY TxAssumption
    <2>2. \A o \in OutPoints : disk.pos[OutTx[o]] # None <=> OutTx[o] \in T
        BY <2>1, <1>2 DEF confirmedTxs
    <2> QED
        BY <2>2, <1>4 DEF unspentOuts, L!UnspentOn
<1>6. L!ValidChain(disk.best)
    <2>1. ASSUME NEW x \in Branch[disk.best], NEW y \in Branch[disk.best], x # y
          PROVE  TxsOf(x) \cap TxsOf(y) = {}
        BY <2>1 DEF ViewOK, PosOK
    <2>2. ASSUME NEW t \in T, NEW o \in Vin[t]
          PROVE  OutTx[o] \in T
        <3>1. o \in OutPoints /\ OutTx[o] \in Txs
            BY <1>3, TxAssumption
        <3>2. disk.pos[OutTx[o]] # None
            BY <1>3, <2>2 DEF ViewOK, SpentOK
        <3> QED
            BY <3>1, <3>2, <1>2 DEF confirmedTxs
    <2>3. ASSUME NEW t \in T, NEW u \in T, t # u
          PROVE  Vin[t] \cap Vin[u] = {}
        BY <2>3, <1>3 DEF ViewOK, SpentOK
    <2> QED
        BY <2>1, <2>2, <2>3, <1>0, SameBranch DEF L!ValidChain
<1> QED
    BY <1>2, <1>5, <1>6

LEMMA LedgerStep ==
    ASSUME IInv, IInv', TrustInv, TrustInv', [Next]_vars
    PROVE  [L!Next]_L!vars
<1>1. CASE Learns
    <2>1. confirmedTxs' = confirmedTxs /\ unspentOuts' = unspentOuts
        BY <1>1 DEF Learns, confirmedTxs, unspentOuts
    <2>2. CASE mapBlockIndex' = mapBlockIndex
        BY <1>1, <2>1, <2>2 DEF Learns, L!vars
    <2>3. CASE mapBlockIndex' # mapBlockIndex
        <3>1. PICK b \in Blocks : b \notin mapBlockIndex /\ Prev[b] \in mapBlockIndex
                                  /\ mapBlockIndex' = mapBlockIndex \cup {b}
            BY <1>1, <2>3 DEF Learns
        <3>2. L!Learn(b)
            BY <1>1, <2>1, <3>1 DEF Learns, L!Learn
        <3> QED
            BY <1>1, <3>2 DEF Learns, L!Next
    <2> QED
        BY <2>2, <2>3
<1>2. CASE Skips
    <2>1. confirmedTxs' = confirmedTxs /\ unspentOuts' = unspentOuts
        BY <1>2 DEF Skips, confirmedTxs, unspentOuts
    <2>2. CASE skipped = {} /\ skipped' # {}
        BY <1>2, <2>1, <2>2 DEF Skips, L!Derail, L!Next
    <2>3. CASE skipped = {} /\ skipped' = {}
        BY <1>2, <2>1, <2>3 DEF Skips, L!vars
    <2>4. CASE skipped # {}
        BY <1>2, <2>4 DEF Skips, L!Next
    <2> QED
        BY <2>2, <2>3, <2>4
<1>3. CASE Commits
    <2>1. CASE skipped = {}
        <3>1. disk' \in View /\ ViewOK(disk') /\ disk'.best \in Blocks
            BY <1>3, <2>1 DEF Commits, IInv, TypeOK, ChainInv, View
        <3>2. /\ confirmedTxs' = L!TxsOn(disk'.best)
              /\ unspentOuts' = L!UnspentOn(disk'.best)
              /\ L!ValidChain(disk'.best)
            <4>1. (disk \in View /\ ViewOK(disk) =>
                      /\ confirmedTxs = L!TxsOn(disk.best)
                      /\ unspentOuts = L!UnspentOn(disk.best)
                      /\ L!ValidChain(disk.best))'
                BY ViewIsLedger, PTL
            <4> QED
                BY <3>1, <4>1
        <3>3. L!Advance(disk'.best)
            BY <1>3, <2>1, <3>2 DEF Commits, L!Advance
        <3> QED
            BY <2>1, <3>1, <3>3 DEF L!Next
    <2>2. CASE skipped # {}
        BY <1>3, <2>2 DEF Commits, L!Next
    <2> QED
        BY <2>1, <2>2
<1> QED
    BY <1>1, <1>2, <1>3, StepShape DEF IInv

(* The chain state implements the ledger: block by block disconnects and   *)
(* connects, commits in two parts, failures and restarts are to its users  *)
(* one jump from the ledger of a valid chain to that of a heavier one.     *)
THEOREM ChainStateImplementsLedger == Spec => LedgerRefined
<1>1. Init => L!Init
    <2> SUFFICES ASSUME Init PROVE L!Init
        OBVIOUS
    <2>1. disk = GenesisView /\ mapBlockIndex = {Genesis} /\ skipped = {}
        BY DEF Init
    <2>2. confirmedTxs = {} /\ unspentOuts = {} /\ disk.best = Genesis
        BY <2>1, TxAssumption DEF confirmedTxs, unspentOuts, GenesisView
    <2> QED
        BY <2>1, <2>2 DEF L!Init
<1>2. IInv /\ IInv' /\ TrustInv /\ TrustInv' /\ [Next]_vars => [L!Next]_L!vars
    BY LedgerStep
<1> QED
    BY <1>1, <1>2, IInvariant, TrustInvariant, PTL DEF Spec, LedgerRefined, L!Spec


-----------------------------------------------------------------------------
(* Replay and ValidBranch are functions *)

(* Replaying a branch connects its blocks one after the other. *)
LEMMA ReplayDef ==
    /\ Replay \in [Blocks -> View]
    /\ Replay[Genesis] = GenesisView
    /\ \A b \in Blocks \ {Genesis} : Replay[b] = Connect(b, Replay[Prev[b]], None)
<1> DEFINE step == [p \in Blocks \X View |->
                      IF p[1] = Genesis THEN GenesisView ELSE Connect(p[1], p[2], None)]
           Rule(g) == g = [b \in Blocks |->
                             IF b = Genesis THEN GenesisView ELSE Connect(b, g[Prev[b]], None)]
<1>1. Genesis \in Blocks /\ \A b \in Blocks \ {Genesis} : Prev[b] \in Blocks
    BY TreeAssumption
<1>2. GenesisView \in View
    BY <1>1 DEF GenesisView, View
<1>3. \A b \in Blocks \ {Genesis} : \A v \in View : Connect(b, v, None) \in View
    BY ConnectType
<1>4. step \in [Blocks \X View -> View]
    <2> HIDE DEF View, Connect, GenesisView
    <2> QED
        BY <1>2, <1>3
<1>5. \A b \in Blocks \ {Genesis} : \A v \in View : step[<<b, v>>] = Connect(b, v, None)
    OBVIOUS
<1> HIDE DEF step
<1>6. PICK f : FollowsTree(f, View, GenesisView, step)
    BY <1>2, <1>4, TreeRecursion
<1>7. \A b \in Blocks :
         f[b] = IF b = Genesis THEN GenesisView ELSE Connect(b, f[Prev[b]], None)
    BY <1>1, <1>5, <1>6 DEF FollowsTree
<1>8. Rule(f)
    BY <1>6, <1>7 DEF FollowsTree
<1>9. Rule(Replay)
    <2>1. Replay = CHOOSE g : Rule(g)
        BY DEF Replay
    <2> HIDE DEF Rule
    <2> QED
        BY <2>1, <1>8
<1>10. \A b \in Blocks :
         Replay[b] = IF b = Genesis THEN GenesisView ELSE Connect(b, Replay[Prev[b]], None)
    BY <1>9
<1> DEFINE S == {b \in Blocks : Replay[b] \in View}
<1>11. \A b \in Blocks : b \in S
    <2>1. Genesis \in S
        BY <1>1, <1>2, <1>10
    <2>2. \A b \in Blocks \ {Genesis} : Prev[b] \in S => b \in S
        BY <1>3, <1>10
    <2> HIDE DEF S
    <2> QED
        BY <2>1, <2>2, TreeInduction
<1> QED
    BY <1>1, <1>9, <1>10, <1>11

(* A branch is valid when its parent branch is and its tip connects there. *)
LEMMA ValidBranchDef ==
    /\ ValidBranch \in [Blocks -> BOOLEAN]
    /\ ValidBranch[Genesis]
    /\ \A b \in Blocks \ {Genesis} :
          ValidBranch[b] <=> ValidBranch[Prev[b]] /\ Connectable(b, Replay[Prev[b]])
<1> DEFINE ok(b) == Connectable(b, Replay[Prev[b]])
           step == [p \in Blocks \X BOOLEAN |-> p[2] /\ ok(p[1])]
           Rule(g) == g = [b \in Blocks |-> b = Genesis \/ (g[Prev[b]] /\ ok(b))]
<1>1. Genesis \in Blocks /\ \A b \in Blocks \ {Genesis} : Prev[b] \in Blocks
    BY TreeAssumption
<1>2. ValidBranch = CHOOSE g : Rule(g)
    BY DEF ValidBranch
<1> HIDE DEF ok
<1>3. step \in [Blocks \X BOOLEAN -> BOOLEAN]
    OBVIOUS
<1>4. \A b \in Blocks : \A v \in BOOLEAN : step[<<b, v>>] = (v /\ ok(b))
    OBVIOUS
<1> HIDE DEF step
<1>5. PICK f : FollowsTree(f, BOOLEAN, TRUE, step)
    BY <1>3, TreeRecursion
<1>6. \A b \in Blocks : f[b] = (b = Genesis \/ (f[Prev[b]] /\ ok(b)))
    BY <1>1, <1>4, <1>5 DEF FollowsTree
<1>7. Rule(f)
    BY <1>5, <1>6 DEF FollowsTree
<1>8. Rule(ValidBranch)
    <2> HIDE DEF Rule
    <2> QED
        BY <1>2, <1>7
<1>9. \A b \in Blocks : ValidBranch[b] = (b = Genesis \/ (ValidBranch[Prev[b]] /\ ok(b)))
    BY <1>8
<1>10. \A b \in Blocks : ValidBranch[b] \in BOOLEAN
    BY <1>9
<1> QED
    BY <1>1, <1>8, <1>9, <1>10 DEF ok

(* With a block's branch, the branch of each block below it is valid.      *)
LEMMA ValidBelow ==
    ASSUME NEW b \in Blocks, ValidBranch[b], NEW x \in Branch[b]
    PROVE  ValidBranch[x]
<1> DEFINE S == {y \in Blocks : ValidBranch[y]}
<1>1. Closed(S)
    BY ValidBranchDef, TreeAssumption DEF Closed
<1> QED
    BY <1>1, BranchLeast

-----------------------------------------------------------------------------
(* DisconnectBlock undoes ConnectBlock *)

LEMMA GenesisViewOK == GenesisView \in View /\ ViewOK(GenesisView)
<1>1. GenesisView \in View /\ GenesisView.best = Genesis
    BY TreeAssumption DEF GenesisView, View
<1>2. Branch[Genesis] = {Genesis}
    <2>1. Closed({Genesis})
        BY DEF Closed
    <2> QED
        BY <2>1, BranchLeast, BranchClosed, TreeAssumption
<1>3. TxsOf(Genesis) = {}
    BY TxAssumption DEF TxsOf
<1>4. ChainOK(GenesisView.next, Genesis)
    BY <1>2 DEF ChainOK, GenesisView
<1>5. PosOK(GenesisView) /\ SpentOK(GenesisView)
    BY <1>2, <1>3 DEF PosOK, SpentOK, GenesisView
<1> QED
    BY <1>1, <1>4, <1>5 DEF ViewOK

(* The index of a valid branch is consistent, and belongs to its tip.      *)
LEMMA ReplayOK ==
    ASSUME NEW b \in Blocks
    PROVE  Replay[b].best = b /\ (ValidBranch[b] => ViewOK(Replay[b]))
<1> DEFINE S == {c \in Blocks : Replay[c].best = c /\ (ValidBranch[c] => ViewOK(Replay[c]))}
<1>1. Genesis \in S
    BY ReplayDef, GenesisViewOK, TreeAssumption DEF GenesisView
<1>2. ASSUME NEW c \in Blocks \ {Genesis}, Prev[c] \in S
      PROVE  c \in S
    <2>1. Replay[c] = Connect(c, Replay[Prev[c]], None) /\ Replay[Prev[c]] \in View
        BY <1>2, ReplayDef
    <2>2. Replay[c].best = c
        BY <2>1 DEF Connect
    <2>3. ASSUME ValidBranch[c] PROVE ViewOK(Replay[c])
        <3>1. Connectable(c, Replay[Prev[c]]) /\ ViewOK(Replay[Prev[c]])
                 /\ Replay[Prev[c]].best = Prev[c]
            BY <1>2, <2>3, ValidBranchDef
        <3> QED
            BY <2>1, <3>1, ConnectOK
    <2> QED
        BY <2>2, <2>3
<1> HIDE DEF S
<1>3. b \in S
    BY <1>1, <1>2, TreeInduction
<1> QED
    BY <1>3 DEF S

(* An output that a block's transactions make or spend is not marked spent *)
(* before the block is connected.                                          *)
LEMMA ConnectFindsUnspent ==
    ASSUME NEW v \in View, ViewOK(v),
           NEW b \in Blocks \ {Genesis}, Prev[b] = v.best, Connectable(b, v),
           NEW o \in OutPoints, Spends(b, o) # {} \/ OutTx[o] \in TxsOf(b)
    PROVE  v.spent[o] = None
<1>0. v.spent[o] \in Txs \cup {None}
    BY DEF View
<1>1. CASE OutTx[o] \in TxsOf(b)
    <2>1. v.pos[OutTx[o]] = None
        BY <1>1, ConnectFresh
    <2>2. ASSUME v.spent[o] # None PROVE FALSE
        <3>1. v.spent[o] \in Txs /\ v.pos[v.spent[o]] # None /\ o \in Vin[v.spent[o]]
            BY <1>0, <2>2 DEF ViewOK, SpentOK
        <3> QED
            BY <2>1, <3>1 DEF ViewOK, SpentOK
    <2> QED
        BY <2>2
<1>2. CASE OutTx[o] \notin TxsOf(b)
    <2>1. PICK i \in DOMAIN Vtx[b] : o \in Vin[Vtx[b][i]]
        BY <1>2 DEF Spends, TxsOf
    <2>2. InputOK(b, i, o, v) /\ Earlier(b, i) \subseteq TxsOf(b)
        BY <2>1, TxsOfType DEF Connectable
    <2> QED
        BY <1>2, <2>2 DEF InputOK
<1> QED
    BY <1>1, <1>2

(* Disconnecting the tip brings back the view it was connected to.         *)
LEMMA DisconnectInverts ==
    ASSUME NEW v \in View, ViewOK(v),
           NEW b \in Blocks \ {Genesis}, Prev[b] = v.best, Connectable(b, v)
    PROVE  Disconnect(b, Connect(b, v, None)) = v
<1> DEFINE w == Connect(b, v, None)
           d == Disconnect(b, w)
<1>0. /\ v.best \in Blocks
      /\ v.next \in [Blocks -> Blocks \cup {None}]
      /\ v.pos \in [Txs -> Blocks \cup {None}]
      /\ v.spent \in [OutPoints -> Txs \cup {None}]
    BY DEF View
<1>1. v = [next |-> v.next, pos |-> v.pos, spent |-> v.spent, best |-> v.best]
    BY DEF View
<1>2. /\ d = [next |-> d.next, pos |-> d.pos, spent |-> d.spent, best |-> d.best]
      /\ d.best = v.best
    BY DEF Disconnect
<1>3. d.next = v.next
    <2>1. d.next = [[v.next EXCEPT ![b] = None, ![v.best] = b] EXCEPT ![v.best] = None]
        BY DEF Disconnect, Connect
    <2>2. v.next[b] = None
        BY <1>0, BranchIrreflexive, OffBranchNextIsNull DEF ViewOK
    <2>3. v.next[v.best] = None
        <3>1. SUFFICES ASSUME v.next[v.best] # None PROVE FALSE
            OBVIOUS
        <3> DEFINE c == v.next[v.best]
        <3>2. c \in Branch[v.best] /\ c \in Blocks \ {Genesis} /\ Prev[c] = v.best
            BY <1>0, <3>1, BranchClosed DEF ViewOK, ChainOK
        <3> HIDE DEF c
        <3> QED
            BY <3>2, BranchIrreflexive
    <2> QED
        BY <1>0, <2>1, <2>2, <2>3
<1>4. d.pos = v.pos
    <2>1. d.pos = [t \in Txs |-> IF t \in TxsOf(b) THEN None ELSE v.pos[t]]
        BY DEF Disconnect, Connect
    <2>2. \A t \in TxsOf(b) : v.pos[t] = None
        BY ConnectFresh
    <2> QED
        BY <1>0, <2>1, <2>2
<1>5. d.spent = v.spent
    <2>1. d.spent = [o \in OutPoints |->
                       IF Spends(b, o) # {} \/ OutTx[o] \in TxsOf(b) THEN None
                       ELSE v.spent[o]]
        BY DEF Disconnect, Connect
    <2>2. \A o \in OutPoints : Spends(b, o) # {} \/ OutTx[o] \in TxsOf(b) => v.spent[o] = None
        BY ConnectFindsUnspent
    <2> QED
        BY <1>0, <2>1, <2>2
<1> QED
    BY <1>1, <1>2, <1>3, <1>4, <1>5

(* DisconnectInputs finds every index entry of a block that was connected. *)
LEMMA ConnectedDisconnects ==
    ASSUME NEW v \in View, ViewOK(v),
           NEW b \in Blocks \ {Genesis}, Prev[b] = v.best, Connectable(b, v)
    PROVE  Disconnectable(b, Connect(b, v, None))
<1> DEFINE w == Connect(b, v, None)
<1>1. w.pos = [t \in Txs |-> IF t \in TxsOf(b) THEN b ELSE v.pos[t]] /\ b # None
    BY TreeAssumption DEF Connect
<1> SUFFICES ASSUME NEW i \in DOMAIN Vtx[b], NEW o \in Vin[Vtx[b][i]]
             PROVE  w.pos[OutTx[o]] # None /\ OutTx[o] \notin Later(b, i)
    BY DEF Disconnectable
<1>2. InputOK(b, i, o, v)
    BY DEF Connectable
<1>3. Vtx[b][i] \in Txs /\ o \in OutPoints /\ OutTx[o] \in Txs /\ i \in Nat
         /\ Earlier(b, i) \subseteq TxsOf(b) /\ DOMAIN Vtx[b] \in SUBSET Nat
    BY TxsOfType, TxAssumption
<1>4. Later(b, i) \subseteq TxsOf(b)
    BY DEF Later, TxsOf
<1>5. CASE OutTx[o] \in Earlier(b, i)
    <2>1. w.pos[OutTx[o]] = b
        BY <1>1, <1>3, <1>5
    <2>2. OutTx[o] \notin Later(b, i)
        BY <1>3, <1>5, TxAssumption DEF Earlier, Later
    <2> QED
        BY <1>1, <2>1, <2>2
<1>6. CASE OutTx[o] \notin Earlier(b, i)
    <2>1. v.pos[OutTx[o]] # None
        BY <1>2, <1>6 DEF InputOK
    <2>2. OutTx[o] \notin TxsOf(b)
        BY <2>1, ConnectFresh
    <2> QED
        BY <1>1, <1>3, <1>4, <2>1, <2>2
<1> QED
    BY <1>5, <1>6

-----------------------------------------------------------------------------
(* The inductive invariant *)

(* v is the index of one valid branch, and nothing else. *)
IsReplay(v) == ValidBranch[v.best] /\ v = Replay[v.best]

(* What is committed is a replay, and during a reorganisation so is what   *)
(* the open transaction sees.                                              *)
ReplayInv ==
    /\ IsReplay(disk)
    /\ pc = "reorg" => IsReplay(txn)

(* The queue of ProcessBlock, and the block SetBestChain works on: it      *)
(* beats the best chain from AddToBlockIndex to the end of the call.       *)
Queued == {vWorkQueue[i] : i \in DOMAIN vWorkQueue}
QueueInv ==
    /\ pc = "idle" => vWorkQueue = <<>>
    /\ pc \in {"idle", "orphans"} => pindexNew = None
    /\ pindexNew # None => NewBest(pindexNew)

(* An orphan whose parent is indexed will still be looked at, or its       *)
(* parent is a block that was refused.                                     *)
OrphanInv ==
    \A o \in mapOrphanBlocks : Prev[o] \in mapBlockIndex =>
        Prev[o] \in Queued \cup {pindexNew} \/ ~ValidBranch[Prev[o]]

(* A block heavier than the best chain is the one SetBestChain works on,   *)
(* or it was refused.                                                      *)
BestInv ==
    \A b \in mapBlockIndex :
        ChainTrust[b] > ChainTrust[pindexBest] => b = pindexNew \/ ~ValidBranch[b]

(* What is disconnected waits in vResurrect, and until the commit it is    *)
(* still confirmed on disk.                                                *)
ResurrectInv ==
    /\ pc \notin {"reorg", "resurrect"} => vResurrect = {}
    /\ pc = "reorg" => \A t \in vResurrect : disk.pos[t] # None
    /\ pc = "reorg" => \A t \in Txs \ Generated :
          disk.pos[t] # None /\ txn.pos[t] = None => t \in vResurrect
    /\ pc = "resurrect" => disk.best = pindexIntermediate

RouteInv ==
    /\ QueueInv
    /\ skipped = {} => ReplayInv /\ OrphanInv /\ ResurrectInv
    /\ skipped = {} /\ restarts = 0 => BestInv

(* DisconnectBlock takes a replay to the replay of the parent. *)
LEMMA DisconnectReplay ==
    ASSUME NEW v \in View, IsReplay(v), v.best # Genesis
    PROVE  Disconnectable(v.best, v) /\ IsReplay(Disconnect(v.best, v))
<1> DEFINE b == v.best
           u == Replay[Prev[b]]
<1>1. b \in Blocks \ {Genesis} /\ Prev[b] \in Blocks
    BY TreeAssumption DEF View
<1>2. ValidBranch[b] /\ v = Replay[b]
    BY DEF IsReplay
<1>3. ValidBranch[Prev[b]] /\ Connectable(b, u) /\ v = Connect(b, u, None) /\ u \in View
    BY <1>1, <1>2, ValidBranchDef, ReplayDef
<1>4. ViewOK(u) /\ u.best = Prev[b]
    BY <1>1, <1>3, ReplayOK
<1> HIDE DEF b, u
<1>5. Disconnect(b, v) = u /\ Disconnectable(b, v)
    BY <1>1, <1>3, <1>4, DisconnectInverts, ConnectedDisconnects
<1> QED
    BY <1>3, <1>4, <1>5 DEF IsReplay, b, u

(* ConnectBlock takes a replay to the replay of the child, and a block it  *)
(* refuses heads no valid branch.                                          *)
LEMMA ConnectReplay ==
    ASSUME NEW v \in View, IsReplay(v),
           NEW c \in Blocks \ {Genesis}, Prev[c] = v.best
    PROVE  /\ Connectable(c, v) => IsReplay(Connect(c, v, None))
           /\ Connectable(c, v) <=> ValidBranch[c]
<1>1. v = Replay[Prev[c]] /\ ValidBranch[Prev[c]]
    BY DEF IsReplay
<1>2. Connectable(c, v) <=> ValidBranch[c]
    BY <1>1, ValidBranchDef
<1>3. Connect(c, v, None) = Replay[c] /\ Replay[c].best = c
    BY <1>1, ReplayDef, ReplayOK
<1> QED
    BY <1>2, <1>3 DEF IsReplay

(* SetBestChain fails only for a block whose branch is not valid.          *)
LEMMA FailureMeansInvalid ==
    ASSUME IInv, TrustInv, RouteInv, skipped = {},
           DisconnectBlockFails \/ ConnectBlockFails \/ ExtendBestChainFails
    PROVE  ~ValidBranch[pindexNew]
<1>0. /\ TypeOK /\ ChainInv /\ ReplayInv
      /\ disk \in View /\ txn \in View /\ pindexNew \in Blocks \ {Genesis}
      /\ pindexBest \in Blocks
    BY DEF IInv, RouteInv, TypeOK, DisconnectBlockFails, ConnectBlockFails,
       ExtendBestChainFails
<1>1. CASE DisconnectBlockFails
    <2>1. pc = "reorg" /\ txn.best \in vDisconnect /\ ~Disconnectable(txn.best, txn)
             /\ pindexIntermediate \in Blocks
        BY <1>0, <1>1 DEF DisconnectBlockFails, TypeOK
    <2>2. txn.best # Genesis /\ IsReplay(txn)
        BY <1>0, <2>1, GenesisInBranch DEF ReplayInv, vDisconnect
    <2> QED
        BY <1>0, <2>1, <2>2, DisconnectReplay
<1>2. CASE ConnectBlockFails
    <2>1. PICK c \in vConnect : Prev[c] = txn.best /\ ~Connectable(c, txn)
        BY <1>2 DEF ConnectBlockFails
    <2>2. pc = "reorg" /\ pindexIntermediate \in Blocks /\ IsReplay(txn)
             /\ pindexIntermediate \in Branch[pindexNew]
        BY <1>0, <1>2 DEF ConnectBlockFails, TypeOK, ReplayInv, ChainInv
    <2>3. c \in Branch[pindexIntermediate] /\ c \in Blocks \ {Genesis}
        BY <1>0, <2>1, <2>2, BranchClosed, GenesisInBranch DEF vConnect
    <2>4. ~ValidBranch[c]
        BY <1>0, <2>1, <2>2, <2>3, ConnectReplay
    <2> QED
        BY <1>0, <2>2, <2>3, <2>4, ValidBelow
<1>3. CASE ExtendBestChainFails
    <2>1. Prev[pindexNew] = disk.best /\ ~Connectable(pindexNew, disk) /\ IsReplay(disk)
        BY <1>0, <1>3 DEF ExtendBestChainFails, ChainInv, ReplayInv
    <2> QED
        BY <1>0, <2>1, ConnectReplay
<1> QED
    BY <1>1, <1>2, <1>3

(* ProcessBlock's queue: what is appended, and what remains behind the head. *)
LEMMA QueueFacts ==
    ASSUME NEW q \in Seq(Blocks), NEW b \in Blocks
    PROVE  /\ {Append(q, b)[i] : i \in DOMAIN Append(q, b)}
                 = {q[i] : i \in DOMAIN q} \cup {b}
           /\ q # <<>> => \A i \in DOMAIN q :
                 q[i] = Head(q) \/ \E j \in DOMAIN Tail(q) : Tail(q)[j] = q[i]
<1>1. {Append(q, b)[i] : i \in DOMAIN Append(q, b)} = {q[i] : i \in DOMAIN q} \cup {b}
    <2> DEFINE r == Append(q, b)
    <2>1. /\ r \in Seq(Blocks) /\ Len(r) = Len(q) + 1
          /\ \A i \in 1 .. Len(q) : r[i] = q[i]
          /\ r[Len(q) + 1] = b
          /\ Len(q) \in Nat /\ DOMAIN q = 1 .. Len(q) /\ DOMAIN r = 1 .. Len(q) + 1
        BY AppendProperties, LenProperties
    <2> HIDE DEF r
    <2>2. \A i \in 1 .. Len(q) + 1 : i \in 1 .. Len(q) \/ i = Len(q) + 1
        BY <2>1
    <2>3. 1 .. Len(q) \subseteq 1 .. Len(q) + 1 /\ Len(q) + 1 \in 1 .. Len(q) + 1
        BY <2>1
    <2> QED
        BY <2>1, <2>2, <2>3 DEF r
<1>2. ASSUME q # <<>>, NEW i \in DOMAIN q, q[i] # Head(q)
      PROVE  \E j \in DOMAIN Tail(q) : Tail(q)[j] = q[i]
    <2>1. /\ Len(q) \in Nat /\ DOMAIN q = 1 .. Len(q) /\ Len(q) # 0
          /\ Tail(q) \in Seq(Blocks) /\ Len(Tail(q)) = Len(q) - 1 /\ Head(q) = q[1]
          /\ \A j \in 1 .. Len(Tail(q)) : Tail(q)[j] = q[j + 1]
        BY <1>2, HeadTailProperties, LenProperties, EmptySeq
    <2>2. i - 1 \in 1 .. Len(Tail(q)) /\ (i - 1) + 1 = i
        BY <1>2, <2>1
    <2>3. DOMAIN Tail(q) = 1 .. Len(Tail(q))
        BY <2>1, LenProperties
    <2> QED
        BY <2>1, <2>2, <2>3
<1> QED
    BY <1>1, <1>2

USE DEF index, pool, orphans, best, work

(* A failed reconnect is never forgotten, nor a restart. *)
LEMMA SkippedGrows ==
    ASSUME TypeOK, [Next]_vars
    PROVE  skipped \subseteq skipped' /\ (restarts' = 0 => restarts = 0)
<1>1. CASE FinishReorganize
    BY <1>1 DEF FinishReorganize
<1>2. CASE Restart
    BY <1>2 DEF Restart, TypeOK
<1>3. ASSUME NEW b \in Blocks, AcceptOrphanBlock(b) \/ ReceiveBlock(b)
      PROVE  UNCHANGED <<skipped, restarts>>
    BY <1>3 DEF AcceptOrphanBlock, ReceiveBlock, ProcessDuplicateStake, ProcessOrphanBlock,
       ProcessBlock
<1>4. ASSUME NEW t \in Txs, AcceptToMemoryPool(t)
      PROVE  UNCHANGED <<skipped, restarts>>
    BY <1>4 DEF AcceptToMemoryPool
<1>5. CASE \/ BeginReorganize \/ DisconnectBlock \/ DisconnectBlockFails \/ ConnectBlock
           \/ ConnectBlockFails \/ CommitReorganize \/ ResurrectTx \/ DeleteRedundantTxs
           \/ ConnectSecondary \/ ExtendBestChain \/ ExtendBestChainFails \/ NextInWorkQueue
           \/ UNCHANGED vars
    BY <1>5 DEF BeginReorganize, DisconnectBlock, DisconnectBlockFails, ConnectBlock,
       ConnectBlockFails, CommitReorganize, ResurrectTx, DeleteRedundantTxs, ConnectSecondary,
       ExtendBestChain, ExtendBestChainFails, NextInWorkQueue, SetBestChainFailed, vars
<1> QED
    BY <1>1, <1>2, <1>3, <1>4, <1>5 DEF Next, Step, Reorganize, Receive

LEMMA QueueStep ==
    ASSUME TypeOK, QueueInv, [Next]_vars
    PROVE  QueueInv'
<1>1. CASE SetBestChainFailed
    BY <1>1 DEF SetBestChainFailed, Rejected, QueueInv, NewBest
<1>2. CASE SetBestChainDone
    BY <1>2 DEF SetBestChainDone, Accepted, QueueInv, NewBest
<1>3. ASSUME NEW b \in Blocks, AddToBlockIndex(b), pc \in {"idle", "orphans"},
             pindexBest' = pindexBest
      PROVE  QueueInv'
    BY <1>3 DEF AddToBlockIndex, Accepted, QueueInv, NewBest
<1>4. ASSUME NEW o \in Blocks, AcceptOrphanBlock(o)
      PROVE  QueueInv'
    <2>1. CASE AcceptBlockOK(o)
        BY <1>4, <1>3, <2>1 DEF AcceptOrphanBlock
    <2>2. CASE ~AcceptBlockOK(o)
        BY <1>4, <2>2 DEF AcceptOrphanBlock, QueueInv, NewBest
    <2> QED
        BY <2>1, <2>2
<1>5. ASSUME NEW b \in Blocks, ReceiveBlock(b)
      PROVE  QueueInv'
    <2>1. CASE ProcessBlock(b)
        BY <1>3, <2>1 DEF ProcessBlock
    <2>2. CASE ProcessDuplicateStake(b) \/ ProcessOrphanBlock(b)
        BY <2>2 DEF ProcessDuplicateStake, ProcessOrphanBlock, QueueInv, NewBest
    <2> QED
        BY <1>5, <2>1, <2>2 DEF ReceiveBlock
<1>6. ASSUME NEW t \in Txs, AcceptToMemoryPool(t)
      PROVE  QueueInv'
    BY <1>6 DEF AcceptToMemoryPool, QueueInv, NewBest
<1>7. CASE NextInWorkQueue
    BY <1>7 DEF NextInWorkQueue, QueueInv, NewBest
<1>8. CASE \/ BeginReorganize \/ DisconnectBlock \/ ConnectBlock \/ CommitReorganize
           \/ ResurrectTx \/ DeleteRedundantTxs \/ ConnectSecondary \/ Restart
    BY <1>8 DEF BeginReorganize, DisconnectBlock, ConnectBlock, CommitReorganize, ResurrectTx,
       DeleteRedundantTxs, ConnectSecondary, Restart, QueueInv, NewBest
<1>9. CASE UNCHANGED vars
    BY <1>9 DEF vars, QueueInv, NewBest
<1> QED
    BY <1>1, <1>2, <1>4, <1>5, <1>6, <1>7, <1>8, <1>9
    DEF Next, Step, Reorganize, Receive, DisconnectBlockFails, ConnectBlockFails,
        ExtendBestChainFails, ExtendBestChain, FinishReorganize

(* SetBestChainInner takes a committed replay to the next one. *)
LEMMA InnerReplay ==
    ASSUME TypeOK, ChainInv, IsReplay(disk),
           NEW b \in Blocks \ {Genesis}, Prev[b] = disk.best, SetBestChainInner(b)
    PROVE  IsReplay(disk') /\ disk' = Connect(b, disk, None)
<1>1. disk \in View /\ disk.best \in Blocks /\ disk.next \in [Blocks -> Blocks \cup {None}]
    BY DEF TypeOK, View
<1>2. pnext[b] = None
    BY <1>1, BranchIrreflexive, OffBranchNextIsNull DEF ChainInv, ViewOK
<1>3. disk' = Connect(b, disk, None) /\ Connectable(b, disk)
    BY <1>2 DEF SetBestChainInner
<1> QED
    BY <1>1, <1>3, ConnectReplay

LEMMA ReplayStep ==
    ASSUME TypeOK, ChainInv, ReplayInv, [Next]_vars
    PROVE  ReplayInv'
<1>0. disk \in View /\ txn \in View /\ disk.best \in Blocks /\ txn.best \in Blocks
         /\ pindexBest \in Blocks /\ disk.next \in [Blocks -> Blocks \cup {None}]
    BY DEF TypeOK, View
<1>1. CASE BeginReorganize
    <2>1. pindexBest = disk.best /\ txn' = [disk EXCEPT !.best = pindexBest] /\ disk' = disk
        BY <1>1 DEF BeginReorganize, ChainInv
    <2>2. txn' = disk
        BY <1>0, <2>1 DEF View
    <2> QED
        BY <2>1, <2>2 DEF ReplayInv, IsReplay
<1>2. CASE DisconnectBlock
    <2>1. pc = "reorg" /\ txn.best \in vDisconnect /\ txn' = Disconnect(txn.best, txn)
             /\ disk' = disk /\ pindexIntermediate \in Blocks
        BY <1>2 DEF DisconnectBlock, TypeOK
    <2>2. txn.best # Genesis /\ IsReplay(txn)
        BY <1>0, <2>1, GenesisInBranch DEF ReplayInv, vDisconnect
    <2>3. IsReplay(txn')
        BY <1>0, <2>1, <2>2, DisconnectReplay
    <2> QED
        BY <2>1, <2>3 DEF ReplayInv, IsReplay
<1>3. CASE ConnectBlock
    <2>1. PICK c \in vConnect : /\ Prev[c] = txn.best /\ Connectable(c, txn)
                                /\ txn' = Connect(c, txn, pnext[c])
        BY <1>3 DEF ConnectBlock
    <2>2. pc = "reorg" /\ IsReplay(txn) /\ disk' = disk /\ pindexIntermediate \in Blocks
             /\ pindexBest = disk.best /\ pnext = disk.next
        BY <1>3 DEF ConnectBlock, ReplayInv, TypeOK, ChainInv
    <2>3. c \in Blocks \ {Genesis} /\ c \notin Branch[disk.best]
        BY <1>0, <2>1, <2>2, BranchClosed, GenesisInBranch DEF vConnect
    <2>4. pnext[c] = None
        BY <1>0, <2>2, <2>3, OffBranchNextIsNull DEF ChainInv, ViewOK
    <2>5. IsReplay(txn')
        BY <1>0, <2>1, <2>2, <2>3, <2>4, ConnectReplay
    <2> QED
        BY <2>2, <2>5 DEF ReplayInv, IsReplay
<1>4. CASE CommitReorganize
    BY <1>4 DEF CommitReorganize, ReplayInv, IsReplay
<1>5. CASE ConnectSecondary
    <2>1. PICK c \in NextSecondary : SetBestChainInner(c)
        BY <1>5 DEF ConnectSecondary
    <2>2. c \in Blocks \ {Genesis} /\ Prev[c] = disk.best
        BY <1>5, <2>1, BranchClosed DEF NextSecondary, ConnectSecondary, TypeOK
    <2>3. IsReplay(disk')
        BY <2>1, <2>2, InnerReplay DEF ReplayInv
    <2> QED
        BY <1>5, <2>3 DEF ConnectSecondary, ReplayInv
<1>6. CASE ExtendBestChain
    <2>1. pindexNew \in Blocks \ {Genesis} /\ Prev[pindexNew] = disk.best
             /\ SetBestChainInner(pindexNew) /\ pc' = "orphans"
        BY <1>6 DEF ExtendBestChain, ChainInv, TypeOK, SetBestChainDone, Accepted
    <2>2. IsReplay(disk')
        BY <2>1, InnerReplay DEF ReplayInv
    <2> QED
        BY <2>1, <2>2 DEF ReplayInv
<1>7. CASE disk' = disk /\ (pc' = "reorg" => pc = "reorg" /\ txn' = txn)
    BY <1>7 DEF ReplayInv, IsReplay
<1>8. CASE \/ SetBestChainFailed \/ ResurrectTx \/ DeleteRedundantTxs \/ FinishReorganize
           \/ NextInWorkQueue \/ Restart \/ UNCHANGED vars
    <2>1. disk' = disk /\ (pc' = "reorg" => pc = "reorg" /\ txn' = txn)
        BY <1>8 DEF SetBestChainFailed, Rejected, ResurrectTx, DeleteRedundantTxs,
           FinishReorganize, SetBestChainDone, Accepted, NextInWorkQueue, Restart, vars
    <2> QED
        BY <2>1, <1>7
<1>9. ASSUME NEW b \in Blocks, AcceptOrphanBlock(b) \/ ReceiveBlock(b)
      PROVE  ReplayInv'
    <2>1. disk' = disk /\ pc' # "reorg"
        BY <1>9 DEF AcceptOrphanBlock, ReceiveBlock, ProcessDuplicateStake,
           ProcessOrphanBlock, ProcessBlock, AddToBlockIndex, Accepted
    <2> QED
        BY <2>1, <1>7
<1>10. ASSUME NEW t \in Txs, AcceptToMemoryPool(t)
       PROVE  ReplayInv'
    BY <1>10, <1>7 DEF AcceptToMemoryPool
<1> QED
    BY <1>1, <1>2, <1>3, <1>4, <1>5, <1>6, <1>8, <1>9, <1>10
    DEF Next, Step, Reorganize, Receive, DisconnectBlockFails, ConnectBlockFails,
        ExtendBestChainFails

(* A block that enters the index is queued or handed to SetBestChain.      *)
LEMMA AddedIsSeen ==
    ASSUME TypeOK, QueueInv, pc \in {"idle", "orphans"},
           NEW b \in Blocks, AddToBlockIndex(b)
    PROVE  /\ pindexNew = None /\ b \in Queued' \cup {pindexNew'}
           /\ Queued \subseteq Queued' /\ mapBlockIndex' = mapBlockIndex \cup {b}
           /\ NewBest(b) => pindexNew' = b
<1>1. pindexNew = None /\ mapBlockIndex' = mapBlockIndex \cup {b}
    BY DEF QueueInv, AddToBlockIndex
<1>2. CASE NewBest(b)
    BY <1>1, <1>2 DEF AddToBlockIndex, Queued
<1>3. CASE ~NewBest(b)
    <2>1. vWorkQueue' = Append(vWorkQueue, b) /\ vWorkQueue \in Seq(Blocks)
        BY <1>3 DEF AddToBlockIndex, Accepted, TypeOK
    <2>2. Queued' = Queued \cup {b}
        BY <2>1, QueueFacts DEF Queued
    <2> QED
        BY <1>1, <1>3, <2>2
<1> QED
    BY <1>2, <1>3

LEMMA OrphanStep ==
    ASSUME IInv, TrustInv, RouteInv, skipped = {}, [Next]_vars
    PROVE  OrphanInv'
<1>0. TypeOK /\ QueueInv /\ OrphanInv /\ None \notin mapBlockIndex
         /\ vWorkQueue \in Seq(Blocks)
    BY TreeAssumption DEF IInv, RouteInv, TypeOK
<1>1. CASE DisconnectBlockFails \/ ConnectBlockFails \/ ExtendBestChainFails
    <2>1. ~ValidBranch[pindexNew]
        BY <1>1, FailureMeansInvalid
    <2>2. /\ mapOrphanBlocks' = mapOrphanBlocks /\ mapBlockIndex' = mapBlockIndex
          /\ vWorkQueue' = vWorkQueue
        BY <1>1 DEF DisconnectBlockFails, ConnectBlockFails, ExtendBestChainFails,
           SetBestChainFailed, Rejected
    <2> QED
        BY <1>0, <2>1, <2>2 DEF OrphanInv, Queued
<1>2. CASE ExtendBestChain \/ FinishReorganize
    <2>1. /\ mapOrphanBlocks' = mapOrphanBlocks /\ mapBlockIndex' = mapBlockIndex
          /\ vWorkQueue' = Append(vWorkQueue, pindexNew) /\ pindexNew \in Blocks
        BY <1>0, <1>2 DEF ExtendBestChain, FinishReorganize, SetBestChainDone, Accepted, TypeOK
    <2>2. Queued' = Queued \cup {pindexNew}
        BY <1>0, <2>1, QueueFacts DEF Queued
    <2> QED
        BY <1>0, <2>1, <2>2 DEF OrphanInv
<1>3. ASSUME NEW b \in Blocks, AddToBlockIndex(b), pc \in {"idle", "orphans"},
             mapOrphanBlocks' \subseteq mapOrphanBlocks
      PROVE  OrphanInv'
    BY <1>0, <1>3, AddedIsSeen DEF OrphanInv
<1>4. ASSUME NEW o \in Blocks, AcceptOrphanBlock(o)
      PROVE  OrphanInv'
    <2>0. mapOrphanBlocks' \subseteq mapOrphanBlocks /\ pc = "orphans"
        BY <1>4 DEF AcceptOrphanBlock, EraseOrphan
    <2>1. CASE AcceptBlockOK(o)
        BY <1>4, <1>3, <2>0, <2>1 DEF AcceptOrphanBlock
    <2>2. CASE ~AcceptBlockOK(o)
        <3>1. UNCHANGED <<mapBlockIndex, pindexNew, vWorkQueue>>
            BY <1>4, <2>2 DEF AcceptOrphanBlock
        <3> QED
            BY <1>0, <2>0, <3>1 DEF OrphanInv, Queued
    <2> QED
        BY <2>1, <2>2
<1>5. ASSUME NEW b \in Blocks, ReceiveBlock(b)
      PROVE  OrphanInv'
    <2>1. CASE ProcessBlock(b)
        BY <1>3, <2>1 DEF ProcessBlock
    <2>2. CASE ProcessDuplicateStake(b)
        BY <1>0, <2>2 DEF ProcessDuplicateStake, OrphanInv, Queued
    <2>3. CASE ProcessOrphanBlock(b)
        BY <1>0, <2>3 DEF ProcessOrphanBlock, OrphanInv, Queued
    <2> QED
        BY <1>5, <2>1, <2>2, <2>3 DEF ReceiveBlock
<1>6. ASSUME NEW t \in Txs, AcceptToMemoryPool(t)
      PROVE  OrphanInv'
    BY <1>0, <1>6 DEF AcceptToMemoryPool, OrphanInv, Queued
<1>7. CASE NextInWorkQueue
    <2>1. /\ UNCHANGED <<mapOrphanBlocks, mapBlockIndex, pindexNew>>
          /\ vWorkQueue' = Tail(vWorkQueue) /\ vWorkQueue # <<>>
          /\ \A o \in mapOrphanBlocks : Prev[o] # Head(vWorkQueue)
        BY <1>0, <1>7 DEF NextInWorkQueue, HasOrphanChild, TypeOK
    <2>2. \A x \in Queued : x = Head(vWorkQueue) \/ x \in Queued'
        BY <1>0, <2>1, QueueFacts, TreeAssumption DEF Queued
    <2> QED
        BY <1>0, <2>1, <2>2 DEF OrphanInv
<1>8. CASE \/ BeginReorganize \/ DisconnectBlock \/ ConnectBlock \/ CommitReorganize
           \/ ResurrectTx \/ DeleteRedundantTxs \/ ConnectSecondary
    <2>1. UNCHANGED <<mapOrphanBlocks, mapBlockIndex, pindexNew, vWorkQueue>>
        BY <1>8 DEF BeginReorganize, DisconnectBlock, ConnectBlock, CommitReorganize,
           ResurrectTx, DeleteRedundantTxs, ConnectSecondary
    <2> QED
        BY <1>0, <2>1 DEF OrphanInv, Queued
<1>9. CASE Restart
    BY <1>9 DEF Restart, OrphanInv
<1>10. CASE UNCHANGED vars
    BY <1>0, <1>10 DEF vars, OrphanInv, Queued
<1> QED
    BY <1>1, <1>2, <1>4, <1>5, <1>6, <1>7, <1>8, <1>9, <1>10
    DEF Next, Step, Reorganize, Receive

LEMMA BestStep ==
    ASSUME IInv, TrustInv, RouteInv, skipped = {}, restarts = 0, restarts' = 0, [Next]_vars
    PROVE  BestInv'
<1>0. /\ TypeOK /\ QueueInv /\ BestInv /\ None \notin mapBlockIndex
      /\ mapBlockIndex \in SUBSET Blocks /\ pindexBest \in Blocks
      /\ \A y \in Blocks : ChainTrust[y] \in Nat
    BY TreeAssumption, ChainTrustDef DEF IInv, RouteInv, TypeOK
<1>1. CASE DisconnectBlockFails \/ ConnectBlockFails \/ ExtendBestChainFails
    <2>1. ~ValidBranch[pindexNew]
        BY <1>1, FailureMeansInvalid
    <2>2. UNCHANGED <<mapBlockIndex, pindexBest>>
        BY <1>1 DEF DisconnectBlockFails, ConnectBlockFails, ExtendBestChainFails,
           SetBestChainFailed
    <2> QED
        BY <1>0, <2>1, <2>2 DEF BestInv
<1>2. CASE ExtendBestChain \/ FinishReorganize
    <2>1. pindexNew \in Blocks /\ mapBlockIndex' = mapBlockIndex /\ pindexBest' = pindexNew
        BY <1>0, <1>2 DEF ExtendBestChain, FinishReorganize, SetBestChainDone, TypeOK
    <2>2. ASSUME NEW b \in mapBlockIndex, ChainTrust[b] > ChainTrust[pindexNew]
          PROVE  ~ValidBranch[b]
        <3>1. b # pindexNew /\ ChainTrust[b] \in Nat /\ ChainTrust[pindexNew] \in Nat
            BY <1>0, <2>1, <2>2
        <3>2. CASE ChainTrust[b] > ChainTrust[pindexBest]
            BY <1>0, <3>1, <3>2 DEF BestInv
        <3>3. ChainTrust[pindexNew] > ChainTrust[pindexBest]
            BY <1>0, <2>1, TreeAssumption DEF QueueInv, NewBest
        <3>4. ChainTrust[pindexBest] \in Nat
            BY <1>0
        <3> QED
            BY <2>2, <3>1, <3>2, <3>3, <3>4
    <2> QED
        BY <2>1, <2>2 DEF BestInv
<1>3. ASSUME NEW b \in Blocks, AddToBlockIndex(b), pc \in {"idle", "orphans"},
             pindexBest' = pindexBest
      PROVE  BestInv'
    <2>1. mapBlockIndex' = mapBlockIndex \cup {b} /\ pindexNew = None
             /\ (NewBest(b) => pindexNew' = b)
        BY <1>0, <1>3, AddedIsSeen
    <2> QED
        BY <1>0, <1>3, <2>1 DEF BestInv, NewBest
<1>4. ASSUME NEW o \in Blocks, AcceptOrphanBlock(o)
      PROVE  BestInv'
    <2>1. CASE AcceptBlockOK(o)
        BY <1>4, <1>3, <2>1 DEF AcceptOrphanBlock
    <2>2. CASE ~AcceptBlockOK(o)
        BY <1>0, <1>4, <2>2 DEF AcceptOrphanBlock, BestInv
    <2> QED
        BY <2>1, <2>2
<1>5. ASSUME NEW b \in Blocks, ReceiveBlock(b)
      PROVE  BestInv'
    <2>1. CASE ProcessBlock(b)
        BY <1>3, <2>1 DEF ProcessBlock
    <2>2. CASE ProcessDuplicateStake(b) \/ ProcessOrphanBlock(b)
        BY <1>0, <2>2 DEF ProcessDuplicateStake, ProcessOrphanBlock, BestInv
    <2> QED
        BY <1>5, <2>1, <2>2 DEF ReceiveBlock
<1>6. ASSUME NEW t \in Txs, AcceptToMemoryPool(t)
      PROVE  BestInv'
    BY <1>0, <1>6 DEF AcceptToMemoryPool, BestInv
<1>7. CASE \/ BeginReorganize \/ DisconnectBlock \/ ConnectBlock \/ CommitReorganize
           \/ ResurrectTx \/ DeleteRedundantTxs \/ ConnectSecondary \/ NextInWorkQueue
           \/ UNCHANGED vars
    <2>1. UNCHANGED <<mapBlockIndex, pindexBest, pindexNew>>
        BY <1>7 DEF BeginReorganize, DisconnectBlock, ConnectBlock, CommitReorganize,
           ResurrectTx, DeleteRedundantTxs, ConnectSecondary, NextInWorkQueue, vars
    <2> QED
        BY <1>0, <2>1 DEF BestInv
<1>8. CASE Restart
    BY <1>8 DEF Restart
<1> QED
    BY <1>1, <1>2, <1>4, <1>5, <1>6, <1>7, <1>8
    DEF Next, Step, Reorganize, Receive

LEMMA ResurrectStep ==
    ASSUME TypeOK, ChainInv, ResurrectInv, [Next]_vars
    PROVE  ResurrectInv'
<1>0. disk \in View /\ txn \in View /\ disk.best \in Blocks /\ txn.best \in Blocks
         /\ pindexBest \in Blocks
    BY DEF TypeOK, View
<1>1. CASE BeginReorganize
    BY <1>0, <1>1 DEF BeginReorganize, ResurrectInv
<1>2. CASE DisconnectBlock
    <2>1. /\ pc = "reorg" /\ pc' = pc /\ disk' = disk /\ txn.best \in vDisconnect
          /\ txn' = Disconnect(txn.best, txn)
          /\ vResurrect' = vResurrect \cup Resurrectable(txn.best)
        BY <1>2 DEF DisconnectBlock
    <2>2. \A t \in TxsOf(txn.best) : disk.pos[t] # None
        BY <1>0, <2>1, TreeAssumption DEF vDisconnect, ChainInv, ViewOK, PosOK
    <2>3. txn'.pos = [t \in Txs |-> IF t \in TxsOf(txn.best) THEN None ELSE txn.pos[t]]
        BY <2>1 DEF Disconnect
    <2> QED
        BY <2>1, <2>2, <2>3 DEF ResurrectInv, Resurrectable
<1>3. CASE ConnectBlock
    <2>1. PICK c \in vConnect : txn' = Connect(c, txn, pnext[c])
        BY <1>3 DEF ConnectBlock
    <2>2. pc = "reorg" /\ UNCHANGED <<pc, disk, vResurrect>>
        BY <1>3 DEF ConnectBlock
    <2>3. c # None
        BY <1>0, <2>1, <2>2, BranchClosed, TreeAssumption DEF vConnect, TypeOK
    <2>4. txn'.pos = [t \in Txs |-> IF t \in TxsOf(c) THEN c ELSE txn.pos[t]]
        BY <2>1 DEF Connect
    <2> QED
        BY <2>2, <2>3, <2>4 DEF ResurrectInv
<1>4. CASE CommitReorganize
    BY <1>4 DEF CommitReorganize, ResurrectInv
<1>5. CASE ResurrectTx
    BY <1>5 DEF ResurrectTx, ResurrectInv
<1>6. CASE DeleteRedundantTxs
    BY <1>6 DEF DeleteRedundantTxs, ResurrectInv
<1>7. CASE ConnectSecondary
    BY <1>7 DEF ConnectSecondary, ResurrectInv
<1>8. CASE pc' \notin {"reorg", "resurrect"} /\ vResurrect' = {}
    BY <1>8 DEF ResurrectInv
<1>9. CASE SetBestChainFailed \/ ExtendBestChain \/ FinishReorganize \/ Restart
    BY <1>8, <1>9 DEF SetBestChainFailed, Rejected, ExtendBestChain, FinishReorganize,
       SetBestChainDone, Accepted, Restart
<1>10. ASSUME NEW b \in Blocks, AcceptOrphanBlock(b) \/ ReceiveBlock(b)
       PROVE  ResurrectInv'
    <2>1. /\ pc \in {"idle", "orphans"} /\ pc' \notin {"reorg", "resurrect"}
          /\ vResurrect' = vResurrect
        BY <1>10 DEF AcceptOrphanBlock, ReceiveBlock, ProcessDuplicateStake,
           ProcessOrphanBlock, ProcessBlock, AddToBlockIndex, Accepted
    <2> QED
        BY <1>8, <2>1 DEF ResurrectInv
<1>11. ASSUME NEW t \in Txs, AcceptToMemoryPool(t)
       PROVE  ResurrectInv'
    BY <1>11 DEF AcceptToMemoryPool, ResurrectInv
<1>12. CASE NextInWorkQueue
    BY <1>12 DEF NextInWorkQueue, ResurrectInv
<1>13. CASE UNCHANGED vars
    BY <1>13 DEF vars, ResurrectInv
<1> QED
    BY <1>1, <1>2, <1>3, <1>4, <1>5, <1>6, <1>7, <1>9, <1>10, <1>11, <1>12, <1>13
    DEF Next, Step, Reorganize, Receive, DisconnectBlockFails, ConnectBlockFails,
        ExtendBestChainFails

-----------------------------------------------------------------------------
LEMMA RouteInit == Init => RouteInv
<1> SUFFICES ASSUME Init PROVE RouteInv
    OBVIOUS
<1>1. QueueInv /\ OrphanInv /\ ResurrectInv
    BY DEF Init, QueueInv, OrphanInv, ResurrectInv
<1>2. ReplayInv
    <2>1. disk = GenesisView /\ GenesisView.best = Genesis /\ pc = "idle"
        BY DEF Init, GenesisView
    <2> QED
        BY <2>1, ReplayDef, ValidBranchDef DEF ReplayInv, IsReplay
<1>3. BestInv
    <2>1. mapBlockIndex = {Genesis} /\ pindexBest = Genesis /\ ChainTrust[Genesis] \in Nat
        BY ChainTrustDef, TreeAssumption DEF Init
    <2> QED
        BY <2>1 DEF BestInv
<1> QED
    BY <1>1, <1>2, <1>3 DEF RouteInv

LEMMA RouteStep == IInv /\ TrustInv /\ RouteInv /\ [Next]_vars => RouteInv'
<1> SUFFICES ASSUME IInv, TrustInv, RouteInv, [Next]_vars PROVE RouteInv'
    OBVIOUS
<1>1. TypeOK /\ QueueInv
    BY DEF IInv, RouteInv
<1>2. QueueInv' /\ (skipped' = {} => skipped = {}) /\ (restarts' = 0 => restarts = 0)
    BY <1>1, QueueStep, SkippedGrows
<1>3. ASSUME skipped' = {}
      PROVE  ReplayInv' /\ OrphanInv' /\ ResurrectInv'
    <2>1. skipped = {} /\ ChainInv /\ ReplayInv /\ ResurrectInv
        BY <1>2, <1>3 DEF IInv, RouteInv
    <2> QED
        BY <1>1, <2>1, ReplayStep, OrphanStep, ResurrectStep
<1>4. ASSUME skipped' = {}, restarts' = 0
      PROVE  BestInv'
    BY <1>2, <1>4, BestStep
<1> QED
    BY <1>2, <1>3, <1>4 DEF RouteInv

LEMMA RouteInvariant == Spec => []RouteInv
BY RouteInit, RouteStep, IInvariant, TrustInvariant, PTL DEF Spec

(* The committed index is the replay of the best branch, block after block *)
(* with ConnectBlock, after any route of connects, disconnects, failures   *)
(* and restarts.                                                           *)
THEOREM DiskAlwaysReplayOfBest == Spec => []DiskIsReplayOfBest
<1>1. RouteInv => DiskIsReplayOfBest
    BY DEF RouteInv, ReplayInv, IsReplay, DiskIsReplayOfBest
<1> QED
    BY <1>1, RouteInvariant, PTL

(* A running node is never left on a chain with less trust than a valid    *)
(* one that it has indexed (AddToBlockIndex, SetBestChain).                *)
THEOREM BestValidChainAlwaysChosen == Spec => []BestValidChainChosen
<1>1. TypeOK /\ RouteInv => BestValidChainChosen
    BY TreeAssumption DEF TypeOK, RouteInv, QueueInv, BestInv, BestValidChainChosen
<1> QED
    BY <1>1, RouteInvariant, TypeCorrect, PTL

(* ProcessBlock leaves no orphan behind a block that it has accepted.      *)
THEOREM OrphansNeverStranded == Spec => []NoStrandedOrphans
<1>1. TypeOK /\ RouteInv => NoStrandedOrphans
    BY TreeAssumption DEF TypeOK, RouteInv, QueueInv, OrphanInv, Queued, NoStrandedOrphans
<1> QED
    BY <1>1, RouteInvariant, TypeCorrect, PTL

-----------------------------------------------------------------------------
(* No transaction is lost *)

(* SetBestChainInner: what leaves the pool is in the block, so on disk.    *)
LEMMA InnerKeepsKnown ==
    ASSUME TypeOK, NEW b \in Blocks, SetBestChainInner(b), vResurrect = {},
           NEW t \in Txs, KnownTx(t)
    PROVE  KnownTx(t)'
<1>1. /\ disk'.pos = [u \in Txs |-> IF u \in TxsOf(b) THEN b ELSE disk.pos[u]]
      /\ mapTx' = mapTx \ TxsOf(b) /\ b # None
    BY TreeAssumption DEF SetBestChainInner, Connect, RemoveFromPool
<1> QED
    BY <1>1 DEF KnownTx

(* A transaction known before a step and not after it met a conflicting    *)
(* one in the pool.                                                        *)
LEMMA LostToConflict ==
    ASSUME IInv, RouteInv, PoolConsistent, skipped = {}, Next, restarts' = restarts,
           NEW t \in Txs \ Generated, KnownTx(t), ~KnownTx(t)'
    PROVE  \E o \in Vin[t] : mapNextTx[o] \notin {None, t}
<1>0. TypeOK /\ ChainInv /\ ResurrectInv
    BY DEF IInv, RouteInv
<1>1. CASE ResurrectTx
    <2>1. PICK u \in vResurrect :
             /\ IF u \notin mapTx /\ NoPoolConflict(u) THEN addUnchecked(u) ELSE UNCHANGED pool
             /\ vResurrect' = vResurrect \ {u}
        BY <1>1 DEF ResurrectTx
    <2>2. disk' = disk /\ mapTx \subseteq mapTx'
        BY <1>1, <2>1 DEF ResurrectTx, addUnchecked
    <2>3. u = t /\ t \notin mapTx'
        BY <2>1, <2>2 DEF KnownTx
    <2>4. t \notin mapTx /\ ~NoPoolConflict(t)
        BY <2>1, <2>2, <2>3 DEF addUnchecked
    <2>5. PICK o \in Vin[t] : mapNextTx[o] # None
        BY <2>4 DEF NoPoolConflict
    <2>6. mapNextTx[o] # t
        BY <2>4, TxAssumption DEF PoolConsistent
    <2> QED
        BY <2>5, <2>6
<1>2. CASE DeleteRedundantTxs
    <2>1. /\ mapTx' = mapTx \ UNION {TxsOf(c) : c \in vConnect}
          /\ disk' = disk /\ vResurrect' = vResurrect /\ disk.best = pindexIntermediate
        BY <1>0, <1>2 DEF DeleteRedundantTxs, RemoveFromPool, ResurrectInv
    <2>2. PICK c \in vConnect : t \in TxsOf(c)
        BY <2>1 DEF KnownTx
    <2>3. disk.pos[t] = c /\ c # None
        BY <1>0, <2>1, <2>2, BranchClosed, TreeAssumption
        DEF vConnect, ChainInv, ViewOK, PosOK, TypeOK, View
    <2> QED
        BY <2>1, <2>3 DEF KnownTx
<1>3. CASE CommitReorganize
    <2>1. pc = "reorg" /\ disk' = txn /\ UNCHANGED <<mapTx, vResurrect>>
        BY <1>3 DEF CommitReorganize
    <2> QED
        BY <1>0, <2>1 DEF KnownTx, ResurrectInv
<1>4. CASE ExtendBestChain
    <2>1. pindexNew \in Blocks /\ SetBestChainInner(pindexNew) /\ vResurrect = {}
        BY <1>0, <1>4 DEF ExtendBestChain, TypeOK, ResurrectInv
    <2> QED
        BY <1>0, <2>1, InnerKeepsKnown
<1>5. CASE ConnectSecondary
    <2>1. PICK c \in NextSecondary : SetBestChainInner(c)
        BY <1>5 DEF ConnectSecondary
    <2>2. c \in Blocks /\ vResurrect = {}
        BY <1>0, <1>5, <2>1, BranchClosed DEF ConnectSecondary, NextSecondary, TypeOK, ResurrectInv
    <2> QED
        BY <1>0, <2>1, <2>2, InnerKeepsKnown
<1>6. CASE DisconnectBlockFails \/ ConnectBlockFails \/ ExtendBestChainFails
    <2>1. pc \in {"reorg", "setbest"} /\ UNCHANGED <<disk, mapTx>>
        BY <1>6 DEF DisconnectBlockFails, ConnectBlockFails, ExtendBestChainFails,
           SetBestChainFailed
    <2> QED
        BY <1>0, <2>1 DEF KnownTx, ResurrectInv
<1>7. CASE FinishReorganize
    BY <1>0, <1>7 DEF FinishReorganize, KnownTx, ResurrectInv
<1>8. CASE disk' = disk /\ mapTx \subseteq mapTx' /\ vResurrect \subseteq vResurrect'
    BY <1>8 DEF KnownTx
<1>9. CASE BeginReorganize \/ DisconnectBlock \/ ConnectBlock \/ NextInWorkQueue
    BY <1>8, <1>9 DEF BeginReorganize, DisconnectBlock, ConnectBlock, NextInWorkQueue
<1>10. ASSUME NEW b \in Blocks, AcceptOrphanBlock(b) \/ ReceiveBlock(b)
       PROVE  FALSE
    BY <1>8, <1>10 DEF AcceptOrphanBlock, ReceiveBlock, ProcessDuplicateStake,
       ProcessOrphanBlock, ProcessBlock, AddToBlockIndex, KnownTx
<1>11. ASSUME NEW u \in Txs, AcceptToMemoryPool(u)
       PROVE  FALSE
    BY <1>11 DEF AcceptToMemoryPool, addUnchecked, KnownTx
<1>12. ~Restart
    BY <1>0 DEF Restart, TypeOK
<1> QED
    BY <1>1, <1>2, <1>3, <1>4, <1>5, <1>6, <1>7, <1>9, <1>10, <1>11, <1>12
    DEF Next, Step, Reorganize, Receive

(* Reorganisations, failed or not, and the clean-up of the pool lose no    *)
(* transaction but to a conflicting one (Reorganize, CTxMemPool::remove).  *)
THEOREM NoTxEverLost == Spec => NoTxLost
<1> DEFINE Kept == restarts' = restarts /\ skipped = {} =>
                     \A t \in Txs \ Generated :
                        KnownTx(t) /\ ~KnownTx(t)' =>
                            \E o \in Vin[t] : mapNextTx[o] \notin {None, t}
<1>1. IInv /\ RouteInv /\ PoolConsistent /\ [Next]_vars => [Kept]_vars
    BY LostToConflict
<1> QED
    BY <1>1, IInvariant, RouteInvariant, PoolAlwaysConsistent, PTL DEF Spec, NoTxLost
=============================================================================
