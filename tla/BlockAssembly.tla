---------------------------- MODULE BlockAssembly ----------------------------
(***************************************************************************)
(* How CreateNewBlock collects transactions of the memory pool into a block, *)
(* under cs_main and mempool.cs: a first pass divides them into a queue and  *)
(* those that wait for others of the pool, a second takes them off the queue *)
(* and releases what waited for them.  Priorities and fees only choose the   *)
(* order; here every order is possible.                                      *)
(*                                                                          *)
(* The pool need not agree with the chain: remove takes out neither what     *)
(* conflicts with a connected transaction nor what spends a refused one, so  *)
(* a transaction may lack an input, or spend one the chain has spent.        *)
(***************************************************************************)
EXTENDS Integers, FiniteSets, Sequences, SequencesExt

CONSTANTS
  Txs,            \* transactions that may be in the pool
  vin,            \* vin[t]: the outputs <<transaction, n>> t spends
  ChainTxs,       \* transactions of the chain
  Size, nBlockMaxSize

\* What the constants are assumed to satisfy.
AssemblyAssumption ==
  /\ Txs \cap ChainTxs = {} /\ \A t \in Txs : IsFiniteSet(vin[t])
  /\ Size \in [Txs -> Nat] /\ nBlockMaxSize \in Nat

VARIABLES
  mapTx,          \* the pool
  chainSpent,     \* outputs of ChainTxs that the chain has spent
  NotFinal,       \* those of it that are not final
  Refused,        \* those over the limits of operations, time or fee
  toScan,         \* what the first pass has left
  setDependsOn,   \* setDependsOn[t]: what an orphan t still waits for
  mapDependers,   \* mapDependers[t]: a sequence of those that wait for t
  vecPriority,    \* the queue
  mapTestPool,    \* outputs spent by the block, and its transactions
  vtx,            \* the block
  nBlockSize,     \* its size
  failed,         \* those of the queue that did not connect
  freed,          \* those whose COrphan is freed while mapDependers points to it
  crashed         \* the process has stopped

poolVars == <<mapTx, chainSpent, NotFinal, Refused>>
memoryVars == <<freed, crashed>>
vars == <<poolVars, toScan, setDependsOn, mapDependers, vecPriority, mapTestPool, vtx,
          nBlockSize, failed, memoryVars>>

Parents(t) == {o[1] : o \in vin[t]}

\* What the pool does keep, by mapNextTx: no output is spent twice in it.
SpendsOnce(S) == \A s, t \in S : s # t => vin[s] \cap vin[t] = {}

Waiting(t) == {o \in vin[t] : o[1] \notin ChainTxs}

\* Inputs that are neither in the chain nor in the pool.
MissingInputs(t) == {o \in Waiting(t) : o[1] \notin mapTx}

Init ==
  /\ mapTx \in {S \in SUBSET Txs : SpendsOnce(S)}
  /\ chainSpent \in SUBSET {o \in UNION {vin[t] : t \in Txs} : o[1] \in ChainTxs}
  /\ NotFinal \in SUBSET mapTx /\ Refused \in SUBSET (mapTx \ NotFinal)
  /\ toScan = mapTx
  /\ setDependsOn = [t \in Txs |-> {}] /\ mapDependers = [t \in Txs |-> <<>>]
  /\ vecPriority = {} /\ mapTestPool = [spent |-> {}, made |-> {}]
  /\ vtx = <<>> /\ nBlockSize = 1000 /\ failed = {} /\ freed = {} /\ crashed = FALSE

\* An orphan is entered once for every one of the inputs it waits for.
Entered(t, inputs) ==
  [p \in Txs |-> mapDependers[p]
                   \o [i \in 1 .. Cardinality({o \in inputs : o[1] = p}) |-> t]]

\* The first pass over the pool.  When an input is missing the orphan is popped
\* from vOrphan, but the entries made for the inputs before it remain; the
\* process stops when assert("...") == 0 is asked for by -debug.
Scan(t) ==
  /\ t \in toScan /\ toScan' = toScan \ {t} /\ ~crashed
  /\ \/ t \in NotFinal /\ UNCHANGED <<setDependsOn, mapDependers, vecPriority, memoryVars>>
     \/ /\ t \notin NotFinal /\ Waiting(t) = {}
        /\ vecPriority' = vecPriority \cup {t}
        /\ UNCHANGED <<setDependsOn, mapDependers, memoryVars>>
     \/ /\ t \notin NotFinal /\ Waiting(t) # {} /\ MissingInputs(t) = {}
        /\ setDependsOn' = [setDependsOn EXCEPT ![t] = {o[1] : o \in Waiting(t)}]
        /\ mapDependers' = Entered(t, Waiting(t))
        /\ UNCHANGED <<vecPriority, memoryVars>>
     \/ /\ t \notin NotFinal /\ MissingInputs(t) # {}
        /\ \E before \in SUBSET (Waiting(t) \ MissingInputs(t)) :
             /\ mapDependers' = Entered(t, before)
             /\ freed' = IF before = {} THEN freed ELSE freed \cup {t}
        /\ crashed' \in BOOLEAN
        /\ UNCHANGED <<setDependsOn, vecPriority>>
  /\ UNCHANGED <<poolVars, mapTestPool, vtx, nBlockSize, failed>>

\* FetchInputs and ConnectInputs against the chain and mapTestPool.
Connects(t) ==
  \A o \in vin[t] : /\ o \notin chainSpent \cup mapTestPool.spent
                     /\ o[1] \in ChainTxs \cup mapTestPool.made

Fits(t) == nBlockSize + Size[t] < nBlockMaxSize

\* Mutated form: an orphan that waits for one more is forgotten.
ReleasedOnlyChildren(t) ==
  {s \in ToSet(mapDependers[t]) : setDependsOn[s] = Parents(s) /\ setDependsOn[s] \ {t} = {}}

\* Those that wait for t lose it, and are queued when they lose their last;
\* the guard keeps an orphan that is entered twice from being queued again.
Released(t) ==
  {s \in ToSet(mapDependers[t]) : setDependsOn[s] # {} /\ setDependsOn[s] \ {t} = {}}

\* Entries for t whose orphan is freed.  What the loop finds there is undefined:
\* a later orphan in the same memory, which loses nothing by it; the old one,
\* which is queued; or neither, and the process stops.
Dangling(t) == ToSet(mapDependers[t]) \cap freed

\* A turn of the second loop.
Take(t) ==
  /\ toScan = {} /\ t \in vecPriority /\ ~crashed
  /\ \/ /\ t \in Refused \/ ~Fits(t)
        /\ vecPriority' = vecPriority \ {t}
        /\ UNCHANGED <<setDependsOn, mapTestPool, vtx, nBlockSize, failed, crashed>>
     \/ /\ t \notin Refused /\ Fits(t) /\ ~Connects(t)
        /\ vecPriority' = vecPriority \ {t} /\ failed' = failed \cup {t}
        /\ UNCHANGED <<setDependsOn, mapTestPool, vtx, nBlockSize, crashed>>
     \/ /\ t \notin Refused /\ Fits(t) /\ Connects(t)
        /\ mapTestPool' = [spent |-> mapTestPool.spent \cup vin[t],
                           made |-> mapTestPool.made \cup {t}]
        /\ vtx' = Append(vtx, t) /\ nBlockSize' = nBlockSize + Size[t]
        /\ setDependsOn' = [s \in Txs |-> IF s \in ToSet(mapDependers[t])
                                            THEN setDependsOn[s] \ {t} ELSE setDependsOn[s]]
        /\ \E again \in SUBSET Dangling(t) :
             vecPriority' = (vecPriority \ {t}) \cup Released(t) \cup again
        /\ crashed' \in {FALSE, Dangling(t) # {}}
        /\ UNCHANGED failed
  /\ UNCHANGED <<poolVars, toScan, mapDependers, freed>>

Next == \E t \in Txs : Scan(t) \/ Take(t)

Spec == Init /\ [][Next]_vars

Done == toScan = {} /\ vecPriority = {} /\ ~crashed

-----------------------------------------------------------------------------
(* Properties.                                                             *)

TypeOK ==
  /\ toScan \subseteq mapTx /\ vecPriority \subseteq mapTx /\ ToSet(vtx) \subseteq mapTx
  /\ \A t \in Txs : setDependsOn[t] \subseteq Txs /\ ToSet(mapDependers[t]) \subseteq mapTx
  /\ nBlockSize \in Nat /\ (nBlockSize < nBlockMaxSize \/ vtx = <<>>)

\* "Connecting shouldn't fail due to dependency on other memory pool
\* transactions because we're already processing them in order of dependency":
\* it fails for those that conflict with the chain, or were freed.
ConnectingFailsOnlyForStrays ==
  \A t \in failed : vin[t] \cap chainSpent # {} \/ MissingInputs(t) # {}

\* Nothing is forgotten: at the end a transaction of the pool is left out only
\* when it is not final, over a limit, spends one that is not in the block or
\* an output the chain has spent.
NothingForgotten ==
  Done => \A t \in mapTx \ ToSet(vtx) :
    \/ t \in NotFinal \cup Refused
    \/ vin[t] \cap chainSpent # {}
    \/ \E p \in Parents(t) \ ChainTxs : p \notin ToSet(vtx)
    \/ ~Fits(t)

\* Only a transaction with a missing input can stop the process.
StopsOnlyForMissingInputs == crashed => \E t \in mapTx : MissingInputs(t) # {}

\* CreateNewBlock takes what it can, whatever the pool holds: what is left out
\* could not be in the block, and only strays fail to connect.
CollectionIsComplete ==
  TypeOK /\ ConnectingFailsOnlyForStrays /\ NothingForgotten /\ StopsOnlyForMissingInputs
=============================================================================
