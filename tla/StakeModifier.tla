--------------------------- MODULE StakeModifier ---------------------------
(***************************************************************************)
(* The stake modifier of kernel.cpp: how AddToBlockIndex computes the one of *)
(* a new block from its branch (ComputeNextStakeModifier), and which one     *)
(* CheckStakeKernelHash takes for a coin (GetKernelStakeModifier).           *)
(*                                                                          *)
(* A block is a number, in the order of arrival; times are in units of the   *)
(* model.  The selection hash is an operator, lower for proof-of-stake.      *)
(***************************************************************************)
EXTENDS Integers, FiniteSets, FiniteSetsExt, Sequences, SequencesExt

CONSTANTS
  Interval,         \* getIntervalVersion, MODIFIER_INTERVAL
  Rounds,           \* the number of rounds, 64 in the code
  Ratio,            \* MODIFIER_INTERVAL_RATIO
  Gaps,             \* by how much the time of a block differs from its parent's
  Hash(_, _),       \* the hash of a proof hash and the previous modifier
  MaxBlocks,        \* blocks of a behaviour (bound)
  None

\* What the constants are assumed to satisfy.
ModifierAssumption ==
  /\ Interval \in Nat \ {0} /\ Rounds \in Nat \ {0, 1} /\ Ratio \in Nat \ {0}
  /\ Gaps \subseteq Int /\ MaxBlocks \in Nat

VARIABLES
  mapBlockIndex,    \* the blocks
  pindexBest        \* the tip of the best chain

vars == <<mapBlockIndex, pindexBest>>

Blocks == DOMAIN mapBlockIndex

\* The blocks from genesis to b.
Branch(b) ==
  LET up[x \in Blocks] == {x} \cup (IF x = 0 THEN {} ELSE up[mapBlockIndex[x].pprev])
  IN  up[b]

-----------------------------------------------------------------------------
(* ComputeNextStakeModifier.                                               *)

\* The last block of the branch of b that generated a modifier.
GetLastStakeModifier(b) == Max({x \in Branch(b) : mapBlockIndex[x].generated})

GetStakeModifierSelectionIntervalSection(nSection) ==
  (Interval * (Rounds - 1)) \div ((Rounds - 1) + ((Rounds - 1 - nSection) * (Ratio - 1)))

GetStakeModifierSelectionInterval ==
  FoldSet(LAMBDA n, sum : sum + GetStakeModifierSelectionIntervalSection(n), 0, 0 .. Rounds - 1)

SelectionIntervalStart(b) ==
  (mapBlockIndex[b].nTime \div Interval) * Interval - GetStakeModifierSelectionInterval

\* The walk from b down to the first block that is too early.
Candidates(b) ==
  LET start == SelectionIntervalStart(b)
      walk[x \in Blocks] ==
        IF mapBlockIndex[x].nTime < start THEN {}
        ELSE {x} \cup (IF x = 0 THEN {} ELSE walk[mapBlockIndex[x].pprev])
  IN  walk[b]

Earlier(x, y) ==
  \/ mapBlockIndex[x].nTime < mapBlockIndex[y].nTime
  \/ mapBlockIndex[x].nTime = mapBlockIndex[y].nTime /\ x < y

SortedByTimestamp(b) ==
  LET candidates == Candidates(b)
  IN  SortSeq(SelectSeq([i \in 1 .. b + 1 |-> i - 1], LAMBDA x : x \in candidates), Earlier)

\* A proof-of-stake block is favoured over one of proof-of-work.
SelectionHash(x, nStakeModifierPrev) ==
  LET h == Hash(x, nStakeModifierPrev) IN IF mapBlockIndex[x].fStake THEN h ELSE h + 1000

\* Mutated form: blocks already selected are selected again.
SelectAgain(sorted, selected, nSelectionIntervalStop, nStakeModifierPrev) ==
  LET Step(x, st) ==
        IF st.over \/ (st.block # None /\ mapBlockIndex[x].nTime > nSelectionIntervalStop)
          THEN [st EXCEPT !.over = TRUE]
        ELSE LET h == SelectionHash(x, nStakeModifierPrev) IN
             IF st.block = None \/ h < st.hash THEN [st EXCEPT !.block = x, !.hash = h] ELSE st
  IN  FoldLeft(LAMBDA st, x : Step(x, st), [block |-> None, hash |-> 0, over |-> FALSE], sorted).block

\* The loop over the sorted candidates.  It stops at the first one past the
\* end of the section, once there is a selection.
SelectBlockFromCandidates(sorted, selected, nSelectionIntervalStop, nStakeModifierPrev) ==
  LET Step(x, st) ==
        IF st.over \/ (st.block # None /\ mapBlockIndex[x].nTime > nSelectionIntervalStop)
          THEN [st EXCEPT !.over = TRUE]
        ELSE IF x \in selected THEN st
        ELSE LET h == SelectionHash(x, nStakeModifierPrev) IN
             IF st.block = None \/ h < st.hash THEN [st EXCEPT !.block = x, !.hash = h] ELSE st
  IN  FoldLeft(LAMBDA st, x : Step(x, st), [block |-> None, hash |-> 0, over |-> FALSE], sorted).block

\* The rounds: the blocks selected, in order.
Selection(b, nStakeModifierPrev) ==
  LET sorted == SortedByTimestamp(b)
      start == SelectionIntervalStart(b)
      stop(r) == start
                   + FoldSet(LAMBDA n, sum : sum + GetStakeModifierSelectionIntervalSection(n), 0, 0 .. r - 1)
      pick[r \in 0 .. Min({Rounds, Len(sorted)})] ==
        IF r = 0 THEN <<>>
        ELSE Append(pick[r - 1],
               SelectBlockFromCandidates(sorted, ToSet(pick[r - 1]), stop(r), nStakeModifierPrev))
  IN  pick[Min({Rounds, Len(sorted)})]

\* The bits of the selected blocks, the first one lowest.
ModifierBits(s) ==
  FoldSet(LAMBDA r, sum : sum + mapBlockIndex[s[r]].bit * 2^(r - 1), 0, 1 .. Len(s))

\* <<nStakeModifier, fGeneratedStakeModifier>> of a child of b.
ComputeNextStakeModifier(b) ==
  LET last == mapBlockIndex[GetLastStakeModifier(b)] IN
  IF last.nTime \div Interval >= mapBlockIndex[b].nTime \div Interval
    THEN <<last.nStakeModifier, FALSE>>
    ELSE <<ModifierBits(Selection(b, last.nStakeModifier)), TRUE>>

-----------------------------------------------------------------------------
(* GetKernelStakeModifier walks along pnext, that is along the best chain.   *)

Chain == Branch(pindexBest)

\* Mutated form: the last modifier of the branch.
LastKernelBlock(branch, from) ==
  LET later == {x \in branch : /\ x > from /\ mapBlockIndex[x].generated
                               /\ mapBlockIndex[x].nTime >= mapBlockIndex[from].nTime
                                                             + GetStakeModifierSelectionInterval}
  IN  IF later = {} THEN None ELSE Max(later)

\* The first block after `from' on the given branch that generated a modifier
\* a selection interval later; None when the branch ends before.
KernelBlock(branch, from) ==
  LET later == {x \in branch : /\ x > from /\ mapBlockIndex[x].generated
                               /\ mapBlockIndex[x].nTime >= mapBlockIndex[from].nTime
                                                             + GetStakeModifierSelectionInterval}
  IN  IF later = {} THEN None ELSE Min(later)

GetKernelStakeModifier(from) ==
  LET x == KernelBlock(Chain, from) IN IF x = None THEN None ELSE mapBlockIndex[x].nStakeModifier

-----------------------------------------------------------------------------

Init ==
  /\ mapBlockIndex = [x \in {0} |-> [pprev |-> 0, nHeight |-> 0, nTime |-> 0, bit |-> 0,
                                     fStake |-> FALSE, nStakeModifier |-> 0, generated |-> TRUE]]
  /\ pindexBest = 0

\* AddToBlockIndex; the longest chain is the best one.
AddToBlockIndex(prev, gap, bit, fStake) ==
  LET new == Cardinality(Blocks)
      next == ComputeNextStakeModifier(prev) IN
  /\ new <= MaxBlocks /\ mapBlockIndex[prev].nTime + gap >= 0
  /\ mapBlockIndex' = [x \in Blocks \cup {new} |->
       IF x # new THEN mapBlockIndex[x]
       ELSE [pprev |-> prev, nHeight |-> mapBlockIndex[prev].nHeight + 1,
             nTime |-> mapBlockIndex[prev].nTime + gap, bit |-> bit, fStake |-> fStake,
             nStakeModifier |-> next[1], generated |-> next[2]]]
  /\ pindexBest' = IF mapBlockIndex[prev].nHeight >= mapBlockIndex[pindexBest].nHeight
                     THEN new ELSE pindexBest

Next ==
  \E prev \in Blocks, gap \in Gaps, bit \in {0, 1}, fStake \in BOOLEAN :
    AddToBlockIndex(prev, gap, bit, fStake)

Spec == Init /\ [][Next]_vars

-----------------------------------------------------------------------------
(* Properties.                                                             *)

TypeOK ==
  /\ Blocks = 0 .. Cardinality(Blocks) - 1 /\ pindexBest \in Blocks
  /\ \A x \in Blocks : /\ mapBlockIndex[x].pprev \in Blocks
                       /\ mapBlockIndex[x].nStakeModifier \in 0 .. 2^Rounds - 1
                       /\ mapBlockIndex[x].generated \in BOOLEAN

\* The reference: the candidates are the blocks of the branch that are not too
\* early and have none after them that is; r of them are selected without a
\* repetition, each with the least hash among those of its section that are
\* left, the earliest first when the section has none; r is all candidates, or
\* the number of rounds.
Best(S, m) ==
  CHOOSE x \in S : \A y \in S : \/ SelectionHash(x, m) < SelectionHash(y, m)
                                \/ SelectionHash(x, m) = SelectionHash(y, m) /\ (x = y \/ Earlier(x, y))
SelectedRight(b, m, s) ==
  LET branch == Branch(b)
      start == SelectionIntervalStart(b)
      candidates == {x \in branch : \A y \in branch : y >= x => mapBlockIndex[y].nTime >= start} IN
  /\ Len(s) = Min({Rounds, Cardinality(candidates)})
  /\ \A r \in 1 .. Len(s) :
       LET left == candidates \ {s[q] : q \in 1 .. r - 1}
           end == start
                    + FoldSet(LAMBDA n, sum : sum + GetStakeModifierSelectionIntervalSection(n), 0, 0 .. r - 1)
           inSection == {x \in left : mapBlockIndex[x].nTime <= end}
       IN  s[r] = IF inSection # {} THEN Best(inSection, m)
                  ELSE CHOOSE x \in left : \A y \in left : x = y \/ Earlier(x, y)

\* For every block the rounds select what the reference says: the loop's break
\* and its treatment of blocks already selected lose no candidate, and no
\* round is without a block.  Each block is the newest one once, and its branch
\* remains.
SelectionIsReference ==
  LET newest == Max(Blocks)
      m == mapBlockIndex[GetLastStakeModifier(newest)].nStakeModifier
  IN  SelectedRight(newest, m, Selection(newest, m))

\* While the best chain only grows, the modifier of a coin stays what it was:
\* a kernel once found remains valid.
KernelModifierStep ==
  pindexBest \in Chain' =>
    \A x \in Chain : GetKernelStakeModifier(x) # None
                       => GetKernelStakeModifier(x)' = GetKernelStakeModifier(x)
KernelModifierKept == [][KernelModifierStep]_vars
=============================================================================
