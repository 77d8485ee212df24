----------------------------- MODULE MultiSend ------------------------------
(***************************************************************************)
(* MultiSend: a share of every stake reward goes to addresses of the        *)
(* user's choice, either by a transaction that CWallet::MultiSend makes when *)
(* the stake has matured, at the end of ProcessBlock, or by outputs that     *)
(* CreateCoinStake puts into the coinstake itself.  The multisend command    *)
(* keeps the settings in memory and, record by record, in wallet.dat.        *)
(*                                                                          *)
(* ProcessBlock and the command hold cs_main, so one of them is under way    *)
(* at a time; the staking thread reads the settings without a lock, and the  *)
(* process may end at any step.  Which chain wins is decided by Trust, as in *)
(* ChainState.  A stake is a coinstake of ours in a given block, with one    *)
(* output or, when it was split, two.                                        *)
(* A coinstake that is made fits in a kilobyte, so that its nMinFee stays 0. *)
(***************************************************************************)
EXTENDS BlockTree, Integers, Sequences, FiniteSets, SequencesExt, FiniteSetsExt

CONSTANTS
  Trust,            \* bnChainTrust of every block
  Stakes,
  StakeBlock,       \* StakeBlock[s]: the block of stake s
  StakeOuts,        \* StakeOuts[s]: its outputs
  StakeAddress,     \* StakeAddress[s]: the address it pays to
  Poor,             \* <<s, o>>: outputs too small for the payments and the fee
  Maturity,         \* nCoinbaseMaturity + 20
  Payees,           \* addresses a user may share with
  Percents,
  Kernels,          \* values of coins that may stake
  Reward,           \* GetProofOfStakeReward
  DustCoin,         \* value of another coin of the same address
  SplitThreshold,   \* nStakeSplitThreshold * COIN
  CENT,
  MaxRestarts, MaxCommands  \* bounds

\* What the constants are assumed to satisfy.
MultiSendAssumption ==
  /\ Trust \in [Blocks -> Nat] /\ StakeBlock \in [Stakes -> Blocks]
  /\ StakeOuts \in [Stakes -> {{1}, {1, 2}}]
  /\ Percents \subseteq 1 .. 100 /\ Kernels \subseteq Nat /\ DustCoin \in Nat
  /\ {Maturity, Reward, SplitThreshold, CENT} \subseteq Nat \ {0}
  /\ MaxRestarts \in Nat /\ MaxCommands \in Nat

VARIABLES
  best,         \* pindexBest
  spent,        \* outputs of stakes that are spent
  shared,       \* those a MultiSend transaction was made of
  junk,         \* a transaction that was not created has been committed
  list,         \* list["multisend"], list["mdisabled"]: the vectors in memory
  fMultiSend, fMultiSendCoinStake, nLastMultiSendHeight,
  file,         \* the records of wallet.dat
  pc,           \* what the holder of cs_main does
  command,      \* the command under way
  coinstake,    \* the coinstake of the staking thread
  torn,         \* the process ended with a record still to be written
  restarts, commands

flags == <<fMultiSend, fMultiSendCoinStake, nLastMultiSendHeight>>
coins == <<best, spent, shared, junk>>
bounds == <<torn, restarts, commands>>
vars == <<coins, list, flags, file, pc, command, coinstake, bounds>>

NoCommand == [name |-> "none", list |-> <<>>, k |-> 0]
NoCoinStake == [step |-> "none", payees |-> <<>>, credit |-> 0, vout |-> <<>>, steady |-> TRUE]
Lists == {"multisend", "mdisabled"}
Addresses == {StakeAddress[s] : s \in Stakes}

Init ==
  /\ best = Genesis /\ spent = {} /\ shared = {} /\ junk = FALSE
  /\ list = [l \in Lists |-> <<>>]
  /\ fMultiSend = FALSE /\ fMultiSendCoinStake = FALSE /\ nLastMultiSendHeight = 0
  /\ file = [multisend |-> <<>>, mdisabled |-> <<>>, msettings |-> <<FALSE, 0>>, mcoinstake |-> FALSE]
  /\ pc = "idle" /\ command = NoCommand /\ coinstake = NoCoinStake
  /\ torn = FALSE /\ restarts = 0 /\ commands = 0

-----------------------------------------------------------------------------
(* The multisend command.                                                  *)

\* The staking thread may have read the settings before they change.
Unsteady == coinstake' = [coinstake EXCEPT !.steady = FALSE]

Percent(v) == FoldSeq(LAMBDA e, sum : e[2] + sum, 0, v)

Command == pc = "idle" /\ command = NoCommand /\ commands < MaxCommands /\ commands' = commands + 1

\* A vector is saved by EraseMultiSend and WriteMultiSend, or the like for
\* mdisabled: its records are erased by number, as many as the vector has, and then
\* written.  This is the erasing that add, delete and clear begin with.
StartErase(name, v) ==
  /\ Command
  /\ command' = [name |-> name, list |-> v, k |-> 0]
  /\ pc' = "erase"
  /\ UNCHANGED <<coins, list, flags, file, coinstake, torn, restarts>>

AddPayee(a, p) ==
  /\ Percent(list["multisend"]) + p <= 100
  /\ \A i \in DOMAIN list["multisend"] : list["multisend"][i][1] # a
  /\ StartErase("multisend", Append(list["multisend"], <<a, p>>))

DeletePayee(i) ==
  /\ i \in DOMAIN list["multisend"]
  /\ StartErase("multisend", RemoveAt(list["multisend"], i))

Clear == StartErase("clear", <<>>)

EnableAll == StartErase("mdisabled", <<>>)

\* disable <address>: the vector changes first.  An address without a stake is never
\* looked at.
DisableAddress(a) ==
  /\ Command
  /\ list' = [list EXCEPT !["mdisabled"] = Append(@, a)]
  /\ command' = [name |-> "mdisabled", list |-> list'["mdisabled"], k |-> 0]
  /\ pc' = "erase"
  /\ UNCHANGED <<coins, flags, file, coinstake, torn, restarts>>

Enable(f) ==
  /\ Command /\ (f => list["multisend"] # <<>>)
  /\ fMultiSend' = f
  /\ file' = [file EXCEPT !.msettings = <<f, nLastMultiSendHeight>>]
  /\ Unsteady
  /\ UNCHANGED <<coins, list, fMultiSendCoinStake, nLastMultiSendHeight, pc, command, torn, restarts>>

CoinStake(f) ==
  /\ Command
  /\ fMultiSendCoinStake' = f /\ file' = [file EXCEPT !.mcoinstake = f]
  /\ Unsteady
  /\ UNCHANGED <<coins, list, fMultiSend, nLastMultiSendHeight, pc, command, torn, restarts>>

\* The records of a vector: numbers and what is stored under them.
ListOf(c) == IF c.name = "mdisabled" THEN "mdisabled" ELSE "multisend"
Without(records, k) == [i \in DOMAIN records \ {k} |-> records[i]]
With(records, k, x) == [i \in DOMAIN records \cup {k} |-> IF i = k THEN x ELSE records[i]]

EraseRecord ==
  LET l == ListOf(command)
  IN /\ pc = "erase" /\ command.k < Len(list[l])
     /\ file' = [file EXCEPT ![l] = Without(@, command.k + 1)]
     /\ command' = [command EXCEPT !.k = @ + 1]
     /\ UNCHANGED <<coins, list, flags, pc, coinstake, bounds>>

\* The vector changes in memory; clear also turns MultiSend off, in memory only.
Erased ==
  LET l == ListOf(command)
  IN /\ pc = "erase" /\ command.k = Len(list[l])
     /\ list' = [list EXCEPT ![l] = command.list]
     /\ fMultiSend' = (fMultiSend /\ command.name # "clear")
     /\ IF command.list = <<>> THEN pc' = "idle" /\ command' = NoCommand
                               ELSE pc' = "write" /\ command' = [command EXCEPT !.k = 0]
     /\ Unsteady
     /\ UNCHANGED <<coins, fMultiSendCoinStake, nLastMultiSendHeight, file, bounds>>

WriteRecord ==
  LET l == ListOf(command)
      k == command.k + 1
  IN /\ pc = "write"
     /\ file' = [file EXCEPT ![l] = With(@, k, command.list[k])]
     /\ IF k = Len(command.list) THEN pc' = "idle" /\ command' = NoCommand
                                 ELSE pc' = pc /\ command' = [command EXCEPT !.k = k]
     /\ UNCHANGED <<coins, list, flags, coinstake, bounds>>

-----------------------------------------------------------------------------
(* CWallet::MultiSend.                                                     *)

\* The end of ProcessBlock for an accepted block, after however many blocks it has
\* connected, or none; MultiSend does nothing in the initial download or with a
\* locked wallet.
ProcessBlock(b, ready) ==
  /\ pc = "idle"
  /\ best' = IF Trust[b] > Trust[best] THEN b ELSE best
  /\ pc' = IF fMultiSend /\ ~fMultiSendCoinStake /\ ready THEN "multisend" ELSE "idle"
  /\ UNCHANGED <<spent, shared, junk, list, flags, file, command, coinstake, bounds>>

nBestHeight == Height[best]
Depth(s) == IF StakeBlock[s] \in Branch[best] THEN nBestHeight - Height[StakeBlock[s]] + 1 ELSE 0

\* The outputs that have just matured, of those AvailableCoins lists.
Due == {<<s, o>> \in UNION {{s} \X StakeOuts[s] : s \in Stakes} :
          <<s, o>> \notin spent /\ Depth(s) = Maturity}

\* Mutant: the height of the last transaction is not looked at.
MayShareAgain == TRUE

MayShare == nBestHeight > nLastMultiSendHeight

\* The first output that is due, if its address is not disabled: its share is sent,
\* and for the next one nLastMultiSendHeight ends the loop.  What could not be
\* created is committed all the same: the wallet keeps a transaction without inputs.
Share(x) ==
  /\ pc = "multisend" /\ MayShare /\ x \in Due
  /\ StakeAddress[x[1]] \notin ToSet(list["mdisabled"])
  /\ IF list["multisend"] # <<>> /\ x \notin Poor
     THEN spent' = spent \cup {x} /\ shared' = shared \cup {x} /\ junk' = junk
     ELSE junk' = TRUE /\ UNCHANGED <<spent, shared>>
  /\ nLastMultiSendHeight' = nBestHeight
  /\ pc' = "settings"
  /\ UNCHANGED <<best, list, fMultiSend, fMultiSendCoinStake, file, command, coinstake, bounds>>

ShareNothing ==
  /\ pc = "multisend"
  /\ \/ ~MayShare \/ Due = {}
     \/ \E x \in Due : StakeAddress[x[1]] \in ToSet(list["mdisabled"])
  /\ pc' = "idle"
  /\ UNCHANGED <<coins, list, flags, file, command, coinstake, bounds>>

WriteMSettings ==
  /\ pc = "settings"
  /\ file' = [file EXCEPT !.msettings = <<fMultiSend, nLastMultiSendHeight>>]
  /\ pc' = "idle"
  /\ UNCHANGED <<coins, list, flags, command, coinstake, bounds>>

-----------------------------------------------------------------------------
(* CreateCoinStake, from the kernel on.                                    *)

\* The outputs: after the first, one for every payee or a second one of ours.
Outputs(value) ==
  IF fMultiSend /\ fMultiSendCoinStake
  THEN [i \in 1 .. Len(list["multisend"]) + 1 |-> IF i = 1 THEN "self" ELSE list["multisend"][i - 1][1]]
  ELSE IF (value + Reward) \div 2 > SplitThreshold THEN <<"self", "self">> ELSE <<"self">>

\* With fCombineDust, a coin is added unless there are more outputs.
KernelFound(value, fCombineDust) ==
  /\ coinstake.step = "none"
  /\ coinstake' = [step |-> "amounts", payees |-> Outputs(value), vout |-> <<>>, steady |-> TRUE,
                   credit |-> IF fCombineDust /\ Len(Outputs(value)) = 1 THEN value + DustCoin ELSE value]
  /\ UNCHANGED <<coins, list, flags, file, pc, command, bounds>>

\* The amounts of n outputs, by the settings as they are now.  An output that
\* nothing is assigned to keeps 0.
Amounts(n, total) ==
  LET v == list["multisend"]
      share == [i \in DOMAIN v |-> (Reward * v[i][2]) \div 100]
      half == ((total \div 2) \div CENT) * CENT
      ofEach(first, i) == IF i = 1 THEN first
                          ELSE IF i - 1 \in DOMAIN v THEN share[i - 1] ELSE 0
  IN IF fMultiSend /\ fMultiSendCoinStake
     THEN LET rest == total - FoldSeq(LAMBDA x, sum : x + sum, 0, share)
          IN [i \in 1 .. n |-> ofEach(rest, i)]
     ELSE IF n = 2 THEN <<half, total - half>>
     ELSE [i \in 1 .. n |-> IF i = 1 THEN total ELSE 0]

\* More payees than outputs: a write behind the end of vout.
OutOfRange ==
  fMultiSend /\ fMultiSendCoinStake /\ Len(list["multisend"]) + 1 > Len(coinstake.payees)

SetAmounts ==
  /\ coinstake.step = "amounts"
  /\ coinstake' = IF OutOfRange THEN [coinstake EXCEPT !.step = "undefined"]
                  ELSE [coinstake EXCEPT !.step = "done",
                          !.vout = Amounts(Len(coinstake.payees), coinstake.credit + Reward)]
  /\ UNCHANGED <<coins, list, flags, file, pc, command, bounds>>

\* The thread starts over.
NextCoinStake ==
  /\ coinstake.step = "done"
  /\ coinstake' = NoCoinStake
  /\ UNCHANGED <<coins, list, flags, file, pc, command, bounds>>

-----------------------------------------------------------------------------
\* What LoadWallet makes of the records, in the order of their numbers.
Loaded(records) ==
  LET ks == SetToSortSeq(DOMAIN records, <)
  IN [i \in 1 .. Len(ks) |-> records[ks[i]]]

Restart ==
  /\ restarts < MaxRestarts /\ restarts' = restarts + 1
  /\ list' = [l \in Lists |-> Loaded(file[l])]
  /\ fMultiSend' = file.msettings[1] /\ nLastMultiSendHeight' = file.msettings[2]
  /\ fMultiSendCoinStake' = file.mcoinstake
  /\ torn' = (torn \/ pc \in {"erase", "write", "settings"})
  /\ pc' = "idle" /\ command' = NoCommand /\ coinstake' = NoCoinStake
  /\ UNCHANGED <<coins, file, commands>>

Next ==
  \/ \E a \in Payees, p \in Percents : AddPayee(a, p)
  \/ \E i \in 1 .. Cardinality(Payees) : DeletePayee(i)
  \/ \E a \in Addresses : DisableAddress(a)
  \/ Clear \/ EnableAll
  \/ \E f \in BOOLEAN : Enable(f) \/ CoinStake(f)
  \/ EraseRecord \/ Erased \/ WriteRecord
  \/ \E b \in Blocks, ready \in BOOLEAN : ProcessBlock(b, ready)
  \/ \E s \in Stakes : \E o \in StakeOuts[s] : Share(<<s, o>>)
  \/ ShareNothing \/ WriteMSettings
  \/ \E v \in Kernels, f \in BOOLEAN : KernelFound(v, f)
  \/ SetAmounts \/ NextCoinStake
  \/ Restart

Spec == Init /\ [][Next]_vars

-----------------------------------------------------------------------------
TypeOK ==
  /\ best \in Blocks /\ shared \subseteq spent /\ junk \in BOOLEAN /\ torn \in BOOLEAN
  /\ list["multisend"] \in Seq(Payees \X Percents) /\ list["mdisabled"] \in Seq(Addresses)
  /\ nLastMultiSendHeight \in Nat
  /\ pc \in {"idle", "erase", "write", "multisend", "settings"}
  /\ coinstake.step \in {"none", "amounts", "done", "undefined"}

\* The reward of a stake is shared once, however its outputs, the reorganisations
\* that bring it to its height again and restarts follow each other.
SharedOnce ==
  ~torn => \A s \in Stakes : Cardinality({o \in StakeOuts[s] : <<s, o>> \in shared}) <= 1

\* A restart between commands changes nothing, but that clear is not remembered:
\* the records are those of the vectors, and no more is promised than the reward.
SettingsSaved ==
  ~torn =>
    /\ Percent(list["multisend"]) <= 100
    /\ pc = "idle" => /\ \A l \in Lists : file[l] = list[l]
                      /\ file.msettings[2] = nLastMultiSendHeight
                      /\ fMultiSend => file.msettings[1]

\* As long as the settings stay as they are while it is made, a coinstake pays out
\* its inputs and the reward, its payees have their shares of the reward and the rest
\* is ours.
CoinStakeIsWhole ==
  LET total == FoldSeq(LAMBDA x, sum : x + sum, 0, coinstake.vout)
      ours == {i \in DOMAIN coinstake.vout : coinstake.payees[i] = "self"}
  IN coinstake.step \in {"done", "undefined"} /\ coinstake.steady =>
       /\ coinstake.step = "done" /\ total = coinstake.credit + Reward
       /\ MapThenSumSet(LAMBDA i : coinstake.vout[i], ours) >= coinstake.credit
       /\ \A i \in DOMAIN coinstake.vout : coinstake.vout[i] > 0
=============================================================================
