------------------------------ MODULE Spending ------------------------------
(***************************************************************************)
(* How the wallet chooses coins and builds a transaction (wallet.cpp):      *)
(* SelectCoins with its stochastic subset sum, CreateTransaction, which      *)
(* starts over with a higher fee until the fee covers the size, and          *)
(* SendProposal, which pays a fixed fee.  cs_main and cs_wallet are held     *)
(* throughout, so one request is all a behaviour is about.                   *)
(*                                                                          *)
(* A coin is what the code asks of it.  random_shuffle decides among coins   *)
(* of equal value only, which the model leaves open; rand() decides the      *)
(* subsets that are tried.  The size of a transaction is a linear function   *)
(* of its inputs and outputs; signing succeeds.                              *)
(***************************************************************************)
EXTENDS Integers, Sequences, FiniteSets, FiniteSetsExt, SequencesExt

CONSTANTS
  Coins,
  Wallets,          \* the functions of coins to be explored
  Requests,         \* the requests to be explored
  CENT, MIN_TX_FEE, MIN_TXOUT_AMOUNT,
  SplitFee,         \* the fee CreateTransaction starts with to split (COIN / 1000)
  ProposalFee,      \* CVoteProposal::FEE
  LeastChange,      \* change SendProposal leaves to the fee (500)
  BytesIn, BytesOut, KByte,
  MaxBytes,         \* MAX_BLOCK_SIZE_GEN / 5
  Iterations        \* of ApproximateBestSubset (1000)

\* A coin: nValue, its depth, IsFromMe, whether AvailableCoins lists it (final,
\* confirmed, mature, unspent and ours) and whether it is later than nSpendTime.
Coin == [value : Nat, depth : Nat, fromMe : BOOLEAN, available : BOOLEAN, late : BOOLEAN]

\* A request: the payees' amounts (vecSend), the pieces each is paid in (0 when
\* fSplitBlock is off), -paytxfee, and what coin control selects and whether it
\* returns the change.
Request == [kind : {"payment", "proposal"}, vecSend : Seq(Nat), nSplitBlock : Nat,
            nTransactionFee : Nat, selected : SUBSET Coins, fReturnChange : BOOLEAN]

\* What the constants are assumed to satisfy.
SpendingAssumption ==
  /\ Wallets \subseteq [Coins -> Coin] /\ Requests \subseteq Request
  /\ {CENT, MIN_TX_FEE, MIN_TXOUT_AMOUNT, SplitFee, ProposalFee, LeastChange, BytesIn, BytesOut,
      KByte, MaxBytes, Iterations} \subseteq Nat \ {0}
  /\ MIN_TXOUT_AMOUNT <= MIN_TX_FEE

VARIABLES
  wallet, request,
  pc,           \* "select", "approximate", "build", "done", "failed"
  nFeeRet,
  conf,         \* which of the three calls of SelectCoinsMinConf
  approx,       \* ApproximateBestSubset: vValue, its target, nRep, vfBest and nBest
  setCoins,
  nChange,
  reserved      \* the CReserveKey holds a key

vars == <<wallet, request, pc, nFeeRet, conf, approx, setCoins, nChange, reserved>>

-----------------------------------------------------------------------------
Value(S) == MapThenSumSet(LAMBDA c : wallet[c].value, S)
Total(s) == FoldSeq(LAMBDA n, sum : sum + n, 0, s)

\* GetMinFee of a transaction that is relayed or sent; the dust rule of it is
\* never reached, since nMinFee starts at the base fee.
GetMinFee(nBytes) == (1 + nBytes \div KByte) * MIN_TX_FEE

\* What the coins have to add up to.
nValue == Total(request.vecSend)
nTargetValue == IF request.kind = "proposal" THEN ProposalFee ELSE nValue + nFeeRet

\* The payees' outputs: each amount as it is, or in nSplitBlock pieces of which
\* the last has the remainder.
PiecesOf(n) ==
  LET k == request.nSplitBlock
  IN [i \in 1 .. k |-> IF i = k THEN (n \div k) + (n % k) ELSE n \div k]
Pieces ==
  IF request.kind = "proposal" THEN <<MIN_TXOUT_AMOUNT>>
  ELSE IF request.nSplitBlock = 0 THEN request.vecSend
  ELSE FoldSeq(LAMBDA n, s : PiecesOf(n) \o s, <<>>, request.vecSend)

NoApprox == [vValue |-> <<>>, target |-> 0, nRep |-> 0, best |-> {}, nBest |-> 0]

FirstFee ==
  IF request.kind = "payment" /\ request.nSplitBlock > 0 THEN SplitFee ELSE request.nTransactionFee

Init ==
  /\ wallet \in Wallets /\ request \in Requests
  /\ pc = "select" /\ nFeeRet = FirstFee /\ conf = 1 /\ approx = NoApprox
  /\ setCoins = {} /\ nChange = 0 /\ reserved = FALSE

-----------------------------------------------------------------------------
(* SelectCoins.                                                            *)

AvailableCoins ==
  {c \in Coins : /\ wallet[c].available
                 /\ request.selected # {} => c \in request.selected}

\* nConfMine and nConfTheirs of the three calls; SendProposal makes the first only.
Confs == <<[mine |-> 1, theirs |-> 6], [mine |-> 1, theirs |-> 1], [mine |-> 0, theirs |-> 1]>>
LastConf == IF request.kind = "proposal" THEN 1 ELSE 3

Eligible(k) ==
  {c \in AvailableCoins :
     /\ wallet[c].depth >= (IF wallet[c].fromMe THEN Confs[k].mine ELSE Confs[k].theirs)
     /\ ~wallet[c].late}

\* The three kinds of coins SelectCoinsMinConf tells apart.
Exact(k) == {c \in Eligible(k) : wallet[c].value = nTargetValue}
Lower(k) == {c \in Eligible(k) \ Exact(k) : wallet[c].value < nTargetValue + CENT}
Larger(k) == {c \in Eligible(k) : wallet[c].value >= nTargetValue + CENT}
LowestLarger(k) == {c \in Larger(k) : \A d \in Larger(k) : wallet[c].value <= wallet[d].value}

Selecting == pc = "select" /\ (request.kind = "proposal" \/ request.selected = {})

Select(S) ==
  /\ setCoins' = S /\ pc' = "build" /\ approx' = NoApprox
  /\ UNCHANGED <<wallet, request, nFeeRet, conf, nChange, reserved>>

\* With coin control every selected coin goes in, however many are needed.
SelectSelected ==
  /\ pc = "select" /\ request.kind = "payment" /\ request.selected # {}
  /\ setCoins' = AvailableCoins
  /\ pc' = IF Value(AvailableCoins) >= nTargetValue THEN "build" ELSE "failed"
  /\ UNCHANGED <<wallet, request, nFeeRet, conf, approx, nChange, reserved>>

SelectExact == Selecting /\ \E c \in Exact(conf) : Select({c})

SelectAllLower ==
  Selecting /\ Exact(conf) = {} /\ Value(Lower(conf)) = nTargetValue /\ Select(Lower(conf))

SelectLarger ==
  /\ Selecting /\ Exact(conf) = {} /\ Value(Lower(conf)) < nTargetValue
  /\ \E c \in LowestLarger(conf) : Select({c})

\* The next call asks for fewer confirmations.
SelectNothing ==
  /\ Selecting /\ Exact(conf) = {} /\ Value(Lower(conf)) < nTargetValue /\ Larger(conf) = {}
  /\ IF conf < LastConf THEN conf' = conf + 1 /\ pc' = pc ELSE pc' = "failed" /\ conf' = conf
  /\ UNCHANGED <<wallet, request, nFeeRet, approx, setCoins, nChange, reserved>>

\* The lower coins, the largest first.
StartApproximation(vValue, target) ==
  approx' = [vValue |-> vValue, target |-> target, nRep |-> 0,
             best |-> ToSet(vValue), nBest |-> Value(ToSet(vValue))]

ApproximateLower ==
  /\ Selecting /\ Exact(conf) = {} /\ Value(Lower(conf)) > nTargetValue
  /\ StartApproximation(SetToSortSeq(Lower(conf), LAMBDA c, d : wallet[c].value > wallet[d].value),
                        nTargetValue)
  /\ pc' = "approximate"
  /\ UNCHANGED <<wallet, request, nFeeRet, conf, setCoins, nChange, reserved>>

-----------------------------------------------------------------------------
(* ApproximateBestSubset.                                                  *)

\* c is added; when that reaches the target, the subset is compared with the best
\* one and c is taken out again.
Include(r, c) ==
  LET n == r.nTotal + wallet[c].value
  IN IF n < approx.target THEN [r EXCEPT !.nTotal = n, !.included = @ \cup {c}]
     ELSE IF n < r.nBest THEN [r EXCEPT !.reached = TRUE, !.nBest = n, !.best = r.included \cup {c}]
     ELSE [r EXCEPT !.reached = TRUE]

\* A pass over the coins that tries those of the set taken.
Pass(start, taken) ==
  LET pass[i \in 0 .. Len(approx.vValue)] ==
        IF i = 0 THEN start
        ELSE LET r == pass[i - 1]
             IN IF approx.vValue[i] \in taken THEN Include(r, approx.vValue[i]) ELSE r
  IN pass[Len(approx.vValue)]

\* One repetition: a pass over the coins drawn, and one over those left out if
\* the first did not reach the target.
Repetition(drawn) ==
  LET start == [nTotal |-> 0, included |-> {}, reached |-> FALSE,
                best |-> approx.best, nBest |-> approx.nBest]
      first == Pass(start, drawn)
  IN IF first.reached THEN first ELSE Pass(first, ToSet(approx.vValue) \ first.included)

Repeat ==
  /\ pc = "approximate" /\ approx.nRep < Iterations /\ approx.nBest # approx.target
  /\ \E drawn \in SUBSET ToSet(approx.vValue) :
       LET r == Repetition(drawn)
       IN approx' = [approx EXCEPT !.nRep = @ + 1, !.best = r.best, !.nBest = r.nBest]
  /\ UNCHANGED <<wallet, request, pc, nFeeRet, conf, setCoins, nChange, reserved>>

Repeated == pc = "approximate" /\ (approx.nRep = Iterations \/ approx.nBest = approx.target)

\* Without an exact match the search is repeated for a change of a CENT.
SearchAgain ==
  Repeated /\ approx.target = nTargetValue /\ approx.nBest # nTargetValue
           /\ Value(ToSet(approx.vValue)) >= nTargetValue + CENT

ApproximateAgain ==
  /\ SearchAgain
  /\ StartApproximation(approx.vValue, nTargetValue + CENT)
  /\ UNCHANGED <<wallet, request, pc, nFeeRet, conf, setCoins, nChange, reserved>>

\* The next larger coin is better when the subset leaves little change, or is not
\* smaller.
LargerIsBetter ==
  \E c \in LowestLarger(conf) :
    \/ approx.nBest # nTargetValue /\ approx.nBest < nTargetValue + CENT
    \/ wallet[c].value <= approx.nBest

SelectBest ==
  /\ Repeated /\ ~SearchAgain
  /\ IF LargerIsBetter THEN \E c \in LowestLarger(conf) : Select({c}) ELSE Select(approx.best)

-----------------------------------------------------------------------------
(* CreateTransaction, SendProposal.                                        *)

Size(nOut) == BytesIn * Cardinality(setCoins) + BytesOut * nOut

\* The change and the fee: change of less than a CENT raises a fee below the
\* minimum, and change below the least output goes to the fee.
Settled ==
  LET change == Value(setCoins) - nValue - nFeeRet
      toFee == IF nFeeRet < MIN_TX_FEE /\ change > 0 /\ change < CENT
               THEN Min({change, MIN_TX_FEE - nFeeRet}) ELSE 0
      dust == IF change - toFee < MIN_TXOUT_AMOUNT THEN change - toFee ELSE 0
  IN [change |-> change - toFee - dust, fee |-> nFeeRet + toFee + dust]

Outputs(change) == Len(Pieces) + (IF change > 0 THEN 1 ELSE 0)

Fee(nBytes) ==
  Max({request.nTransactionFee * (1 + nBytes \div KByte), GetMinFee(nBytes)})

\* Mutant: the fee is that of the size before.
CoversBefore(settled) == settled.fee >= Fee(Size(Len(Pieces)))

Covers(settled) == settled.fee >= Fee(Size(Outputs(settled.change)))

Building == pc = "build" /\ request.kind = "payment"
TooLarge == Size(Outputs(Settled.change)) >= MaxBytes

\* A key of the pool is reserved for the change, and returned without change.
ReserveChange ==
  reserved' = IF Settled.change = 0 THEN FALSE
              ELSE IF request.selected # {} /\ request.fReturnChange THEN reserved ELSE TRUE

CreateTransaction ==
  /\ Building /\ ~TooLarge /\ Covers(Settled)
  /\ nFeeRet' = Settled.fee /\ nChange' = Settled.change /\ ReserveChange
  /\ pc' = "done"
  /\ UNCHANGED <<wallet, request, conf, approx, setCoins>>

RaiseFee ==
  /\ Building /\ ~TooLarge /\ ~Covers(Settled)
  /\ nFeeRet' = Fee(Size(Outputs(Settled.change))) /\ ReserveChange
  /\ pc' = "select" /\ conf' = 1 /\ setCoins' = {}
  /\ UNCHANGED <<wallet, request, approx, nChange>>

CreateTransactionFails ==
  /\ Building /\ TooLarge
  /\ nFeeRet' = Settled.fee /\ ReserveChange /\ pc' = "failed"
  /\ UNCHANGED <<wallet, request, conf, approx, setCoins, nChange>>

\* SendProposal pays the proposal's fee less the output of the proposal itself.
ProposalChange ==
  LET change == Value(setCoins) - (ProposalFee - MIN_TXOUT_AMOUNT) - MIN_TXOUT_AMOUNT
  IN IF change > LeastChange THEN change ELSE 0

SendProposal ==
  /\ pc = "build" /\ request.kind = "proposal"
  /\ nChange' = ProposalChange
  /\ nFeeRet' = Value(setCoins) - MIN_TXOUT_AMOUNT - ProposalChange
  /\ pc' = "done"
  /\ UNCHANGED <<wallet, request, conf, approx, setCoins, reserved>>

\* The caller has its answer.
Returned == pc \in {"done", "failed"} /\ UNCHANGED vars

Next ==
  \/ SelectSelected \/ SelectExact \/ SelectAllLower \/ SelectLarger \/ SelectNothing
  \/ ApproximateLower \/ Repeat \/ ApproximateAgain \/ SelectBest
  \/ CreateTransaction \/ RaiseFee \/ CreateTransactionFails \/ SendProposal
  \/ Returned

Spec == Init /\ [][Next]_vars

-----------------------------------------------------------------------------
TypeOK ==
  /\ wallet \in Wallets /\ request \in Requests
  /\ pc \in {"select", "approximate", "build", "done", "failed"}
  /\ nFeeRet \in Nat /\ conf \in 1 .. 3 /\ nChange \in Nat /\ reserved \in BOOLEAN
  /\ setCoins \subseteq Coins
  /\ approx \in [vValue : Seq(Coins), target : Nat, nRep : 0 .. Iterations, best : SUBSET Coins, nBest : Nat]

\* nBest is the value of the subset that is kept, and reaches the target.
ApproximationIsExact ==
  pc = "approximate" =>
    /\ approx.best \subseteq Eligible(conf) /\ approx.nBest = Value(approx.best)
    /\ approx.nBest >= approx.target

\* What is built passes the checks of other nodes: it spends what it pays and its
\* fee; the fee is what CTxMemPool::accept asks for a transaction of this size, or
\* what ConnectBlock asks of a proposal; no output of ours is below the least.  Coins
\* with few confirmations are spent only when the others do not suffice, and a key is
\* taken from the pool if and only if it has the change.
PaymentIsGood ==
  LET paid == Append(Pieces, nChange)
  IN pc = "done" =>
       /\ Value(setCoins) = Total(paid) + nFeeRet
       /\ setCoins \subseteq AvailableCoins
       /\ request.selected = {} /\ Value(Eligible(1)) >= nTargetValue => setCoins \subseteq Eligible(1)
       /\ nFeeRet >= GetMinFee(Size(Outputs(nChange)))
       /\ nChange # 0 => nChange >= MIN_TXOUT_AMOUNT
       /\ request.kind = "proposal" => /\ Value(setCoins) - Total(paid) >= ProposalFee - MIN_TXOUT_AMOUNT
                                       /\ nFeeRet <= ProposalFee + LeastChange
       /\ reserved <=> request.kind = "payment" /\ nChange > 0
                       /\ (request.selected = {} \/ ~request.fReturnChange)

\* The loop of CreateTransaction ends: every try but the last raises the fee, and no
\* fee is more than the largest transaction needs, and dust.
FeeIsBounded ==
  request.kind = "payment" =>
    nFeeRet <= Max({FirstFee, Fee(BytesIn * Cardinality(Coins) + BytesOut * Outputs(1))})
               + MIN_TXOUT_AMOUNT

\* Coins are refused only when they do not suffice: all that may be spent are worth
\* less than the payment and the fee asked for, or too many for a transaction.
RefusedOnlyWithoutFunds ==
  pc = "failed" =>
    \/ setCoins = {} /\ Value(Eligible(LastConf)) < nTargetValue
    \/ request.selected # {} /\ Value(AvailableCoins) < nTargetValue
    \/ setCoins # {} /\ Size(Outputs(1)) >= MaxBytes
=============================================================================
