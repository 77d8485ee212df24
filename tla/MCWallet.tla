------------------------------ MODULE MCWallet ------------------------------
(***************************************************************************)
(* A wallet with one coin, a: p pays from it and q from p's change; s      *)
(* stakes it and r spends the stake; x is somebody else's.  Five cases,    *)
(* chosen in the initial state, the last two with a state of their own:    *)
(*   "reorg"   blocks A1, A2 stake, B3 or C2, two ways on from B1, pay;    *)
(*   "repair"  the same blocks, and the user may call repairwallet;        *)
(*   "faults"  A1 stakes, F1 pays, two invalid blocks, D2, on a block with *)
(*             the same payment, and E2, on an empty one, and crashes;     *)
(*   "spending"   a transaction is built from four coins, of which the     *)
(*             second is too young for the first choice and the third for  *)
(*             all but the last;                                           *)
(*   "multisend"  stakes s, with two outputs, and t mature on branches     *)
(*             that replace each other; coinstakes are made before the     *)
(*             first block.                                                *)
(***************************************************************************)
EXTENDS Wallet, Integers

CONSTANTS c1, c2, c3, c4

VARIABLES
  case,
  coins, request, buildPc, nFeeRet, conf, approx, setCoins, nChange, reserved,
  pindexBest, spent, shared, junk, list, fMultiSend, fMultiSendCoinStake, nLastMultiSendHeight,
  file, msPc, command, coinstake, torn, restarts, commands

ReorgBlocks == {"G", "A1", "A2", "B1", "B2", "B3", "C2"}
FaultBlocks == {"G", "A1", "F1", "D1", "D2", "E1", "E2"}
MCBlocks == ReorgBlocks \cup FaultBlocks
MCPrev == [G |-> "none", A1 |-> "G", A2 |-> "A1", B1 |-> "G", B2 |-> "B1", B3 |-> "B2", C2 |-> "B1",
           F1 |-> "G", D1 |-> "G", D2 |-> "D1", E1 |-> "G", E2 |-> "E1"]
MCHeight == [G |-> 0, A1 |-> 1, A2 |-> 2, B1 |-> 1, B2 |-> 2, B3 |-> 3, C2 |-> 2,
             F1 |-> 1, D1 |-> 1, D2 |-> 2, E1 |-> 1, E2 |-> 2]
MCTxs == {"a", "p", "q", "s", "r", "x"}
MCInputs == [a |-> {}, p |-> {"a"}, q |-> {"p"}, s |-> {"a"}, r |-> {"s"}, x |-> {"p"}]
MCMine == {"a", "p", "q", "s", "r"}
MCCoinStakes == {"s"}
MCTxsOf == [G |-> <<"a">>, A1 |-> <<"s">>, A2 |-> <<>>, B1 |-> <<>>, B2 |-> <<>>,
            B3 |-> <<"p", "q">>, C2 |-> <<"p">>,
            F1 |-> <<"p">>, D1 |-> <<"p">>, D2 |-> <<"x">>, E1 |-> <<>>, E2 |-> <<>>]

Repair == INSTANCE Wallet WITH MayRepair <- TRUE
Faults == INSTANCE Wallet WITH MayCrash <- TRUE

Coin(n, depth, fromMe) ==
  [value |-> n, depth |-> depth, fromMe |-> fromMe, available |-> TRUE, late |-> FALSE]
MCWallets ==
  {[c \in {c1, c2, c3, c4} |->
      CASE c = c1 -> Coin(v, 6, FALSE) [] c = c2 -> Coin(w, 1, FALSE)
        [] c = c3 -> Coin(x, k, TRUE)  [] c = c4 -> Coin(y, 6, TRUE)] :
     v \in {3, 10}, w \in {5, 40}, x \in {7, 11}, k \in {0, 1}, y \in {2, 14}}
Payment(amounts, pieces, fee, selected, return) ==
  [kind |-> "payment", vecSend |-> amounts, nSplitBlock |-> pieces, nTransactionFee |-> fee,
   selected |-> selected, fReturnChange |-> return]
MCRequests ==
  {Payment(n, k, fee, {}, FALSE) : n \in {<<6>>, <<4, 5>>, <<20>>}, k \in {0, 2}, fee \in {0, 3}}
  \cup {Payment(<<5>>, 0, 2, {c1, c2}, return) : return \in BOOLEAN}
  \cup {[Payment(<<>>, 0, 2, {}, FALSE) EXCEPT !.kind = "proposal"]}

Spending == INSTANCE Spending WITH
  Coins <- {c1, c2, c3, c4}, Wallets <- MCWallets, Requests <- MCRequests,
  CENT <- 4, MIN_TX_FEE <- 2, MIN_TXOUT_AMOUNT <- 2, SplitFee <- 3, ProposalFee <- 10,
  LeastChange <- 2, BytesIn <- 4, BytesOut <- 3, KByte <- 8, MaxBytes <- 24, Iterations <- 2,
  wallet <- coins, pc <- buildPc

\* The blocks are those of Wallet.
MultiSend == INSTANCE MultiSend WITH
  Trust <- [x \in MCBlocks |-> CASE x = "B1" -> 1 [] x = "B2" -> 2 [] x = "C2" -> 3 [] x = "B3" -> 4
                                [] x = "A2" -> 5 [] OTHER -> 0],
  Stakes <- {"s", "t"}, StakeBlock <- [s |-> "B1", t |-> "B2"],
  StakeOuts <- [s |-> {1, 2}, t |-> {1}], StakeAddress <- [s |-> "x", t |-> "y"],
  Poor <- {<<"t", 1>>}, Maturity <- 2, Payees <- {"p", "q"}, Percents <- {40, 70},
  Kernels <- {30, 60}, Reward <- 10, DustCoin <- 5, SplitThreshold <- 20, CENT <- 4,
  MaxRestarts <- 1, MaxCommands <- 4, best <- pindexBest, pc <- msPc

ASSUME SpendingAssumption == Spending!SpendingAssumption
ASSUME MultiSendAssumption == MultiSend!MultiSendAssumption

\* A component that is not in play has one initial state.
MCInit ==
  /\ case \in {"reorg", "repair", "faults", "spending", "multisend"}
  /\ Init /\ MultiSend!Init /\ Spending!Init
  /\ case # "spending" => coins = (CHOOSE w \in MCWallets : TRUE)
                          /\ request = (CHOOSE r \in MCRequests : TRUE)

spendingVars == <<coins, request, buildPc, nFeeRet, conf, approx, setCoins, nChange, reserved>>
multiSendVars == <<pindexBest, spent, shared, junk, list, fMultiSend, fMultiSendCoinStake,
                   nLastMultiSendHeight, file, msPc, command, coinstake, torn, restarts, commands>>

MCNext ==
  /\ \/ case = "reorg" /\ Next /\ index' \subseteq ReorgBlocks
     \/ case = "repair" /\ Repair!Next /\ index' \subseteq ReorgBlocks
     \/ case = "faults" /\ Faults!Next /\ index' \subseteq FaultBlocks
     \/ case = "spending" /\ Spending!Next
     \/ case = "multisend" /\ MultiSend!Next /\ (pindexBest' # "G" => coinstake'.step = "none")
  /\ UNCHANGED case
  /\ case \in {"spending", "multisend"} => UNCHANGED vars
  /\ case # "spending" => UNCHANGED spendingVars
  /\ case # "multisend" => UNCHANGED multiSendVars

MCSpec == MCInit /\ [][MCNext]_<<vars, case, spendingVars, multiSendVars>>

-----------------------------------------------------------------------------
\* CreateTransaction and SendProposal build what other nodes accept, whatever
\* subsets are drawn, and refuse only what the coins cannot pay.
PaymentsAreGood ==
  case = "spending" =>
    /\ Spending!TypeOK /\ Spending!ApproximationIsExact /\ Spending!PaymentIsGood
    /\ Spending!FeeIsBounded /\ Spending!RefusedOnlyWithoutFunds

\* MultiSend shares a stake once, its settings survive a restart, and a coinstake
\* made under steady settings pays everyone what is due.
StakesAreShared ==
  case = "multisend" =>
    /\ MultiSend!TypeOK /\ MultiSend!SharedOnce /\ MultiSend!SettingsSaved
    /\ MultiSend!CoinStakeIsWhole
=============================================================================
