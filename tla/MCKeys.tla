------------------------------- MODULE MCKeys -------------------------------
(***************************************************************************)
(* The keys of a wallet and how long they stay unlocked.  Three cases,     *)
(* chosen in the initial state:                                            *)
(*   "pool"     a staking thread reserves keys while the user takes        *)
(*              addresses, encrypts and unlocks;                           *)
(*   "relock"   the timeouts of walletpassphrase, which share no state     *)
(*              with the key pool: three relock threads, and timeouts of   *)
(*              none, a short and a long time;                             *)
(*   "signing"  holders of three keys sign an input, which one key, two of *)
(*              three, or two of a key given twice and another, can spend; *)
(*              one of them is not told the script of the hash.            *)
(***************************************************************************)
EXTENDS WalletKeys

CONSTANTS t1, t2, t3
VARIABLES case, scriptPubKey, copies
lockVars == <<locked, nWalletUnlockTime, thread>>
signVars == <<scriptPubKey, copies>>

Single(type) == [type |-> type, keys |-> <<t1>>]
TwoOf(keys) == [type |-> "TX_MULTISIG", m |-> 2, keys |-> keys]
HashOf(script) == [type |-> "TX_SCRIPTHASH", inner |-> script]
Wallet(keys) == [keys |-> keys, scripts |-> {TwoOf(<<t1, t2, t3>>), TwoOf(<<t1, t1, t2>>)}]

Cosigning == INSTANCE Signing WITH
  Scripts <- {Single("TX_PUBKEY"), Single("TX_PUBKEYHASH")}
             \cup {TwoOf(<<t1, t2, t3>>), HashOf(TwoOf(<<t1, t2, t3>>)), HashOf(TwoOf(<<t1, t1, t2>>))},
  Keystores <- {Wallet({t1}), Wallet({t2}), Wallet({t1, t2, t3}), [keys |-> {t2, t3}, scripts |-> {}]},
  MaxCopies <- 4

ASSUME SigningAssumption == Cosigning!SigningAssumption

MCInit ==
  /\ case \in {"pool", "relock", "signing"}
  /\ Init /\ Relocking!Init
  /\ Cosigning!Init /\ (case # "signing" => scriptPubKey = Single("TX_PUBKEY"))

MCNext ==
  \/ case = "pool" /\ Next /\ UNCHANGED <<case, lockVars, signVars>>
  \/ case = "relock" /\ Relocking!Next /\ UNCHANGED <<case, vars, signVars>>
  \/ case = "signing" /\ Cosigning!Next /\ UNCHANGED <<case, vars, lockVars>>

\* The relock threads run and the clock advances.
MCFairness ==
  /\ WF_lockVars(case = "relock" /\ Relocking!Tick)
  /\ \A t \in Threads :
        WF_lockVars(case = "relock" /\ (Relocking!Starts(t) \/ Relocking!Wakes(t)))

MCSpec == MCInit /\ [][MCNext]_<<vars, lockVars, signVars, case>> /\ MCFairness

-----------------------------------------------------------------------------
\* The types of key store, pool, file and relock threads.
KeysTypeOK ==
  CASE case = "pool"    -> TypeOK
    [] case = "relock"  -> Relocking!TypeOK
    [] case = "signing" -> Cosigning!TypeOK

\* signrawtransaction, in whatever order the holders of keys call it and pass
\* copies on, completes the transaction exactly when enough of them have signed;
\* OP_CHECKMULTISIG accepts what a match of signatures to keys in order would;
\* and what IsMine counts as the wallet's own, SignSignature can spend.
CosignersComplete ==
  /\ KeysTypeOK
  /\ case = "signing" =>
       /\ Cosigning!CompleteWhenEnoughSigned /\ Cosigning!MultisigIsReference
       /\ Cosigning!OwnOutputsCanBeSigned

\* An unlocked wallet is locked again, whatever the user does.
WalletIsRelocked == Relocking!Relocked
=============================================================================
