------------------------------ MODULE KeyPool ------------------------------
(***************************************************************************)
(* The wallet's keys: the key store in memory (plain or encrypted), the     *)
(* pool of keys made in advance, and their records in wallet.dat.           *)
(*                                                                          *)
(* Operations hold cs_wallet from beginning to end, so one at a time is     *)
(* under way (cs); the steps of it are separate here because two things     *)
(* come in between: the relock thread, whose Lock takes only cs_KeyStore,   *)
(* and the end of the process.  A CReserveKey keeps an index while          *)
(* cs_wallet is free: CreateNewBlock, on the staking thread, has one.       *)
(* wallet.dat is written with DB_AUTO_COMMIT, so each record is durable     *)
(* once written, and the records of a transaction all at its commit.        *)
(***************************************************************************)
EXTENDS Integers, FiniteSets, Functions, FiniteSetsExt

CONSTANTS
  Holders,        \* threads that run CreateNewBlock
  KeyPoolSize,    \* -keypool
  MaxKeys,        \* bound on the keys ever made
  MayEncrypt      \* whether the user may call encryptwallet

ASSUME KeyPoolAssumption ==
  /\ KeyPoolSize \in Nat /\ MaxKeys \in Nat \ {0} /\ MayEncrypt \in BOOLEAN
  /\ Holders \cap {"none", "thread", "get", "peek", "refill"} = {}

VARIABLES
  up,       \* the process runs
  ks,       \* CCryptoKeyStore and mapMasterKeys
  pool,     \* setKeyPool
  file,     \* wallet.dat and wallet.dat.rewrite
  txn,      \* the uncommitted transaction of pwalletdbEncryption
  cs,       \* what the thread that owns cs_wallet is doing
  held,     \* held[h]: the CReserveKey of thread h
  topups,   \* whether a ThreadTopUpKeyPool has been started and not yet run
  nextKey,  \* the next key MakeNewKey produces
  template, \* the key of the last block template, 0 if there is none
  kept,     \* keys given out for good
  mined,    \* keys of the blocks this node found
  reused,   \* since the start, a reserved index was given to another key
  lost      \* keys given out before a stop between the removal of the file and its renaming

vars == <<up, ks, pool, file, txn, cs, held, topups, nextKey, template, kept, mined, reused, lost>>
wallet == <<ks, pool, file, txn>>
history == <<reused, lost>>

Key == 1 .. MaxKeys
EmptyDisk == [key |-> {}, ckey |-> {}, mkey |-> FALSE, pool |-> <<>>]
NoFile == [EmptyDisk EXCEPT !.key = {0}]      \* no wallet has a key 0
NoKey == [nIndex |-> -1, vchPubKey |-> 0]
Idle == [op |-> "idle", for |-> "none", key |-> 0, nIndex |-> -1]

IsLocked == ks.fUseCrypto /\ ~ks.vMasterKey
HaveKey(k) == IF ks.fUseCrypto THEN k \in ks.mapCryptedKeys ELSE k \in ks.mapKeys

\* what LoadWallet reads from a wallet file
KeyStoreOf(disk) ==
  [fUseCrypto |-> disk.ckey # {}, vMasterKey |-> FALSE,
   mapKeys |-> disk.key, mapCryptedKeys |-> disk.ckey, mapMasterKeys |-> disk.mkey]

Init ==
  /\ up = TRUE
  /\ ks = KeyStoreOf(EmptyDisk) /\ pool = {}
  /\ file = [main |-> EmptyDisk, rewrite |-> NoFile] /\ txn = NoFile
  /\ cs = Idle /\ held = [h \in Holders |-> NoKey] /\ topups = FALSE
  /\ nextKey = 1 /\ template = 0 /\ kept = {} /\ mined = {}
  /\ reused = FALSE /\ lost = {}

-----------------------------------------------------------------------------
(* CWalletDB: records of wallet.dat.                                       *)

WritePool(disk, i, k) ==
  [disk EXCEPT !.pool = [j \in DOMAIN @ \cup {i} |-> IF j = i THEN k ELSE @[j]]]
\* mutant: the record stays when the key is taken
ErasePoolNot(disk, I) == disk
ErasePool(disk, I) == [disk EXCEPT !.pool = Restrict(@, DOMAIN @ \ I)]
WriteKey(disk, k) == [disk EXCEPT !.key = @ \cup {k}]

\* writes the encrypted key and erases the plain one
WriteCryptedKeys(disk, K) == [disk EXCEPT !.ckey = @ \cup K, !.key = @ \ K]

-----------------------------------------------------------------------------
(* The loop of TopUpKeyPool and of NewKeyPool.                             *)

TargetSize == IF cs.op = "topup" THEN KeyPoolSize + 1 ELSE KeyPoolSize
Filling == cs.op \in {"topup", "newpool"}
NeedsKey == Filling /\ cs.key = 0 /\ Cardinality(pool) < TargetSize

\* bound: an operation starts only if it cannot run out of keys
KeysLeft == nextKey + KeyPoolSize <= MaxKeys

NextIndex == IF pool = {} THEN 1 ELSE Max(pool) + 1

\* CWallet::AddKey: the key store first, then the wallet file
AddKey(k) ==
  IF ks.fUseCrypto
  THEN /\ ks' = [ks EXCEPT !.mapCryptedKeys = @ \cup {k}]
       /\ file' = [file EXCEPT !.main = WriteCryptedKeys(@, {k})]
  ELSE /\ ks' = [ks EXCEPT !.mapKeys = @ \cup {k}]
       /\ file' = [file EXCEPT !.main = WriteKey(@, k)]

GenerateNewKey ==
  /\ up /\ NeedsKey /\ ~IsLocked
  /\ AddKey(nextKey)
  /\ cs' = [cs EXCEPT !.key = nextKey]
  /\ nextKey' = nextKey + 1
  /\ UNCHANGED <<up, pool, txn, held, topups, template, kept, mined, history>>

\* The relock thread came first: AddKey fails and GenerateNewKey throws.  The
\* caller reports it, except for ThreadTopUpKeyPool, which has no handler: the
\* exception ends the process.
GenerateNewKeyThrows ==
  /\ up /\ NeedsKey /\ IsLocked
  /\ up' = (cs.for # "thread")
  /\ cs' = Idle
  /\ UNCHANGED <<ks, pool, file, txn, held, topups, nextKey, template, kept, mined, history>>

\* The index follows those of setKeyPool, which a reserved index has left: an
\* emptied pool starts at 1 again, whatever is reserved.
AddToPool ==
  /\ up /\ cs.key # 0
  /\ file' = [file EXCEPT !.main = WritePool(@, NextIndex, cs.key)]
  /\ pool' = pool \cup {NextIndex}
  /\ reused' = (reused \/ \E h \in Holders : held[h].nIndex = NextIndex)
  /\ cs' = [cs EXCEPT !.key = 0]
  /\ UNCHANGED <<up, ks, txn, held, topups, nextKey, template, kept, mined, lost>>

\* What follows a full pool: ReserveKeyFromKeyPool, or nothing.
TopUpDone ==
  /\ up /\ cs.op = "topup" /\ ~NeedsKey /\ cs.key = 0
  /\ cs' = IF cs.for \in {"thread", "refill"} THEN Idle ELSE [cs EXCEPT !.op = "reserve"]
  /\ UNCHANGED <<up, wallet, held, topups, nextKey, template, kept, mined, history>>

-----------------------------------------------------------------------------
(* Callers of the pool.                                                    *)

\* ReserveKeyFromKeyPool tops up first, unless the wallet is locked.
Enter(for) ==
  /\ up /\ cs = Idle /\ KeysLeft
  /\ cs' = [Idle EXCEPT !.op = IF IsLocked THEN "reserve" ELSE "topup", !.for = for]
  /\ UNCHANGED <<up, wallet, held, nextKey, template, kept, mined, history>>

GetNewAddress == Enter("get") /\ UNCHANGED topups
GetOldestKeyPoolTime == Enter("peek") /\ UNCHANGED topups
KeypoolRefill == ~IsLocked /\ Enter("refill") /\ UNCHANGED topups

ThreadTopUpKeyPool ==
  /\ topups /\ topups' = FALSE
  /\ \/ ~IsLocked /\ Enter("thread")
     \/ up /\ cs = Idle /\ IsLocked
        /\ UNCHANGED <<up, wallet, cs, held, nextKey, template, kept, mined, history>>

\* CreateNewBlock on thread h: GetReservedKey; BitcoinMiner starts with the
\* wallet unlocked, and the wallet may have been locked since.
GetReservedKey(h) == held[h] = NoKey /\ Enter(h) /\ UNCHANGED topups

Readable(i) == i \in DOMAIN file.main.pool /\ HaveKey(file.main.pool[i])

\* The rest of ReserveKeyFromKeyPool, and what its caller does with the index.
\* "read failed" and "unknown key in key pool" are thrown with the index
\* already gone from the set.
ReserveKey ==
  /\ up /\ cs.op = "reserve" /\ pool # {}
  /\ LET i == Min(pool)
         got == Readable(i)
     IN /\ pool' = IF got /\ cs.for = "peek" THEN pool ELSE pool \ {i}
        /\ cs' = IF got /\ cs.for = "get" THEN [cs EXCEPT !.op = "keep", !.nIndex = i] ELSE Idle
        /\ held' = IF got /\ cs.for \in Holders
                   THEN [held EXCEPT ![cs.for] = [nIndex |-> i, vchPubKey |-> file.main.pool[i]]]
                   ELSE held
  /\ UNCHANGED <<up, ks, file, txn, topups, nextKey, template, kept, mined, history>>

\* Nothing in the pool: the caller does without (a locked wallet).
ReserveNothing ==
  /\ up /\ cs.op = "reserve" /\ pool = {}
  /\ cs' = Idle
  /\ UNCHANGED <<up, wallet, held, topups, nextKey, template, kept, mined, history>>

\* GetKeyFromPool ends with KeepKey, under the same cs_wallet
KeepKey ==
  /\ up /\ cs.op = "keep"
  /\ kept' = kept \cup {file.main.pool[cs.nIndex]}
  /\ file' = [file EXCEPT !.main = ErasePool(@, {cs.nIndex})]
  /\ cs' = Idle
  /\ UNCHANGED <<up, ks, pool, txn, held, topups, nextKey, template, mined, history>>

\* the destructor of CreateNewBlock's CReserveKey; the template has its key
ReturnKey(h) ==
  /\ up /\ held[h] # NoKey /\ cs = Idle
  /\ pool' = pool \cup {held[h].nIndex}
  /\ template' = held[h].vchPubKey
  /\ held' = [held EXCEPT ![h] = NoKey]
  /\ UNCHANGED <<up, ks, file, txn, cs, topups, nextKey, kept, mined, history>>

\* CheckWork with the miner's own CReserveKey, which never reserved anything:
\* its KeepKey finds nIndex = -1.
CheckWork ==
  /\ up /\ template # 0
  /\ mined' = mined \cup {template}
  /\ template' = 0
  /\ UNCHANGED <<up, wallet, cs, held, topups, nextKey, kept, history>>

-----------------------------------------------------------------------------
(* Encryption.                                                             *)

\* mutant: the keys are written at once and only the master key at the commit
EncryptWalletTwice ==
  /\ MayEncrypt /\ up /\ cs = Idle /\ ~ks.fUseCrypto /\ KeysLeft
  /\ ks.mapKeys # {}
  /\ file.rewrite = NoFile
  /\ file' = [file EXCEPT !.main = WriteCryptedKeys(@, ks.mapKeys)]
  /\ txn' = WriteCryptedKeys([file.main EXCEPT !.mkey = TRUE], ks.mapKeys)
  /\ ks' = [fUseCrypto |-> TRUE, vMasterKey |-> FALSE, mapKeys |-> {},
            mapCryptedKeys |-> ks.mapKeys, mapMasterKeys |-> TRUE]
  /\ cs' = [Idle EXCEPT !.op = "commit"]
  /\ UNCHANGED <<up, pool, held, topups, nextKey, template, kept, mined, history>>

\* EncryptWallet up to the commit: the master key and every encrypted key are
\* written in one transaction, and the key store switches over.  A wallet
\* started anew after the loss of its file is not encrypted again (bound).
EncryptWallet ==
  /\ MayEncrypt /\ up /\ cs = Idle /\ ~ks.fUseCrypto /\ KeysLeft
  /\ ks.mapKeys # {}                   \* start-up has made the default key
  /\ file.rewrite = NoFile
  /\ txn' = WriteCryptedKeys([file.main EXCEPT !.mkey = TRUE], ks.mapKeys)
  /\ ks' = [fUseCrypto |-> TRUE, vMasterKey |-> FALSE, mapKeys |-> {},
            mapCryptedKeys |-> ks.mapKeys, mapMasterKeys |-> TRUE]
  /\ cs' = [Idle EXCEPT !.op = "commit"]
  /\ UNCHANGED <<up, pool, file, held, topups, nextKey, template, kept, mined, history>>

\* TxnCommit, then Lock, Unlock, and the beginning of NewKeyPool, which marks
\* the old pool as used record by record
TxnCommit ==
  /\ up /\ cs.op = "commit"
  /\ file' = [file EXCEPT !.main = txn] /\ txn' = NoFile
  /\ ks' = [ks EXCEPT !.vMasterKey = TRUE]
  /\ cs' = [cs EXCEPT !.op = "erase"]
  /\ UNCHANGED <<up, pool, held, topups, nextKey, template, kept, mined, history>>

EraseOldPool ==
  /\ up /\ cs.op = "erase"
  /\ IF pool = {}
     THEN cs' = [cs EXCEPT !.op = "newpool"] /\ UNCHANGED <<file, pool>>
     ELSE /\ file' = [file EXCEPT !.main = ErasePool(@, {Min(pool)})]
          /\ pool' = pool \ {Min(pool)}
          /\ UNCHANGED cs
  /\ UNCHANGED <<up, ks, txn, held, topups, nextKey, template, kept, mined, history>>

\* NewKeyPool is done: Lock, and CDB::Rewrite copies the file, removes it and
\* renames the copy.
RewriteCopy ==
  /\ up /\ cs.op = "newpool" /\ ~NeedsKey /\ cs.key = 0
  /\ ks' = [ks EXCEPT !.vMasterKey = FALSE]
  /\ file' = [file EXCEPT !.rewrite = file.main]
  /\ cs' = [cs EXCEPT !.op = "remove"]
  /\ UNCHANGED <<up, pool, txn, held, topups, nextKey, template, kept, mined, history>>

RewriteRemove ==
  /\ up /\ cs.op = "remove"
  /\ file' = [file EXCEPT !.main = NoFile]
  /\ cs' = [cs EXCEPT !.op = "rename"]
  /\ UNCHANGED <<up, ks, pool, txn, held, topups, nextKey, template, kept, mined, history>>

RewriteRename ==
  /\ up /\ cs.op = "rename"
  /\ file' = [main |-> file.rewrite, rewrite |-> NoFile]
  /\ cs' = Idle
  /\ UNCHANGED <<up, ks, pool, txn, held, topups, nextKey, template, kept, mined, history>>

\* walletpassphrase with the right passphrase; it starts the top-up thread
\* (bound: the previous one has run)
WalletPassphrase ==
  /\ up /\ cs = Idle /\ IsLocked /\ ~topups
  /\ ks' = [ks EXCEPT !.vMasterKey = TRUE]
  /\ topups' = TRUE
  /\ UNCHANGED <<up, pool, file, txn, cs, held, nextKey, template, kept, mined, history>>

\* The relock thread locks without cs_wallet.  None is running while the
\* wallet is being encrypted for the first time.
Relock ==
  /\ up /\ ks.fUseCrypto /\ ks.vMasterKey
  /\ cs.op \notin {"commit", "erase", "newpool"}
  /\ ks' = [ks EXCEPT !.vMasterKey = FALSE]
  /\ UNCHANGED <<up, pool, file, txn, cs, held, topups, nextKey, template, kept, mined, history>>

-----------------------------------------------------------------------------
\* the process ends: in an orderly way, or (a failed TxnCommit too) not
Crash ==
  /\ up /\ up' = FALSE
  /\ cs' = Idle
  /\ lost' = IF cs.op = "rename" THEN lost \cup kept \cup mined ELSE lost
  /\ UNCHANGED <<wallet, held, topups, nextKey, template, kept, mined, reused>>

\* LoadWallet opens wallet.dat and nothing else; "cr+" makes a wallet where
\* there is none
LoadWallet ==
  /\ ~up /\ up' = TRUE
  /\ LET disk == IF file.main = NoFile THEN EmptyDisk ELSE file.main IN
     /\ file' = [file EXCEPT !.main = disk]
     /\ ks' = KeyStoreOf(disk)
     /\ pool' = DOMAIN disk.pool
  /\ txn' = NoFile /\ held' = [h \in Holders |-> NoKey]
  /\ topups' = FALSE /\ template' = 0 /\ reused' = FALSE
  /\ UNCHANGED <<cs, nextKey, kept, mined, lost>>

Next ==
  \/ GenerateNewKey \/ GenerateNewKeyThrows \/ AddToPool \/ TopUpDone
  \/ GetNewAddress \/ GetOldestKeyPoolTime \/ KeypoolRefill \/ ThreadTopUpKeyPool
  \/ \E h \in Holders : GetReservedKey(h) \/ ReturnKey(h)
  \/ ReserveKey \/ ReserveNothing \/ KeepKey \/ CheckWork
  \/ EncryptWallet \/ TxnCommit \/ EraseOldPool
  \/ RewriteCopy \/ RewriteRemove \/ RewriteRename
  \/ WalletPassphrase \/ Relock \/ Crash \/ LoadWallet

Spec == Init /\ [][Next]_vars

-----------------------------------------------------------------------------
Disk == [key : SUBSET Key, ckey : SUBSET Key, mkey : BOOLEAN,
         pool : UNION {[I -> Key] : I \in SUBSET (1 .. MaxKeys)}]

\* Type correctness; every index of the pool has had a key of its own, so the
\* bound on keys bounds the indices.
TypeOK ==
  /\ up \in BOOLEAN /\ topups \in BOOLEAN
  /\ ks \in [fUseCrypto : BOOLEAN, vMasterKey : BOOLEAN, mapKeys : SUBSET Key,
             mapCryptedKeys : SUBSET Key, mapMasterKeys : BOOLEAN]
  /\ pool \in SUBSET (1 .. MaxKeys)
  /\ file \in [main : Disk \cup {NoFile}, rewrite : Disk \cup {NoFile}]
  /\ txn \in Disk \cup {NoFile}
  /\ cs.key \in Key \cup {0}
  /\ held \in [Holders -> [nIndex : -1 .. MaxKeys, vchPubKey : Key \cup {0}]]
  /\ nextKey \in 1 .. MaxKeys + 1 /\ template \in Key \cup {0}
  /\ kept \subseteq Key /\ mined \subseteq Key /\ lost \subseteq Key /\ reused \in BOOLEAN

\* Every record of the pool is of a key that the file has; and no reservation
\* can throw "read failed" or "unknown key in key pool" (ReserveKeyFromKeyPool),
\* as long as no reserved index was given to another key (NewKeyPool and an
\* emptied pool start at 1 again, and the index that comes back may have lost
\* its record).
PoolReadable ==
  /\ up /\ file.main # NoFile /\ ~reused => \A i \in pool : Readable(i)
  /\ file.main # NoFile =>
       \A i \in DOMAIN file.main.pool :
          file.main.pool[i] \in file.main.key \cup file.main.ckey

\* A key that GetKeyFromPool has given out is not in the pool any more, whatever
\* restarts and new pools came since: no address is given out twice.  Nor has
\* another thread reserved it, with the same exception.
KeptKeysLeavePool ==
  /\ file.main # NoFile =>
       \A i \in DOMAIN file.main.pool : file.main.pool[i] \notin kept
  /\ up /\ ~reused => \A h \in DOMAIN held : held[h].vchPubKey \notin kept

\* Wherever the process ends, LoadWallet can read the file: no mixture of
\* plain and encrypted keys (SetCrypted would refuse the second kind), and
\* encrypted keys only with the master key (EncryptWallet's transaction).
WalletLoads ==
  \A disk \in {file.main, file.rewrite} \ {NoFile} :
    /\ disk.key = {} \/ disk.ckey = {}
    /\ disk.ckey # {} => disk.mkey

\* Every key given out, and every key of a block that was mined, is in wallet.dat,
\* the only file that LoadWallet opens.  While the process runs, between the two
\* steps of CDB::Rewrite, it is in the copy; a process that ends there loses it,
\* and nothing else loses one.
GivenKeysOnDisk ==
  LET disk == IF up /\ cs.op = "rename" THEN file.rewrite ELSE file.main
  IN (kept \cup mined) \ lost \subseteq disk.key \cup disk.ckey

\* The comment on fUseCrypto: "if fUseCrypto is true, mapKeys must be empty; if
\* fUseCrypto is false, vMasterKey must be empty"; and between operations the
\* key store holds exactly the keys of the file.
KeyStoreAgrees ==
  up =>
    /\ ks.fUseCrypto => ks.mapKeys = {}
    /\ ~ks.fUseCrypto => ~ks.vMasterKey
    /\ cs = Idle => /\ ks.mapKeys = file.main.key
                    /\ ks.mapCryptedKeys = file.main.ckey

\* Keys are neither lost nor given twice: every reservation finds its key, unless
\* a reserved index was given to another key; a key given out does not come back,
\* whatever restarts and new pools came since; it is in the file that a restart
\* would load, unless the process ended between the removal of the file and the
\* renaming of the copy; wherever else EncryptWallet or CDB::Rewrite is cut off,
\* that file can be loaded; and key store and file agree between operations.
KeysAreSafe ==
  PoolReadable /\ KeptKeysLeavePool /\ GivenKeysOnDisk /\ WalletLoads /\ KeyStoreAgrees
=============================================================================
