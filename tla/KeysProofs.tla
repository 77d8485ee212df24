----------------------------- MODULE KeysProofs -----------------------------
(***************************************************************************)
(* For wallets and key pools of any size: keys are neither lost nor given  *)
(* twice (KeyPool), and an unlocked wallet is never left to itself         *)
(* (WalletLock).                                                           *)
(***************************************************************************)
EXTENDS WalletKeys, TLAPS, FiniteSetTheorems, WellFoundedInduction

-----------------------------------------------------------------------------
(* The inductive invariant                                                 *)

Encrypting == {"commit", "erase", "newpool", "remove", "rename"}
Filled == {"topup", "reserve"}
Busy == Filled \cup {"keep"}

\* The file in use: the copy, between the removal of the file and its renaming.
Current == IF cs.op = "rename" THEN file.rewrite ELSE file.main
KeysOn(disk) == disk.key \cup disk.ckey

\* Keys below this number are made, and a key being made is this one.
Fresh == IF cs.key = 0 THEN nextKey ELSE cs.key

Reserving == {h \in Holders : held[h] # NoKey}
Reserved == {held[h].nIndex : h \in Reserving}
Keeping == IF cs.op = "keep" THEN {cs.nIndex} ELSE {}

\* An operation under cs_wallet: which, for whom, with which key.
CallInv ==
  /\ cs \in [op : {"idle"} \cup Busy \cup Encrypting,
             for : {"none", "thread", "get", "peek", "refill"} \cup Holders,
             key : Key \cup {0}, nIndex : Int]
  /\ cs.op = "idle" \/ ~up => cs = Idle
  /\ cs.op \in Filled /\ cs.for \in Holders => held[cs.for] = NoKey
  /\ cs.op = "topup" => cs.for # "none"
  /\ cs.op = "reserve" => cs.for \in {"get", "peek"} \cup Holders
  /\ cs.op \in Encrypting => MayEncrypt
  /\ cs.key # 0 => Filling /\ cs.key + 1 = nextKey

\* An operation that makes keys does not come to the bound on them.
RoomInv ==
  /\ cs.op \in {"commit", "erase"} => nextKey + KeyPoolSize <= MaxKeys
  /\ NeedsKey => nextKey + TargetSize <= MaxKeys + 1 + Cardinality(pool)
  /\ Filling /\ cs.key # 0 =>
       /\ Cardinality(pool) < TargetSize
       /\ nextKey + TargetSize <= MaxKeys + 2 + Cardinality(pool)

\* The file can be loaded, and memory agrees with it, but for the moments in
\* which EncryptWallet is ahead of its commit and Rewrite has removed the file.
Loadable(disk) ==
  (disk.key = {} \/ disk.ckey = {}) /\ (disk.ckey # {} => disk.mkey /\ MayEncrypt)

FileInv ==
  /\ \A disk \in {file.main, file.rewrite} \ {NoFile} : disk \in Disk /\ Loadable(disk)
  /\ up /\ file.main = NoFile => cs.op = "rename"
  /\ cs.op = "rename" => file.main = NoFile /\ file.rewrite # NoFile
  /\ cs.op = "remove" => file.rewrite = file.main
  /\ cs.op \in {"commit", "erase", "newpool"} => file.rewrite = NoFile

StoreInv ==
  /\ up /\ cs.op # "commit" =>
       /\ ks.mapKeys = Current.key /\ ks.mapCryptedKeys = Current.ckey
       /\ ks.fUseCrypto = (Current.ckey # {})
       /\ ks.vMasterKey => ks.fUseCrypto
  /\ cs.op = "commit" =>
       /\ file.main.ckey = {} /\ file.main.key # {}
       /\ txn = WriteCryptedKeys([file.main EXCEPT !.mkey = TRUE], file.main.key)
       /\ ks = [fUseCrypto |-> TRUE, vMasterKey |-> FALSE, mapKeys |-> {},
                mapCryptedKeys |-> file.main.key, mapMasterKeys |-> TRUE]
  /\ cs.op \in {"erase", "newpool"} => ks.fUseCrypto /\ ks.vMasterKey

\* Every record of the pool is of a key of its own, which the file has and
\* which was not given out.
RecordsInv ==
  file.main # NoFile \/ up =>
    /\ \A i \in DOMAIN Current.pool :
         /\ Current.pool[i] \in KeysOn(Current) \ kept
         /\ i < Fresh /\ Current.pool[i] < Fresh
    /\ \A i, j \in DOMAIN Current.pool : Current.pool[i] = Current.pool[j] => i = j
    /\ cs.key # 0 => cs.key \in KeysOn(Current)

\* An index is positive and below the number of keys made, and the one that is being kept has
\* its record.
IndexInv ==
  up => /\ \A i \in pool \cup Reserved : 0 < i /\ i < Fresh
        /\ Keeping \subseteq DOMAIN Current.pool

\* As long as no reserved index was given to another key, the records are those
\* of setKeyPool and of the reserved indices, which are apart.
PoolInv ==
  up /\ ~reused =>
    /\ DOMAIN Current.pool = pool \cup Reserved \cup Keeping
    /\ pool \cap (Reserved \cup Keeping) = {} /\ Reserved \cap Keeping = {}
    /\ \A h \in Reserving : held[h].vchPubKey = Current.pool[held[h].nIndex]
    /\ \A g, h \in Reserving : held[g].nIndex = held[h].nIndex => g = h

\* What was given out is in the file in use, unless it went with a file that was
\* removed; so is what is in a template or reserved, while the process runs.
GivenInv ==
  /\ (kept \cup mined) \ lost \subseteq KeysOn(Current)
  /\ up => /\ {template} \ {0} \subseteq KeysOn(Current)
           /\ \A h \in Reserving : held[h].vchPubKey \in KeysOn(Current)
  /\ \A k \in kept : k < Fresh

IInv ==
  /\ TypeOK /\ CallInv /\ RoomInv /\ FileInv /\ StoreInv
  /\ RecordsInv /\ IndexInv /\ PoolInv /\ GivenInv

-----------------------------------------------------------------------------
(* Least and greatest numbers                                              *)

\* Every set of natural numbers has a least one.
LEMMA LeastNumber ==
  ASSUME NEW T \in SUBSET Nat, T # {}
  PROVE  \E x \in T : \A y \in T : x <= y
<1> DEFINE R == {p \in Nat \X Nat : p[1] < p[2]}
<1>1. IsWellFoundedOn(R, Nat)
  BY NatLessThanWellFounded DEF OpToRel
<1>2. \A x, y \in Nat : <<y, x>> \in R <=> y < x
  OBVIOUS
<1> HIDE DEF R
<1>3. PICK x \in T : \A y \in T : ~(<<y, x>> \in R)
  BY <1>1, WFMin
<1>4. ASSUME NEW y \in T PROVE x <= y
  <2>1. x \in Nat /\ y \in Nat /\ ~(y < x)
    BY <1>2, <1>3
  <2> QED BY <2>1
<1> QED BY <1>4

\* Min, of the indices of the pool.
LEMMA MinOfPool ==
  ASSUME NEW S \in SUBSET Nat, S # {}
  PROVE  Min(S) \in S /\ \A y \in S : Min(S) <= y
BY LeastNumber DEF Min

\* Max, of the indices of the pool.
LEMMA MaxOfPool ==
  ASSUME NEW n \in Nat, NEW S \in SUBSET (1 .. n), S # {}
  PROVE  Max(S) \in S /\ \A y \in S : y <= Max(S)
<1> DEFINE U == {u \in Nat : \A y \in S : y <= u}
<1>1. n \in U
  OBVIOUS
<1>2. PICK u \in U : \A v \in U : u <= v
  BY <1>1, LeastNumber
<1>3. u \in S
  <2> SUFFICES ASSUME u \notin S PROVE FALSE
    OBVIOUS
  <2>1. \A y \in S : y <= u - 1
    BY <1>2
  <2>2. u - 1 \in Nat
    <3>1. PICK y \in S : y <= u - 1
      BY <2>1
    <3> QED BY <3>1
  <2> QED BY <1>2, <2>1, <2>2
<1>4. \E x \in S : \A y \in S : x >= y
  BY <1>2, <1>3
<1> QED BY <1>4 DEF Max

-----------------------------------------------------------------------------
(* The records of wallet.dat                                               *)

LEMMA DiskFields ==
  ASSUME NEW disk \in Disk
  PROVE  /\ disk = [key |-> disk.key, ckey |-> disk.ckey, mkey |-> disk.mkey, pool |-> disk.pool]
         /\ disk.key \subseteq Key /\ disk.ckey \subseteq Key /\ disk.mkey \in BOOLEAN
         /\ DOMAIN disk.pool \subseteq 1 .. MaxKeys
         /\ disk.pool \in [DOMAIN disk.pool -> Key]
         /\ disk # NoFile
<1>1. PICK I \in SUBSET (1 .. MaxKeys) : disk.pool \in [I -> Key]
  BY DEF Disk
<1>2. disk.key # {0}
  BY DEF Disk, Key
<1> QED BY <1>1, <1>2 DEF Disk, NoFile, EmptyDisk

LEMMA MakeDisk ==
  ASSUME NEW K \in SUBSET Key, NEW C \in SUBSET Key, NEW m \in BOOLEAN,
         NEW I \in SUBSET (1 .. MaxKeys), NEW p \in [I -> Key]
  PROVE  [key |-> K, ckey |-> C, mkey |-> m, pool |-> p] \in Disk
BY DEF Disk

LEMMA EmptyDisks ==
  /\ EmptyDisk \in Disk /\ Loadable(EmptyDisk) /\ DOMAIN EmptyDisk.pool = {} /\ KeysOn(EmptyDisk) = {}
  /\ NoFile.key = {0} /\ NoFile.ckey = {} /\ DOMAIN NoFile.pool = {} /\ EmptyDisk # NoFile
<1>1. << >> \in [{} -> Key] /\ DOMAIN << >> = {}
  OBVIOUS
<1>2. EmptyDisk \in Disk
  BY <1>1, MakeDisk DEF EmptyDisk
<1> QED BY <1>1, <1>2, DiskFields DEF EmptyDisk, NoFile, Loadable, KeysOn

LEMMA WritePoolFacts ==
  ASSUME NEW disk \in Disk, NEW i \in 1 .. MaxKeys, NEW k \in Key
  PROVE  LET new == WritePool(disk, i, k)
         IN /\ new \in Disk
            /\ new.key = disk.key /\ new.ckey = disk.ckey /\ new.mkey = disk.mkey
            /\ DOMAIN new.pool = DOMAIN disk.pool \cup {i}
            /\ new.pool[i] = k
            /\ \A j \in DOMAIN disk.pool \ {i} : new.pool[j] = disk.pool[j]
<1> DEFINE I == DOMAIN disk.pool \cup {i}
           p == [j \in I |-> IF j = i THEN k ELSE disk.pool[j]]
<1>1. /\ DOMAIN p = I /\ p[i] = k
      /\ \A j \in DOMAIN disk.pool \ {i} : p[j] = disk.pool[j]
  OBVIOUS
<1>2. p \in [I -> Key]
  BY DiskFields
<1>3. WritePool(disk, i, k) = [key |-> disk.key, ckey |-> disk.ckey, mkey |-> disk.mkey, pool |-> p]
  BY DiskFields DEF WritePool
<1> HIDE DEF p
<1>4. WritePool(disk, i, k) \in Disk
  BY <1>2, <1>3, DiskFields, MakeDisk
<1> QED BY <1>1, <1>3, <1>4

LEMMA ErasePoolFacts ==
  ASSUME NEW disk \in Disk, NEW I
  PROVE  LET new == ErasePool(disk, I)
         IN /\ new \in Disk
            /\ new.key = disk.key /\ new.ckey = disk.ckey /\ new.mkey = disk.mkey
            /\ DOMAIN new.pool = DOMAIN disk.pool \ I
            /\ \A j \in DOMAIN disk.pool \ I : new.pool[j] = disk.pool[j]
<1> DEFINE J == DOMAIN disk.pool \ I
           p == Restrict(disk.pool, J)
<1>1. /\ DOMAIN p = J /\ p \in [J -> Key]
      /\ \A j \in J : p[j] = disk.pool[j]
  BY DiskFields DEF Restrict
<1>2. ErasePool(disk, I) = [key |-> disk.key, ckey |-> disk.ckey, mkey |-> disk.mkey, pool |-> p]
  BY DiskFields DEF ErasePool
<1> HIDE DEF p
<1>3. ErasePool(disk, I) \in Disk
  <2>1. J \in SUBSET (1 .. MaxKeys) /\ p \in [J -> Key]
    BY <1>1, DiskFields
  <2>2. disk.key \in SUBSET Key /\ disk.ckey \in SUBSET Key /\ disk.mkey \in BOOLEAN
    BY DiskFields
  <2> HIDE DEF J
  <2> QED BY <1>2, <2>1, <2>2, MakeDisk
<1> QED BY <1>1, <1>2, <1>3

LEMMA WriteKeyFacts ==
  ASSUME NEW disk \in Disk, NEW k \in Key
  PROVE  LET new == WriteKey(disk, k)
         IN /\ new \in Disk /\ new.key = disk.key \cup {k} /\ new.ckey = disk.ckey
            /\ new.mkey = disk.mkey /\ new.pool = disk.pool
<1>1. WriteKey(disk, k) = [key |-> disk.key \cup {k}, ckey |-> disk.ckey, mkey |-> disk.mkey,
                           pool |-> disk.pool]
  BY DiskFields DEF WriteKey
<1>2. WriteKey(disk, k) \in Disk
  BY <1>1, DiskFields, MakeDisk
<1> QED BY <1>1, <1>2

LEMMA WriteCryptedKeysFacts ==
  ASSUME NEW disk \in Disk, NEW K \in SUBSET Key
  PROVE  LET new == WriteCryptedKeys(disk, K)
         IN /\ new \in Disk /\ new.key = disk.key \ K /\ new.ckey = disk.ckey \cup K
            /\ new.mkey = disk.mkey /\ new.pool = disk.pool
<1>1. WriteCryptedKeys(disk, K) =
        [key |-> disk.key \ K, ckey |-> disk.ckey \cup K, mkey |-> disk.mkey, pool |-> disk.pool]
  <2> DEFINE k == disk.key  c == disk.ckey  m == disk.mkey  q == disk.pool
  <2>1. disk = [key |-> k, ckey |-> c, mkey |-> m, pool |-> q]
    BY DiskFields
  <2> HIDE DEF k, c, m, q
  <2>2. [disk EXCEPT !.ckey = @ \cup K] = [key |-> k, ckey |-> c \cup K, mkey |-> m, pool |-> q]
    BY <2>1
  <2>3. WriteCryptedKeys(disk, K) = [[disk EXCEPT !.ckey = @ \cup K] EXCEPT !.key = @ \ K]
    BY <2>1 DEF WriteCryptedKeys
  <2>4. WriteCryptedKeys(disk, K) = [key |-> k \ K, ckey |-> c \cup K, mkey |-> m, pool |-> q]
    BY <2>2, <2>3
  <2> QED BY <2>4 DEF k, c, m, q
<1>2. WriteCryptedKeys(disk, K) \in Disk
  BY <1>1, DiskFields, MakeDisk
<1> QED BY <1>1, <1>2

-----------------------------------------------------------------------------
(* Steps                                                                   *)

\* What every step uses of the bounds.
LEMMA Numbers ==
  ASSUME TypeOK
  PROVE  /\ KeyPoolSize \in Nat /\ MaxKeys \in Nat \ {0} /\ nextKey \in Nat \ {0}
         /\ IsFiniteSet(pool) /\ Cardinality(pool) \in Nat /\ pool \subseteq 1 .. MaxKeys
         /\ pool = {} <=> Cardinality(pool) = 0
<1>1. pool \subseteq 1 .. MaxKeys /\ nextKey \in Nat \ {0}
  BY KeyPoolAssumption DEF TypeOK
<1>2. IsFiniteSet(pool)
  <2>1. 1 \in Int /\ MaxKeys \in Int
    BY KeyPoolAssumption
  <2> QED BY <1>1, <2>1, FS_Interval, FS_Subset
<1> QED BY <1>1, <1>2, KeyPoolAssumption, FS_CardinalityType, FS_EmptySet

\* The file in use, while an operation of the pool is under way.
LEMMA FileInUse ==
  ASSUME FileInv, up, cs.op # "rename"
  PROVE  file.main # NoFile /\ file.main \in Disk /\ Loadable(file.main) /\ Current = file.main
BY DEF FileInv, Current

LEMMA GenerateNewKeyStep ==
  ASSUME IInv, GenerateNewKey
  PROVE  IInv'
<1> DEFINE old == file.main  new == file'.main
<1> USE DEF IInv
<1>1. /\ up /\ up' = up /\ cs.op \in {"topup", "newpool"} /\ cs.key = 0
      /\ Cardinality(pool) < TargetSize
      /\ cs' = [cs EXCEPT !.key = nextKey] /\ nextKey' = nextKey + 1
      /\ UNCHANGED <<pool, txn, held, topups, template, kept, mined, reused, lost>>
  BY DEF GenerateNewKey, NeedsKey, Filling, history
<1>2. /\ cs.op # "rename" /\ cs.op # "commit" /\ cs'.op = cs.op /\ cs'.for = cs.for
      /\ cs'.key = nextKey /\ cs'.nIndex = cs.nIndex /\ DOMAIN cs' = DOMAIN cs
  BY <1>1 DEF CallInv
<1>3. nextKey \in Key /\ nextKey \notin KeysOn(NoFile)
  <2>1. nextKey <= MaxKeys
    BY <1>1, Numbers DEF RoomInv, NeedsKey, Filling, TargetSize
  <2> QED BY <2>1, Numbers, EmptyDisks DEF Key, KeysOn
<1>4. old # NoFile /\ old \in Disk /\ Loadable(old) /\ Current = old
  BY <1>1, <1>2, FileInUse
<1>5. /\ new \in Disk /\ new # NoFile /\ Loadable(new) /\ new.pool = old.pool
      /\ KeysOn(new) = KeysOn(old) \cup {nextKey}
      /\ file' = [file EXCEPT !.main = new] /\ file'.rewrite = file.rewrite
      /\ ks'.mapKeys = new.key /\ ks'.mapCryptedKeys = new.ckey
      /\ ks'.fUseCrypto = (new.ckey # {}) /\ ks'.vMasterKey = ks.vMasterKey
      /\ ks'.fUseCrypto = ks.fUseCrypto
  <2>1. AddKey(nextKey)
    BY DEF GenerateNewKey
  <2>2. /\ ks.mapKeys = old.key /\ ks.mapCryptedKeys = old.ckey /\ ks.fUseCrypto = (old.ckey # {})
    BY <1>1, <1>2, <1>4 DEF StoreInv
  <2>3. file = [main |-> old, rewrite |-> file.rewrite]
    BY DEF TypeOK
  <2>4. CASE ks.fUseCrypto
    <3>1. new = WriteCryptedKeys(old, {nextKey}) /\ file' = [main |-> new, rewrite |-> file.rewrite]
      BY <2>1, <2>3, <2>4 DEF AddKey
    <3>2. new \in Disk /\ new.key = old.key \ {nextKey} /\ new.ckey = old.ckey \cup {nextKey}
          /\ new.mkey = old.mkey /\ new.pool = old.pool
      BY <1>3, <1>4, <3>1, WriteCryptedKeysFacts
    <3>3. /\ ks'.mapKeys = ks.mapKeys /\ ks'.mapCryptedKeys = ks.mapCryptedKeys \cup {nextKey}
          /\ ks'.fUseCrypto = ks.fUseCrypto /\ ks'.vMasterKey = ks.vMasterKey
      BY <2>1, <2>4 DEF AddKey, TypeOK
    <3>4. old.key = {} /\ old.mkey /\ MayEncrypt
      BY <1>4, <2>2, <2>4 DEF Loadable
    <3>5. Loadable(new) /\ KeysOn(new) = KeysOn(old) \cup {nextKey} /\ new # NoFile
      BY <3>2, <3>4, DiskFields DEF Loadable, KeysOn
    <3>6. file' = [file EXCEPT !.main = new] /\ file'.rewrite = file.rewrite
      BY <2>3, <3>1
    <3>7. new.key = old.key /\ new.ckey # {}
      BY <3>2, <3>4
    <3> HIDE DEF new, old
    <3> QED BY <2>2, <2>4, <3>2, <3>3, <3>5, <3>6, <3>7
  <2>5. CASE ~ks.fUseCrypto
    <3>1. new = WriteKey(old, nextKey) /\ file' = [main |-> new, rewrite |-> file.rewrite]
      BY <2>1, <2>3, <2>5 DEF AddKey
    <3>2. new \in Disk /\ new.key = old.key \cup {nextKey} /\ new.ckey = old.ckey
          /\ new.mkey = old.mkey /\ new.pool = old.pool
      BY <1>3, <1>4, <3>1, WriteKeyFacts
    <3>3. /\ ks'.mapKeys = ks.mapKeys \cup {nextKey} /\ ks'.mapCryptedKeys = ks.mapCryptedKeys
          /\ ks'.fUseCrypto = ks.fUseCrypto /\ ks'.vMasterKey = ks.vMasterKey
      BY <2>1, <2>5 DEF AddKey, TypeOK
    <3>4. old.ckey = {}
      BY <2>2, <2>5
    <3>5. Loadable(new) /\ KeysOn(new) = KeysOn(old) \cup {nextKey} /\ new # NoFile
      BY <3>2, <3>4, DiskFields DEF Loadable, KeysOn
    <3>6. file' = [file EXCEPT !.main = new] /\ file'.rewrite = file.rewrite
      BY <2>3, <3>1
    <3> HIDE DEF new, old
    <3> QED BY <2>2, <2>5, <3>2, <3>3, <3>4, <3>5, <3>6
  <2> QED BY <2>4, <2>5
<1>6. Current' = new /\ Fresh = nextKey /\ Fresh' = nextKey
  BY <1>1, <1>2, Numbers DEF Current, Fresh
<1> HIDE DEF new, old
<1>7. TypeOK'
  <2>1. ks' \in [fUseCrypto : BOOLEAN, vMasterKey : BOOLEAN, mapKeys : SUBSET Key,
                 mapCryptedKeys : SUBSET Key, mapMasterKeys : BOOLEAN]
    BY <1>3 DEF TypeOK, GenerateNewKey, AddKey
  <2>2. file' \in [main : Disk \cup {NoFile}, rewrite : Disk \cup {NoFile}]
    BY <1>5 DEF TypeOK
  <2>3. nextKey' \in 1 .. MaxKeys + 1
    BY <1>1, <1>3, Numbers DEF Key
  <2> QED BY <1>1, <1>2, <1>3, <2>1, <2>2, <2>3 DEF TypeOK
<1>8. CallInv'
  <2>1. cs' \in [op : {"idle"} \cup Busy \cup Encrypting,
                 for : {"none", "thread", "get", "peek", "refill"} \cup Holders,
                 key : Key \cup {0}, nIndex : Int]
    BY <1>1, <1>3 DEF CallInv
  <2> QED BY <1>1, <1>2, <2>1 DEF CallInv, Filling, Filled, Busy, Encrypting
<1>9. RoomInv'
  BY <1>1, <1>2, Numbers DEF RoomInv, NeedsKey, Filling, TargetSize, Key
<1>10. FileInv'
  BY <1>1, <1>2, <1>5 DEF FileInv
<1>11. StoreInv'
  BY <1>1, <1>2, <1>4, <1>5, <1>6 DEF StoreInv
<1>12. RecordsInv'
  BY <1>1, <1>2, <1>4, <1>5, <1>6, Numbers DEF RecordsInv
<1>13. IndexInv' /\ PoolInv'
  <2>1. Reserving' = Reserving /\ Reserved' = Reserved /\ Keeping = {} /\ Keeping' = {}
    BY <1>1, <1>2 DEF Reserved, Reserving, Keeping
  <2> QED BY <1>1, <1>4, <1>5, <1>6, <2>1 DEF IndexInv, PoolInv
<1>14. GivenInv'
  <2>1. Reserving' = Reserving
    BY <1>1 DEF Reserving
  <2> QED BY <1>1, <1>4, <1>5, <1>6, <2>1 DEF GivenInv
<1> QED BY <1>7, <1>8, <1>9, <1>10, <1>11, <1>12, <1>13, <1>14

\* The next index is not in the pool, and not above the number of keys.
LEMMA NextIndexIsFree ==
  ASSUME IInv, up, cs.key # 0
  PROVE  NextIndex \in 1 .. MaxKeys /\ NextIndex <= cs.key /\ NextIndex \notin pool
<1> USE DEF IInv
<1>1. cs.key \in 1 .. MaxKeys
  BY DEF CallInv, Key
<1>2. \A i \in pool : i < cs.key
  BY <1>1 DEF IndexInv, Fresh
<1>3. CASE pool = {}
  BY <1>1, <1>3, Numbers DEF NextIndex
<1>4. CASE pool # {}
  <2>1. Max(pool) \in pool /\ \A i \in pool : i <= Max(pool)
    BY <1>4, Numbers, MaxOfPool
  <2>2. NextIndex = Max(pool) + 1
    BY <1>4 DEF NextIndex
  <2>3. \A i \in pool : i \in 1 .. MaxKeys
    BY Numbers
  <2>4. NextIndex \in 1 .. MaxKeys /\ NextIndex <= cs.key
    <3>1. Max(pool) \in 1 .. MaxKeys /\ Max(pool) < cs.key
      BY <1>2, <2>1, <2>3
    <3> HIDE DEF Max
    <3> QED BY <1>1, <2>2, <3>1, Numbers
  <2>5. NextIndex \notin pool
    BY <2>1, <2>2, <2>3
  <2> QED BY <2>4, <2>5
<1> QED BY <1>3, <1>4

LEMMA AddToPoolStep ==
  ASSUME IInv, AddToPool
  PROVE  IInv'
<1> DEFINE old == file.main  new == file'.main  i == NextIndex  k == cs.key
<1> USE DEF IInv
<1>1. /\ up /\ up' = up /\ k # 0 /\ pool' = pool \cup {i} /\ cs' = [cs EXCEPT !.key = 0]
      /\ file' = [file EXCEPT !.main = WritePool(@, i, k)]
      /\ reused' = (reused \/ \E h \in Holders : held[h].nIndex = i)
      /\ UNCHANGED <<ks, txn, held, topups, nextKey, template, kept, mined, lost>>
  BY DEF AddToPool
<1>2. /\ cs.op \in {"topup", "newpool"} /\ k + 1 = nextKey /\ k \in Key
      /\ cs'.op = cs.op /\ cs'.for = cs.for /\ cs'.key = 0 /\ cs'.nIndex = cs.nIndex
  BY <1>1 DEF CallInv, Filling
<1>3. old # NoFile /\ old \in Disk /\ Loadable(old) /\ Current = old
  BY <1>1, <1>2, FileInUse
<1>4. i \in 1 .. MaxKeys /\ i <= k /\ i \notin pool
  BY <1>1, NextIndexIsFree
<1>5. /\ file' = [main |-> new, rewrite |-> file.rewrite] /\ new = WritePool(old, i, k)
      /\ file.main = old
  BY <1>1 DEF TypeOK
<1> HIDE DEF new, old, i
<1>6. /\ new \in Disk /\ new # NoFile
      /\ new.key = old.key /\ new.ckey = old.ckey /\ new.mkey = old.mkey
      /\ DOMAIN new.pool = DOMAIN old.pool \cup {i} /\ new.pool[i] = k
      /\ \A j \in DOMAIN old.pool \ {i} : new.pool[j] = old.pool[j]
  <2> HIDE DEF k
  <2>1. k \in Key
    BY <1>2 DEF k
  <2>2. /\ new \in Disk /\ new.key = old.key /\ new.ckey = old.ckey /\ new.mkey = old.mkey
        /\ DOMAIN new.pool = DOMAIN old.pool \cup {i} /\ new.pool[i] = k
        /\ \A j \in DOMAIN old.pool \ {i} : new.pool[j] = old.pool[j]
    BY <1>3, <1>4, <1>5, <2>1, WritePoolFacts
  <2> QED BY <2>2, DiskFields
<1>7. file'.main = new /\ file'.rewrite = file.rewrite /\ file.main = old
  BY <1>5
<1>8. Current' = new /\ KeysOn(new) = KeysOn(old) /\ Loadable(new) /\ Fresh = k /\ Fresh' = nextKey
  BY <1>1, <1>2, <1>3, <1>6, <1>7 DEF Current, Fresh, KeysOn, Loadable
<1>9. Cardinality(pool') = Cardinality(pool) + 1
  BY <1>1, <1>4, Numbers, FS_AddElement
<1>10. TypeOK'
  <2>1. file' \in [main : Disk \cup {NoFile}, rewrite : Disk \cup {NoFile}]
    BY <1>5, <1>6 DEF TypeOK
  <2>2. pool' \in SUBSET (1 .. MaxKeys)
    BY <1>1, <1>4, Numbers
  <2>3. reused' \in BOOLEAN
    BY <1>1
  <2> QED BY <1>1, <1>2, <2>1, <2>2, <2>3 DEF TypeOK
<1>11. CallInv'
  <2>1. cs' \in [op : {"idle"} \cup Busy \cup Encrypting,
                 for : {"none", "thread", "get", "peek", "refill"} \cup Holders,
                 key : Key \cup {0}, nIndex : Int]
    BY <1>1 DEF CallInv
  <2> QED BY <1>1, <1>2, <2>1 DEF CallInv, Filled, Busy, Encrypting
<1>12. RoomInv'
  BY <1>1, <1>2, <1>9, Numbers DEF RoomInv, NeedsKey, Filling, TargetSize
<1>13. FileInv'
  BY <1>1, <1>2, <1>6, <1>7, <1>8 DEF FileInv
<1>14. StoreInv'
  BY <1>1, <1>2, <1>3, <1>6, <1>8 DEF StoreInv
<1>15. RecordsInv'
  <2>1. /\ \A j \in DOMAIN old.pool : /\ old.pool[j] \in KeysOn(old) \ kept
                                      /\ j < k /\ old.pool[j] < k
        /\ \A j, l \in DOMAIN old.pool : old.pool[j] = old.pool[l] => j = l
        /\ k \in KeysOn(old) /\ k \notin kept
    <3>1. \A l \in kept : l < k
      BY <1>8 DEF GivenInv
    <3>2. k \notin kept
      BY <1>2, <3>1 DEF Key
    <3> QED BY <1>1, <1>3, <1>8, <3>2 DEF RecordsInv
  <2>2. \A j \in DOMAIN new.pool : /\ new.pool[j] \in KeysOn(new) \ kept
                                   /\ j < nextKey /\ new.pool[j] < nextKey
    <3> TAKE j \in DOMAIN new.pool
    <3>1. CASE j = i
      BY <1>2, <1>4, <1>6, <1>8, <2>1, <3>1 DEF Key
    <3>2. CASE j \in DOMAIN old.pool \ {i}
      <4>1. j \in Int /\ old.pool[j] \in Int
        BY <1>3, <3>2, DiskFields DEF Key
      <4> QED BY <1>2, <1>6, <1>8, <2>1, <3>2, <4>1 DEF Key
    <3> QED BY <1>6, <3>1, <3>2
  <2>3. \A j, l \in DOMAIN new.pool : new.pool[j] = new.pool[l] => j = l
    <3>1. \A j \in DOMAIN old.pool : old.pool[j] # k
      <4> TAKE j \in DOMAIN old.pool
      <4>1. old.pool[j] \in Int /\ k \in Int
        BY <1>2, <1>3, DiskFields DEF Key
      <4> QED BY <2>1, <4>1
    <3> QED BY <1>6, <2>1, <3>1
  <2> QED BY <1>1, <1>2, <1>6, <1>8, <2>2, <2>3 DEF RecordsInv
<1>16. Reserving' = Reserving /\ Reserved' = Reserved /\ Keeping = {} /\ Keeping' = {}
  BY <1>1, <1>2 DEF Reserving, Reserved, Keeping
<1>17. PoolInv'
  <2> SUFFICES ASSUME ~reused' PROVE PoolInv'
    BY DEF PoolInv
  <2>1. ~reused /\ i \notin Reserved
    BY <1>1 DEF Reserved, Reserving
  <2>2. DOMAIN old.pool = pool \cup Reserved /\ pool \cap Reserved = {}
    BY <1>1, <1>3, <1>16, <2>1 DEF PoolInv
  <2>3. i \notin DOMAIN old.pool
    BY <1>4, <2>1, <2>2
  <2>4. \A h \in Reserving : /\ held[h].vchPubKey = old.pool[held[h].nIndex]
                             /\ held[h].nIndex \in DOMAIN old.pool \ {i}
    BY <1>1, <1>3, <2>1, <2>2, <2>3 DEF PoolInv, Reserved
  <2>5. \A g, h \in Reserving : held[g].nIndex = held[h].nIndex => g = h
    BY <1>1, <2>1 DEF PoolInv
  <2> QED BY <1>1, <1>6, <1>8, <1>16, <2>1, <2>2, <2>4, <2>5 DEF PoolInv
<1>18. IndexInv'
  <2>1. ASSUME NEW j \in pool \cup Reserved PROVE 0 < j /\ j < nextKey
    <3>1. 0 < j /\ j < k /\ j \in Int
      BY <1>1, <1>8, Numbers DEF IndexInv, Reserved, Reserving, TypeOK
    <3> QED BY <1>2, <3>1 DEF Key
  <2>2. 0 < i /\ i < nextKey
    BY <1>2, <1>4 DEF Key
  <2> QED BY <1>1, <1>8, <1>16, <2>1, <2>2 DEF IndexInv
<1>19. GivenInv'
  <2>1. \A l \in kept : l < nextKey
    <3> TAKE l \in kept
    <3>1. l \in Int /\ l < k
      BY <1>8 DEF GivenInv, TypeOK, Key
    <3> QED BY <1>2, <3>1 DEF Key
  <2> QED BY <1>1, <1>3, <1>8, <1>16, <2>1 DEF GivenInv
<1> QED BY <1>10, <1>11, <1>12, <1>13, <1>14, <1>15, <1>17, <1>18, <1>19

\* Steps of a process that goes on which leave the pool alone, and the records
\* and keys of the file in use.
LEMMA SamePool ==
  ASSUME IInv, up, up', UNCHANGED <<pool, held, nextKey, kept, reused, lost>>,
         mined' \subseteq mined \cup ({template} \ {0}), template' \in {0, template},
         Current'.pool = Current.pool, KeysOn(Current)' = KeysOn(Current),
         Keeping' = Keeping, Fresh' = Fresh, cs.key = 0, cs'.key = 0
  PROVE  RecordsInv' /\ IndexInv' /\ PoolInv' /\ GivenInv'
<1>1. Reserving' = Reserving /\ Reserved' = Reserved
  BY DEF Reserving, Reserved
<1>2. RecordsInv'
  BY DEF IInv, RecordsInv
<1>3. IndexInv' /\ PoolInv'
  BY <1>1 DEF IInv, IndexInv, PoolInv
<1>4. GivenInv'
  BY <1>1 DEF IInv, GivenInv
<1> QED BY <1>2, <1>3, <1>4

\* Steps that leave the pool and the files alone: the end of the process, a
\* change of the operation under way, or none.
LEMMA Frame ==
  ASSUME IInv, UNCHANGED <<pool, file, held, nextKey, kept, reused>>,
         lost' = IF ~up' /\ cs.op = "rename" THEN lost \cup kept \cup mined ELSE lost,
         mined' \subseteq mined \cup ({template} \ {0}), template' \in {0, template},
         up' \/ mined' = mined,
         \/ ~up' /\ cs' = Idle
         \/ /\ up /\ up' /\ cs.op \in {"idle", "newpool"} \cup Filled
            /\ cs'.op \in {"idle"} \cup Filled /\ cs'.key = 0
         \/ up /\ up' /\ cs' = cs
  PROVE  /\ FileInv' /\ RecordsInv' /\ IndexInv' /\ PoolInv' /\ GivenInv'
         /\ (UNCHANGED <<ks, txn>> => StoreInv')
<1> USE DEF IInv
<1>1. Reserving' = Reserving /\ Reserved' = Reserved
  BY DEF Reserving, Reserved
<1>2. Fresh \in Int /\ Fresh' \in Int /\ Fresh <= Fresh'
  <2>1. cs.key # 0 => cs.key + 1 = nextKey
    BY DEF CallInv
  <2>2. cs'.key = 0 \/ cs'.key = cs.key
    BY DEF Idle
  <2>3. cs.key \in Int
    BY DEF TypeOK, Key
  <2> QED BY <2>1, <2>2, <2>3, Numbers DEF Fresh
<1>3. \A k \in kept : k < Fresh'
  <2> TAKE k \in kept
  <2>1. k \in Int /\ k < Fresh
    BY DEF GivenInv, TypeOK, Key
  <2> QED BY <1>2, <2>1
<1>4. up => \A i \in pool \cup Reserved : 0 < i /\ i < Fresh'
  <2> SUFFICES ASSUME up, NEW i \in pool \cup Reserved PROVE 0 < i /\ i < Fresh'
    OBVIOUS
  <2>1. i \in Int /\ 0 < i /\ i < Fresh
    BY Numbers DEF IndexInv, Reserved, Reserving, TypeOK
  <2> QED BY <1>2, <2>1
<1>5. ASSUME file.main \in Disk, Current = file.main, file.main # NoFile \/ up,
             NEW i \in DOMAIN file.main.pool
      PROVE  i < Fresh' /\ file.main.pool[i] < Fresh'
  <2>1. i \in Int /\ file.main.pool[i] \in Int
    BY <1>5, DiskFields DEF Key
  <2>2. i < Fresh /\ file.main.pool[i] < Fresh
    BY <1>5 DEF RecordsInv
  <2> QED BY <1>2, <2>1, <2>2
<1>6. CASE ~up' /\ cs' = Idle
  <2>1. cs'.op = "idle" /\ cs'.key = 0 /\ Current' = file.main
    BY <1>6 DEF Idle, Current
  <2>2. RecordsInv'
    <3> SUFFICES ASSUME file.main # NoFile PROVE RecordsInv'
      BY <1>6 DEF RecordsInv
    <3>1. Current = file.main /\ file.main \in Disk
      BY DEF Current, FileInv
    <3> QED BY <1>5, <2>1, <3>1 DEF RecordsInv
  <2>3. GivenInv'
    <3>1. CASE cs.op = "rename"
      BY <1>3, <1>6, <3>1 DEF GivenInv
    <3>2. CASE cs.op # "rename"
      <4>1. Current = file.main /\ lost' = lost
        BY <3>2 DEF Current
      <4> QED BY <1>3, <1>6, <2>1, <4>1 DEF GivenInv, KeysOn
    <3> QED BY <3>1, <3>2
  <2> QED BY <1>6, <2>1, <2>2, <2>3 DEF FileInv, StoreInv, IndexInv, PoolInv
<1>7. CASE up /\ up' /\ cs' = cs
  <2>1. Current' = Current /\ Fresh' = Fresh /\ Keeping' = Keeping
    BY <1>7 DEF Current, Fresh, Keeping
  <2>2. FileInv' /\ (UNCHANGED <<ks, txn>> => StoreInv')
    BY <1>7, <2>1 DEF FileInv, StoreInv
  <2>3. RecordsInv' /\ IndexInv' /\ PoolInv'
    BY <1>1, <1>7, <2>1 DEF RecordsInv, IndexInv, PoolInv
  <2>4. GivenInv'
    <3>1. KeysOn(Current)' = KeysOn(Current) /\ lost' = lost
      BY <1>7, <2>1 DEF KeysOn
    <3> QED BY <1>1, <1>7, <2>1, <3>1 DEF GivenInv
  <2> QED BY <2>2, <2>3, <2>4
<1>8. CASE /\ up /\ up' /\ cs.op \in {"idle", "newpool"} \cup Filled
           /\ cs'.op \in {"idle"} \cup Filled /\ cs'.key = 0
  <2>1. /\ Keeping = {} /\ Keeping' = {} /\ Current = file.main /\ Current' = file.main
        /\ file.main # NoFile /\ file.main \in Disk
    BY <1>8, FileInUse DEF Keeping, Current, Filled
  <2>2. FileInv'
    BY <1>8, <2>1 DEF FileInv, Filled
  <2>3. RecordsInv'
    BY <1>5, <1>8, <2>1 DEF RecordsInv
  <2>4. IndexInv' /\ PoolInv'
    BY <1>1, <1>4, <1>8, <2>1 DEF IndexInv, PoolInv
  <2>5. UNCHANGED <<ks, txn>> => StoreInv'
    BY <1>8, <2>1 DEF StoreInv, Filled
  <2>6. GivenInv'
    <3>1. KeysOn(Current)' = KeysOn(Current) /\ lost' = lost
      BY <1>8, <2>1 DEF KeysOn, Filled
    <3> QED BY <1>1, <1>3, <1>8, <3>1 DEF GivenInv
  <2> QED BY <2>2, <2>3, <2>4, <2>5, <2>6
<1> QED BY <1>6, <1>7, <1>8

LEMMA GenerateNewKeyThrowsStep ==
  ASSUME IInv, GenerateNewKeyThrows
  PROVE  IInv'
<1> USE DEF IInv
<1>1. /\ up /\ cs.op \in {"topup", "newpool"} /\ cs' = Idle /\ up' \in BOOLEAN
      /\ UNCHANGED <<ks, pool, file, txn, held, topups, nextKey, template, kept, mined, reused, lost>>
  BY DEF GenerateNewKeyThrows, NeedsKey, Filling, history
<1>2. cs'.op = "idle" /\ cs'.key = 0
  BY <1>1 DEF Idle
<1>3. FileInv' /\ RecordsInv' /\ IndexInv' /\ PoolInv' /\ GivenInv' /\ StoreInv'
  BY <1>1, <1>2, Frame DEF Filled
<1>4. TypeOK'
  BY <1>1, <1>2 DEF TypeOK
<1>5. CallInv' /\ RoomInv'
  BY <1>1, <1>2 DEF CallInv, RoomInv, NeedsKey, Filling, Filled, Encrypting, Idle
<1> QED BY <1>3, <1>4, <1>5

LEMMA TopUpDoneStep ==
  ASSUME IInv, TopUpDone
  PROVE  IInv'
<1> USE DEF IInv
<1>1. /\ up /\ up' = up /\ cs.op = "topup" /\ cs.key = 0 /\ ~NeedsKey
      /\ cs' = IF cs.for \in {"thread", "refill"} THEN Idle ELSE [cs EXCEPT !.op = "reserve"]
      /\ UNCHANGED <<ks, pool, file, txn, held, topups, nextKey, template, kept, mined, reused, lost>>
  BY DEF TopUpDone, wallet, history
<1>2. cs'.key = 0 /\ cs'.op \in {"idle", "reserve"} /\ (cs'.op = "idle" => cs' = Idle)
      /\ (cs'.op = "reserve" => cs'.for = cs.for /\ cs.for \notin {"thread", "refill"})
  BY <1>1 DEF CallInv, Idle
<1>3. FileInv' /\ RecordsInv' /\ IndexInv' /\ PoolInv' /\ GivenInv' /\ StoreInv'
  BY <1>1, <1>2, Frame DEF Filled
<1>4. TypeOK'
  BY <1>1, <1>2 DEF TypeOK
<1>5. CallInv'
  <2>1. cs' \in [op : {"idle"} \cup Busy \cup Encrypting,
                 for : {"none", "thread", "get", "peek", "refill"} \cup Holders,
                 key : Key \cup {0}, nIndex : Int]
    BY <1>1 DEF CallInv, Idle, Busy, Filled
  <2>2. cs'.op = "reserve" => cs'.for \in {"get", "peek"} \cup Holders
    BY <1>1, <1>2 DEF CallInv
  <2>3. cs'.op = "idle" \/ ~up' => cs' = Idle
    BY <1>1, <1>2
  <2>4. cs'.op \in Filled /\ cs'.for \in Holders => held'[cs'.for] = NoKey
    BY <1>1, <1>2 DEF CallInv, Filled
  <2> QED BY <1>2, <2>1, <2>2, <2>3, <2>4 DEF CallInv, Encrypting
<1>6. RoomInv'
  BY <1>1, <1>2 DEF RoomInv, NeedsKey, Filling
<1> QED BY <1>3, <1>4, <1>5, <1>6

\* Every call that begins with ReserveKeyFromKeyPool or TopUpKeyPool.
LEMMA EnterStep ==
  ASSUME IInv, NEW for \in {"thread", "get", "peek", "refill"} \cup Holders, Enter(for),
         for \in Holders => held[for] = NoKey, for \in {"thread", "refill"} => ~IsLocked,
         topups' \in BOOLEAN
  PROVE  IInv'
<1> USE DEF IInv
<1>1. /\ up /\ up' = up /\ cs = Idle /\ KeysLeft
      /\ cs' = [Idle EXCEPT !.op = IF IsLocked THEN "reserve" ELSE "topup", !.for = for]
      /\ UNCHANGED <<ks, pool, file, txn, held, nextKey, template, kept, mined, reused, lost>>
  BY DEF Enter, wallet, history
<1>2. /\ cs.op = "idle" /\ cs'.op \in Filled /\ cs'.key = 0 /\ cs'.for = for
      /\ cs'.op = IF IsLocked THEN "reserve" ELSE "topup"
  BY <1>1 DEF Idle, Filled
<1>3. FileInv' /\ RecordsInv' /\ IndexInv' /\ PoolInv' /\ GivenInv' /\ StoreInv'
  BY <1>1, <1>2, Frame
<1>4. TypeOK'
  BY <1>1, <1>2 DEF TypeOK
<1>5. CallInv'
  <2>1. cs' \in [op : {"idle"} \cup Busy \cup Encrypting,
                 for : {"none", "thread", "get", "peek", "refill"} \cup Holders,
                 key : Key \cup {0}, nIndex : Int]
    BY <1>1 DEF CallInv, Busy, Filled
  <2>2. for # "none"
    BY KeyPoolAssumption
  <2>3. cs'.op = "reserve" => for \in {"get", "peek"} \cup Holders
    BY <1>2
  <2> QED BY <1>1, <1>2, <2>1, <2>2, <2>3 DEF CallInv, Filled, Encrypting
<1>6. RoomInv'
  BY <1>1, <1>2, Numbers DEF RoomInv, NeedsKey, Filling, TargetSize, KeysLeft, Filled
<1> QED BY <1>3, <1>4, <1>5, <1>6

\* The calls that enter, and a top-up thread that finds the wallet locked.
LEMMA CallersStep ==
  ASSUME IInv,
         \/ GetNewAddress \/ GetOldestKeyPoolTime \/ KeypoolRefill \/ ThreadTopUpKeyPool
         \/ \E h \in Holders : GetReservedKey(h)
  PROVE  IInv'
<1>1. topups \in BOOLEAN
  BY DEF IInv, TypeOK
<1>2. {"thread", "get", "peek", "refill"} \cap Holders = {}
  BY KeyPoolAssumption
<1>3. CASE GetNewAddress
  BY <1>1, <1>2, <1>3, EnterStep DEF GetNewAddress
<1>4. CASE GetOldestKeyPoolTime
  BY <1>1, <1>2, <1>4, EnterStep DEF GetOldestKeyPoolTime
<1>5. CASE KeypoolRefill
  BY <1>1, <1>2, <1>5, EnterStep DEF KeypoolRefill
<1>6. CASE \E h \in Holders : GetReservedKey(h)
  <2>1. PICK h \in Holders : GetReservedKey(h)
    BY <1>6
  <2>2. Enter(h) /\ held[h] = NoKey /\ topups' = topups /\ h \notin {"thread", "refill"}
    BY <1>2, <2>1 DEF GetReservedKey
  <2> QED BY <1>1, <2>2, EnterStep
<1>7. CASE ThreadTopUpKeyPool /\ ~IsLocked /\ Enter("thread")
  BY <1>2, <1>7, EnterStep DEF ThreadTopUpKeyPool
<1>8. CASE /\ topups' = FALSE /\ up
           /\ UNCHANGED <<up, wallet, cs, held, nextKey, template, kept, mined, history>>
  <2> USE DEF IInv, wallet, history
  <2>1. FileInv' /\ RecordsInv' /\ IndexInv' /\ PoolInv' /\ GivenInv' /\ StoreInv'
    BY <1>8, Frame
  <2>2. TypeOK'
    BY <1>8 DEF TypeOK
  <2>3. CallInv' /\ RoomInv'
    BY <1>8 DEF CallInv, RoomInv, NeedsKey, Filling, TargetSize
  <2> QED BY <2>1, <2>2, <2>3
<1> QED BY <1>3, <1>4, <1>5, <1>6, <1>7, <1>8 DEF ThreadTopUpKeyPool, history

LEMMA ReserveNothingStep ==
  ASSUME IInv, ReserveNothing
  PROVE  IInv'
<1> USE DEF IInv
<1>1. /\ up /\ up' = up /\ cs.op = "reserve" /\ cs' = Idle
      /\ UNCHANGED <<ks, pool, file, txn, held, topups, nextKey, template, kept, mined, reused, lost>>
  BY DEF ReserveNothing, wallet, history
<1>2. cs'.op = "idle" /\ cs'.key = 0
  BY <1>1 DEF Idle
<1>3. FileInv' /\ RecordsInv' /\ IndexInv' /\ PoolInv' /\ GivenInv' /\ StoreInv'
  BY <1>1, <1>2, Frame DEF Filled
<1>4. TypeOK'
  BY <1>1, <1>2 DEF TypeOK
<1>5. CallInv' /\ RoomInv'
  BY <1>1, <1>2 DEF CallInv, RoomInv, NeedsKey, Filling, Filled, Encrypting, Idle
<1> QED BY <1>3, <1>4, <1>5

LEMMA CheckWorkStep ==
  ASSUME IInv, CheckWork
  PROVE  IInv'
<1> USE DEF IInv
<1>1. /\ up /\ up' = up /\ template # 0 /\ mined' = mined \cup {template} /\ template' = 0
      /\ UNCHANGED <<ks, pool, file, txn, cs, held, topups, nextKey, kept, reused, lost>>
  BY DEF CheckWork, wallet, history
<1>2. FileInv' /\ RecordsInv' /\ IndexInv' /\ PoolInv' /\ GivenInv' /\ StoreInv'
  BY <1>1, Frame
<1>3. TypeOK'
  BY <1>1 DEF TypeOK
<1>4. CallInv' /\ RoomInv'
  BY <1>1 DEF CallInv, RoomInv, NeedsKey, Filling, TargetSize
<1> QED BY <1>2, <1>3, <1>4

\* Locking and unlocking, by the user or by the relock thread.
LEMMA LockStep ==
  ASSUME IInv, WalletPassphrase \/ Relock
  PROVE  IInv'
<1> USE DEF IInv
<1>1. /\ up /\ up' = up /\ ks.fUseCrypto /\ topups' \in BOOLEAN
      /\ cs.op \notin {"commit", "erase", "newpool"}
      /\ UNCHANGED <<pool, file, txn, cs, held, nextKey, template, kept, mined, reused, lost>>
  <2>1. topups \in BOOLEAN
    BY DEF TypeOK
  <2>2. CASE WalletPassphrase
    BY <2>2 DEF WalletPassphrase, IsLocked, Idle, history
  <2>3. CASE Relock
    BY <2>1, <2>3 DEF Relock, history
  <2> QED BY <2>2, <2>3
<1>2. PICK b \in BOOLEAN : ks' = [ks EXCEPT !.vMasterKey = b]
  <2>1. WalletPassphrase => ks' = [ks EXCEPT !.vMasterKey = TRUE]
    BY DEF WalletPassphrase
  <2>2. Relock => ks' = [ks EXCEPT !.vMasterKey = FALSE]
    BY DEF Relock
  <2> QED BY <2>1, <2>2
<1>3. FileInv' /\ RecordsInv' /\ IndexInv' /\ PoolInv' /\ GivenInv'
  BY <1>1, Frame
<1>4. /\ ks'.mapKeys = ks.mapKeys /\ ks'.mapCryptedKeys = ks.mapCryptedKeys
      /\ ks'.fUseCrypto = ks.fUseCrypto
      /\ ks' \in [fUseCrypto : BOOLEAN, vMasterKey : BOOLEAN, mapKeys : SUBSET Key,
                  mapCryptedKeys : SUBSET Key, mapMasterKeys : BOOLEAN]
  BY <1>2 DEF TypeOK
<1>5. StoreInv'
  <2>1. Current' = Current
    BY <1>1 DEF Current
  <2> QED BY <1>1, <1>4, <2>1 DEF StoreInv
<1>6. TypeOK'
  BY <1>1, <1>4 DEF TypeOK
<1>7. CallInv' /\ RoomInv'
  BY <1>1 DEF CallInv, RoomInv, NeedsKey, Filling, TargetSize
<1> QED BY <1>3, <1>5, <1>6, <1>7

LEMMA CrashStep ==
  ASSUME IInv, Crash
  PROVE  IInv'
<1> USE DEF IInv
<1>1. /\ ~up' /\ up' \in BOOLEAN /\ cs' = Idle
      /\ UNCHANGED <<ks, pool, file, txn, held, topups, nextKey, template, kept, mined, reused>>
      /\ lost' = IF cs.op = "rename" THEN lost \cup kept \cup mined ELSE lost
  BY DEF Crash, wallet, history
<1>2. cs'.op = "idle" /\ cs'.key = 0
  BY <1>1 DEF Idle
<1>3. FileInv' /\ RecordsInv' /\ IndexInv' /\ PoolInv' /\ GivenInv' /\ StoreInv'
  BY <1>1, Frame
<1>4. TypeOK'
  BY <1>1, <1>2 DEF TypeOK
<1>5. CallInv' /\ RoomInv'
  BY <1>1, <1>2 DEF CallInv, RoomInv, NeedsKey, Filling, Filled, Encrypting, Idle, Busy
<1> QED BY <1>3, <1>4, <1>5

\* While the process runs and no file is being renamed, each index of the pool can
\* be read and its key used, unless a reserved index was given to another key.
LEMMA PoolCanBeRead ==
  ASSUME IInv, up, ~reused, cs.op \notin {"rename", "commit"}, NEW i \in pool
  PROVE  Readable(i)
<1> USE DEF IInv
<1>1. Current = file.main /\ Loadable(file.main)
  BY FileInUse
<1>2. i \in DOMAIN file.main.pool
  BY <1>1 DEF PoolInv
<1>3. file.main.pool[i] \in KeysOn(file.main)
  BY <1>1, <1>2 DEF RecordsInv
<1>4. /\ ks.mapKeys = file.main.key /\ ks.mapCryptedKeys = file.main.ckey
      /\ ks.fUseCrypto = (file.main.ckey # {})
  BY <1>1 DEF StoreInv
<1>5. HaveKey(file.main.pool[i])
  BY <1>1, <1>3, <1>4 DEF HaveKey, KeysOn, Loadable
<1> QED BY <1>2, <1>5 DEF Readable

LEMMA ReserveKeyStep ==
  ASSUME IInv, ReserveKey
  PROVE  IInv'
<1> DEFINE i == Min(pool)  disk == file.main  got == Readable(i)
<1> USE DEF IInv
<1>1. /\ up /\ up' = up /\ cs.op = "reserve" /\ pool # {}
      /\ UNCHANGED <<ks, file, txn, topups, nextKey, template, kept, mined, reused, lost>>
  BY DEF ReserveKey, history
<1>2. i \in pool /\ i \in 1 .. MaxKeys
  <2>1. pool \subseteq Nat /\ pool \subseteq 1 .. MaxKeys
    BY Numbers
  <2> QED BY <1>1, <2>1, MinOfPool
<1>3. got \/ reused
  BY <1>1, <1>2, PoolCanBeRead
<1>4. /\ pool' = IF got /\ cs.for = "peek" THEN pool ELSE pool \ {i}
      /\ cs' = IF got /\ cs.for = "get" THEN [cs EXCEPT !.op = "keep", !.nIndex = i] ELSE Idle
      /\ held' = IF got /\ cs.for \in Holders
                 THEN [held EXCEPT ![cs.for] = [nIndex |-> i, vchPubKey |-> disk.pool[i]]]
                 ELSE held
      /\ got => i \in DOMAIN disk.pool
  BY DEF ReserveKey, Readable
<1>5. /\ disk \in Disk /\ Current = disk /\ disk # NoFile /\ Keeping = {}
      /\ ~reused => DOMAIN disk.pool = pool \cup Reserved /\ pool \cap Reserved = {}
  BY <1>1, FileInUse DEF PoolInv, Keeping
<1> HIDE DEF i, disk, got
<1>6. cs.for \in {"get", "peek"} \cup Holders /\ cs.key = 0 /\ cs.nIndex \in Int
  BY <1>1 DEF CallInv, Filling
<1>7. /\ cs'.op \in {"idle", "keep"} /\ cs'.key = 0 /\ (cs'.op = "idle" => cs' = Idle)
      /\ (cs'.op = "keep" <=> got /\ cs.for = "get") /\ (cs'.op = "keep" => cs'.nIndex = i)
      /\ cs' \in [op : {"idle"} \cup Busy \cup Encrypting,
                  for : {"none", "thread", "get", "peek", "refill"} \cup Holders,
                  key : Key \cup {0}, nIndex : Int]
  <2>1. CASE got /\ cs.for = "get"
    <3> DEFINE c == [cs EXCEPT !.op = "keep"]
    <3>1. cs' = [c EXCEPT !.nIndex = i]
      BY <1>4, <2>1
    <3>2. c \in [op : {"idle"} \cup Busy \cup Encrypting,
                 for : {"none", "thread", "get", "peek", "refill"} \cup Holders,
                 key : Key \cup {0}, nIndex : Int] /\ c.op = "keep" /\ c.key = 0
      BY <1>6 DEF CallInv, Busy
    <3> HIDE DEF c
    <3> QED BY <1>2, <2>1, <3>1, <3>2
  <2>2. CASE ~(got /\ cs.for = "get")
    <3>1. cs' = Idle /\ Idle.op = "idle" /\ Idle.key = 0
      BY <1>4, <2>2 DEF Idle
    <3>2. Idle \in [op : {"idle"} \cup Busy \cup Encrypting,
                    for : {"none", "thread", "get", "peek", "refill"} \cup Holders,
                    key : Key \cup {0}, nIndex : Int]
      BY DEF Idle
    <3> QED BY <2>2, <3>1, <3>2
  <2> QED BY <2>1, <2>2
<1>8. Current' = disk /\ Fresh' = Fresh
  BY <1>1, <1>6, <1>7 DEF Current, Fresh, disk
<1>9. "get" \notin Holders /\ "peek" \notin Holders
  BY KeyPoolAssumption
<1>10. got => disk.pool[i] \in Key /\ disk.pool[i] \in KeysOn(disk)
  <2>1. got => disk.pool[i] \in Key
    BY <1>4, <1>5, DiskFields
  <2>2. got => disk.pool[i] \in KeysOn(disk)
    BY <1>1, <1>4, <1>5 DEF RecordsInv
  <2> QED BY <2>1, <2>2
<1>11. TypeOK'
  <2>1. got => [nIndex |-> i, vchPubKey |-> disk.pool[i]] \in [nIndex : -1 .. MaxKeys, vchPubKey : Key \cup {0}]
    <3>1. i \in -1 .. MaxKeys
      BY <1>2, Numbers
    <3> QED BY <1>10, <3>1
  <2>2. held' \in [Holders -> [nIndex : -1 .. MaxKeys, vchPubKey : Key \cup {0}]]
    BY <1>4, <2>1 DEF TypeOK
  <2>3. pool' \in SUBSET (1 .. MaxKeys)
    BY <1>4, Numbers
  <2> QED BY <1>1, <1>7, <2>2, <2>3 DEF TypeOK
<1>12. CallInv' /\ RoomInv'
  BY <1>1, <1>7 DEF CallInv, RoomInv, NeedsKey, Filling, Filled, Encrypting
<1>13. FileInv'
  BY <1>1, <1>7 DEF FileInv
<1>14. StoreInv'
  BY <1>1, <1>5, <1>7, <1>8 DEF StoreInv
<1>15. RecordsInv'
  BY <1>1, <1>5, <1>7, <1>8 DEF RecordsInv
\* What is reserved afterwards: the index too, if the call is CreateNewBlock's.
<1>16. \/ /\ got /\ cs.for \in Holders /\ pool' = pool \ {i} /\ Keeping' = {}
          /\ held[cs.for] = NoKey
          /\ held'[cs.for].nIndex = i /\ held'[cs.for].vchPubKey = disk.pool[i]
          /\ held'[cs.for] # NoKey /\ \A g \in Holders \ {cs.for} : held'[g] = held[g]
       \/ /\ held' = held
          /\ \/ pool' = pool /\ Keeping' = {}
             \/ pool' = pool \ {i} /\ Keeping' = {} /\ reused
             \/ pool' = pool \ {i} /\ Keeping' = {i} /\ i \in DOMAIN disk.pool
  <2>1. CASE ~got
    BY <1>3, <1>4, <1>7, <2>1 DEF Keeping
  <2>2. CASE got /\ cs.for = "peek"
    BY <1>4, <1>7, <1>9, <2>2 DEF Keeping
  <2>3. CASE got /\ cs.for = "get"
    BY <1>4, <1>7, <1>9, <2>3 DEF Keeping
  <2>4. CASE got /\ cs.for \in Holders
    <3> DEFINE h == cs.for
    <3>1. /\ held'[h] = [nIndex |-> i, vchPubKey |-> disk.pool[i]]
          /\ \A g \in Holders \ {h} : held'[g] = held[g]
      BY <1>4, <2>4 DEF TypeOK
    <3>2. i # -1
      BY <1>2, Numbers
    <3>3. held'[h].nIndex = i /\ held'[h].vchPubKey = disk.pool[i] /\ held'[h] # NoKey
      BY <3>1, <3>2 DEF NoKey
    <3>4. held[h] = NoKey
      BY <1>1, <2>4 DEF CallInv, Filled
    <3>5. pool' = pool \ {i} /\ Keeping' = {}
      BY <1>4, <1>7, <1>9, <2>4 DEF Keeping
    <3> QED BY <2>4, <3>1, <3>3, <3>4, <3>5
  <2> QED BY <1>6, <2>1, <2>2, <2>3, <2>4
<1>17. CASE held' = held
  <2>1. Reserving' = Reserving /\ Reserved' = Reserved
    BY <1>17 DEF Reserving, Reserved
  <2>2. GivenInv'
    BY <1>1, <1>5, <1>8, <1>17, <2>1 DEF GivenInv
  <2>3. \/ pool' = pool /\ Keeping' = {}
        \/ pool' = pool \ {i} /\ Keeping' = {} /\ reused
        \/ pool' = pool \ {i} /\ Keeping' = {i} /\ i \in DOMAIN disk.pool
    <3>1. ASSUME NEW h \in Holders, held[h] = NoKey PROVE held'[h] = NoKey
      BY <1>17, <3>1
    <3> QED BY <1>16, <3>1
  <2>4. IndexInv'
    BY <1>1, <1>8, <2>1, <2>3 DEF IndexInv
  <2>5. PoolInv'
    <3> SUFFICES ASSUME ~reused' PROVE PoolInv'
      BY DEF PoolInv
    <3>1. ~reused
      BY <1>1
    <3>2. CASE pool' = pool /\ Keeping' = {}
      BY <1>1, <1>5, <1>8, <1>17, <2>1, <3>1, <3>2 DEF PoolInv
    <3>3. CASE pool' = pool \ {i} /\ Keeping' = {i}
      BY <1>1, <1>2, <1>5, <1>8, <1>17, <2>1, <3>1, <3>3 DEF PoolInv
    <3> QED BY <2>3, <3>1, <3>2, <3>3
  <2> QED BY <1>11, <1>12, <1>13, <1>14, <1>15, <2>2, <2>4, <2>5
<1>18. CASE held' # held
  <2> DEFINE h == cs.for
  <2>1. /\ got /\ h \in Holders /\ pool' = pool \ {i} /\ Keeping' = {} /\ held[h] = NoKey
        /\ held'[h].nIndex = i /\ held'[h].vchPubKey = disk.pool[i]
        /\ held'[h] # NoKey /\ \A g \in Holders \ {h} : held'[g] = held[g]
    BY <1>16, <1>18
  <2> HIDE DEF h
  <2>2. Reserving' = Reserving \cup {h} /\ h \notin Reserving
    BY <2>1 DEF Reserving
  <2>3. \A g \in Reserving : held'[g] = held[g]
    BY <2>1, <2>2 DEF Reserving
  <2>4. Reserved' = Reserved \cup {i}
    BY <2>1, <2>2, <2>3 DEF Reserved
  <2>5. GivenInv'
    <3>1. \A g \in Reserving' : held'[g].vchPubKey \in KeysOn(disk)
      BY <1>1, <1>5, <1>10, <2>1, <2>2, <2>3 DEF GivenInv
    <3> QED BY <1>1, <1>5, <1>8, <3>1 DEF GivenInv
  <2>6. IndexInv'
    BY <1>1, <1>2, <1>8, <2>1, <2>4 DEF IndexInv
  <2>7. PoolInv'
    <3> SUFFICES ASSUME ~reused' PROVE PoolInv'
      BY DEF PoolInv
    <3>1. ~reused
      BY <1>1
    <3>2. \A g \in Reserving' : held'[g].vchPubKey = disk.pool[held'[g].nIndex]
      <4>1. \A g \in Reserving : held[g].vchPubKey = disk.pool[held[g].nIndex]
        BY <1>1, <1>5, <3>1 DEF PoolInv
      <4> QED BY <2>1, <2>2, <2>3, <4>1
    <3>3. \A f, g \in Reserving' : held'[f].nIndex = held'[g].nIndex => f = g
      <4>1. \A g \in Reserving : held[g].nIndex # i
        BY <1>2, <1>5, <3>1 DEF Reserved
      <4>2. \A f, g \in Reserving : held[f].nIndex = held[g].nIndex => f = g
        BY <1>1, <3>1 DEF PoolInv
      <4> QED BY <2>1, <2>2, <2>3, <4>1, <4>2
    <3> QED BY <1>2, <1>5, <1>8, <2>1, <2>4, <3>1, <3>2, <3>3 DEF PoolInv
  <2> QED BY <1>11, <1>12, <1>13, <1>14, <1>15, <2>5, <2>6, <2>7
<1> QED BY <1>17, <1>18

LEMMA KeepKeyStep ==
  ASSUME IInv, KeepKey
  PROVE  IInv'
<1> DEFINE n == cs.nIndex  old == file.main  new == file'.main  k == old.pool[n]
<1> USE DEF IInv
<1>1. /\ up /\ up' = up /\ cs.op = "keep" /\ cs' = Idle
      /\ kept' = kept \cup {k} /\ file' = [file EXCEPT !.main = ErasePool(@, {n})]
      /\ UNCHANGED <<ks, pool, txn, held, topups, nextKey, template, mined, reused, lost>>
  BY DEF KeepKey, history
<1>2. /\ old \in Disk /\ Current = old /\ old # NoFile /\ Loadable(old) /\ Keeping = {n}
      /\ n \in DOMAIN old.pool
      /\ ~reused => /\ DOMAIN old.pool = pool \cup Reserved \cup {n}
                    /\ n \notin pool /\ n \notin Reserved /\ pool \cap Reserved = {}
  <2>1. old \in Disk /\ Current = old /\ old # NoFile /\ Loadable(old) /\ Keeping = {n}
    BY <1>1, FileInUse DEF Keeping
  <2> HIDE DEF old, n
  <2> QED BY <1>1, <2>1 DEF IndexInv, PoolInv
<1>3. file' = [main |-> new, rewrite |-> file.rewrite] /\ new = ErasePool(old, {n}) /\ file.main = old
  BY <1>1 DEF TypeOK
<1> HIDE DEF old, new, n
<1>4. /\ new \in Disk /\ new.key = old.key /\ new.ckey = old.ckey /\ new.mkey = old.mkey
      /\ DOMAIN new.pool = DOMAIN old.pool \ {n}
      /\ \A j \in DOMAIN old.pool \ {n} : new.pool[j] = old.pool[j]
  BY <1>2, <1>3, ErasePoolFacts
<1>5. file'.main = new /\ file'.rewrite = file.rewrite /\ new # NoFile
  BY <1>3, <1>4, DiskFields
<1>6. /\ cs'.op = "idle" /\ cs'.key = 0 /\ cs.key = 0 /\ Current' = new /\ Fresh' = Fresh
      /\ KeysOn(new) = KeysOn(old) /\ Loadable(new)
  <2>1. cs'.op = "idle" /\ cs'.key = 0 /\ cs.key = 0
    BY <1>1 DEF Idle, CallInv, Filling
  <2> QED BY <1>1, <1>2, <1>4, <1>5, <2>1 DEF Current, Fresh, KeysOn, Loadable
<1>7. /\ k \in Key /\ k \in KeysOn(old) /\ k < Fresh
      /\ \A j \in DOMAIN old.pool \ {n} : old.pool[j] # k
  <2>1. k \in KeysOn(old) /\ k < Fresh /\ \A j \in DOMAIN old.pool : old.pool[j] = k => j = n
    BY <1>1, <1>2 DEF RecordsInv
  <2>2. k \in Key
    BY <1>2, DiskFields
  <2> QED BY <2>1, <2>2
<1> HIDE DEF k
<1>8. TypeOK'
  <2>1. file' \in [main : Disk \cup {NoFile}, rewrite : Disk \cup {NoFile}]
    BY <1>3, <1>4 DEF TypeOK
  <2> QED BY <1>1, <1>6, <1>7, <2>1 DEF TypeOK
<1>9. CallInv' /\ RoomInv'
  BY <1>1, <1>6 DEF CallInv, RoomInv, NeedsKey, Filling, Filled, Encrypting, Idle
<1>10. FileInv'
  BY <1>1, <1>4, <1>5, <1>6 DEF FileInv
<1>11. StoreInv'
  BY <1>1, <1>2, <1>4, <1>6 DEF StoreInv
<1>12. RecordsInv'
  <2>1. \A j \in DOMAIN old.pool : /\ old.pool[j] \in KeysOn(old) \ kept
                                  /\ j < Fresh /\ old.pool[j] < Fresh
    BY <1>1, <1>2 DEF RecordsInv
  <2>2. \A i, j \in DOMAIN old.pool : old.pool[i] = old.pool[j] => i = j
    BY <1>1, <1>2 DEF RecordsInv
  <2> QED BY <1>1, <1>4, <1>6, <1>7, <2>1, <2>2 DEF RecordsInv
<1>13. IndexInv' /\ PoolInv'
  <2>1. Reserving' = Reserving /\ Reserved' = Reserved /\ Keeping' = {}
    BY <1>1, <1>6 DEF Reserving, Reserved, Keeping
  <2>2. ASSUME ~reused PROVE PoolInv'
    <3>1. DOMAIN new.pool = pool \cup Reserved
      BY <1>2, <1>4, <2>2
    <3>2. \A h \in Reserving : held[h].vchPubKey = old.pool[held[h].nIndex] /\ held[h].nIndex \in Reserved
      BY <1>1, <1>2, <2>2 DEF PoolInv, Reserved
    <3>3. \A h \in Reserving : held[h].vchPubKey = new.pool[held[h].nIndex]
      BY <1>2, <1>4, <2>2, <3>2
    <3>4. \A g, h \in Reserving : held[g].nIndex = held[h].nIndex => g = h
      BY <1>1, <2>2 DEF PoolInv
    <3> QED BY <1>1, <1>2, <1>6, <2>1, <2>2, <3>1, <3>3, <3>4 DEF PoolInv
  <2>3. PoolInv'
    BY <1>1, <2>2 DEF PoolInv
  <2> QED BY <1>1, <1>6, <2>1, <2>3 DEF IndexInv
<1>14. GivenInv'
  <2>1. Reserving' = Reserving
    BY <1>1 DEF Reserving
  <2> QED BY <1>1, <1>2, <1>6, <1>7, <2>1 DEF GivenInv
<1> QED BY <1>8, <1>9, <1>10, <1>11, <1>12, <1>13, <1>14

LEMMA ReturnKeyStep ==
  ASSUME IInv, NEW h \in Holders, ReturnKey(h)
  PROVE  IInv'
<1> DEFINE n == held[h].nIndex  disk == file.main
<1> USE DEF IInv
<1>1. /\ up /\ up' = up /\ held[h] # NoKey /\ cs = Idle /\ cs' = cs
      /\ pool' = pool \cup {n} /\ template' = held[h].vchPubKey
      /\ held' = [held EXCEPT ![h] = NoKey]
      /\ UNCHANGED <<ks, file, txn, topups, nextKey, kept, mined, reused, lost>>
  BY DEF ReturnKey, history
<1>2. cs.op = "idle" /\ cs.key = 0
  BY <1>1 DEF Idle
<1>3. /\ disk \in Disk /\ Current = disk /\ disk # NoFile /\ Keeping = {} /\ Keeping' = {}
      /\ ~reused => DOMAIN disk.pool = pool \cup Reserved /\ pool \cap Reserved = {}
      /\ Current' = disk /\ Fresh' = Fresh
  BY <1>1, <1>2, FileInUse DEF PoolInv, Keeping, Current, Fresh
<1>4. h \in Reserving /\ n \in Reserved /\ held[h].vchPubKey \in KeysOn(disk)
  <2>1. h \in Reserving /\ n \in Reserved
    BY <1>1 DEF Reserved, Reserving
  <2> QED BY <1>1, <1>3, <2>1 DEF GivenInv
<1>5. Reserving' = Reserving \ {h} /\ \A g \in Reserving \ {h} : held'[g] = held[g]
  <2>1. held'[h] = NoKey /\ \A g \in Holders \ {h} : held'[g] = held[g]
    BY <1>1 DEF TypeOK
  <2> QED BY <2>1 DEF Reserving
<1>6. Reserved' \subseteq Reserved
  BY <1>5 DEF Reserved
<1>7. held[h].vchPubKey \in Key /\ n \in 1 .. MaxKeys
  <2>1. disk.key \subseteq Key /\ disk.ckey \subseteq Key
    BY <1>3, DiskFields
  <2>2. n \in 1 .. MaxKeys
    <3>1. n \in -1 .. MaxKeys
      BY DEF TypeOK
    <3>2. 0 < n
      BY <1>1, <1>4 DEF IndexInv
    <3> QED BY <3>1, <3>2, Numbers
  <2> QED BY <1>4, <2>1, <2>2 DEF KeysOn
<1> HIDE DEF disk, n
<1>8. TypeOK'
  <2>1. NoKey \in [nIndex : -1 .. MaxKeys, vchPubKey : Key \cup {0}]
    <3>1. -1 \in -1 .. MaxKeys
      BY Numbers
    <3> QED BY <3>1 DEF NoKey
  <2>2. held' \in [Holders -> [nIndex : -1 .. MaxKeys, vchPubKey : Key \cup {0}]]
    BY <1>1, <2>1 DEF TypeOK
  <2>3. pool' \in SUBSET (1 .. MaxKeys)
    BY <1>1, <1>7, Numbers
  <2> QED BY <1>1, <1>4, <1>7, <2>2, <2>3 DEF TypeOK
<1>9. CallInv' /\ RoomInv'
  BY <1>1, <1>2 DEF CallInv, RoomInv, NeedsKey, Filling, Filled, Encrypting
<1>10. FileInv'
  BY <1>1 DEF FileInv
<1>11. StoreInv'
  BY <1>1, <1>3 DEF StoreInv
<1>12. RecordsInv'
  BY <1>1, <1>3 DEF RecordsInv
<1>13. PoolInv'
  <2> SUFFICES ASSUME ~reused' PROVE PoolInv'
    BY DEF PoolInv
  <2>1. ~reused
    BY <1>1
  <2>2. \A f, g \in Reserving : held[f].nIndex = held[g].nIndex => f = g
    BY <1>1, <2>1 DEF PoolInv
  <2>3. Reserved' = Reserved \ {n}
    <3>1. \A g \in Reserving \ {h} : held[g].nIndex # n
      BY <1>4, <2>2 DEF n
    <3> QED BY <1>4, <1>5, <3>1 DEF Reserved, n
  <2>4. DOMAIN disk.pool = pool' \cup Reserved' /\ pool' \cap Reserved' = {}
    BY <1>1, <1>3, <1>4, <2>1, <2>3
  <2>5. \A g \in Reserving' : held'[g].vchPubKey = disk.pool[held'[g].nIndex]
    <3>1. \A g \in Reserving : held[g].vchPubKey = disk.pool[held[g].nIndex]
      BY <1>1, <1>3, <2>1 DEF PoolInv
    <3> QED BY <1>5, <3>1
  <2>6. \A f, g \in Reserving' : held'[f].nIndex = held'[g].nIndex => f = g
    BY <1>5, <2>2
  <2> QED BY <1>3, <2>4, <2>5, <2>6 DEF PoolInv
<1>14. IndexInv'
  <2>1. \A i \in pool \cup Reserved : 0 < i /\ i < Fresh
    BY <1>1 DEF IndexInv
  <2> QED BY <1>1, <1>3, <1>4, <1>6, <2>1 DEF IndexInv
<1>15. GivenInv'
  <2>1. \A g \in Reserving' : held'[g].vchPubKey \in KeysOn(disk)
    BY <1>1, <1>3, <1>5 DEF GivenInv
  <2> QED BY <1>1, <1>3, <1>4, <2>1 DEF GivenInv
<1> QED BY <1>8, <1>9, <1>10, <1>11, <1>12, <1>13, <1>14, <1>15

\* What the commit of EncryptWallet writes.
LEMMA EncryptedFacts ==
  ASSUME NEW disk \in Disk, disk.ckey = {}, disk.key # {}, MayEncrypt
  PROVE  LET new == WriteCryptedKeys([disk EXCEPT !.mkey = TRUE], disk.key)
         IN /\ new \in Disk /\ new.key = {} /\ new.ckey = disk.key
            /\ new.pool = disk.pool /\ KeysOn(new) = KeysOn(disk) /\ Loadable(new)
<1> DEFINE marked == [disk EXCEPT !.mkey = TRUE]  new == WriteCryptedKeys(marked, disk.key)
<1>1. marked = [key |-> disk.key, ckey |-> disk.ckey, mkey |-> TRUE, pool |-> disk.pool]
  <2> DEFINE k == disk.key  c == disk.ckey  m == disk.mkey  q == disk.pool  t == TRUE
  <2>1. disk = [key |-> k, ckey |-> c, mkey |-> m, pool |-> q]
    BY DiskFields
  <2> HIDE DEF k, c, m, q
  <2>2. marked = [disk EXCEPT !.mkey = t]
    OBVIOUS
  <2> HIDE DEF marked, t
  <2>3. marked = [key |-> k, ckey |-> c, mkey |-> t, pool |-> q]
    BY <2>1, <2>2
  <2> QED BY <2>3 DEF k, c, m, q, t
<1>2. marked \in Disk
  <2> HIDE DEF marked
  <2>1. /\ disk.key \in SUBSET Key /\ disk.ckey \in SUBSET Key
        /\ DOMAIN disk.pool \in SUBSET (1 .. MaxKeys) /\ disk.pool \in [DOMAIN disk.pool -> Key]
    BY DiskFields
  <2>2. [key |-> disk.key, ckey |-> disk.ckey, mkey |-> TRUE, pool |-> disk.pool] \in Disk
    BY <2>1, MakeDisk
  <2> QED BY <1>1, <2>2
<1> HIDE DEF marked
<1>3. disk.key \in SUBSET Key
  BY DiskFields
<1>4. /\ new \in Disk /\ new.key = marked.key \ disk.key /\ new.ckey = marked.ckey \cup disk.key
      /\ new.mkey = marked.mkey /\ new.pool = marked.pool
  BY <1>2, <1>3, WriteCryptedKeysFacts
<1>5. marked.key = disk.key /\ marked.ckey = disk.ckey /\ marked.mkey /\ marked.pool = disk.pool
  BY <1>1
<1> HIDE DEF new
<1>6. /\ new \in Disk /\ new.key = {} /\ new.ckey = disk.key
      /\ new.pool = disk.pool /\ KeysOn(new) = KeysOn(disk) /\ Loadable(new)
  BY <1>4, <1>5 DEF KeysOn, Loadable
<1> QED BY <1>6 DEF new, marked

LEMMA EncryptWalletStep ==
  ASSUME IInv, EncryptWallet
  PROVE  IInv'
<1> DEFINE disk == file.main
<1> USE DEF IInv
<1>1. /\ MayEncrypt /\ up /\ up' = up /\ cs = Idle /\ ~ks.fUseCrypto /\ KeysLeft
      /\ ks.mapKeys # {} /\ file.rewrite = NoFile
      /\ txn' = WriteCryptedKeys([disk EXCEPT !.mkey = TRUE], ks.mapKeys)
      /\ ks' = [fUseCrypto |-> TRUE, vMasterKey |-> FALSE, mapKeys |-> {},
                mapCryptedKeys |-> ks.mapKeys, mapMasterKeys |-> TRUE]
      /\ cs' = [Idle EXCEPT !.op = "commit"]
      /\ UNCHANGED <<pool, file, held, topups, nextKey, template, kept, mined, reused, lost>>
  BY DEF EncryptWallet, history
<1>2. /\ cs.op = "idle" /\ cs.key = 0 /\ cs'.op = "commit" /\ cs'.key = 0
      /\ cs' \in [op : {"idle"} \cup Busy \cup Encrypting,
                  for : {"none", "thread", "get", "peek", "refill"} \cup Holders,
                  key : Key \cup {0}, nIndex : Int]
  <2>1. cs \in [op : {"idle"} \cup Busy \cup Encrypting,
                for : {"none", "thread", "get", "peek", "refill"} \cup Holders,
                key : Key \cup {0}, nIndex : Int]
    BY DEF CallInv
  <2>2. cs' = [cs EXCEPT !.op = "commit"] /\ "commit" \in Encrypting /\ cs.op = "idle" /\ cs.key = 0
    BY <1>1 DEF Idle, Encrypting
  <2> QED BY <2>1, <2>2
<1>3. /\ disk \in Disk /\ Current = disk /\ disk # NoFile /\ Current' = disk
      /\ ks.mapKeys = disk.key /\ disk.ckey = {} /\ disk.key # {}
  <2>1. disk \in Disk /\ Current = disk /\ disk # NoFile /\ Current' = disk
    BY <1>1, <1>2, FileInUse DEF Current
  <2> QED BY <1>1, <1>2, <2>1 DEF StoreInv
<1>4. txn' \in Disk /\ disk.key \subseteq Key
  <2> HIDE DEF disk
  <2> QED BY <1>1, <1>3, EncryptedFacts, DiskFields
<1>5. TypeOK'
  <2>1. ks' \in [fUseCrypto : BOOLEAN, vMasterKey : BOOLEAN, mapKeys : SUBSET Key,
                 mapCryptedKeys : SUBSET Key, mapMasterKeys : BOOLEAN]
    BY <1>1, <1>3, <1>4
  <2> QED BY <1>1, <1>2, <1>4, <2>1 DEF TypeOK
<1>6. CallInv' /\ RoomInv'
  BY <1>1, <1>2 DEF CallInv, RoomInv, NeedsKey, Filling, Filled, KeysLeft
<1>7. FileInv'
  BY <1>1, <1>2, <1>3 DEF FileInv
<1>8. StoreInv'
  BY <1>1, <1>2, <1>3 DEF StoreInv
<1>9. RecordsInv' /\ IndexInv' /\ PoolInv' /\ GivenInv'
  <2>1. Keeping' = Keeping /\ Fresh' = Fresh
    BY <1>1, <1>2 DEF Keeping, Fresh
  <2>2. KeysOn(Current)' = KeysOn(Current)
    BY <1>3 DEF KeysOn
  <2> QED BY <1>1, <1>2, <1>3, <2>1, <2>2, SamePool
<1> QED BY <1>5, <1>6, <1>7, <1>8, <1>9

LEMMA TxnCommitStep ==
  ASSUME IInv, TxnCommit
  PROVE  IInv'
<1> DEFINE old == file.main  new == file'.main
<1> USE DEF IInv
<1>1. /\ up /\ up' = up /\ cs.op = "commit" /\ cs' = [cs EXCEPT !.op = "erase"]
      /\ file' = [file EXCEPT !.main = txn] /\ txn' = NoFile
      /\ ks' = [ks EXCEPT !.vMasterKey = TRUE]
      /\ UNCHANGED <<pool, held, topups, nextKey, template, kept, mined, reused, lost>>
  BY DEF TxnCommit, history
<1>2. MayEncrypt /\ cs.key = 0
  BY <1>1 DEF CallInv, Encrypting, Filling
<1>3. /\ cs'.op = "erase" /\ cs'.key = 0 /\ cs'.for = cs.for
      /\ cs' \in [op : {"idle"} \cup Busy \cup Encrypting,
                  for : {"none", "thread", "get", "peek", "refill"} \cup Holders,
                  key : Key \cup {0}, nIndex : Int]
  BY <1>1, <1>2 DEF CallInv, Encrypting
<1>4. /\ old \in Disk /\ Current = old /\ old # NoFile /\ old.ckey = {} /\ old.key # {}
      /\ txn = WriteCryptedKeys([old EXCEPT !.mkey = TRUE], old.key)
      /\ ks = [fUseCrypto |-> TRUE, vMasterKey |-> FALSE, mapKeys |-> {},
               mapCryptedKeys |-> old.key, mapMasterKeys |-> TRUE]
  BY <1>1, FileInUse DEF StoreInv
<1>5. file' = [main |-> new, rewrite |-> file.rewrite] /\ new = txn /\ file.rewrite = NoFile
  BY <1>1 DEF TypeOK, FileInv
<1>6. /\ new \in Disk /\ new.key = {} /\ new.ckey = old.key
      /\ new.pool = old.pool /\ KeysOn(new) = KeysOn(old) /\ Loadable(new) /\ new # NoFile
  <2> HIDE DEF old, new
  <2> QED BY <1>2, <1>4, <1>5, EncryptedFacts, DiskFields
<1>7. ks' = [fUseCrypto |-> TRUE, vMasterKey |-> TRUE, mapKeys |-> {},
             mapCryptedKeys |-> old.key, mapMasterKeys |-> TRUE]
  BY <1>1, <1>4
<1>8. Current' = new /\ file'.main = new /\ file'.rewrite = file.rewrite /\ old.key \subseteq Key
  BY <1>3, <1>4, <1>5, DiskFields DEF Current
<1>9. file.main = old /\ Fresh' = Fresh
  BY <1>1, <1>2, <1>3 DEF Fresh
<1>10. Keeping' = Keeping
  BY <1>1, <1>3 DEF Keeping
<1> HIDE DEF old, new
<1>11. TypeOK'
  <2>1. ks' \in [fUseCrypto : BOOLEAN, vMasterKey : BOOLEAN, mapKeys : SUBSET Key,
                 mapCryptedKeys : SUBSET Key, mapMasterKeys : BOOLEAN]
    BY <1>7, <1>8
  <2>2. file' \in [main : Disk \cup {NoFile}, rewrite : Disk \cup {NoFile}]
    BY <1>5, <1>6 DEF TypeOK
  <2> QED BY <1>1, <1>3, <2>1, <2>2 DEF TypeOK
<1>12. CallInv' /\ RoomInv'
  BY <1>1, <1>2, <1>3 DEF CallInv, RoomInv, NeedsKey, Filling, Filled
<1>13. FileInv'
  BY <1>1, <1>3, <1>5, <1>6, <1>8 DEF FileInv
<1>14. StoreInv'
  BY <1>1, <1>3, <1>4, <1>6, <1>7, <1>8 DEF StoreInv
<1>15. RecordsInv' /\ IndexInv' /\ PoolInv' /\ GivenInv'
  <2>1. Current'.pool = Current.pool /\ KeysOn(Current)' = KeysOn(Current)
    BY <1>4, <1>6, <1>8 DEF KeysOn
  <2> QED BY <1>1, <1>2, <1>3, <1>9, <1>10, <2>1, SamePool
<1> QED BY <1>11, <1>12, <1>13, <1>14, <1>15

LEMMA EraseOldPoolStep ==
  ASSUME IInv, EraseOldPool
  PROVE  IInv'
<1> DEFINE old == file.main  new == file'.main  i == Min(pool)
<1> USE DEF IInv
<1>1. /\ up /\ up' = up /\ cs.op = "erase"
      /\ UNCHANGED <<ks, txn, held, topups, nextKey, template, kept, mined, reused, lost>>
  BY DEF EraseOldPool, history
<1>2. MayEncrypt /\ cs.key = 0 /\ ks.fUseCrypto /\ ks.vMasterKey
  BY <1>1 DEF CallInv, Encrypting, Filling, StoreInv
<1>3. /\ old \in Disk /\ Current = old /\ old # NoFile /\ Loadable(old)
      /\ Keeping = {}
  BY <1>1, <1>2, FileInUse DEF Keeping
<1>4. Reserving' = Reserving /\ Reserved' = Reserved
  BY <1>1 DEF Reserving, Reserved
<1>5. CASE pool = {}
  <2>1. cs' = [cs EXCEPT !.op = "newpool"] /\ UNCHANGED <<file, pool>>
    BY <1>5 DEF EraseOldPool
  <2>2. /\ cs'.op = "newpool" /\ cs'.key = 0
        /\ cs' \in [op : {"idle"} \cup Busy \cup Encrypting,
                    for : {"none", "thread", "get", "peek", "refill"} \cup Holders,
                    key : Key \cup {0}, nIndex : Int]
    BY <1>2, <2>1 DEF CallInv, Encrypting
  <2>3. Current' = old /\ Keeping' = {} /\ Fresh' = Fresh
    BY <1>1, <1>2, <2>1, <2>2 DEF Current, Keeping, Fresh
  <2>4. TypeOK'
    BY <1>1, <2>1, <2>2 DEF TypeOK
  <2>5. CallInv'
    BY <1>1, <1>2, <2>2 DEF CallInv, Filling, Filled
  <2>6. RoomInv'
    BY <1>1, <2>1, <2>2, Numbers DEF RoomInv, NeedsKey, TargetSize
  <2>7. FileInv'
    BY <1>1, <2>1, <2>2 DEF FileInv
  <2>8. StoreInv'
    BY <1>1, <1>2, <1>3, <2>2, <2>3 DEF StoreInv
  <2>9. RecordsInv' /\ IndexInv' /\ PoolInv' /\ GivenInv'
    <3>1. KeysOn(Current)' = KeysOn(Current)
      BY <1>3, <2>3 DEF KeysOn
    <3> QED BY <1>1, <1>2, <1>3, <2>1, <2>2, <2>3, <3>1, SamePool
  <2> QED BY <2>4, <2>5, <2>6, <2>7, <2>8, <2>9
<1>6. CASE pool # {}
  <2>1. cs' = cs /\ pool' = pool \ {i} /\ file' = [file EXCEPT !.main = ErasePool(@, {i})]
    BY <1>6 DEF EraseOldPool
  <2>2. file' = [main |-> new, rewrite |-> file.rewrite] /\ new = ErasePool(old, {i})
    BY <2>1 DEF TypeOK
  <2> HIDE DEF new, old, i
  <2>3. /\ new \in Disk /\ new.key = old.key /\ new.ckey = old.ckey /\ new.mkey = old.mkey
        /\ DOMAIN new.pool = DOMAIN old.pool \ {i}
        /\ \A j \in DOMAIN old.pool \ {i} : new.pool[j] = old.pool[j]
    BY <1>3, <2>2, ErasePoolFacts
  <2>4. file'.main = new /\ file'.rewrite = file.rewrite /\ file.main = old /\ new # NoFile
    BY <2>2, <2>3, DiskFields DEF old
  <2>5. Current' = new /\ Keeping' = {} /\ Fresh' = Fresh /\ KeysOn(new) = KeysOn(old) /\ Loadable(new)
    BY <1>1, <1>2, <1>3, <2>1, <2>3, <2>4 DEF Current, Keeping, Fresh, KeysOn, Loadable
  <2>6. TypeOK'
    <3>1. file' \in [main : Disk \cup {NoFile}, rewrite : Disk \cup {NoFile}]
      BY <2>2, <2>3 DEF TypeOK
    <3>2. pool' \in SUBSET (1 .. MaxKeys)
      BY <2>1, Numbers
    <3> QED BY <1>1, <2>1, <3>1, <3>2 DEF TypeOK
  <2>7. CallInv' /\ RoomInv'
    BY <1>1, <1>2, <2>1 DEF CallInv, RoomInv, NeedsKey, Filling, Filled
  <2>8. FileInv'
    BY <1>1, <2>1, <2>3, <2>4, <2>5 DEF FileInv
  <2>9. StoreInv'
    BY <1>1, <1>2, <1>3, <2>1, <2>3, <2>5 DEF StoreInv
  <2>10. RecordsInv'
    BY <1>1, <1>2, <1>3, <2>1, <2>3, <2>5 DEF RecordsInv
  <2>11. IndexInv' /\ GivenInv'
    BY <1>1, <1>3, <1>4, <2>1, <2>5 DEF IndexInv, GivenInv
  <2>12. PoolInv'
    <3> SUFFICES ASSUME ~reused PROVE PoolInv'
      BY <1>1 DEF PoolInv
    <3>1. /\ DOMAIN old.pool = pool \cup Reserved /\ pool \cap Reserved = {}
          /\ \A h \in Reserving : held[h].vchPubKey = old.pool[held[h].nIndex]
          /\ \A g, h \in Reserving : held[g].nIndex = held[h].nIndex => g = h
      BY <1>1, <1>3 DEF PoolInv
    <3>2. i \in pool
      BY <1>6, Numbers, MinOfPool DEF i
    <3>3. DOMAIN new.pool = (pool \ {i}) \cup Reserved
      BY <2>3, <3>1, <3>2
    <3>4. \A h \in Reserving : held[h].vchPubKey = new.pool[held[h].nIndex]
      BY <2>3, <3>1, <3>2 DEF Reserved
    <3> QED BY <1>1, <1>4, <2>1, <2>5, <3>1, <3>3, <3>4 DEF PoolInv
  <2> QED BY <2>6, <2>7, <2>8, <2>9, <2>10, <2>11, <2>12
<1> QED BY <1>5, <1>6

LEMMA RewriteCopyStep ==
  ASSUME IInv, RewriteCopy
  PROVE  IInv'
<1> DEFINE disk == file.main
<1> USE DEF IInv
<1>1. /\ up /\ up' = up /\ cs.op = "newpool" /\ cs.key = 0 /\ cs' = [cs EXCEPT !.op = "remove"]
      /\ ks' = [ks EXCEPT !.vMasterKey = FALSE] /\ file' = [file EXCEPT !.rewrite = disk]
      /\ UNCHANGED <<pool, txn, held, topups, nextKey, template, kept, mined, reused, lost>>
  BY DEF RewriteCopy, history
<1>2. MayEncrypt /\ disk \in Disk /\ Current = disk /\ disk # NoFile
  BY <1>1, FileInUse DEF CallInv, Encrypting
<1>3. file' = [main |-> disk, rewrite |-> disk] /\ file'.main = disk /\ file'.rewrite = disk
  BY <1>1 DEF TypeOK
<1>4. /\ cs'.op = "remove" /\ cs'.key = 0
      /\ cs' \in [op : {"idle"} \cup Busy \cup Encrypting,
                  for : {"none", "thread", "get", "peek", "refill"} \cup Holders,
                  key : Key \cup {0}, nIndex : Int]
  BY <1>1 DEF CallInv, Encrypting
<1> HIDE DEF disk
<1>5. Current' = disk /\ Fresh' = Fresh
  BY <1>1, <1>3, <1>4 DEF Current, Fresh
<1>6. Keeping' = Keeping
  BY <1>1, <1>4 DEF Keeping
<1>7. /\ ks'.mapKeys = ks.mapKeys /\ ks'.mapCryptedKeys = ks.mapCryptedKeys
      /\ ks'.fUseCrypto = ks.fUseCrypto /\ ks'.vMasterKey = FALSE
      /\ ks' \in [fUseCrypto : BOOLEAN, vMasterKey : BOOLEAN, mapKeys : SUBSET Key,
                  mapCryptedKeys : SUBSET Key, mapMasterKeys : BOOLEAN]
  BY <1>1 DEF TypeOK
<1>8. TypeOK'
  <2>1. file' \in [main : Disk \cup {NoFile}, rewrite : Disk \cup {NoFile}]
    BY <1>2, <1>3
  <2> QED BY <1>1, <1>4, <1>7, <2>1 DEF TypeOK
<1>9. CallInv' /\ RoomInv'
  BY <1>1, <1>2, <1>4 DEF CallInv, RoomInv, NeedsKey, Filling, Filled
<1>10. FileInv'
  BY <1>1, <1>2, <1>3, <1>4, FileInUse DEF FileInv
<1>11. StoreInv'
  BY <1>1, <1>2, <1>4, <1>5, <1>7 DEF StoreInv
<1>12. RecordsInv' /\ IndexInv' /\ PoolInv' /\ GivenInv'
  <2>1. KeysOn(Current)' = KeysOn(Current)
    BY <1>2, <1>5 DEF KeysOn
  <2> QED BY <1>1, <1>2, <1>4, <1>5, <1>6, <2>1, SamePool
<1> QED BY <1>8, <1>9, <1>10, <1>11, <1>12

LEMMA RewriteRemoveStep ==
  ASSUME IInv, RewriteRemove
  PROVE  IInv'
<1> DEFINE disk == file.main
<1> USE DEF IInv
<1>1. /\ up /\ up' = up /\ cs.op = "remove" /\ cs' = [cs EXCEPT !.op = "rename"]
      /\ file' = [file EXCEPT !.main = NoFile]
      /\ UNCHANGED <<ks, pool, txn, held, topups, nextKey, template, kept, mined, reused, lost>>
  BY DEF RewriteRemove, history
<1>2. /\ MayEncrypt /\ disk \in Disk /\ Current = disk /\ disk # NoFile /\ cs.key = 0
      /\ file.rewrite = disk /\ Loadable(disk)
  BY <1>1, FileInUse DEF CallInv, Encrypting, Filling, FileInv
<1>3. file' = [main |-> NoFile, rewrite |-> disk] /\ file'.main = NoFile /\ file'.rewrite = disk
  BY <1>1, <1>2 DEF TypeOK
<1>4. /\ cs'.op = "rename" /\ cs'.key = 0
      /\ cs' \in [op : {"idle"} \cup Busy \cup Encrypting,
                  for : {"none", "thread", "get", "peek", "refill"} \cup Holders,
                  key : Key \cup {0}, nIndex : Int]
  BY <1>1, <1>2 DEF CallInv, Encrypting
<1>5. file.main = disk
  OBVIOUS
<1> HIDE DEF disk
<1>6. Current' = disk /\ Fresh' = Fresh
  BY <1>1, <1>2, <1>3, <1>4 DEF Current, Fresh
<1>7. Keeping' = Keeping
  BY <1>1, <1>4 DEF Keeping
<1>8. TypeOK'
  <2>1. file' \in [main : Disk \cup {NoFile}, rewrite : Disk \cup {NoFile}]
    BY <1>2, <1>3
  <2> QED BY <1>1, <1>4, <2>1 DEF TypeOK
<1>9. CallInv' /\ RoomInv'
  BY <1>1, <1>2, <1>4 DEF CallInv, RoomInv, NeedsKey, Filling, Filled
<1>10. FileInv'
  BY <1>1, <1>2, <1>3, <1>4 DEF FileInv
<1>11. StoreInv'
  BY <1>1, <1>2, <1>4, <1>6 DEF StoreInv
<1>12. RecordsInv' /\ IndexInv' /\ PoolInv' /\ GivenInv'
  <2>1. KeysOn(Current)' = KeysOn(Current)
    BY <1>2, <1>6 DEF KeysOn
  <2> QED BY <1>1, <1>2, <1>4, <1>6, <1>7, <2>1, SamePool
<1> QED BY <1>8, <1>9, <1>10, <1>11, <1>12

LEMMA RewriteRenameStep ==
  ASSUME IInv, RewriteRename
  PROVE  IInv'
<1> DEFINE disk == file.rewrite
<1> USE DEF IInv
<1>1. /\ up /\ up' = up /\ cs.op = "rename" /\ cs' = Idle
      /\ file' = [main |-> disk, rewrite |-> NoFile]
      /\ UNCHANGED <<ks, pool, txn, held, topups, nextKey, template, kept, mined, reused, lost>>
  BY DEF RewriteRename, history
<1>2. /\ MayEncrypt /\ disk \in Disk /\ Current = disk /\ disk # NoFile /\ cs.key = 0
      /\ file.main = NoFile /\ Loadable(disk)
  BY <1>1 DEF CallInv, Encrypting, Filling, FileInv, Current
<1>3. file'.main = disk /\ file'.rewrite = NoFile /\ file.rewrite = disk
  BY <1>1
<1>4. cs'.op = "idle" /\ cs'.key = 0
  BY <1>1 DEF Idle
<1> HIDE DEF disk
<1>5. Current' = disk /\ Fresh' = Fresh
  BY <1>1, <1>2, <1>3, <1>4 DEF Current, Fresh
<1>6. Keeping' = Keeping
  BY <1>1, <1>4 DEF Keeping
<1>7. TypeOK'
  <2>1. file' \in [main : Disk \cup {NoFile}, rewrite : Disk \cup {NoFile}]
    BY <1>1, <1>2
  <2> QED BY <1>1, <1>4, <2>1 DEF TypeOK
<1>8. CallInv' /\ RoomInv'
  BY <1>1, <1>4 DEF CallInv, RoomInv, NeedsKey, Filling, Filled, Encrypting, Idle
<1>9. FileInv'
  BY <1>1, <1>2, <1>3, <1>4 DEF FileInv
<1>10. StoreInv'
  BY <1>1, <1>2, <1>4, <1>5 DEF StoreInv
<1>11. RecordsInv' /\ IndexInv' /\ PoolInv' /\ GivenInv'
  <2>1. KeysOn(Current)' = KeysOn(Current)
    BY <1>2, <1>5 DEF KeysOn
  <2> QED BY <1>1, <1>2, <1>4, <1>5, <1>6, <2>1, SamePool
<1> QED BY <1>7, <1>8, <1>9, <1>10, <1>11

LEMMA LoadWalletStep ==
  ASSUME IInv, LoadWallet
  PROVE  IInv'
<1> DEFINE disk == IF file.main = NoFile THEN EmptyDisk ELSE file.main
<1> USE DEF IInv
<1>1. /\ ~up /\ up' = TRUE /\ file' = [file EXCEPT !.main = disk] /\ ks' = KeyStoreOf(disk)
      /\ pool' = DOMAIN disk.pool /\ txn' = NoFile /\ held' = [h \in Holders |-> NoKey]
      /\ topups' = FALSE /\ template' = 0 /\ reused' = FALSE
      /\ UNCHANGED <<cs, nextKey, kept, mined, lost>>
  BY DEF LoadWallet
<1>2. cs = Idle /\ cs.op = "idle" /\ cs.key = 0
  BY <1>1 DEF CallInv, Idle
<1>3. disk \in Disk /\ Loadable(disk) /\ disk # NoFile
  BY EmptyDisks DEF FileInv
<1>4. \/ disk = file.main /\ file.main # NoFile /\ Current = disk
      \/ disk = EmptyDisk /\ file.main = NoFile
  BY <1>2 DEF Current
<1> HIDE DEF disk
<1>5. file'.main = disk /\ file'.rewrite = file.rewrite /\ file' = [main |-> disk, rewrite |-> file.rewrite]
  BY <1>1 DEF TypeOK
<1>6. Current' = disk /\ Fresh' = Fresh /\ Fresh = nextKey /\ Keeping' = {}
  BY <1>1, <1>2, <1>5 DEF Current, Fresh, Keeping
<1>7. Reserving' = {} /\ Reserved' = {}
  BY <1>1 DEF Reserving, Reserved
<1>8. /\ disk.key \subseteq Key /\ disk.ckey \subseteq Key /\ disk.mkey \in BOOLEAN
      /\ DOMAIN disk.pool \subseteq 1 .. MaxKeys
  BY <1>3, DiskFields
<1>9. TypeOK'
  <2>1. file' \in [main : Disk \cup {NoFile}, rewrite : Disk \cup {NoFile}]
    BY <1>3, <1>5 DEF TypeOK
  <2>2. ks' \in [fUseCrypto : BOOLEAN, vMasterKey : BOOLEAN, mapKeys : SUBSET Key,
                 mapCryptedKeys : SUBSET Key, mapMasterKeys : BOOLEAN]
    BY <1>1, <1>8 DEF KeyStoreOf
  <2>3. NoKey \in [nIndex : -1 .. MaxKeys, vchPubKey : Key \cup {0}]
    <3>1. -1 \in -1 .. MaxKeys
      BY Numbers
    <3> QED BY <3>1 DEF NoKey
  <2>4. held' \in [Holders -> [nIndex : -1 .. MaxKeys, vchPubKey : Key \cup {0}]]
    BY <1>1, <2>3
  <2> QED BY <1>1, <1>2, <1>8, <2>1, <2>2, <2>4 DEF TypeOK
<1>10. CallInv' /\ RoomInv'
  BY <1>1, <1>2 DEF CallInv, RoomInv, NeedsKey, Filling, Filled, Encrypting
<1>11. FileInv'
  BY <1>1, <1>2, <1>3, <1>5 DEF FileInv
<1>12. StoreInv'
  BY <1>1, <1>2, <1>6 DEF StoreInv, KeyStoreOf
<1>13. RecordsInv'
  <2>1. CASE disk = file.main /\ file.main # NoFile /\ Current = disk
    BY <1>1, <1>2, <1>6, <2>1 DEF RecordsInv
  <2>2. CASE disk = EmptyDisk
    BY <1>1, <1>2, <1>6, <2>2, EmptyDisks DEF RecordsInv
  <2> QED BY <1>4, <2>1, <2>2
<1>14. PoolInv'
  BY <1>1, <1>6, <1>7 DEF PoolInv
<1>15. IndexInv'
  <2>1. \A i \in DOMAIN disk.pool : 0 < i /\ i < Fresh
    <3>1. \A i \in DOMAIN disk.pool : i < Fresh
      BY <1>4, EmptyDisks DEF RecordsInv
    <3> QED BY <1>8, <3>1, Numbers
  <2> QED BY <1>1, <1>6, <1>7, <2>1 DEF IndexInv
<1>16. GivenInv'
  <2>1. kept \cup mined \subseteq Key /\ KeysOn(NoFile) = {0} /\ 0 \notin Key
    BY EmptyDisks DEF TypeOK, KeysOn, Key
  <2>2. (kept \cup mined) \ lost \subseteq KeysOn(file.main)
    BY <1>2 DEF GivenInv, Current, KeysOn
  <2>3. (kept \cup mined) \ lost \subseteq KeysOn(disk)
    BY <1>4, <2>1, <2>2
  <2>4. \A k \in kept : k < Fresh
    BY DEF GivenInv
  <2>5. Reserving' = {}
    BY <1>1 DEF Reserving
  <2> QED BY <1>1, <1>6, <2>3, <2>4, <2>5 DEF GivenInv
<1> QED BY <1>9, <1>10, <1>11, <1>12, <1>13, <1>14, <1>15, <1>16

-----------------------------------------------------------------------------
(* The theorem                                                             *)

LEMMA InitIInv ==
  ASSUME Init
  PROVE  IInv
<1> USE DEF Init
<1>1. /\ EmptyDisk \in Disk /\ Loadable(EmptyDisk) /\ EmptyDisk # NoFile /\ KeysOn(EmptyDisk) = {}
      /\ EmptyDisk.key = {} /\ EmptyDisk.ckey = {} /\ EmptyDisk.mkey = FALSE
      /\ DOMAIN EmptyDisk.pool = {}
  BY EmptyDisks DEF EmptyDisk
<1>2. cs.op = "idle" /\ cs.key = 0 /\ cs = Idle /\ Current = EmptyDisk /\ Keeping = {}
  BY DEF Idle, Current, Keeping
<1>3. Reserving = {} /\ Reserved = {}
  BY DEF Reserving, Reserved
<1>4. TypeOK
  <2>1. ks \in [fUseCrypto : BOOLEAN, vMasterKey : BOOLEAN, mapKeys : SUBSET Key,
                mapCryptedKeys : SUBSET Key, mapMasterKeys : BOOLEAN]
    BY <1>1 DEF KeyStoreOf
  <2>2. NoKey \in [nIndex : -1 .. MaxKeys, vchPubKey : Key \cup {0}]
    <3>1. -1 \in -1 .. MaxKeys
      BY KeyPoolAssumption
    <3> QED BY <3>1 DEF NoKey
  <2>3. held \in [Holders -> [nIndex : -1 .. MaxKeys, vchPubKey : Key \cup {0}]]
    BY <2>2
  <2>4. file \in [main : Disk \cup {NoFile}, rewrite : Disk \cup {NoFile}]
    BY <1>1
  <2>5. nextKey \in 1 .. MaxKeys + 1
    BY KeyPoolAssumption
  <2> QED BY <1>2, <2>1, <2>3, <2>4, <2>5 DEF TypeOK
<1>5. CallInv /\ RoomInv
  <2>1. Idle \in [op : {"idle"} \cup Busy \cup Encrypting,
                  for : {"none", "thread", "get", "peek", "refill"} \cup Holders,
                  key : Key \cup {0}, nIndex : Int]
    BY DEF Idle
  <2> QED BY <1>2, <2>1 DEF CallInv, RoomInv, NeedsKey, Filling, Filled, Encrypting
<1>6. FileInv /\ StoreInv
  BY <1>1, <1>2 DEF FileInv, StoreInv, KeyStoreOf
<1>7. RecordsInv /\ IndexInv /\ PoolInv /\ GivenInv
  BY <1>1, <1>2, <1>3 DEF RecordsInv, IndexInv, PoolInv, GivenInv
<1> QED BY <1>4, <1>5, <1>6, <1>7 DEF IInv

LEMMA NextIInv ==
  ASSUME IInv, [Next]_vars
  PROVE  IInv'
<1>1. CASE UNCHANGED vars
  BY <1>1 DEF vars, history, IInv, TypeOK, CallInv, RoomInv, FileInv, StoreInv,
     RecordsInv, IndexInv, PoolInv, GivenInv, NeedsKey, Filling, TargetSize, Current, Fresh, Reserving,
     Reserved, Keeping, KeysOn
<1>2. CASE \E h \in Holders : ReturnKey(h)
  BY <1>2, ReturnKeyStep
<1> QED BY <1>1, <1>2, GenerateNewKeyStep, GenerateNewKeyThrowsStep, AddToPoolStep, TopUpDoneStep,
           CallersStep, ReserveKeyStep, ReserveNothingStep, KeepKeyStep, CheckWorkStep,
           EncryptWalletStep, TxnCommitStep, EraseOldPoolStep, RewriteCopyStep, RewriteRemoveStep,
           RewriteRenameStep, LockStep, CrashStep, LoadWalletStep DEF Next

LEMMA SafeFromIInv ==
  ASSUME IInv
  PROVE  KeysAreSafe
<1> USE DEF IInv
<1>1. WalletLoads
  BY DEF WalletLoads, FileInv, Loadable
<1>2. GivenKeysOnDisk
  BY DEF GivenKeysOnDisk, GivenInv, KeysOn, Current, FileInv, CallInv, Idle
<1>3. up /\ ~reused => DOMAIN Current.pool = pool \cup Reserved \cup Keeping
  BY DEF PoolInv
<1>4. file.main # NoFile => Current = file.main
  BY DEF FileInv, Current
<1>5. PoolReadable
  <2>1. ASSUME file.main # NoFile, NEW i \in DOMAIN file.main.pool
        PROVE  file.main.pool[i] \in file.main.key \cup file.main.ckey
    BY <1>4, <2>1 DEF RecordsInv, KeysOn
  <2>2. ASSUME up, ~reused, file.main # NoFile, NEW i \in pool PROVE Readable(i)
    <3>1. cs.op # "rename"
      BY <2>2 DEF FileInv
    <3>2. CASE cs.op # "commit"
      BY <2>2, <3>1, <3>2, PoolCanBeRead
    <3>3. CASE cs.op = "commit"
      <4>1. i \in DOMAIN file.main.pool
        BY <1>3, <1>4, <2>2
      <4>2. ks.fUseCrypto /\ ks.mapCryptedKeys = file.main.key /\ file.main.ckey = {}
        BY <3>3 DEF StoreInv
      <4> QED BY <2>1, <2>2, <4>1, <4>2 DEF Readable, HaveKey
    <3> QED BY <3>2, <3>3
  <2> QED BY <2>1, <2>2 DEF PoolReadable
<1>6. KeptKeysLeavePool
  <2>1. ASSUME file.main # NoFile, NEW i \in DOMAIN file.main.pool
        PROVE  file.main.pool[i] \notin kept
    BY <1>4, <2>1 DEF RecordsInv
  <2>2. ASSUME up, ~reused, NEW h \in DOMAIN held PROVE held[h].vchPubKey \notin kept
    <3>1. h \in Holders /\ kept \subseteq Key
      BY DEF TypeOK
    <3>2. CASE held[h] = NoKey
      BY <3>1, <3>2 DEF NoKey, Key
    <3>3. CASE held[h] # NoKey
      <4>1. h \in Reserving /\ held[h].nIndex \in Reserved
        BY <3>1, <3>3 DEF Reserving, Reserved
      <4>2. held[h].nIndex \in DOMAIN Current.pool /\ held[h].vchPubKey = Current.pool[held[h].nIndex]
        BY <1>3, <2>2, <4>1 DEF PoolInv
      <4> QED BY <2>2, <4>2 DEF RecordsInv
    <3> QED BY <3>2, <3>3
  <2> QED BY <2>1, <2>2 DEF KeptKeysLeavePool
<1>7. KeyStoreAgrees
  <2>1. CASE cs.op = "commit"
    BY <2>1 DEF StoreInv, KeyStoreAgrees, Idle
  <2>2. CASE cs.op # "commit"
    <3>1. up => Current.key = {} \/ Current.ckey = {}
      <4>1. up => Current \in {file.main, file.rewrite} \ {NoFile}
        BY DEF Current, FileInv
      <4> QED BY <4>1 DEF FileInv, Loadable
    <3>2. cs = Idle => Current = file.main
      BY DEF Idle, Current
    <3> QED BY <2>2, <3>1, <3>2 DEF StoreInv, KeyStoreAgrees
  <2> QED BY <2>1, <2>2
<1> QED BY <1>1, <1>2, <1>5, <1>6, <1>7 DEF KeysAreSafe

\* Keys are neither lost nor given twice, for any bound on keys, any size of the
\* key pool and any number of threads in CreateNewBlock, wherever the process
\* ends in TopUpKeyPool, ReserveKeyFromKeyPool, EncryptWallet and CDB::Rewrite,
\* and whenever the relock thread locks between two steps of them.  What goes
\* wrong is named in the property: a reserved index that is given to another
\* key, and a process that ends between the removal of wallet.dat and the
\* renaming of its copy.
THEOREM KeysAlwaysSafe == Spec => [](TypeOK /\ KeysAreSafe)
<1>1. Init => IInv
  BY InitIInv
<1>2. IInv /\ [Next]_vars => IInv'
  BY NextIInv
<1>3. IInv => TypeOK /\ KeysAreSafe
  BY SafeFromIInv DEF IInv
<1> QED BY <1>1, <1>2, <1>3, PTL DEF Spec

-----------------------------------------------------------------------------
(* The relock threads                                                      *)

LockInv == Relocking!TypeOK /\ Relocking!UnlockedIsWatched

\* Loop, of a thread that has a time of its own (Starts) or has slept (Wakes): it
\* locks, or it sleeps until the time that is set, or somebody else is to start.
LEMMA LoopStep ==
  ASSUME Relocking!LockAssumption, LockInv, NEW t \in Threads, NEW u \in Nat \cup {None},
         Relocking!Loop(t, u),
         u = None /\ ~locked => \E s \in Threads \ {t} : thread[s].pc = "starts"
  PROVE  LockInv'
<1> USE DEF LockInv
<1>1. None \notin Nat
  BY DEF Relocking!LockAssumption
<1> DEFINE new == IF u \in {None, 0} THEN Relocking!Gone ELSE [pc |-> "sleeps", time |-> u]
<1>2. /\ locked' = (locked \/ u = 0) /\ nWalletUnlockTime' = (IF u = 0 THEN None ELSE u)
      /\ thread'[t] = new /\ \A s \in Threads \ {t} : thread'[s] = thread[s]
      /\ thread' = [thread EXCEPT ![t] = new]
  BY DEF Relocking!Loop, Relocking!TypeOK
<1>3. new \in [pc : {"none", "starts", "sleeps"}, time : Nat]
  BY <1>1 DEF Relocking!Gone
<1>4. u \notin {None, 0} => new.pc = "sleeps" /\ new.time = u
  OBVIOUS
<1> HIDE DEF new
<1>5. Relocking!TypeOK'
  <2>1. locked' \in BOOLEAN
    BY <1>2
  <2> QED BY <1>2, <1>3, <2>1 DEF Relocking!TypeOK
<1>6. Relocking!TimeIsNoticed'
  BY <1>2, <1>4 DEF Relocking!TimeIsNoticed, Relocking!Waits
<1>7. Relocking!SomeoneWillLock'
  <2>1. CASE u = None
    BY <1>2, <2>1 DEF Relocking!SomeoneWillLock, Relocking!Pending
  <2>2. CASE u # None
    BY <1>2, <1>4, <2>2 DEF Relocking!SomeoneWillLock, Relocking!Waits
  <2> QED BY <2>1, <2>2
<1> QED BY <1>5, <1>6, <1>7 DEF Relocking!UnlockedIsWatched

LEMMA LockNext ==
  ASSUME Relocking!LockAssumption, LockInv, Relocking!Next
  PROVE  LockInv'
<1> USE DEF LockInv
<1>1. None \notin Nat /\ Timeouts \subseteq Nat
  BY DEF Relocking!LockAssumption
<1>2. /\ locked \in BOOLEAN /\ nWalletUnlockTime \in Nat \cup {None}
      /\ thread \in [Threads -> [pc : {"none", "starts", "sleeps"}, time : Nat]]
  BY DEF Relocking!TypeOK
<1>3. /\ ~locked => \/ \E t \in Threads : thread[t].pc = "starts"
                    \/ nWalletUnlockTime # None /\ \E t \in Threads : thread[t].pc = "sleeps"
      /\ nWalletUnlockTime # None =>
           \E t \in Threads : thread[t].pc = "sleeps" /\ thread[t].time <= nWalletUnlockTime
  BY DEF Relocking!UnlockedIsWatched, Relocking!SomeoneWillLock, Relocking!TimeIsNoticed,
         Relocking!Waits, Relocking!Pending
<1>4. ASSUME NEW n \in Timeouts, Relocking!WalletPassphrase(n) PROVE LockInv'
  <2>1. PICK t \in Threads : /\ thread[t] = Relocking!Gone
                             /\ thread' = [thread EXCEPT ![t] = [pc |-> "starts", time |-> n]]
    BY <1>4 DEF Relocking!WalletPassphrase
  <2>2. /\ thread[t].pc = "none" /\ thread'[t].pc = "starts"
        /\ \A s \in Threads \ {t} : thread'[s] = thread[s]
        /\ thread' \in [Threads -> [pc : {"none", "starts", "sleeps"}, time : Nat]]
    BY <1>1, <1>2, <2>1 DEF Relocking!Gone
  <2>3. locked' = FALSE /\ nWalletUnlockTime' = nWalletUnlockTime
    BY <1>4 DEF Relocking!WalletPassphrase
  <2>4. Relocking!TypeOK'
    BY <1>2, <2>2, <2>3 DEF Relocking!TypeOK
  <2>5. Relocking!SomeoneWillLock'
    BY <2>2 DEF Relocking!SomeoneWillLock, Relocking!Pending
  <2>6. Relocking!TimeIsNoticed'
    BY <1>3, <2>2, <2>3 DEF Relocking!TimeIsNoticed, Relocking!Waits
  <2> QED BY <2>4, <2>5, <2>6 DEF Relocking!UnlockedIsWatched
<1>5. ASSUME Relocking!WalletLock \/ Relocking!WrongPassphraseChange PROVE LockInv'
  <2>1. /\ locked' = TRUE /\ thread' = thread
        /\ nWalletUnlockTime' = None \/ nWalletUnlockTime' = nWalletUnlockTime
    BY <1>5 DEF Relocking!WalletLock, Relocking!WrongPassphraseChange
  <2>2. Relocking!TypeOK'
    BY <1>2, <2>1 DEF Relocking!TypeOK
  <2>3. Relocking!TimeIsNoticed' /\ Relocking!SomeoneWillLock'
    BY <1>3, <2>1 DEF Relocking!TimeIsNoticed, Relocking!SomeoneWillLock, Relocking!Waits
  <2> QED BY <2>2, <2>3 DEF Relocking!UnlockedIsWatched
<1>6. ASSUME NEW t \in Threads, Relocking!Starts(t) PROVE LockInv'
  <2>1. thread[t].pc = "starts" /\ thread[t].time \in Nat
    BY <1>2, <1>6 DEF Relocking!Starts
  <2>2. CASE nWalletUnlockTime = None
    <3>1. Relocking!Loop(t, thread[t].time)
      BY <1>6, <2>2 DEF Relocking!Starts
    <3> QED BY <1>1, <2>1, <3>1, LoopStep
  <2>3. CASE nWalletUnlockTime # None
    <3> DEFINE u == IF nWalletUnlockTime < thread[t].time THEN thread[t].time ELSE nWalletUnlockTime
    <3>1. nWalletUnlockTime' = u /\ thread' = [thread EXCEPT ![t] = Relocking!Gone] /\ locked' = locked
      BY <1>6, <2>3 DEF Relocking!Starts
    <3>2. nWalletUnlockTime \in Nat /\ u \in Nat /\ nWalletUnlockTime <= u
      BY <1>2, <2>1, <2>3
    <3> HIDE DEF u
    <3>3. /\ thread' \in [Threads -> [pc : {"none", "starts", "sleeps"}, time : Nat]]
          /\ \A s \in Threads \ {t} : thread'[s] = thread[s]
      BY <1>2, <3>1 DEF Relocking!Gone
    <3>4. PICK s \in Threads : thread[s].pc = "sleeps" /\ thread[s].time <= nWalletUnlockTime
      BY <1>3, <2>3
    <3>5. thread'[s].pc = "sleeps" /\ thread'[s].time <= u
      <4>1. thread'[s] = thread[s] /\ thread[s].time \in Nat
        BY <1>2, <2>1, <3>3, <3>4
      <4> QED BY <3>2, <3>4, <4>1
    <3>6. Relocking!TypeOK'
      BY <1>2, <3>1, <3>2, <3>3 DEF Relocking!TypeOK
    <3>7. Relocking!TimeIsNoticed' /\ Relocking!SomeoneWillLock'
      BY <1>1, <3>1, <3>2, <3>5 DEF Relocking!TimeIsNoticed, Relocking!SomeoneWillLock, Relocking!Waits
    <3> QED BY <3>6, <3>7 DEF Relocking!UnlockedIsWatched
  <2> QED BY <2>2, <2>3
<1>7. ASSUME NEW t \in Threads, Relocking!Wakes(t) PROVE LockInv'
  <2>1. thread[t].pc = "sleeps" /\ Relocking!Loop(t, nWalletUnlockTime)
    BY <1>7 DEF Relocking!Wakes
  <2>2. nWalletUnlockTime = None /\ ~locked => \E s \in Threads \ {t} : thread[s].pc = "starts"
    BY <1>3, <2>1
  <2> QED BY <1>2, <2>1, <2>2, LoopStep
<1>8. ASSUME Relocking!Tick PROVE LockInv'
  <2> DEFINE new(t) == [thread[t] EXCEPT !.time = Relocking!Minus(@)]
  <2>1. /\ locked' = locked
        /\ nWalletUnlockTime' = IF nWalletUnlockTime = None THEN None ELSE Relocking!Minus(nWalletUnlockTime)
        /\ thread' = [t \in Threads |-> new(t)]
    BY <1>8 DEF Relocking!Tick
  <2>2. \A n \in Nat : Relocking!Minus(n) \in Nat
    BY DEF Relocking!Minus
  <2>3. \A n, m \in Nat : n <= m => Relocking!Minus(n) <= Relocking!Minus(m)
    BY DEF Relocking!Minus
  <2>4. \A t \in Threads : /\ new(t) \in [pc : {"none", "starts", "sleeps"}, time : Nat]
                           /\ new(t).pc = thread[t].pc /\ new(t).time = Relocking!Minus(thread[t].time)
                           /\ thread[t].time \in Nat
    <3> TAKE t \in Threads
    <3>1. thread[t] \in [pc : {"none", "starts", "sleeps"}, time : Nat]
      BY <1>2
    <3> QED BY <2>2, <3>1
  <2> HIDE DEF new
  <2>5. Relocking!TypeOK'
    BY <1>2, <2>1, <2>2, <2>4 DEF Relocking!TypeOK
  <2>6. nWalletUnlockTime' # None <=> nWalletUnlockTime # None
    BY <1>1, <1>2, <2>1, <2>2
  <2>7. Relocking!SomeoneWillLock'
    BY <1>3, <2>1, <2>4, <2>6 DEF Relocking!SomeoneWillLock, Relocking!Waits, Relocking!Pending
  <2>8. Relocking!TimeIsNoticed'
    <3>1. SUFFICES ASSUME nWalletUnlockTime # None
                   PROVE  \E t \in Threads : /\ thread'[t].pc = "sleeps"
                                             /\ thread'[t].time <= nWalletUnlockTime'
      BY <2>6 DEF Relocking!TimeIsNoticed, Relocking!Waits
    <3>2. PICK t \in Threads : thread[t].pc = "sleeps" /\ thread[t].time <= nWalletUnlockTime
      BY <1>3, <3>1
    <3>3. nWalletUnlockTime \in Nat /\ nWalletUnlockTime' = Relocking!Minus(nWalletUnlockTime)
      BY <1>2, <2>1, <3>1
    <3> QED BY <2>1, <2>3, <2>4, <3>2, <3>3
  <2> QED BY <2>5, <2>7, <2>8 DEF Relocking!UnlockedIsWatched
<1> QED BY <1>4, <1>5, <1>6, <1>7, <1>8 DEF Relocking!Next

\* Unlocked keys are never left to themselves, with any number of relock threads
\* and any timeouts, in whichever order walletpassphrase, walletlock and changes of
\* the passphrase come between the steps of ThreadCleanWalletPassphrase.
THEOREM UnlockedAlwaysWatched == Relocking!Spec => []UnlockedIsWatched
<1>1. Relocking!Init => LockInv
  <2> SUFFICES ASSUME Relocking!Init PROVE LockInv
    OBVIOUS
  <2>1. Relocking!Gone \in [pc : {"none", "starts", "sleeps"}, time : Nat]
    BY DEF Relocking!Gone
  <2>2. Relocking!TypeOK
    BY <2>1 DEF Relocking!Init, Relocking!TypeOK
  <2> QED BY <2>2 DEF LockInv, Relocking!Init, Relocking!UnlockedIsWatched,
             Relocking!SomeoneWillLock, Relocking!TimeIsNoticed
<1>2. LockInv /\ [Relocking!Next]_(Relocking!vars) => LockInv'
  <2>1. CASE Relocking!Next
    BY <2>1, LockNext, RelockingAssumption
  <2>2. CASE UNCHANGED Relocking!vars
    BY <2>2 DEF Relocking!vars, LockInv, Relocking!TypeOK, Relocking!UnlockedIsWatched,
       Relocking!SomeoneWillLock, Relocking!TimeIsNoticed, Relocking!Waits, Relocking!Pending
  <2> QED BY <2>1, <2>2
<1>3. LockInv => UnlockedIsWatched
  BY DEF LockInv, UnlockedIsWatched
<1> QED BY <1>1, <1>2, <1>3, PTL DEF Relocking!Spec
=============================================================================
