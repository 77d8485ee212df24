---------------------------- MODULE DbEnvProofs ----------------------------
(***************************************************************************)
(* For any number of threads and files: the use counts of bitdb are exact, *)
(* so no handle is closed under a CDB object, and what reaches the disk is *)
(* whole, in a backup, at shutdown and after the flush thread.             *)
(***************************************************************************)
EXTENDS DbEnv, TLAPS, FiniteSetTheorems

OpenPcs == {"open", "counting", "stored"}
CDBs == [pc : OpenPcs \cup {"none", "closing"}, file : Files, alive : BOOLEAN,
         ro : BOOLEAN, txn : BOOLEAN, pending : SUBSET Nat, saw : Nat]

(* The CDB objects that are counted for f. *)
Holders(f) == {t \in Users : cdb[t].pc # "none" /\ cdb[t].file = f}

-----------------------------------------------------------------------------
(* The inductive invariant *)

EnvType ==
  /\ fDbEnvInit \in BOOLEAN /\ quiet \in BOOLEAN /\ missed \in BOOLEAN
  /\ DOMAIN mapFileUseCount \subseteq Files
  /\ mapDb \in [Files -> BOOLEAN] /\ attached \in [Files -> BOOLEAN]
  /\ cache \in [Files -> SUBSET Nat] /\ disk \in [Files -> SUBSET Nat]
  /\ cdb \in [Users -> CDBs]
  /\ written \in Nat /\ nWalletDBUpdated \in Nat /\ nLastSeen \in Nat /\ nLastFlushed \in Nat
  /\ shutdown \in {"no", "requested", "stopping", "flushed"}

(* Every CDB is counted, and only what nobody holds has no entry; so a     *)
(* handle in use stays open, and the environment too.                      *)
UseInv ==
  /\ \A f \in DOMAIN mapFileUseCount : mapFileUseCount[f] = Cardinality(Holders(f))
  /\ \A f \in Files \ DOMAIN mapFileUseCount : Holders(f) = {}
  /\ \A t \in Users : cdb[t].pc = "none" => cdb[t] = NoCDB
  /\ NoClosedHandleUsed
  /\ ~fDbEnvInit => DOMAIN mapFileUseCount = {} /\ shutdown = "flushed"

(* A write makes the file refer to the log until the cache is on disk, and *)
(* a file whose entry was erased has been flushed.                         *)
FileInv ==
  /\ \A f \in Files : cache[f] \cup disk[f] \subseteq 1 .. written
  /\ \A t \in Users : cdb[t].pending # {} => Open(t) /\ attached[cdb[t].file]
  /\ \A f \in Files : ~attached[f] => cache[f] = disk[f]
  /\ \A f \in Files \ DOMAIN mapFileUseCount :
        cache[f] = disk[f] /\ (f \notin ChainFiles \/ fDetachDB => ~attached[f])
  /\ BackupIsWhole

(* Although increments of nWalletDBUpdated get lost, the counter is ahead  *)
(* of nLastFlushed whenever a counted write waits for a flush.             *)
CountInv ==
  /\ nLastFlushed <= nWalletDBUpdated
  /\ \A t \in Users : cdb[t].pc = "counting" => nLastFlushed <= cdb[t].saw
  /\ \A t \in Users : cdb[t].pc = "stored" => nLastFlushed < nWalletDBUpdated
  /\ \A t \in Users : cdb[t].pc \in {"counting", "stored"} => Counts(t)
  /\ attached[WalletFile] /\ ~missed => nLastFlushed < nWalletDBUpdated

EnvInv == EnvType /\ UseInv /\ FileInv /\ CountInv

-----------------------------------------------------------------------------
(* Use counts *)

USE DEF fileVars, flushVars, useVars, countVars

LEMMA HoldersFinite ==
  ASSUME NEW f PROVE IsFiniteSet(Holders(f)) /\ Cardinality(Holders(f)) \in Nat
<1>1. Holders(f) \in SUBSET Users
  BY DEF Holders
<1> QED
  BY <1>1, DbAssumption, FS_Subset, FS_CardinalityType

LEMMA NoCDBType == NoCDB \in CDBs
BY DbAssumption DEF NoCDB, CDBs, OpenPcs

(* A file that is not in use is held by nobody. *)
LEMMA FreeFile ==
  ASSUME UseInv, NEW f \in Files, ~InUse(f)
  PROVE  Holders(f) = {}
<1>1. CASE f \in DOMAIN mapFileUseCount
  BY <1>1, HoldersFinite, FS_EmptySet DEF UseInv, InUse
<1>2. CASE f \notin DOMAIN mapFileUseCount
  BY <1>2 DEF UseInv
<1> QED
  BY <1>1, <1>2

LEMMA UnusedAreFree ==
  ASSUME EnvType, UseInv
  PROVE  Unused \subseteq Files /\ \A f \in Unused : Holders(f) = {}
<1>1. Unused \subseteq Files /\ \A f \in Unused : ~InUse(f)
  BY DEF Unused, EnvType, InUse
<1> QED
  BY <1>1, FreeFile

(* Closing the handles of files that nobody holds takes no CDB with it.    *)
LEMMA CloseFree ==
  ASSUME EnvType, NEW F, \A f \in F : Holders(f) = {}
  PROVE  CDBsWithout(F) = cdb
<1>1. \A t \in Users : ~(Open(t) /\ cdb[t].file \in F)
  BY DEF Holders, Open
<1> QED
  BY <1>1 DEF CDBsWithout, EnvType

(* What FlushFiles does when nobody holds the files. *)
LEMMA FlushFree ==
  ASSUME EnvType, UseInv, NEW F \in SUBSET Files, \A f \in F : Holders(f) = {}, FlushFiles(F)
  PROVE  /\ cdb' = cdb /\ cache' = cache
         /\ DOMAIN mapFileUseCount' = DOMAIN mapFileUseCount \ F
         /\ \A f \in DOMAIN mapFileUseCount' : mapFileUseCount'[f] = mapFileUseCount[f]
         /\ \A f \in Files : mapDb'[f] <=> mapDb[f] /\ f \notin F
         /\ \A t \in Users : Open(t) => cdb[t].file \notin F
<1>1. cdb' = cdb
  BY CloseFree DEF FlushFiles
<1>2. \A t \in Users : Open(t) => cdb[t].file \notin F
  BY DEF Holders, Open
<1> QED
  BY <1>1, <1>2 DEF FlushFiles

LEMMA FlushKeepsUse ==
  ASSUME EnvType, UseInv, NEW F \in SUBSET Files, \A f \in F : Holders(f) = {}, FlushFiles(F),
         shutdown = "flushed" => shutdown' = "flushed",
         \/ fDbEnvInit' = fDbEnvInit
         \/ /\ fDbEnvInit' = (fDbEnvInit /\ DOMAIN mapFileUseCount' # {})
            /\ shutdown' = "flushed"
  PROVE  UseInv'
<1>1. /\ cdb' = cdb
      /\ DOMAIN mapFileUseCount' = DOMAIN mapFileUseCount \ F
      /\ \A f \in DOMAIN mapFileUseCount' : mapFileUseCount'[f] = mapFileUseCount[f]
      /\ \A f \in Files : mapDb'[f] <=> mapDb[f] /\ f \notin F
      /\ \A t \in Users : Open(t) => cdb[t].file \notin F
  BY FlushFree
<1>2. \A f : Holders(f)' = Holders(f)
  BY <1>1 DEF Holders
<1>3. /\ \A f \in DOMAIN mapFileUseCount' : mapFileUseCount'[f] = Cardinality(Holders(f)')
      /\ \A f \in Files \ DOMAIN mapFileUseCount' : Holders(f)' = {}
  BY <1>1, <1>2 DEF UseInv
<1>4. \A t \in Users : cdb'[t].pc = "none" => cdb'[t] = NoCDB
  BY <1>1 DEF UseInv
<1>5. ~fDbEnvInit' => DOMAIN mapFileUseCount' = {} /\ shutdown' = "flushed"
  BY <1>1 DEF UseInv, EnvType
<1>6. ASSUME NEW t \in Users, Open(t)'
      PROVE  cdb'[t].alive /\ mapDb'[cdb'[t].file] /\ fDbEnvInit'
  <2>1. Open(t) /\ cdb[t].file \in Files
    BY <1>1, <1>6 DEF Open, EnvType, CDBs
  <2>2. cdb[t].alive /\ mapDb[cdb[t].file]
    BY <2>1 DEF UseInv, NoClosedHandleUsed
  <2>3. t \in Holders(cdb[t].file)
    BY <2>1 DEF Holders, Open
  <2>4. cdb[t].file \in DOMAIN mapFileUseCount'
    BY <1>2, <1>3, <2>1, <2>3
  <2> QED
    BY <1>1, <1>5, <2>1, <2>2, <2>4 DEF EnvType
<1> QED
  BY <1>3, <1>4, <1>5, <1>6 DEF UseInv, NoClosedHandleUsed

(* A step inside a CDB's life, between its constructor and the end of Close. *)
LEMMA InsideKeepsUse ==
  ASSUME EnvType, UseInv, NEW t \in Users, NEW c \in CDBs, cdb' = [cdb EXCEPT ![t] = c],
         cdb[t].pc # "none", c.pc # "none", c.pc \in OpenPcs => Open(t),
         c.file = cdb[t].file, c.alive = cdb[t].alive, UNCHANGED <<useVars, shutdown>>
  PROVE  UseInv'
<1>1. \A u \in Users : cdb'[u] = IF u = t THEN c ELSE cdb[u]
  BY DEF EnvType
<1>2. \A f : Holders(f)' = Holders(f)
  BY <1>1 DEF Holders
<1>3. NoClosedHandleUsed'
  BY <1>1 DEF UseInv, NoClosedHandleUsed, Open, OpenPcs
<1>4. /\ \A f \in DOMAIN mapFileUseCount' : mapFileUseCount'[f] = Cardinality(Holders(f)')
      /\ \A f \in Files \ DOMAIN mapFileUseCount' : Holders(f)' = {}
  BY <1>2 DEF UseInv
<1> QED
  BY <1>1, <1>3, <1>4 DEF UseInv

LEMMA ConstructKeepsUse ==
  ASSUME EnvType, UseInv, NEW t \in Users, NEW f \in Files, NEW ro \in BOOLEAN,
         Construct(t, f, ro)
  PROVE  UseInv'
<1> DEFINE c == [NoCDB EXCEPT !.pc = "open", !.file = f, !.ro = ro]
<1>0. c.pc = "open" /\ c.file = f /\ c.alive
  BY DEF NoCDB
<1>1. /\ cdb[t] = NoCDB /\ fDbEnvInit /\ fDbEnvInit' = fDbEnvInit /\ shutdown' = shutdown
      /\ cdb' = [cdb EXCEPT ![t] = c] /\ mapDb' = [mapDb EXCEPT ![f] = TRUE]
      /\ mapFileUseCount' = CountAt(f, CountOf(f) + 1)
  BY DEF Construct, MayConstruct
<1> HIDE DEF c
<1>2. \A u \in Users : cdb'[u] = IF u = t THEN c ELSE cdb[u]
  BY <1>1 DEF EnvType
<1>3. cdb[t].pc = "none"
  BY <1>1 DEF NoCDB
<1>4. Holders(f)' = Holders(f) \cup {t} /\ t \notin Holders(f)
  BY <1>0, <1>2, <1>3 DEF Holders
<1>5. \A g \in Files \ {f} : Holders(g)' = Holders(g)
  BY <1>0, <1>2, <1>3 DEF Holders
<1>6. CountOf(f) = Cardinality(Holders(f))
  <2>1. CASE f \in DOMAIN mapFileUseCount
    BY <2>1 DEF CountOf, UseInv
  <2>2. CASE f \notin DOMAIN mapFileUseCount
    <3>1. Holders(f) = {} /\ CountOf(f) = 0
      BY <2>2 DEF CountOf, UseInv
    <3> QED
      BY <3>1, FS_EmptySet
  <2> QED
    BY <2>1, <2>2
<1>7. Cardinality(Holders(f)') = CountOf(f) + 1
  <2>1. IsFiniteSet(Holders(f))
    BY HoldersFinite
  <2>2. Cardinality(Holders(f) \cup {t}) = Cardinality(Holders(f)) + 1
    BY <1>4, <2>1, FS_AddElement
  <2> QED
    BY <1>4, <1>6, <2>2
<1>8. /\ DOMAIN mapFileUseCount' = DOMAIN mapFileUseCount \cup {f}
      /\ mapFileUseCount'[f] = CountOf(f) + 1
      /\ \A g \in DOMAIN mapFileUseCount \ {f} : mapFileUseCount'[g] = mapFileUseCount[g]
  BY <1>1 DEF CountAt
<1>9. \A g \in DOMAIN mapFileUseCount' : mapFileUseCount'[g] = Cardinality(Holders(g)')
  BY <1>5, <1>7, <1>8 DEF UseInv, EnvType
<1>10. \A g \in Files \ DOMAIN mapFileUseCount' : Holders(g)' = {}
  BY <1>5, <1>8 DEF UseInv
<1>11. NoClosedHandleUsed'
  BY <1>0, <1>1, <1>2 DEF UseInv, NoClosedHandleUsed, Open, EnvType, CDBs
<1> QED
  BY <1>0, <1>1, <1>2, <1>9, <1>10, <1>11 DEF UseInv

LEMMA ReleaseKeepsUse ==
  ASSUME EnvType, UseInv, NEW t \in Users, ReleaseUse(t)
  PROVE  UseInv'
<1>0. PICK f \in Files : f = cdb[t].file
  BY DEF EnvType, CDBs
<1>1. /\ cdb[t].pc = "closing" /\ UNCHANGED <<fDbEnvInit, shutdown, mapDb>>
      /\ cdb' = [cdb EXCEPT ![t] = NoCDB] /\ mapFileUseCount' = CountAt(f, CountOf(f) - 1)
  BY <1>0 DEF ReleaseUse
<1>2. (\A u \in Users : cdb'[u] = IF u = t THEN NoCDB ELSE cdb[u]) /\ NoCDB.pc = "none"
  BY <1>1 DEF EnvType, NoCDB
<1>3. Holders(f)' = Holders(f) \ {t} /\ t \in Holders(f)
  BY <1>0, <1>1, <1>2 DEF Holders
<1>4. \A g \in Files \ {f} : Holders(g)' = Holders(g)
  BY <1>0, <1>1, <1>2 DEF Holders
<1>5. f \in DOMAIN mapFileUseCount /\ CountOf(f) = Cardinality(Holders(f))
  BY <1>1, <1>3 DEF CountOf, UseInv
<1>6. Cardinality(Holders(f)') = CountOf(f) - 1
  BY <1>3, <1>5, HoldersFinite, FS_RemoveElement
<1>7. /\ DOMAIN mapFileUseCount' = DOMAIN mapFileUseCount
      /\ mapFileUseCount'[f] = CountOf(f) - 1
      /\ \A g \in DOMAIN mapFileUseCount \ {f} : mapFileUseCount'[g] = mapFileUseCount[g]
  BY <1>1, <1>5 DEF CountAt
<1>8. \A g \in DOMAIN mapFileUseCount' : mapFileUseCount'[g] = Cardinality(Holders(g)')
  BY <1>4, <1>6, <1>7 DEF UseInv, EnvType
<1>9. \A g \in Files \ DOMAIN mapFileUseCount' : Holders(g)' = {}
  BY <1>4, <1>5, <1>7 DEF UseInv
<1>10. NoClosedHandleUsed'
  BY <1>1, <1>2 DEF UseInv, NoClosedHandleUsed, Open
<1> QED
  BY <1>1, <1>2, <1>7, <1>8, <1>9, <1>10 DEF UseInv

(* The entry of f gets the value it has, or 0 while nobody holds f. *)
LEMMA EntryKeepsUse ==
  ASSUME EnvType, UseInv, NEW f \in Files, fDbEnvInit, cdb' = cdb,
         UNCHANGED <<fDbEnvInit, shutdown>>,
         \/ mapFileUseCount' = CountAt(f, CountOf(f)) /\ mapDb' = mapDb
         \/ /\ mapFileUseCount' = CountAt(f, 0) /\ Holders(f) = {}
            /\ \A g \in Files \ {f} : mapDb'[g] = mapDb[g]
  PROVE  UseInv'
<1>1. \A g : Holders(g)' = Holders(g)
  BY DEF Holders
<1>2. Holders(f) = {} => Cardinality(Holders(f)) = 0
  BY FS_EmptySet
<1>3. CountOf(f) = Cardinality(Holders(f))
  <2>1. CASE f \in DOMAIN mapFileUseCount
    BY <2>1 DEF CountOf, UseInv
  <2>2. CASE f \notin DOMAIN mapFileUseCount
    BY <1>2, <2>2 DEF CountOf, UseInv
  <2> QED
    BY <2>1, <2>2
<1>4. mapFileUseCount' = CountAt(f, Cardinality(Holders(f)))
  BY <1>2, <1>3
<1>5. /\ DOMAIN mapFileUseCount' = DOMAIN mapFileUseCount \cup {f}
      /\ mapFileUseCount'[f] = Cardinality(Holders(f))
      /\ \A g \in DOMAIN mapFileUseCount \ {f} : mapFileUseCount'[g] = mapFileUseCount[g]
  BY <1>4 DEF CountAt
<1>6. /\ \A g \in DOMAIN mapFileUseCount' : mapFileUseCount'[g] = Cardinality(Holders(g)')
      /\ \A g \in Files \ DOMAIN mapFileUseCount' : Holders(g)' = {}
  BY <1>1, <1>5 DEF UseInv
<1>7. \A t \in Users : Open(t) => mapDb'[cdb[t].file]
  <2> SUFFICES ASSUME NEW t \in Users, Open(t) PROVE mapDb'[cdb[t].file]
    OBVIOUS
  <2>1. mapDb[cdb[t].file] /\ cdb[t].file \in Files
    BY DEF UseInv, NoClosedHandleUsed, EnvType, CDBs
  <2>2. t \in Holders(cdb[t].file)
    BY DEF Holders, Open
  <2> QED
    BY <2>1, <2>2 DEF EnvType
<1>8. NoClosedHandleUsed'
  BY <1>7 DEF UseInv, NoClosedHandleUsed, Open
<1> QED
  BY <1>6, <1>8 DEF UseInv

-----------------------------------------------------------------------------
(* One thread's step on its CDB object, from a to c. *)
OnCDB(t, c) == cdb' = [cdb EXCEPT ![t] = c]

LEMMA InsideSteps ==
  ASSUME EnvType, NEW t \in Users,
         \/ TxnBegin(t) \/ TxnCommit(t) \/ TxnAbort(t) \/ LoadUpdated(t)
         \/ StoreUpdated(t) \/ Write(t) \/ Close(t)
  PROVE  \E c \in CDBs :
           /\ OnCDB(t, c) /\ cdb[t].pc # "none" /\ c.pc # "none" /\ Open(t)
           /\ c.file = cdb[t].file /\ c.alive = cdb[t].alive
           /\ UNCHANGED <<useVars, shutdown, copy, nLastSeen, nLastFlushed, quiet>>
<1> DEFINE a == cdb[t]
<1>0. a \in CDBs /\ written \in Nat /\ nWalletDBUpdated \in Nat /\ cdb \in [Users -> CDBs]
  BY DEF EnvType
<1>1. CASE TxnBegin(t)
  <2> DEFINE c == [a EXCEPT !.txn = TRUE]
  <2>1. c \in CDBs /\ c.pc = a.pc /\ c.file = a.file /\ c.alive = a.alive
    BY <1>0 DEF CDBs
  <2>2. OnCDB(t, c)
    BY <1>0, <1>1 DEF TxnBegin, OnCDB
  <2> QED
    BY <1>1, <2>1, <2>2 DEF TxnBegin, Open
<1>2. CASE TxnCommit(t) \/ TxnAbort(t)
  <2> DEFINE c == [a EXCEPT !.txn = FALSE, !.pending = {}]
  <2>1. c \in CDBs /\ c.pc = a.pc /\ c.file = a.file /\ c.alive = a.alive
    BY <1>0 DEF CDBs
  <2>2. OnCDB(t, c)
    BY <1>0, <1>2 DEF TxnCommit, TxnAbort, OnCDB
  <2> QED
    BY <1>2, <2>1, <2>2 DEF TxnCommit, TxnAbort, Open
<1>3. CASE LoadUpdated(t)
  <2> DEFINE c == [a EXCEPT !.pc = "counting", !.saw = nWalletDBUpdated]
  <2>1. c \in CDBs /\ c.pc = "counting" /\ c.file = a.file /\ c.alive = a.alive
    BY <1>0 DEF CDBs, OpenPcs
  <2>2. OnCDB(t, c)
    BY <1>0, <1>3 DEF LoadUpdated, OnCDB
  <2> QED
    BY <1>3, <2>1, <2>2 DEF LoadUpdated, Open
<1>4. CASE StoreUpdated(t)
  <2> DEFINE c == [a EXCEPT !.pc = "stored", !.saw = 0]
  <2>1. c \in CDBs /\ c.pc = "stored" /\ c.file = a.file /\ c.alive = a.alive
    BY <1>0 DEF CDBs, OpenPcs
  <2>2. OnCDB(t, c)
    BY <1>0, <1>4 DEF StoreUpdated, OnCDB
  <2> QED
    BY <1>4, <2>1, <2>2 DEF StoreUpdated, Open
<1>5. CASE Write(t)
  <2> DEFINE p == IF a.txn THEN a.pending \cup {written + 1} ELSE a.pending
             c == [a EXCEPT !.pc = "open", !.pending = p]
  <2>0. p \in SUBSET Nat /\ cdb' = [cdb EXCEPT ![t].pc = "open", ![t].pending = p]
    BY <1>0, <1>5 DEF CDBs, Write
  <2> HIDE DEF p
  <2>1. c \in CDBs /\ c.pc = "open" /\ c.file = a.file /\ c.alive = a.alive
    BY <1>0, <2>0 DEF CDBs, OpenPcs
  <2>2. OnCDB(t, c)
    BY <1>0, <2>0 DEF OnCDB
  <2> QED
    BY <1>5, <2>1, <2>2 DEF Write, Open
<1>6. CASE Close(t)
  <2> DEFINE c == [a EXCEPT !.pc = "closing", !.txn = FALSE, !.pending = {}]
  <2>1. c \in CDBs /\ c.pc = "closing" /\ c.file = a.file /\ c.alive = a.alive
    BY <1>0 DEF CDBs, OpenPcs
  <2>2. OnCDB(t, c)
    BY <1>0, <1>6 DEF Close, OnCDB
  <2> QED
    BY <1>6, <2>1, <2>2 DEF Close, Open
<1> QED
  BY <1>1, <1>2, <1>3, <1>4, <1>5, <1>6

(* The steps of ThreadFlushWalletDB, BackupWallet, Rewrite and Shutdown    *)
(* that close handles, and the files they close.                           *)
Closes(F) ==
  \/ FlushWallet /\ F = {WalletFile}
  \/ BackupWallet /\ F = {WalletFile}
  \/ (Flush \/ FlushAtShutdown) /\ F = Unused

LEMMA ClosesFree ==
  ASSUME EnvType, UseInv, NEW F, Closes(F)
  PROVE  F \in SUBSET Files /\ FlushFiles(F) /\ \A f \in F : Holders(f) = {}
<1>1. CASE FlushWallet /\ F = {WalletFile}
  <2>1. ~InUse(WalletFile) /\ FlushFiles(F) /\ WalletFile \in Files
    BY <1>1, DbAssumption DEF FlushWallet, AnyInUse
  <2> QED
    BY <1>1, <2>1, FreeFile
<1>2. CASE BackupWallet /\ F = {WalletFile}
  <2>1. ~InUse(WalletFile) /\ FlushFiles(F) /\ WalletFile \in Files
    BY <1>2, DbAssumption DEF BackupWallet, MayFlush
  <2> QED
    BY <1>2, <2>1, FreeFile
<1>3. CASE (Flush \/ FlushAtShutdown) /\ F = Unused
  BY <1>3, UnusedAreFree DEF Flush, FlushAtShutdown
<1> QED
  BY <1>1, <1>2, <1>3 DEF Closes

LEMMA UseStep == EnvType /\ UseInv /\ [Next]_vars => UseInv'
<1> SUFFICES ASSUME EnvType, UseInv, [Next]_vars PROVE UseInv'
  OBVIOUS
<1>1. ASSUME NEW t \in Users, NEW f \in Files, NEW ro \in BOOLEAN, Construct(t, f, ro)
      PROVE  UseInv'
  BY <1>1, ConstructKeepsUse
<1>2. ASSUME NEW t \in Users, NEW f \in Files, ConstructFails(t, f)
      PROVE  UseInv'
  BY <1>2, EntryKeepsUse DEF ConstructFails, MayConstruct
<1>3. ASSUME NEW t \in Users,
             \/ TxnBegin(t) \/ TxnCommit(t) \/ TxnAbort(t) \/ LoadUpdated(t)
             \/ StoreUpdated(t) \/ Write(t) \/ Close(t)
      PROVE  UseInv'
  BY <1>3, InsideSteps, InsideKeepsUse DEF OnCDB
<1>4. ASSUME NEW t \in Users, ReleaseUse(t)
      PROVE  UseInv'
  BY <1>4, ReleaseKeepsUse
<1>5. ASSUME NEW F, Closes(F)
      PROVE  UseInv'
  <2>1. /\ shutdown = "flushed" => shutdown' = "flushed"
        /\ \/ fDbEnvInit' = fDbEnvInit
           \/ /\ fDbEnvInit' = (fDbEnvInit /\ DOMAIN mapFileUseCount' # {})
              /\ shutdown' = "flushed"
    BY <1>5 DEF Closes, FlushWallet, BackupWallet, Flush, FlushAtShutdown
  <2> QED
    BY <1>5, <2>1, ClosesFree, FlushKeepsUse
<1>6. ASSUME NEW f \in Files, Rewrite(f)
      PROVE  UseInv'
  <2>1. Holders(f) = {}
    BY <1>6, FreeFile DEF Rewrite, MayFlush
  <2>2. cdb' = cdb
    BY <1>6, <2>1, CloseFree DEF Rewrite
  <2>3. \A g \in Files \ {f} : mapDb'[g] = mapDb[g]
    BY <1>6 DEF Rewrite, CopyRenamed, CopyFails, RenameFails, EnvType
  <2>4. mapFileUseCount' = CountAt(f, 0) /\ fDbEnvInit /\ UNCHANGED <<fDbEnvInit, shutdown>>
    BY <1>6 DEF Rewrite, MayFlush, countVars
  <2> QED
    BY <2>1, <2>2, <2>3, <2>4, EntryKeepsUse
<1>7. CASE UNCHANGED <<useVars, cdb>> /\ (shutdown = "flushed" => shutdown' = "flushed")
  <2>1. \A f : Holders(f)' = Holders(f)
    BY <1>7 DEF Holders
  <2>2. NoClosedHandleUsed'
    BY <1>7 DEF UseInv, NoClosedHandleUsed, Open
  <2> QED
    BY <1>7, <2>1, <2>2 DEF UseInv
<1>8. CASE Notice \/ TwoSecondsPass \/ RequestShutdown \/ UNCHANGED vars
  BY <1>7, <1>8 DEF Notice, TwoSecondsPass, RequestShutdown, vars
<1> QED
  BY <1>1, <1>2, <1>3, <1>4, <1>5, <1>6, <1>8 DEF Next, Closes

LEMMA EnvTypeStep == EnvType /\ UseInv /\ [Next]_vars => EnvType'
<1> SUFFICES ASSUME EnvType, UseInv, [Next]_vars PROVE EnvType'
  OBVIOUS
<1>1. ASSUME NEW t \in Users, NEW f \in Files, NEW ro \in BOOLEAN, Construct(t, f, ro)
      PROVE  EnvType'
  <2> DEFINE c == [NoCDB EXCEPT !.pc = "open", !.file = f, !.ro = ro]
  <2>1. c \in CDBs
    BY NoCDBType DEF CDBs, OpenPcs
  <2> HIDE DEF c
  <2>2. cdb' \in [Users -> CDBs]
    BY <1>1, <2>1 DEF Construct, EnvType, c
  <2> QED
    BY <1>1, <2>2 DEF Construct, EnvType, CountAt
<1>2. ASSUME NEW t \in Users, NEW f \in Files, ConstructFails(t, f)
      PROVE  EnvType'
  BY <1>2 DEF ConstructFails, EnvType, CountAt
<1>3. ASSUME NEW t \in Users,
             \/ TxnBegin(t) \/ TxnCommit(t) \/ TxnAbort(t) \/ LoadUpdated(t)
             \/ StoreUpdated(t) \/ Write(t) \/ Close(t)
      PROVE  EnvType'
  <2>1. cdb' \in [Users -> CDBs] /\ UNCHANGED <<useVars, shutdown, flushVars>>
    BY <1>3, InsideSteps DEF OnCDB, EnvType
  <2>2. cdb[t].file \in Files /\ cdb[t].saw \in Nat
    BY DEF EnvType, CDBs
  <2>3. /\ cache' \in [Files -> SUBSET Nat] /\ disk' \in [Files -> SUBSET Nat]
        /\ attached' \in [Files -> BOOLEAN] /\ missed' \in BOOLEAN
        /\ written' \in Nat /\ nWalletDBUpdated' \in Nat
    <3>1. CASE TxnBegin(t) \/ TxnCommit(t) \/ LoadUpdated(t) \/ StoreUpdated(t)
      BY <2>2, <3>1 DEF EnvType, TxnBegin, TxnCommit, LoadUpdated, StoreUpdated
    <3>2. CASE TxnAbort(t) \/ Close(t)
      <4>1. AfterAbort(t) \in [Files -> SUBSET Nat]
        BY <2>2 DEF EnvType, AfterAbort
      <4> QED
        BY <3>2, <4>1 DEF EnvType, TxnAbort, Close, AfterAbort
    <3>3. CASE Write(t)
      BY <2>2, <3>3 DEF EnvType, Write
    <3> QED
      BY <1>3, <3>1, <3>2, <3>3
  <2> QED
    BY <2>1, <2>3 DEF EnvType
<1>4. ASSUME NEW t \in Users, ReleaseUse(t)
      PROVE  EnvType'
  <2>1. cdb[t].file \in Files
    BY DEF EnvType, CDBs
  <2> QED
    BY <1>4, <2>1, NoCDBType DEF ReleaseUse, EnvType, CountAt
<1>5. ASSUME NEW F, Closes(F)
      PROVE  EnvType'
  <2>1. F \in SUBSET Files /\ FlushFiles(F) /\ cdb' = cdb
    BY <1>5, ClosesFree, FlushFree
  <2>2. /\ disk' \in [Files -> SUBSET Nat] /\ cache' = cache /\ missed' \in BOOLEAN
        /\ mapDb' \in [Files -> BOOLEAN] /\ attached' \in [Files -> BOOLEAN]
        /\ DOMAIN mapFileUseCount' \subseteq Files
    BY <2>1 DEF FlushFiles, EnvType
  <2>3. /\ fDbEnvInit' \in BOOLEAN /\ UNCHANGED <<written, nWalletDBUpdated, nLastSeen, quiet>>
        /\ nLastFlushed' \in Nat /\ shutdown' \in {"no", "requested", "stopping", "flushed"}
    BY <1>5 DEF Closes, FlushWallet, BackupWallet, Flush, FlushAtShutdown, EnvType
  <2> QED
    BY <2>1, <2>2, <2>3 DEF EnvType
<1>6. ASSUME NEW f \in Files, Rewrite(f)
      PROVE  EnvType'
  <2>1. cdb' = cdb
    BY <1>6, FreeFile, CloseFree DEF Rewrite, MayFlush
  <2>2. /\ mapDb' \in [Files -> BOOLEAN] /\ attached' \in [Files -> BOOLEAN]
        /\ missed' \in BOOLEAN
        /\ cache' \in [Files -> SUBSET Nat] /\ disk' = cache'
    <3>1. CASE CopyRenamed(f)
      BY <3>1 DEF CopyRenamed, EnvType
    <3>2. CASE CopyFails(f)
      BY <3>2, DbAssumption DEF CopyFails, EnvType
    <3>3. CASE RenameFails(f)
      BY <3>3 DEF RenameFails, EnvType
    <3> QED
      BY <1>6, <3>1, <3>2, <3>3 DEF Rewrite
  <2>3. UNCHANGED <<fDbEnvInit, written, nWalletDBUpdated, nLastSeen, nLastFlushed, quiet, shutdown>>
    BY <1>6 DEF Rewrite, countVars, flushVars
  <2>4. DOMAIN mapFileUseCount' \subseteq Files
    BY <1>6 DEF Rewrite, CountAt, EnvType
  <2> QED
    BY <2>1, <2>2, <2>3, <2>4 DEF EnvType
<1>7. CASE Notice \/ TwoSecondsPass \/ RequestShutdown \/ UNCHANGED vars
  BY <1>7 DEF Notice, TwoSecondsPass, RequestShutdown, vars, EnvType
<1> QED
  BY <1>1, <1>2, <1>3, <1>4, <1>5, <1>6, <1>7 DEF Next, Closes

-----------------------------------------------------------------------------
(* What is on disk *)

LEMMA OpenIsCounted ==
  ASSUME EnvType, UseInv, NEW t \in Users, cdb[t].pc # "none"
  PROVE  cdb[t].file \in DOMAIN mapFileUseCount
<1>1. cdb[t].file \in Files /\ t \in Holders(cdb[t].file)
  BY DEF EnvType, CDBs, Holders
<1> QED
  BY <1>1 DEF UseInv

(* A file that nobody holds has no open transaction. *)
LEMMA FreeIsCommitted ==
  ASSUME EnvType, FileInv, NEW f \in Files, Holders(f) = {}
  PROVE  Committed(f) = cache[f]
<1>1. \A t \in Users : cdb[t].file = f => cdb[t].pending = {}
  BY DEF FileInv, Holders, Open
<1>2. UNION {cdb[t].pending : t \in {u \in Users : cdb[u].file = f}} = {}
  BY <1>1
<1> QED
  BY <1>2 DEF Committed

LEMMA SameFilesKept ==
  ASSUME FileInv, DOMAIN mapFileUseCount \subseteq DOMAIN mapFileUseCount',
         UNCHANGED <<cache, disk, attached, written, copy>>,
         \A u \in Users : cdb'[u].pending # {} => Open(u)' /\ attached[cdb'[u].file]
  PROVE  FileInv'
<1>1. \A f \in Files \ DOMAIN mapFileUseCount' : f \in Files \ DOMAIN mapFileUseCount
  OBVIOUS
<1>2. BackupIsWhole'
  BY DEF FileInv, BackupIsWhole
<1> QED
  BY <1>1, <1>2 DEF FileInv

LEMMA FileStep == EnvType /\ UseInv /\ FileInv /\ [Next]_vars => FileInv'
<1> SUFFICES ASSUME EnvType, UseInv, FileInv, [Next]_vars PROVE FileInv'
  OBVIOUS
<1>0. /\ cdb \in [Users -> CDBs] /\ cache \in [Files -> SUBSET Nat] /\ written \in Nat
      /\ disk \in [Files -> SUBSET Nat] /\ attached \in [Files -> BOOLEAN]
      /\ \A t \in Users : cdb[t].file \in Files /\ cdb[t].pending \in SUBSET Nat
  BY DEF EnvType, CDBs
<1>1. ASSUME NEW t \in Users, NEW f \in Files, NEW ro \in BOOLEAN, Construct(t, f, ro)
      PROVE  FileInv'
  <2>1. cdb'[t].pending = {} /\ \A u \in Users \ {t} : cdb'[u] = cdb[u]
    BY <1>0, <1>1 DEF Construct, NoCDB
  <2>2. /\ DOMAIN mapFileUseCount \subseteq DOMAIN mapFileUseCount'
        /\ UNCHANGED <<cache, disk, attached, written, copy>>
    BY <1>1 DEF Construct, CountAt
  <2>3. \A u \in Users : cdb'[u].pending # {} => Open(u)' /\ attached[cdb'[u].file]
    BY <2>1 DEF FileInv, Open
  <2> QED
    BY <2>2, <2>3, SameFilesKept
<1>2. ASSUME NEW t \in Users, NEW f \in Files, ConstructFails(t, f)
      PROVE  FileInv'
  <2>1. /\ DOMAIN mapFileUseCount \subseteq DOMAIN mapFileUseCount'
        /\ UNCHANGED <<cache, disk, attached, written, copy, cdb>>
    BY <1>2 DEF ConstructFails, CountAt
  <2> QED
    BY <2>1, SameFilesKept DEF FileInv, Open
<1>3. ASSUME NEW t \in Users, TxnBegin(t) \/ TxnCommit(t) \/ LoadUpdated(t) \/ StoreUpdated(t)
      PROVE  FileInv'
  <2>1. /\ UNCHANGED <<cache, disk, attached, written, copy, mapFileUseCount>>
        /\ \A u \in Users \ {t} : cdb'[u] = cdb[u]
        /\ cdb'[t].file = cdb[t].file /\ cdb'[t].pending \in {cdb[t].pending, {}}
        /\ cdb'[t].pc \in OpenPcs
    BY <1>0, <1>3 DEF TxnBegin, TxnCommit, LoadUpdated, StoreUpdated, OpenPcs, CDBs
  <2>2. \A u \in Users : cdb'[u].pending # {} => Open(u)' /\ attached[cdb'[u].file]
    BY <2>1 DEF FileInv, Open, OpenPcs
  <2> QED
    BY <2>1, <2>2, SameFilesKept
<1>4. ASSUME NEW t \in Users, TxnAbort(t) \/ Close(t)
      PROVE  FileInv'
  <2> DEFINE f == cdb[t].file
  <2>1. /\ UNCHANGED <<attached, written, copy, mapFileUseCount>>
        /\ cache' = [cache EXCEPT ![f] = @ \ cdb[t].pending]
        /\ disk' = cache' \/ disk' = disk
        /\ \A u \in Users \ {t} : cdb'[u] = cdb[u]
        /\ cdb'[t].pending = {}
        /\ cdb[t].pc = "open"
    <3>1. CASE TxnAbort(t)
      BY <1>0, <3>1 DEF TxnAbort, CDBs
    <3>2. CASE Close(t)
      <4>1. /\ cdb[t].pc = "open" /\ cache' = AfterAbort(t)
            /\ disk' = AfterAbort(t) \/ disk' = disk
            /\ UNCHANGED <<attached, written, copy, mapFileUseCount>>
        BY <3>2 DEF Close
      <4>2. \A u \in Users \ {t} : cdb'[u] = cdb[u]
        BY <1>0, <3>2 DEF Close
      <4>3. cdb'[t].pending = {}
        BY <1>0, <3>2 DEF Close, CDBs
      <4> QED
        BY <4>1, <4>2, <4>3 DEF AfterAbort
    <3> QED
      BY <1>4, <3>1, <3>2
  <2>2. \A u \in Users : cdb'[u].pending # {} => Open(u)' /\ attached'[cdb'[u].file]
    BY <2>1 DEF FileInv, Open
  <2>3. f \in DOMAIN mapFileUseCount /\ f \in Files
    BY <1>0, <2>1, OpenIsCounted
  <2>4. ~attached[f] => cdb[t].pending = {}
    BY DEF FileInv
  <2> HIDE DEF f
  <2>5. \A g \in Files : cache'[g] = IF g = f THEN cache[g] \ cdb[t].pending ELSE cache[g]
    BY <1>0, <2>1
  <2>6. \A g \in Files : cache'[g] \subseteq cache[g] /\ (~attached[g] => cache'[g] = cache[g])
    BY <2>4, <2>5
  <2>7. \A g \in Files \ DOMAIN mapFileUseCount : cache'[g] = cache[g]
    BY <2>3, <2>5
  <2>8. BackupIsWhole'
    BY <2>1 DEF FileInv, BackupIsWhole
  <2>9. CASE disk' = cache'
    BY <2>1, <2>2, <2>6, <2>7, <2>8, <2>9 DEF FileInv
  <2>10. CASE disk' = disk
    BY <2>1, <2>2, <2>6, <2>7, <2>8, <2>10 DEF FileInv
  <2> QED
    BY <2>1, <2>9, <2>10
<1>5. ASSUME NEW t \in Users, Write(t)
      PROVE  FileInv'
  <2> DEFINE f == cdb[t].file
  <2>1. /\ UNCHANGED <<disk, copy, mapFileUseCount>> /\ written' = written + 1
        /\ cache' = [cache EXCEPT ![f] = @ \cup {written + 1}]
        /\ attached' = [attached EXCEPT ![f] = TRUE]
        /\ \A u \in Users \ {t} : cdb'[u] = cdb[u]
        /\ cdb'[t].file = f /\ cdb'[t].pc = "open"
        /\ cdb[t].pc # "none"
    BY <1>0, <1>5 DEF Write, CDBs
  <2>2. f \in DOMAIN mapFileUseCount /\ f \in Files
    BY <1>0, <2>1, OpenIsCounted
  <2>3. \A u \in Users : cdb'[u].pending # {} => Open(u)' /\ attached'[cdb'[u].file]
    BY <1>0, <2>1, <2>2 DEF FileInv, Open
  <2> HIDE DEF f
  <2>4. \A g \in Files : /\ cache'[g] = IF g = f THEN cache[g] \cup {written + 1} ELSE cache[g]
                         /\ attached'[g] = (g = f \/ attached[g])
    BY <1>0, <2>1
  <2>5. 1 .. written \subseteq 1 .. written' /\ written + 1 \in 1 .. written'
    BY <1>0, <2>1
  <2>6. \A g \in Files : cache'[g] \cup disk'[g] \subseteq 1 .. written'
    BY <2>1, <2>4, <2>5 DEF FileInv
  <2>7. BackupIsWhole'
    BY <2>1 DEF FileInv, BackupIsWhole
  <2> QED
    BY <2>1, <2>2, <2>3, <2>4, <2>6, <2>7 DEF FileInv
<1>6. ASSUME NEW t \in Users, ReleaseUse(t)
      PROVE  FileInv'
  <2>1. /\ cdb'[t].pending = {} /\ \A u \in Users \ {t} : cdb'[u] = cdb[u]
        /\ DOMAIN mapFileUseCount \subseteq DOMAIN mapFileUseCount'
        /\ UNCHANGED <<cache, disk, attached, written, copy>>
    BY <1>0, <1>6 DEF ReleaseUse, NoCDB, CountAt
  <2>2. \A u \in Users : cdb'[u].pending # {} => Open(u)' /\ attached[cdb'[u].file]
    BY <2>1 DEF FileInv, Open
  <2> QED
    BY <2>1, <2>2, SameFilesKept
<1>7. ASSUME NEW F, Closes(F)
      PROVE  FileInv'
  <2>1. /\ F \in SUBSET Files /\ FlushFiles(F) /\ cdb' = cdb /\ cache' = cache
        /\ \A f \in F : Holders(f) = {}
        /\ DOMAIN mapFileUseCount' = DOMAIN mapFileUseCount \ F
        /\ \A t \in Users : Open(t) => cdb[t].file \notin F
    BY <1>7, ClosesFree, FlushFree
  <2>2. /\ disk' = IF F = {} THEN disk ELSE cache
        /\ \A f \in Files : attached'[f] <=>
             attached[f] /\ ~(f \in F /\ (f \notin ChainFiles \/ fDetachDB))
    BY <2>1 DEF FlushFiles
  <2>3. written' = written
    BY <1>7 DEF Closes, FlushWallet, BackupWallet, Flush, FlushAtShutdown
  <2>4. \A u \in Users : cdb'[u].pending # {} => Open(u)' /\ attached'[cdb'[u].file]
    BY <1>0, <2>1, <2>2 DEF FileInv, Open
  <2>5. BackupIsWhole'
    <3>1. CASE BackupWallet
      <4>1. /\ copy' = [has |-> disk'[WalletFile], due |-> Committed(WalletFile),
                        attached |-> attached'[WalletFile]]
            /\ F = {WalletFile} /\ WalletFile \in Files \ ChainFiles
        BY <1>7, <3>1, DbAssumption, <2>1 DEF BackupWallet, Closes, FlushWallet, Flush,
           FlushAtShutdown, MayFlush, fShutdown
      <4>2. Committed(WalletFile) = cache[WalletFile]
        BY <2>1, <4>1, FreeIsCommitted
      <4> QED
        BY <2>2, <4>1, <4>2 DEF BackupIsWhole
    <3>2. CASE FlushWallet \/ Flush \/ FlushAtShutdown
      BY <3>2 DEF FlushWallet, Flush, FlushAtShutdown, FileInv, BackupIsWhole
    <3> QED
      BY <1>7, <3>1, <3>2 DEF Closes
  <2>6. CASE F = {}
    BY <2>1, <2>2, <2>3, <2>4, <2>5, <2>6 DEF FileInv
  <2>7. CASE F # {}
    <3>1. disk' = cache'
      BY <2>1, <2>2, <2>7
    <3>2. \A f \in Files : cache'[f] \cup disk'[f] \subseteq 1 .. written'
      BY <2>1, <2>3, <3>1 DEF FileInv
    <3>3. \A f \in Files \ DOMAIN mapFileUseCount' :
             f \notin ChainFiles \/ fDetachDB => ~attached'[f]
      BY <2>1, <2>2 DEF FileInv
    <3> QED
      BY <2>4, <2>5, <3>1, <3>2, <3>3 DEF FileInv
  <2> QED
    BY <2>6, <2>7
<1>8. ASSUME NEW f \in Files, Rewrite(f)
      PROVE  FileInv'
  <2>1. cdb' = cdb /\ Holders(f) = {}
    BY <1>8, FreeFile, CloseFree DEF Rewrite, MayFlush
  <2>2. /\ disk' = cache' /\ written' = written /\ copy' = copy
        /\ DOMAIN mapFileUseCount' = DOMAIN mapFileUseCount \cup {f}
        /\ \A g \in Files : cache'[g] \subseteq cache[g]
        /\ \A g \in Files \ {f} : attached'[g] = attached[g]
    BY <1>0, <1>8 DEF Rewrite, CopyRenamed, CopyFails, RenameFails, CountAt, countVars
  <2>3. \A u \in Users : cdb'[u].pending # {} => Open(u)' /\ attached'[cdb'[u].file]
    <3> SUFFICES ASSUME NEW u \in Users, cdb'[u].pending # {}
                 PROVE  Open(u)' /\ attached'[cdb'[u].file]
      OBVIOUS
    <3>1. Open(u) /\ attached[cdb[u].file] /\ cdb[u].file \in Files
      BY <1>0, <2>1 DEF FileInv, CDBs
    <3>2. cdb[u].file # f
      BY <2>1, <3>1 DEF Holders, Open
    <3> QED
      BY <2>1, <2>2, <3>1, <3>2 DEF Open
  <2>4. BackupIsWhole'
    BY <2>2 DEF FileInv, BackupIsWhole
  <2>5. \A g \in Files \ DOMAIN mapFileUseCount' :
           cache'[g] = disk'[g] /\ (g \notin ChainFiles \/ fDetachDB => ~attached'[g])
    BY <2>2 DEF FileInv
  <2> QED
    BY <1>0, <2>2, <2>3, <2>4, <2>5 DEF FileInv
<1>9. CASE UNCHANGED <<cache, disk, attached, written, copy, cdb, mapFileUseCount>>
  BY <1>9, SameFilesKept DEF FileInv, Open
<1>10. CASE Notice \/ TwoSecondsPass \/ RequestShutdown \/ UNCHANGED vars
  BY <1>9, <1>10 DEF Notice, TwoSecondsPass, RequestShutdown, vars
<1> QED
  BY <1>1, <1>2, <1>3, <1>4, <1>5, <1>6, <1>7, <1>8, <1>10 DEF Next, Closes

-----------------------------------------------------------------------------
(* The counter of the flush thread *)

LEMMA CountStep == EnvType /\ UseInv /\ CountInv /\ [Next]_vars => CountInv'
<1> SUFFICES ASSUME EnvType, UseInv, CountInv, [Next]_vars PROVE CountInv'
  OBVIOUS
<1>0. /\ cdb \in [Users -> CDBs] /\ nWalletDBUpdated \in Nat /\ nLastFlushed \in Nat
      /\ attached \in [Files -> BOOLEAN] /\ WalletFile \in Files
      /\ \A t \in Users : cdb[t].file \in Files /\ cdb[t].saw \in Nat
  BY DbAssumption DEF EnvType, CDBs
<1>1. ASSUME UNCHANGED <<nWalletDBUpdated, nLastFlushed>>,
             attached'[WalletFile] /\ ~missed' => attached[WalletFile] /\ ~missed,
             \A u \in Users : cdb'[u] = cdb[u] \/ cdb'[u].pc \notin {"counting", "stored"}
      PROVE  CountInv'
  BY <1>1 DEF CountInv, Counts
<1>2. ASSUME NEW t \in Users, NEW f \in Files, NEW ro \in BOOLEAN, Construct(t, f, ro)
      PROVE  CountInv'
  <2>1. cdb'[t].pc = "open" /\ \A u \in Users \ {t} : cdb'[u] = cdb[u]
    BY <1>0, <1>2 DEF Construct, NoCDB
  <2> QED
    BY <1>1, <1>2, <2>1 DEF Construct
<1>3. ASSUME NEW t \in Users, NEW f \in Files, ConstructFails(t, f)
      PROVE  CountInv'
  BY <1>1, <1>3 DEF ConstructFails
<1>4. ASSUME NEW t \in Users, TxnBegin(t) \/ TxnCommit(t) \/ TxnAbort(t) \/ Close(t)
      PROVE  CountInv'
  <2>1. /\ cdb'[t].pc \in {"open", "closing"}
        /\ \A u \in Users \ {t} : cdb'[u] = cdb[u]
    BY <1>0, <1>4 DEF TxnBegin, TxnCommit, TxnAbort, Close, CDBs
  <2>2. UNCHANGED <<nWalletDBUpdated, nLastFlushed, attached, missed>>
    BY <1>4 DEF TxnBegin, TxnCommit, TxnAbort, Close
  <2> QED
    BY <1>1, <2>1, <2>2
<1>5. ASSUME NEW t \in Users, LoadUpdated(t)
      PROVE  CountInv'
  <2>1. /\ cdb'[t].pc = "counting" /\ cdb'[t].saw = nWalletDBUpdated
        /\ cdb'[t].file = cdb[t].file /\ Counts(t)
        /\ \A u \in Users \ {t} : cdb'[u] = cdb[u]
    BY <1>0, <1>5 DEF LoadUpdated, CDBs
  <2>2. UNCHANGED <<nWalletDBUpdated, nLastFlushed, attached, missed>>
    BY <1>5 DEF LoadUpdated
  <2> QED
    BY <2>1, <2>2 DEF CountInv, Counts
<1>6. ASSUME NEW t \in Users, StoreUpdated(t)
      PROVE  CountInv'
  <2>1. /\ cdb'[t].pc = "stored" /\ cdb[t].pc = "counting" /\ cdb'[t].file = cdb[t].file
        /\ \A u \in Users \ {t} : cdb'[u] = cdb[u]
    BY <1>0, <1>6 DEF StoreUpdated, CDBs
  <2>2. nWalletDBUpdated' = cdb[t].saw + 1 /\ UNCHANGED <<nLastFlushed, attached, missed>>
    BY <1>6 DEF StoreUpdated
  <2>3. nLastFlushed' < nWalletDBUpdated' /\ nLastFlushed' <= nWalletDBUpdated'
    BY <1>0, <2>1, <2>2 DEF CountInv
  <2>4. \A u \in Users : cdb'[u].pc \in {"counting", "stored"} => Counts(u)'
    BY <2>1 DEF CountInv, Counts
  <2>5. \A u \in Users : cdb'[u].pc = "counting" => nLastFlushed' <= cdb'[u].saw
    BY <2>1, <2>2 DEF CountInv
  <2> QED
    BY <2>3, <2>4, <2>5 DEF CountInv
<1>7. ASSUME NEW t \in Users, Write(t)
      PROVE  CountInv'
  <2>1. /\ cdb'[t].pc = "open" /\ \A u \in Users \ {t} : cdb'[u] = cdb[u]
        /\ attached' = [attached EXCEPT ![cdb[t].file] = TRUE]
        /\ missed' = (missed \/ (cdb[t].file = WalletFile /\ t \in Uncounted))
        /\ UNCHANGED <<nWalletDBUpdated, nLastFlushed>>
        /\ cdb[t].pc = "stored" \/ ~Counts(t)
    BY <1>0, <1>7 DEF Write, CDBs
  <2>2. attached'[WalletFile] /\ ~missed' => nLastFlushed' < nWalletDBUpdated'
    BY <1>0, <2>1 DEF CountInv, Counts
  <2>3. \A u \in Users : cdb'[u] = cdb[u] \/ cdb'[u].pc \notin {"counting", "stored"}
    BY <2>1
  <2> QED
    BY <2>1, <2>2, <2>3 DEF CountInv, Counts
<1>8. ASSUME NEW t \in Users, ReleaseUse(t)
      PROVE  CountInv'
  <2>1. cdb'[t].pc = "none" /\ \A u \in Users \ {t} : cdb'[u] = cdb[u]
    BY <1>0, <1>8 DEF ReleaseUse, NoCDB
  <2> QED
    BY <1>1, <1>8, <2>1 DEF ReleaseUse
<1>9. CASE FlushWallet
  <2>1. FlushFiles({WalletFile}) /\ cdb' = cdb
    BY <1>9, ClosesFree, FlushFree DEF Closes, FlushWallet
  <2>2. ~attached'[WalletFile]
    BY <2>1, DbAssumption DEF FlushFiles
  <2>3. nLastFlushed' = nWalletDBUpdated /\ nWalletDBUpdated' = nWalletDBUpdated /\ ~AnyInUse
    BY <1>9 DEF FlushWallet
  <2>4. \A t \in Users : cdb[t].pc = "none"
    <3> SUFFICES ASSUME NEW t \in Users, cdb[t].pc # "none" PROVE FALSE
      OBVIOUS
    <3>1. cdb[t].file \in DOMAIN mapFileUseCount /\ t \in Holders(cdb[t].file)
      BY OpenIsCounted DEF Holders
    <3>2. ~InUse(cdb[t].file)
      BY <2>3, <3>1 DEF AnyInUse
    <3> QED
      BY <1>0, <3>1, <3>2, FreeFile
  <2> QED
    BY <1>0, <2>1, <2>2, <2>3, <2>4 DEF CountInv
<1>10. CASE BackupWallet \/ Flush \/ FlushAtShutdown
  <2>1. PICK F : Closes(F)
    BY <1>10 DEF Closes
  <2>2. FlushFiles(F) /\ cdb' = cdb
    BY <2>1, ClosesFree, FlushFree
  <2>3. attached'[WalletFile] /\ ~missed' => attached[WalletFile] /\ ~missed
    BY <1>0, <2>2, DbAssumption DEF FlushFiles
  <2> QED
    BY <1>1, <1>10, <2>2, <2>3 DEF BackupWallet, Flush, FlushAtShutdown
<1>11. ASSUME NEW f \in Files, Rewrite(f)
       PROVE  CountInv'
  <2>1. cdb' = cdb
    BY <1>11, FreeFile, CloseFree DEF Rewrite, MayFlush
  <2>2. attached'[WalletFile] /\ ~missed' => attached[WalletFile] /\ ~missed
    <3>1. CASE CopyRenamed(f)
      BY <1>0, <3>1 DEF CopyRenamed
    <3>2. CASE CopyFails(f) \/ RenameFails(f)
      BY <1>0, <3>2, DbAssumption DEF CopyFails, RenameFails
    <3> QED
      BY <1>11, <3>1, <3>2 DEF Rewrite
  <2> QED
    BY <1>1, <1>11, <2>1, <2>2 DEF Rewrite, countVars, flushVars
<1>12. CASE Notice \/ TwoSecondsPass \/ RequestShutdown \/ UNCHANGED vars
  BY <1>1, <1>12 DEF Notice, TwoSecondsPass, RequestShutdown, vars
<1> QED
  BY <1>2, <1>3, <1>4, <1>5, <1>6, <1>7, <1>8, <1>9, <1>10, <1>11, <1>12 DEF Next

-----------------------------------------------------------------------------
LEMMA EnvInit == Init => EnvInv
<1> SUFFICES ASSUME Init PROVE EnvInv
  OBVIOUS
<1>1. \A t \in Users : cdb[t] = NoCDB
  BY DEF Init
<1>2. NoCDB.pc = "none" /\ NoCDB.pending = {}
  BY DEF NoCDB
<1>3. DOMAIN mapFileUseCount = {}
  BY DEF Init
<1>4. EnvType
  BY <1>3, NoCDBType DEF Init, EnvType
<1>5. UseInv
  BY <1>1, <1>2, <1>3 DEF Init, UseInv, Holders, NoClosedHandleUsed, Open
<1>6. FileInv
  BY <1>1, <1>2 DEF Init, FileInv, BackupIsWhole
<1>7. CountInv
  BY <1>1, <1>2, DbAssumption DEF Init, CountInv
<1> QED
  BY <1>4, <1>5, <1>6, <1>7 DEF EnvInv

LEMMA EnvInvariant == Spec => []EnvInv
<1>1. EnvInv /\ [Next]_vars => EnvInv'
  BY EnvTypeStep, UseStep, FileStep, CountStep DEF EnvInv
<1> QED
  BY <1>1, EnvInit, PTL DEF Spec

(* The use counts are exact and no CDB works through a closed handle, for  *)
(* any number of threads that open, write, abort and close while the flush *)
(* thread, backups, rewrites and the shutdown close files (CDB, CDBEnv).   *)
THEOREM HandlesAlwaysProtected == Spec => []HandlesProtected
<1>1. EnvInv => HandlesProtected
  <2> SUFFICES ASSUME EnvInv PROVE HandlesProtected
    OBVIOUS
  <2>1. TypeOK
    BY DEF EnvInv, EnvType, UseInv, FileInv, TypeOK, Holders, CDBs, OpenPcs
  <2> QED
    BY <2>1 DEF EnvInv, UseInv, HandlesProtected
<1> QED
  BY <1>1, EnvInvariant, PTL

(* Backups, a closed environment and a wallet.dat that the flush thread    *)
(* holds to be up to date have every finished write they should have, and  *)
(* need no log (BackupWallet, CDBEnv::Flush, ThreadFlushWalletDB).         *)
THEOREM FilesAlwaysWhole == Spec => []FilesAreWhole
<1>1. EnvInv => FilesAreWhole
  <2> SUFFICES ASSUME EnvInv PROVE FilesAreWhole
    OBVIOUS
  <2>0. EnvType /\ UseInv /\ FileInv /\ CountInv
    BY DEF EnvInv
  <2>1. CleanWhenClosed
    <3> SUFFICES ASSUME ~fDbEnvInit, NEW f \in Files
                 PROVE  /\ disk[f] = cache[f] /\ disk[f] = Committed(f)
                        /\ f \notin ChainFiles \/ fDetachDB => ~attached[f]
      BY DEF CleanWhenClosed
    <3>1. f \in Files \ DOMAIN mapFileUseCount
      BY <2>0 DEF UseInv
    <3>2. Holders(f) = {}
      BY <2>0, <3>1 DEF UseInv
    <3> QED
      BY <2>0, <3>1, <3>2, FreeIsCommitted DEF FileInv
  <2>2. UpToDateMeansFlushed
    <3> SUFFICES ASSUME nLastFlushed = nWalletDBUpdated, ~InUse(WalletFile), ~missed
                 PROVE  SelfContained(WalletFile)
      BY DEF UpToDateMeansFlushed
    <3>1. ~attached[WalletFile] /\ WalletFile \in Files
      BY <2>0, DbAssumption DEF CountInv, EnvType
    <3>2. Committed(WalletFile) = cache[WalletFile]
      BY <2>0, <3>1, FreeFile, FreeIsCommitted
    <3> QED
      BY <2>0, <3>1, <3>2 DEF FileInv, SelfContained
  <2> QED
    BY <2>0, <2>1, <2>2 DEF FileInv, FilesAreWhole
<1> QED
  BY <1>1, EnvInvariant, PTL
=============================================================================
