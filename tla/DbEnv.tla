------------------------------- MODULE DbEnv -------------------------------
(***************************************************************************)
(* The Berkeley DB environment bitdb and the threads that share it: CDB      *)
(* objects that count themselves in mapFileUseCount, the thread that         *)
(* flushes wallet.dat, BackupWallet, CDB::Rewrite and Shutdown.              *)
(*                                                                          *)
(* What is written under bitdb.cs_db is one action.  A file is its pages in  *)
(* the shared cache, its pages on disk and whether those still refer to the  *)
(* log; a write is a number.  As Berkeley DB does, a checkpoint brings every *)
(* page of the cache to disk, those of an open transaction included.         *)
(***************************************************************************)
EXTENDS Integers, FiniteSets

CONSTANTS
  Users,        \* threads that use the databases
  Uncounted,    \* those whose writes leave nWalletDBUpdated alone: votes, accounts
  WaitedFor,    \* those StopNode waits for without a limit: messages and RPC
  Files,
  WalletFile,   \* wallet.dat
  ChainFiles,   \* IsChainFile
  Rewritten,    \* the files that are rewritten: wallet.dat by encryptwallet
  fDetachDB,    \* the option -detachdb
  MaxWrites,    \* writes of a behaviour (bound)
  MaxOpens      \* CDB objects of a behaviour (bound)

ASSUME DbAssumption ==
  /\ WalletFile \in Files \ ChainFiles /\ ChainFiles \subseteq Files
  /\ Uncounted \subseteq Users /\ WaitedFor \subseteq Users /\ Rewritten \subseteq Files
  /\ IsFiniteSet(Users)
  /\ fDetachDB \in BOOLEAN /\ MaxWrites \in Nat /\ MaxOpens \in Nat

VARIABLES
  fDbEnvInit,       \* the environment is open
  mapFileUseCount,  \* a function on the files that have an entry
  mapDb,            \* mapDb[f]: a handle of f is open
  cdb,              \* cdb[t]: the CDB object of t
  cache, disk,      \* cache[f], disk[f]: the writes whose pages are there
  attached,         \* the pages of f on disk refer to the log
  written, opens,   \* counts for the bounds; written also numbers the writes
  nWalletDBUpdated, \* the counter of the wallet's writes
  nLastSeen, nLastFlushed, quiet,  \* ThreadFlushWalletDB; quiet: 2 seconds are over
  missed,           \* history: wallet.dat was written or rewritten without
                    \* counting since it was last flushed
  copy,             \* the last backup: what it holds and what it should hold
  shutdown          \* how far Shutdown is

fileVars == <<cache, disk, attached, missed>>
flushVars == <<nLastSeen, nLastFlushed, quiet>>
useVars == <<fDbEnvInit, mapFileUseCount, mapDb>>
countVars == <<written, opens, nWalletDBUpdated>>
vars == <<useVars, cdb, fileVars, countVars, flushVars, copy, shutdown>>

fShutdown == shutdown # "no"

-----------------------------------------------------------------------------
(* CDB objects.  alive is FALSE once the handle behind pdb was closed.      *)

NoCDB == [pc |-> "none", file |-> WalletFile, alive |-> TRUE, ro |-> FALSE,
          txn |-> FALSE, pending |-> {}, saw |-> 0]

Open(t) == cdb[t].pc \in {"open", "counting", "stored"}
InUse(f) == f \in DOMAIN mapFileUseCount /\ mapFileUseCount[f] # 0

\* Writes that are not part of an open transaction.
Committed(f) == cache[f] \ UNION {cdb[t].pending : t \in {u \in Users : cdb[u].file = f}}

Init ==
  /\ fDbEnvInit = TRUE /\ mapFileUseCount = [f \in {} |-> 0]
  /\ mapDb = [f \in Files |-> FALSE] /\ cdb = [t \in Users |-> NoCDB]
  /\ cache = [f \in Files |-> {}] /\ disk = cache
  /\ attached = [f \in Files |-> FALSE] /\ missed = FALSE
  /\ written = 0 /\ opens = 0
  /\ nWalletDBUpdated = 0 /\ nLastSeen = 0 /\ nLastFlushed = 0 /\ quiet = TRUE
  /\ copy = [has |-> {}, due |-> {}, attached |-> FALSE]
  /\ shutdown = "no"

\* The use count with f at n; the code's mapFileUseCount[f] makes the entry.
CountAt(f, n) ==
  [g \in DOMAIN mapFileUseCount \cup {f} |-> IF g = f THEN n ELSE mapFileUseCount[g]]
CountOf(f) == IF f \in DOMAIN mapFileUseCount THEN mapFileUseCount[f] ELSE 0

\* A CDB may be made; CDBEnv::Open refuses once the environment is closed.
MayConstruct(t) ==
  /\ cdb[t] = NoCDB /\ opens < MaxOpens /\ fDbEnvInit
  /\ t \in WaitedFor => shutdown # "flushed"

Construct(t, f, ro) ==
  /\ MayConstruct(t)
  /\ mapFileUseCount' = CountAt(f, CountOf(f) + 1)
  /\ mapDb' = [mapDb EXCEPT ![f] = TRUE]
  /\ cdb' = [cdb EXCEPT ![t] = [NoCDB EXCEPT !.pc = "open", !.file = f, !.ro = ro]]
  /\ opens' = opens + 1
  /\ UNCHANGED <<fDbEnvInit, fileVars, written, nWalletDBUpdated, flushVars, copy, shutdown>>

\* The file cannot be opened: the count is taken back, its entry stays.
ConstructFails(t, f) ==
  /\ MayConstruct(t) /\ ~mapDb[f]
  /\ mapFileUseCount' = CountAt(f, CountOf(f))
  /\ opens' = opens + 1
  /\ UNCHANGED <<fDbEnvInit, mapDb, cdb, fileVars, written, nWalletDBUpdated, flushVars, copy, shutdown>>

TxnBegin(t) ==
  /\ cdb[t].pc = "open" /\ ~cdb[t].txn /\ ~cdb[t].ro
  /\ cdb' = [cdb EXCEPT ![t].txn = TRUE]
  /\ UNCHANGED <<useVars, fileVars, countVars, flushVars, copy, shutdown>>

TxnCommit(t) ==
  /\ cdb[t].pc = "open" /\ cdb[t].txn
  /\ cdb' = [cdb EXCEPT ![t].txn = FALSE, ![t].pending = {}]
  /\ UNCHANGED <<useVars, fileVars, countVars, flushVars, copy, shutdown>>

TxnAbort(t) ==
  /\ cdb[t].pc = "open" /\ cdb[t].txn
  /\ cdb' = [cdb EXCEPT ![t].txn = FALSE, ![t].pending = {}]
  /\ cache' = [cache EXCEPT ![cdb[t].file] = @ \ cdb[t].pending]
  /\ UNCHANGED <<useVars, disk, attached, missed, countVars, flushVars, copy, shutdown>>

Counts(t) == cdb[t].file = WalletFile /\ t \notin Uncounted

\* nWalletDBUpdated++ is a load and a store, and no lock is common to all
\* writers of the wallet.
LoadUpdated(t) ==
  /\ cdb[t].pc = "open" /\ Counts(t) /\ ~cdb[t].ro /\ written < MaxWrites
  /\ cdb' = [cdb EXCEPT ![t].pc = "counting", ![t].saw = nWalletDBUpdated]
  /\ UNCHANGED <<useVars, fileVars, countVars, flushVars, copy, shutdown>>

StoreUpdated(t) ==
  /\ cdb[t].pc = "counting"
  /\ nWalletDBUpdated' = cdb[t].saw + 1
  /\ cdb' = [cdb EXCEPT ![t].pc = "stored", ![t].saw = 0]
  /\ UNCHANGED <<useVars, fileVars, written, opens, flushVars, copy, shutdown>>

\* CDB::Write and CDB::Erase, in the transaction if there is one.
Write(t) ==
  /\ \/ cdb[t].pc = "stored"
     \/ cdb[t].pc = "open" /\ ~Counts(t) /\ ~cdb[t].ro /\ written < MaxWrites
  /\ LET f == cdb[t].file IN
     /\ cache' = [cache EXCEPT ![f] = @ \cup {written + 1}]
     /\ attached' = [attached EXCEPT ![f] = TRUE]
     /\ cdb' = [cdb EXCEPT ![t].pc = "open",
                           ![t].pending = IF cdb[t].txn THEN @ \cup {written + 1} ELSE @]
     /\ missed' = (missed \/ (f = WalletFile /\ t \in Uncounted))
  /\ written' = written + 1
  /\ UNCHANGED <<useVars, disk, opens, nWalletDBUpdated, flushVars, copy, shutdown>>

\* CDB::Close up to its lock: an open transaction is aborted, and the
\* checkpoint of a read-only CDB or of a chain file may be put off.
AfterAbort(t) == [cache EXCEPT ![cdb[t].file] = @ \ cdb[t].pending]

Close(t) ==
  /\ cdb[t].pc = "open"
  /\ cdb' = [cdb EXCEPT ![t] = [@ EXCEPT !.pc = "closing", !.txn = FALSE, !.pending = {}]]
  /\ cache' = AfterAbort(t)
  /\ \/ disk' = AfterAbort(t)
     \/ (cdb[t].ro \/ cdb[t].file \in ChainFiles) /\ UNCHANGED disk
  /\ UNCHANGED <<useVars, attached, missed, countVars, flushVars, copy, shutdown>>

\* Its last lines, under cs_db.
ReleaseUse(t) ==
  /\ cdb[t].pc = "closing"
  /\ mapFileUseCount' = CountAt(cdb[t].file, CountOf(cdb[t].file) - 1)
  /\ cdb' = [cdb EXCEPT ![t] = NoCDB]
  /\ UNCHANGED <<fDbEnvInit, mapDb, fileVars, countVars, flushVars, copy, shutdown>>

-----------------------------------------------------------------------------
(* Closing files.  A handle that is closed takes the pdb of every CDB that   *)
(* still points to it.                                                      *)

CDBsWithout(F) ==
  [t \in Users |-> IF Open(t) /\ cdb[t].file \in F THEN [cdb[t] EXCEPT !.alive = FALSE] ELSE cdb[t]]

\* Mutated form: lsn_reset is forgotten.
FlushWithoutReset(F) ==
  /\ mapDb' = [f \in Files |-> mapDb[f] /\ f \notin F]
  /\ cdb' = CDBsWithout(F)
  /\ disk' = [f \in Files |-> IF f \in F THEN cache[f] ELSE disk[f]]
  /\ mapFileUseCount' = [f \in DOMAIN mapFileUseCount \ F |-> mapFileUseCount[f]]
  /\ missed' = (missed /\ WalletFile \notin F)
  /\ UNCHANGED <<cache, attached>>

\* CloseDb, a checkpoint, lsn_reset for those of F that are detached, and the
\* entries of F erased.
FlushFiles(F) ==
  /\ mapDb' = [f \in Files |-> mapDb[f] /\ f \notin F]
  /\ cdb' = CDBsWithout(F)
  /\ disk' = IF F = {} THEN disk ELSE cache
  /\ attached' = [f \in Files |-> attached[f]
                    /\ ~(f \in F /\ (f \notin ChainFiles \/ fDetachDB))]
  /\ mapFileUseCount' = [f \in DOMAIN mapFileUseCount \ F |-> mapFileUseCount[f]]
  /\ missed' = (missed /\ WalletFile \notin F)
  /\ UNCHANGED cache

Unused == {f \in DOMAIN mapFileUseCount : mapFileUseCount[f] = 0}

-----------------------------------------------------------------------------
(* ThreadFlushWalletDB: a turn of its loop.                                 *)

AnyInUse == \E f \in DOMAIN mapFileUseCount : InUse(f)

Notice ==
  /\ ~fShutdown /\ nLastSeen # nWalletDBUpdated
  /\ nLastSeen' = nWalletDBUpdated /\ quiet' = FALSE
  /\ UNCHANGED <<useVars, cdb, fileVars, countVars, nLastFlushed, copy, shutdown>>

TwoSecondsPass ==
  /\ ~quiet /\ quiet' = TRUE
  /\ UNCHANGED <<useVars, cdb, fileVars, countVars, nLastSeen, nLastFlushed, copy, shutdown>>

\* Mutated form: nLastFlushed follows the counter as soon as the two seconds
\* are over, whether or not the file could be flushed.
FlushForgets ==
  /\ ~fShutdown /\ nLastFlushed # nWalletDBUpdated /\ quiet
  /\ nLastFlushed' = nWalletDBUpdated
  /\ IF ~AnyInUse /\ WalletFile \in DOMAIN mapFileUseCount
       THEN FlushFiles({WalletFile})
       ELSE UNCHANGED <<mapFileUseCount, mapDb, cdb, fileVars>>
  /\ UNCHANGED <<fDbEnvInit, countVars, nLastSeen, quiet, copy, shutdown>>

\* The thread looks for the entry only when no database is in use, and reads
\* the counter again, which may have moved on since it last noticed.
FlushWallet ==
  /\ ~fShutdown /\ nLastFlushed # nWalletDBUpdated /\ quiet
  /\ ~AnyInUse /\ WalletFile \in DOMAIN mapFileUseCount
  /\ nLastFlushed' = nWalletDBUpdated
  /\ FlushFiles({WalletFile})
  /\ UNCHANGED <<fDbEnvInit, countVars, nLastSeen, quiet, copy, shutdown>>

-----------------------------------------------------------------------------
(* BackupWallet and CDB::Rewrite wait until the file is not in use.         *)

\* Mutated form: the use count is not looked at.
MayFlushInUse(f) == ~fShutdown /\ fDbEnvInit

MayFlush(f) == ~fShutdown /\ fDbEnvInit /\ ~InUse(f)

\* backupwallet: the file is copied under the lock.
BackupWallet ==
  /\ MayFlush(WalletFile)
  /\ FlushFiles({WalletFile})
  /\ copy' = [has |-> disk'[WalletFile], due |-> Committed(WalletFile),
              attached |-> attached'[WalletFile]]
  /\ UNCHANGED <<fDbEnvInit, countVars, flushVars, shutdown>>

\* The copy takes the place of the file; its pages refer to the log.
CopyRenamed(f) ==
  /\ mapDb' = [mapDb EXCEPT ![f] = FALSE]
  /\ disk' = cache /\ UNCHANGED cache
  /\ attached' = [attached EXCEPT ![f] = TRUE]
  /\ missed' = (missed \/ f = WalletFile)

\* The handle of the file, a record of the copy or the removal fails: the file
\* stays as it was flushed, perhaps open.
CopyFails(f) ==
  /\ mapDb' \in {[mapDb EXCEPT ![f] = b] : b \in BOOLEAN}
  /\ disk' = cache /\ UNCHANGED cache
  /\ attached' = [attached EXCEPT ![f] = @ /\ f \in ChainFiles /\ ~fDetachDB]
  /\ missed' = (missed /\ f # WalletFile)

\* The file is removed and the copy keeps its own name.
RenameFails(f) ==
  /\ mapDb' = [mapDb EXCEPT ![f] = FALSE]
  /\ cache' = [cache EXCEPT ![f] = {}]
  /\ disk' = cache'
  /\ attached' = [attached EXCEPT ![f] = FALSE]
  /\ missed' = (missed /\ f # WalletFile)

\* Rewrite flushes the file, reopens it and copies it; its own CDB leaves an
\* entry with count 0.
Rewrite(f) ==
  /\ f \in Rewritten /\ MayFlush(f)
  /\ cdb' = CDBsWithout({f})
  /\ mapFileUseCount' = CountAt(f, 0)
  /\ CopyRenamed(f) \/ CopyFails(f) \/ RenameFails(f)
  /\ UNCHANGED <<fDbEnvInit, countVars, flushVars, copy, shutdown>>

-----------------------------------------------------------------------------
(* Shutdown.  StopNode waits 20 seconds for all threads, and then goes on    *)
(* without those that are not in WaitedFor.                                 *)

RequestShutdown ==
  /\ shutdown = "no" /\ shutdown' = "requested"
  /\ UNCHANGED <<useVars, cdb, fileVars, countVars, flushVars, copy>>

\* Flush(false), StopNode and Flush(true): the environment is closed when no
\* file is left in use.
Flush ==
  /\ shutdown = "requested" /\ shutdown' = "stopping"
  /\ FlushFiles(Unused)
  /\ UNCHANGED <<fDbEnvInit, countVars, flushVars, copy>>

FlushAtShutdown ==
  /\ shutdown = "stopping" /\ shutdown' = "flushed"
  /\ \A t \in WaitedFor : cdb[t] = NoCDB
  /\ FlushFiles(Unused)
  /\ fDbEnvInit' = (fDbEnvInit /\ DOMAIN mapFileUseCount' # {})
  /\ UNCHANGED <<countVars, flushVars, copy>>

Next ==
  \/ \E t \in Users :
       \/ \E f \in Files : \/ \E ro \in BOOLEAN : Construct(t, f, ro)
                           \/ ConstructFails(t, f)
       \/ TxnBegin(t) \/ TxnCommit(t) \/ TxnAbort(t)
       \/ LoadUpdated(t) \/ StoreUpdated(t) \/ Write(t)
       \/ Close(t) \/ ReleaseUse(t)
  \/ Notice \/ TwoSecondsPass \/ FlushWallet
  \/ BackupWallet \/ \E f \in Files : Rewrite(f)
  \/ RequestShutdown \/ Flush \/ FlushAtShutdown

Spec == Init /\ [][Next]_vars

\* A thread that has a CDB goes on to close it, and the flush thread runs.
FairSpec ==
  /\ Spec
  /\ \A t \in Users : /\ WF_vars(StoreUpdated(t)) /\ WF_vars(Write(t) /\ cdb[t].pc = "stored")
                      /\ SF_vars(Close(t)) /\ WF_vars(ReleaseUse(t))
  /\ WF_vars(Notice) /\ WF_vars(TwoSecondsPass) /\ WF_vars(FlushWallet)
  /\ WF_vars(Flush) /\ WF_vars(FlushAtShutdown)

-----------------------------------------------------------------------------
(* Properties.                                                             *)

TypeOK ==
  /\ {fDbEnvInit, quiet, missed} \subseteq BOOLEAN
  /\ DOMAIN mapFileUseCount \subseteq Files
  /\ \A f \in DOMAIN mapFileUseCount :
       mapFileUseCount[f] = Cardinality({t \in Users : cdb[t].pc # "none" /\ cdb[t].file = f})
  /\ mapDb \in [Files -> BOOLEAN] /\ attached \in [Files -> BOOLEAN]
  /\ \A f \in Files : cache[f] \cup disk[f] \subseteq 1 .. written
  /\ \A t \in Users : /\ cdb[t].pc \in {"none", "open", "counting", "stored", "closing"}
                      /\ cdb[t].file \in Files /\ cdb[t].alive \in BOOLEAN
  /\ {nLastSeen, nLastFlushed, nWalletDBUpdated} \subseteq Nat
  /\ shutdown \in {"no", "requested", "stopping", "flushed"}

\* A CDB never works through a handle that the flush thread, a backup, a
\* rewrite or the shutdown has closed, nor in an environment that is closed:
\* mapFileUseCount protects the shared handles of mapDb.
NoClosedHandleUsed ==
  \A t \in Users : Open(t) => cdb[t].alive /\ mapDb[cdb[t].file] /\ fDbEnvInit

\* wallet.dat holds every finished write and nothing of an open transaction,
\* and does not need the log.
SelfContained(f) == disk[f] = Committed(f) /\ cache[f] = disk[f] /\ ~attached[f]

\* A backup holds what was finished when it was made, nothing of a transaction
\* that may still be aborted, and can be opened without this node's log.
BackupIsWhole == copy.has = copy.due /\ ~copy.attached

\* When Shutdown has closed the environment, which removes the log, every
\* file has its finished writes, and those it detaches need no log.
CleanWhenClosed ==
  ~fDbEnvInit => \A f \in Files :
    /\ disk[f] = cache[f] /\ disk[f] = Committed(f)
    /\ f \notin ChainFiles \/ fDetachDB => ~attached[f]

\* While the count of the flush thread says that nothing is new, wallet.dat on
\* disk has every write that was counted and finished, unless a CDB is open on
\* it: no increment is lost between two writers so as to hide a write.
UpToDateMeansFlushed ==
  nLastFlushed = nWalletDBUpdated /\ ~InUse(WalletFile) /\ ~missed =>
    SelfContained(WalletFile)

\* mapFileUseCount is exact and protects the shared handles of mapDb: no CDB
\* works through one that the flush thread, a backup, a rewrite or the shutdown
\* has closed.
HandlesProtected == TypeOK /\ NoClosedHandleUsed

\* What is on disk is whole: a backup holds what was finished and needs no log;
\* a closed environment leaves every finished write in its file; and while the
\* counts of the flush thread agree, wallet.dat has every write that was
\* counted, although an increment of nWalletDBUpdated may be lost.
FilesAreWhole == BackupIsWhole /\ CleanWhenClosed /\ UpToDateMeansFlushed
=============================================================================
