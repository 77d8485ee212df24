----------------------------- MODULE WalletKeys -----------------------------
(***************************************************************************)
(* The keys of a wallet (KeyPool) beside the threads that take them from   *)
(* memory again when their time is over (WalletLock).                      *)
(***************************************************************************)
EXTENDS KeyPool

CONSTANTS Threads, Timeouts, None
VARIABLES locked, nWalletUnlockTime, thread

Relocking == INSTANCE WalletLock

ASSUME RelockingAssumption == Relocking!LockAssumption

\* Unlocked keys are never left to themselves: a relock thread is about to
\* start, or one sleeps that will find a time set, and some sleeper wakes by the
\* time that is set.
UnlockedIsWatched == Relocking!UnlockedIsWatched
=============================================================================
