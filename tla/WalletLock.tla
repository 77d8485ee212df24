----------------------------- MODULE WalletLock -----------------------------
(***************************************************************************)
(* How long an encrypted wallet stays unlocked: walletpassphrase starts a   *)
(* ThreadCleanWalletPassphrase, and all of them share nWalletUnlockTime.    *)
(*                                                                          *)
(* Times are relative, in seconds: what is left until nWalletUnlockTime,    *)
(* and until a thread's Sleep ends; 0 stands for now or earlier.  RPC       *)
(* commands hold cs_wallet, so one runs at a time; the threads run between  *)
(* them.                                                                    *)
(***************************************************************************)
EXTENDS Integers, FiniteSets

CONSTANTS
  Threads,        \* relock threads that may exist at the same time (bound)
  Timeouts,       \* the timeouts the user asks for
  None            \* nWalletUnlockTime = 0

\* What the constants are assumed to satisfy.
LockAssumption == Timeouts \subseteq Nat /\ None \notin Nat

VARIABLES
  locked,             \* vMasterKey is empty
  nWalletUnlockTime,  \* None, or the time left
  thread              \* thread[t]: its program counter and its time

vars == <<locked, nWalletUnlockTime, thread>>

Gone == [pc |-> "none", time |-> 0]

Init ==
  /\ locked = TRUE /\ nWalletUnlockTime = None
  /\ thread = [t \in Threads |-> Gone]

-----------------------------------------------------------------------------
(* Commands.                                                               *)

\* walletpassphrase is refused while the wallet is unlocked.  (The window's
\* own unlocking has no timeout and is not here.)
WalletPassphrase(n) ==
  /\ locked
  /\ \E t \in Threads :
       /\ thread[t] = Gone
       /\ thread' = [thread EXCEPT ![t] = [pc |-> "starts", time |-> n]]
  /\ locked' = FALSE
  /\ UNCHANGED nWalletUnlockTime

WalletLock ==
  /\ locked' = TRUE /\ nWalletUnlockTime' = None
  /\ UNCHANGED thread

\* ChangeWalletPassphrase locks first; with a wrong old passphrase it returns
\* there.  The wallet window's Lock does the same.  With the right passphrase
\* the wallet ends as it was.
WrongPassphraseChange ==
  /\ ~locked
  /\ locked' = TRUE
  /\ UNCHANGED <<nWalletUnlockTime, thread>>

-----------------------------------------------------------------------------
(* ThreadCleanWalletPassphrase; cs_nWalletUnlockTime makes one step of what *)
(* lies between two Sleeps, the final Lock included.                        *)

\* The head of the loop, with u the shared time: walletlock has cleared it, it
\* has come, or there is more to sleep.
Loop(t, u) ==
  /\ locked' = (locked \/ u = 0)
  /\ nWalletUnlockTime' = IF u = 0 THEN None ELSE u
  /\ thread' = [thread EXCEPT ![t] =
       IF u \in {None, 0} THEN Gone ELSE [pc |-> "sleeps", time |-> u]]

\* The first thread waits; a later one only postpones the time.
Starts(t) ==
  /\ thread[t].pc = "starts"
  /\ IF nWalletUnlockTime = None
     THEN Loop(t, thread[t].time)
     ELSE /\ nWalletUnlockTime' = IF nWalletUnlockTime < thread[t].time
                                  THEN thread[t].time ELSE nWalletUnlockTime
          /\ thread' = [thread EXCEPT ![t] = Gone]
          /\ UNCHANGED locked

\* mutant: a thread that has slept does not look at the time again
WakesOnce(t) ==
  /\ thread[t].pc = "sleeps" /\ thread[t].time = 0
  /\ IF nWalletUnlockTime \in {None, 0}
     THEN Loop(t, nWalletUnlockTime)
     ELSE thread' = [thread EXCEPT ![t] = Gone] /\ UNCHANGED <<locked, nWalletUnlockTime>>

Wakes(t) ==
  /\ thread[t].pc = "sleeps" /\ thread[t].time = 0
  /\ Loop(t, nWalletUnlockTime)

\* What is left of a time after a second.
Minus(n) == IF n = 0 THEN 0 ELSE n - 1
Ready(t) == thread[t].pc = "starts" \/ (thread[t].pc = "sleeps" /\ thread[t].time = 0)

\* A second passes.  A thread that has been created, or whose time has come,
\* runs within the second.
Tick ==
  /\ \A t \in Threads : ~Ready(t)
  /\ nWalletUnlockTime' = IF nWalletUnlockTime = None THEN None ELSE Minus(nWalletUnlockTime)
  /\ thread' = [t \in Threads |-> [thread[t] EXCEPT !.time = Minus(@)]]
  /\ UNCHANGED locked

Next ==
  \/ \E n \in Timeouts : WalletPassphrase(n)
  \/ WalletLock \/ WrongPassphraseChange
  \/ \E t \in Threads : Starts(t) \/ Wakes(t)
  \/ Tick

\* The threads run and the clock advances.
Fairness == WF_vars(Tick) /\ \A t \in Threads : WF_vars(Starts(t) \/ Wakes(t))

Spec == Init /\ [][Next]_vars /\ Fairness

-----------------------------------------------------------------------------
\* Type correctness: a time is what is left of some timeout.
TypeOK ==
  /\ locked \in BOOLEAN
  /\ nWalletUnlockTime \in Nat \cup {None}
  /\ thread \in [Threads -> [pc : {"none", "starts", "sleeps"}, time : Nat]]

Waits(t) == thread[t].pc = "sleeps"
Pending(t) == thread[t].pc = "starts"

\* An unlocked wallet is never left to itself, in whichever order commands
\* came and threads started: a thread is about to start, or one sleeps that
\* will find a time set (the do loop of ThreadCleanWalletPassphrase).
SomeoneWillLock ==
  ~locked => \/ \E t \in Threads : Pending(t)
             \/ nWalletUnlockTime # None /\ \E t \in Threads : Waits(t)

\* Every sleeper wakes by the shared time or earlier, so a time once set is
\* noticed when it comes: postponing never strands it, and walletlock followed
\* by a new walletpassphrase does not wait for the older thread's time.
TimeIsNoticed ==
  nWalletUnlockTime # None =>
    \E t \in Threads : Waits(t) /\ thread[t].time <= nWalletUnlockTime

\* Both together: unlocked keys are never left to themselves.
UnlockedIsWatched == SomeoneWillLock /\ TimeIsNoticed

\* An unlocked wallet is locked again, whatever the user does.
Relocked == ~locked ~> locked
=============================================================================
