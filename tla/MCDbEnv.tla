------------------------------ MODULE MCDbEnv -------------------------------
(***************************************************************************)
(* Two threads, wallet.dat and the block index.  Two cases, chosen in the  *)
(* initial state: "rewrite", in which encryptwallet may rewrite wallet.dat *)
(* (and leave it attached to the log for the shutdown that follows), and   *)
(* "flush", without it, with more writes to fewer CDBs, under fairness.    *)
(***************************************************************************)
EXTENDS DbEnv

VARIABLE case

Flushing == INSTANCE DbEnv WITH Rewritten <- {}, Uncounted <- {}, MaxWrites <- 2, MaxOpens <- 2

MCInit == Init /\ case \in {"rewrite", "flush"}

MCNext ==
  /\ \/ case = "rewrite" /\ Next
     \/ case = "flush" /\ Flushing!Next
  /\ UNCHANGED case

\* DbEnv's fairness: a thread that has a CDB goes on to close it, and the flush
\* thread runs.
MCFairness ==
  /\ \A t \in Users :
        /\ WF_vars(case = "flush" /\ Flushing!StoreUpdated(t))
        /\ WF_vars(case = "flush" /\ Flushing!Write(t) /\ cdb[t].pc = "stored")
        /\ SF_vars(case = "flush" /\ Flushing!Close(t))
        /\ WF_vars(case = "flush" /\ Flushing!ReleaseUse(t))
  /\ WF_vars(case = "flush" /\ Flushing!Notice)
  /\ WF_vars(case = "flush" /\ Flushing!TwoSecondsPass)
  /\ WF_vars(case = "flush" /\ Flushing!FlushWallet)
  /\ WF_vars(case = "flush" /\ Flushing!Flush)
  /\ WF_vars(case = "flush" /\ Flushing!FlushAtShutdown)

MCSpec == MCInit /\ [][MCNext]_<<vars, case>> /\ MCFairness

-----------------------------------------------------------------------------
\* After a write wallet.dat gets self contained again, or the node shuts down.
WalletIsFlushed ==
  (case = "flush" /\ attached[WalletFile]) ~> (SelfContained(WalletFile) \/ fShutdown)
=============================================================================
