----------------------------- MODULE MCVoting -----------------------------
(***************************************************************************)
(* One run, two nodes that never meet; what a behaviour is about is chosen *)
(* in its first state and kept.                                            *)
(*                                                                         *)
(* records   conflicting proposals on both branches, a block whose reward  *)
(*           is refused, a failing write and a stop of the process         *)
(* votes     the chain a alone, where the node sends proposals 1 and 4,    *)
(*           votes on them and stakes                                      *)
(***************************************************************************)
EXTENDS MCGovernance

VARIABLE case

Voter == INSTANCE Governance WITH
    BadReward <- {}, Tracked <- Txs, TxLists <- MCChainTxLists,
    Submitted <- {1, 5}, UserChoices <- {{0}, {1}},
    MaxWriteFailures <- 0, MaxRestarts <- 0

MCInit == Init /\ case \in {"records", "votes"}

MCNext ==
    /\ \/ case = "records" /\ Next
       \/ case = "votes" /\ Voter!Next /\ block'[b1] = None
    /\ UNCHANGED case

MCSpec == MCInit /\ [][MCNext]_<<vars, case>>
=============================================================================
