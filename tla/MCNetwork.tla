----------------------------- MODULE MCNetwork ------------------------------
(***************************************************************************)
(* The connections of a node and its address manager.  Four cases, chosen  *)
(* in the initial state:                                                   *)
(*   "lifetime"  one opener and one address that connects to us, two CNode *)
(*               objects (the constants of the cfg);                       *)
(*   "slots"     two openers that dial one address, and "addnode onetry";  *)
(*               once two threads have raced for a grant only the socket   *)
(*               handler goes on (bound);                                  *)
(*   "inbound"   two connections to us, under fairness;                    *)
(*   "addrman"   the address manager, which shares no state with the       *)
(*               connections: every new address of the source s1 falls     *)
(*               into the first bucket, s2 spreads them.                   *)
(***************************************************************************)
EXTENDS Peers, AddrMan, TLC

CONSTANTS n1, n2, a1, a2, a3, a4, s1, s2, t1, t2
VARIABLE case
mcvars == <<vars, case, am>>

One == (t1 :> {a1})
Same == (t1 :> {a1}) @@ (t2 :> {a1})

Slots == INSTANCE Peers WITH
    Nodes <- {n1}, Openers <- {t1, t2}, Targets <- Same, OneTries <- {a2}, Incoming <- {}

Inbound == INSTANCE Peers WITH
    Openers <- {}, Targets <- << >>, MaxInbound <- 2

MCNewBucket == [p \in Addr \X Source |->
                   IF p[2] = s1 THEN 1 ELSE IF p[1] \in {a1, a2} THEN 2 ELSE 3]
MCTriedBucket == [a \in Addr |-> 1]

MCInit ==
    /\ AddrManInit
    /\ \/ case \in {"lifetime", "addrman"} /\ Init
       \/ case = "slots" /\ Slots!Init
       \/ case = "inbound" /\ Inbound!Init

MCNext ==
    \/ case = "lifetime" /\ Next /\ UNCHANGED <<case, am>>
    \/ /\ case = "slots" /\ (grantRaced => Slots!SocketHandlerStep)
       /\ Slots!Next /\ UNCHANGED <<case, am>>
    \/ case = "inbound" /\ Inbound!Next /\ UNCHANGED <<case, am>>
    \/ case = "addrman" /\ AddrManNext /\ UNCHANGED <<vars, case>>

\* Peers' fairness for the threads that serve inbound connections; of the two
\* nodes only n1 is waited for.
MCFairness ==
    /\ WF_vars(case = "inbound" /\ Inbound!SocketHandlerStep)
    /\ WF_vars(case = "inbound" /\ Inbound!MessageHandlerStep)
    /\ SF_vars(case = "inbound" /\ Inbound!EndPoll)
    /\ WF_vars(case = "inbound" /\ \E fOk \in BOOLEAN : Inbound!EndProcess(fOk))
    /\ WF_vars(case = "inbound" /\ Inbound!TimePasses(n1))

MCSpec == MCInit /\ [][MCNext]_mcvars /\ MCFairness

-----------------------------------------------------------------------------
\* An inbound connection that any thread flags leaves vNodes, and "hold in
\* disconnected pool until all refs are released" ends: its CNode is deleted,
\* whoever holds references.  (n1 stands for all: the CNode objects are
\* interchangeable.)
FlaggedPeersAreDeleted ==
    (case = "inbound" /\ n1 \in vNodes /\ node[n1].fDisconnect) ~> n1 \in deleted
=============================================================================
