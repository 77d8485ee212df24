--------------------------- MODULE NetworkProofs ----------------------------
(***************************************************************************)
(* Connections: no CNode is used after it is deleted and no slot of        *)
(* semOutbound is lost or doubled but by two threads inside one grant at   *)
(* once, for any number of connections, addresses and threads that open    *)
(* them.  The address manager, after that: its hand-kept indices agree     *)
(* after any sequence of operations, for any addresses, sources and        *)
(* buckets, whatever the sizes of the buckets.  The orphan transactions at *)
(* the end: their two maps agree, and the tx handler drains them, for any  *)
(* nodes, links, transactions and strangers.                               *)
(***************************************************************************)
EXTENDS Peers, AddrMan, Relay, FiniteSetTheorems, SequenceTheorems, WellFoundedInduction, TLAPS

(* The counts as numbers: who holds a reference to n.                      *)
One(p) == IF p THEN 1 ELSE 0
Leaving == {"post", "clear", "close", "drop"}
Owned(n) == n \in vNodes \/ (socketHandler.pc \in Leaving /\ socketHandler.cur = n)
Held(n) == One(Owned(n)) + One(n \in socketHandler.copy) + One(n \in messageHandler.copy)

SocketState == [pc : {"top", "disconnect", "select", "service"} \cup Leaving,
                todo : SUBSET Nodes, copy : SUBSET Nodes, cur : Nodes \cup {None}]

OpenerState == [pc : {"idle", "grant", "look", "count", "dial", "move", "post", "clear", "set",
                      "mark"},
                addr : Addrs \cup {None}, node : Nodes \cup {None}, count : Int]

PeersType ==
    /\ node \in [Nodes -> Field]
    /\ vNodes \subseteq Nodes /\ vNodesDisconnected \subseteq Nodes
    /\ deleted \subseteq Nodes /\ warm \subseteq Nodes
    /\ semOutbound \in Int /\ setBanned \subseteq Addrs
    /\ lostCount \in BOOLEAN
    /\ socketHandler \in SocketState
    /\ messageHandler \in [pc : {"idle", "poll", "process"}, todo : SUBSET Nodes,
                           copy : SUBSET Nodes, cur : Nodes \cup {None},
                           it : 0 .. FloodSize, wiped : BOOLEAN]
    /\ opener \in [Openers -> OpenerState]

(* An object is untouched before it is allocated; afterwards it is in one  *)
(* list at most.                                                           *)
ListInv ==
    /\ \A n \in Nodes : node[n].addr = None =>
          /\ node[n] = Unborn
          /\ n \notin vNodes \cup vNodesDisconnected \cup deleted \cup warm
          /\ n \notin socketHandler.copy \cup messageHandler.copy
    /\ vNodes \cap (vNodesDisconnected \cup deleted) = {}
    /\ vNodesDisconnected \cap deleted = {}

(* Where the socket handler is with what it works on: it holds cs_vNodes   *)
(* while it disconnects.                                                   *)
SocketInv ==
    /\ socketHandler.pc \in {"disconnect"} \cup Leaving => socketHandler.todo \subseteq vNodes
    /\ socketHandler.pc \in Leaving =>
          /\ socketHandler.cur \in Nodes /\ node[socketHandler.cur].addr # None
          /\ socketHandler.cur \notin vNodes \cup vNodesDisconnected \cup deleted
    /\ socketHandler.pc = "drop" => socketHandler.cur \in warm
    /\ IF socketHandler.pc = "service" THEN socketHandler.todo \subseteq socketHandler.copy
                                       ELSE socketHandler.copy = {}

(* The loop of ProcessMessages stays within the buffer it walks over.      *)
MessageInv ==
    /\ IF messageHandler.pc = "idle" THEN messageHandler.copy = {}
                                     ELSE messageHandler.todo \subseteq messageHandler.copy
    /\ messageHandler.pc = "process" =>
          /\ messageHandler.cur \in messageHandler.copy
          /\ messageHandler.wiped \/ messageHandler.it <= node[messageHandler.cur].vRecvMsg

(* The node an opener has a pointer to is connected, or was so less than   *)
(* fifteen minutes ago, or the socket handler is just closing it.          *)
Pointing == {"count", "move", "post", "clear", "set", "mark"}
Closing(n) == socketHandler.pc \in {"post", "clear", "close"} /\ socketHandler.cur = n
OpenerInv ==
    \A t \in Openers :
        /\ opener[t].pc \in {"look", "dial"} => opener[t].addr \in Addrs
        /\ Holds(t) => /\ opener[t].node \in vNodes \cup warm \/ Closing(opener[t].node)
                       /\ opener[t].node \notin deleted

(* Until an increment is lost, a count is at least the number of holders;  *)
(* so a node without references is in no copy.                             *)
CountInv ==
    ~lostCount => /\ \A n \in Nodes : node[n].nRefCount >= Held(n)
                  /\ socketHandler.copy \cap deleted = {}
                  /\ messageHandler.copy \cap deleted = {}

NodesInv == PeersType /\ ListInv /\ SocketInv /\ MessageInv /\ OpenerInv /\ CountInv

-----------------------------------------------------------------------------
(* The operators on the fields of a node *)

USE DEF history

(* What a step may change of a node: all but its address and its count.    *)
LEMMA ClosedField ==
    ASSUME NEW f \in Field, NEW w \in BOOLEAN
    PROVE  /\ Closed(f, w) \in Field
           /\ Closed(f, w).addr = f.addr /\ Closed(f, w).grant = f.grant
           /\ Closed(f, w).nRefCount = f.nRefCount
           /\ Closed(f, w).fInbound = f.fInbound /\ Closed(f, w).fNetworkNode = f.fNetworkNode
           /\ Closed(f, w).vRecvMsg = (IF f.open /\ w THEN 0 ELSE f.vRecvMsg)
<1> DEFINE v == IF f.open /\ w THEN 0 ELSE f.vRecvMsg
<1>1. v \in 0 .. FloodSize
    BY PeersAssumption DEF Field
<1>2. Closed(f, w) = [f EXCEPT !.fDisconnect = TRUE, !.open = FALSE, !.vRecvMsg = v]
    BY DEF Closed, Field
<1> HIDE DEF v
<1>3. /\ Closed(f, w) \in Field
      /\ Closed(f, w).addr = f.addr /\ Closed(f, w).grant = f.grant
      /\ Closed(f, w).nRefCount = f.nRefCount
      /\ Closed(f, w).fInbound = f.fInbound /\ Closed(f, w).fNetworkNode = f.fNetworkNode
      /\ Closed(f, w).vRecvMsg = v
    BY <1>1, <1>2 DEF Field
<1> QED
    BY <1>3 DEF v

LEMMA ReceivedField ==
    ASSUME NEW f \in Field
    PROVE  /\ Received(f) \in Field
           /\ Received(f).addr = f.addr /\ Received(f).grant = f.grant
           /\ Received(f).nRefCount = f.nRefCount
<1>1. CASE f.vRecvMsg = FloodSize
    BY <1>1, ClosedField DEF Received
<1>2. CASE f.vRecvMsg # FloodSize
    BY <1>2, PeersAssumption DEF Received, Field
<1> QED
    BY <1>1, <1>2

LEMMA UnbornField == Unborn \in Field /\ Unborn.addr = None /\ Unborn.grant = FALSE
                       /\ Unborn.nRefCount = 0
BY PeersAssumption DEF Unborn, Field

LEMMA NewNodeField ==
    ASSUME NEW a \in Addrs, NEW inbound \in BOOLEAN
    PROVE  /\ NewNode(a, inbound) \in Field
           /\ NewNode(a, inbound).addr = a /\ NewNode(a, inbound).grant = FALSE
           /\ NewNode(a, inbound).nRefCount = 1 /\ a # None
<1>1. NewNode(a, inbound) = [Unborn EXCEPT !.addr = a, !.fInbound = inbound, !.open = TRUE,
                                           !.nRefCount = 1]
    BY DEF NewNode
<1>2. a # None
    BY PeersAssumption
<1>3. NewNode(a, inbound) \in Field
    <2>1. /\ \A f \in Field : [f EXCEPT !.fInbound = inbound] \in Field
          /\ \A f \in Field : [f EXCEPT !.addr = a] \in Field
          /\ \A f \in Field : [f EXCEPT !.open = TRUE] \in Field
          /\ \A f \in Field : [f EXCEPT !.nRefCount = 1] \in Field
        <3>1. a \in Addrs \cup {None}
            OBVIOUS
        <3>2. \A f \in Field : [f EXCEPT !.addr = a] \in Field
            BY <3>1 DEF Field
        <3>3. \A f \in Field : [f EXCEPT !.nRefCount = 1] \in Field
            BY DEF Field
        <3>4. \A f \in Field : [f EXCEPT !.open = TRUE] \in Field
            BY DEF Field
        <3>5. \A f \in Field : [f EXCEPT !.fInbound = inbound] \in Field
            BY DEF Field
        <3> QED
            BY <3>2, <3>3, <3>4, <3>5
    <2> DEFINE f1 == [Unborn EXCEPT !.fInbound = inbound]
               f2 == [f1 EXCEPT !.addr = a]
               f3 == [f2 EXCEPT !.open = TRUE]
    <2>2. NewNode(a, inbound) = [f3 EXCEPT !.nRefCount = 1]
        BY <1>1, UnbornField DEF Field
    <2> QED
        BY <2>1, <2>2, UnbornField
<1>4. NewNode(a, inbound).addr = a
    BY <1>1, UnbornField DEF Field
<1>5. NewNode(a, inbound).grant = FALSE
    BY <1>1, UnbornField DEF Field
<1>6. NewNode(a, inbound).nRefCount = 1
    BY <1>1, UnbornField DEF Field
<1> QED
    BY <1>2, <1>3, <1>4, <1>5, <1>6

LEMMA AddRefsField ==
    ASSUME node \in [Nodes -> Field], NEW S
    PROVE  /\ AddRefs(S) \in [Nodes -> Field]
           /\ \A n \in Nodes : /\ AddRefs(S)[n].addr = node[n].addr
                               /\ AddRefs(S)[n].grant = node[n].grant
                               /\ AddRefs(S)[n].vRecvMsg = node[n].vRecvMsg
                               /\ AddRefs(S)[n].nRefCount = node[n].nRefCount + One(n \in S)
                               /\ n \notin S => AddRefs(S)[n] = node[n]
BY DEF AddRefs, Field, One

LEMMA ReleasesField ==
    ASSUME node \in [Nodes -> Field], NEW S
    PROVE  /\ Releases(S) \in [Nodes -> Field]
           /\ \A n \in Nodes : /\ Releases(S)[n].addr = node[n].addr
                               /\ Releases(S)[n].grant = node[n].grant
                               /\ Releases(S)[n].vRecvMsg = node[n].vRecvMsg
                               /\ Releases(S)[n].nRefCount = node[n].nRefCount - One(n \in S)
                               /\ n \notin S => Releases(S)[n] = node[n]
BY DEF Releases, Field, One

-----------------------------------------------------------------------------
(* The steps of ThreadSocketHandler2 *)

LEMMA TypeFacts ==
    ASSUME PeersType
    PROVE  /\ \A n \in Nodes : /\ node[n] \in Field /\ node[n].nRefCount \in Int
                               /\ node[n].vRecvMsg \in 0 .. FloodSize
                               /\ node[n].grant \in BOOLEAN
           /\ socketHandler.todo \subseteq Nodes /\ socketHandler.copy \subseteq Nodes
           /\ messageHandler.todo \subseteq Nodes /\ messageHandler.copy \subseteq Nodes
           /\ messageHandler.it \in 0 .. FloodSize
           /\ \A t \in Openers : opener[t] \in OpenerState
<1>1. \A n \in Nodes : node[n] \in Field
    BY DEF PeersType
<1>2. \A n \in Nodes : /\ node[n] \in Field /\ node[n].nRefCount \in Int
                        /\ node[n].vRecvMsg \in 0 .. FloodSize
                        /\ node[n].grant \in BOOLEAN
    BY <1>1 DEF Field
<1>3. socketHandler.todo \subseteq Nodes /\ socketHandler.copy \subseteq Nodes
    BY DEF PeersType, SocketState
<1>4. /\ messageHandler.todo \subseteq Nodes /\ messageHandler.copy \subseteq Nodes
      /\ messageHandler.it \in 0 .. FloodSize
    BY DEF PeersType
<1>5. \A t \in Openers : opener[t] \in OpenerState
    BY DEF PeersType
<1> QED
    BY <1>2, <1>3, <1>4, <1>5

(* A pointer of an opener is a node that has been made.                    *)
LEMMA PointerFacts ==
    ASSUME NodesInv, NEW t \in Openers, Holds(t)
    PROVE  opener[t].node \in Nodes /\ node[opener[t].node].addr # None
<1>1. CASE opener[t].node \in vNodes \cup warm
    BY <1>1 DEF NodesInv, PeersType, ListInv
<1>2. CASE Closing(opener[t].node)
    BY <1>2 DEF NodesInv, SocketInv, Closing, Leaving
<1> QED
    BY <1>1, <1>2 DEF NodesInv, OpenerInv

(* A step of another thread leaves the message handler's buffer alone.     *)
LEMMA MessageFrame ==
    ASSUME MessageInv, messageHandler.copy \subseteq Nodes, UNCHANGED messageHandler,
           \A n \in Nodes : Processing(n) => node'[n].vRecvMsg = node[n].vRecvMsg
    PROVE  MessageInv'
<1>1. messageHandler.pc = "process" =>
         node'[messageHandler.cur].vRecvMsg = node[messageHandler.cur].vRecvMsg
    BY DEF MessageInv, Processing
<1> QED
    BY <1>1 DEF MessageInv

LEMMA BeginDisconnectOK ==
    ASSUME NodesInv, BeginDisconnect
    PROVE  NodesInv'
<1>0. PeersType /\ ListInv /\ SocketInv /\ MessageInv /\ OpenerInv /\ CountInv
    BY DEF NodesInv
<1>1. /\ socketHandler.pc = "top" /\ socketHandler'.pc = "disconnect"
      /\ socketHandler'.todo = vNodes
      /\ socketHandler'.copy = socketHandler.copy /\ socketHandler'.cur = socketHandler.cur
      /\ socketHandler' \in SocketState
      /\ UNCHANGED <<node, vNodes, vNodesDisconnected, deleted, warm, semOutbound, setBanned,
                     lostCount, messageHandler, opener>>
    <2>1. socketHandler' = [socketHandler EXCEPT !.pc = "disconnect", !.todo = vNodes]
        BY DEF BeginDisconnect
    <2>2. socketHandler \in SocketState /\ vNodes \subseteq Nodes
        BY <1>0 DEF PeersType
    <2> QED
        BY <2>1, <2>2 DEF BeginDisconnect, SocketState, objects
<1>2. PeersType' /\ ListInv' /\ MessageInv'
    BY <1>0, <1>1 DEF PeersType, ListInv, MessageInv
<1>3. SocketInv' /\ OpenerInv'
    BY <1>0, <1>1 DEF SocketInv, OpenerInv, Holds, Closing, Leaving
<1>4. \A n \in Nodes : Held(n)' = Held(n)
    BY <1>1 DEF Held, Owned, Leaving
<1>5. CountInv'
    BY <1>0, <1>1, <1>4 DEF CountInv
<1> QED
    BY <1>2, <1>3, <1>5 DEF NodesInv

(* A step of the disconnection of n, from leaving vNodes to closing.       *)
LEMMA LeavingFrame ==
    ASSUME NodesInv, NEW n \in Nodes,
           \/ socketHandler.pc = "disconnect" /\ n \in socketHandler.todo
           \/ socketHandler.pc \in {"post", "clear", "close"} /\ n = socketHandler.cur,
           NEW s \in SocketState, socketHandler' = s, s.pc \in Leaving, s.cur = n,
           s.todo = socketHandler.todo \ {n}, s.copy = socketHandler.copy,
           vNodes' = vNodes \ {n},
           warm' = IF s.pc = "drop" THEN warm \cup {n} ELSE warm,
           NEW f \in Field, node' = [node EXCEPT ![n] = f],
           f.addr = node[n].addr, f.nRefCount = node[n].nRefCount,
           Processing(n) => f.vRecvMsg = node[n].vRecvMsg,
           semOutbound' \in Int,
           UNCHANGED <<vNodesDisconnected, deleted, setBanned, lostCount, messageHandler, opener>>
    PROVE  NodesInv'
<1>0. PeersType /\ ListInv /\ SocketInv /\ MessageInv /\ OpenerInv /\ CountInv
    BY DEF NodesInv
<1>1. /\ n \notin vNodesDisconnected \cup deleted /\ node[n].addr # None
      /\ socketHandler.copy = {} /\ socketHandler.todo \subseteq vNodes
      /\ socketHandler.pc \in {"disconnect"} \cup Leaving /\ Owned(n)
    BY <1>0 DEF SocketInv, ListInv, Leaving, Owned, Leaving, PeersType
<1>2. /\ node' \in [Nodes -> Field]
      /\ \A m \in Nodes : /\ node'[m].addr = node[m].addr
                          /\ node'[m].nRefCount = node[m].nRefCount
                          /\ Processing(m) => node'[m].vRecvMsg = node[m].vRecvMsg
                          /\ m # n => node'[m] = node[m]
    BY <1>0 DEF PeersType
<1>3. warm' \subseteq Nodes /\ warm \subseteq warm' /\ warm' \subseteq warm \cup {n}
    BY <1>0 DEF PeersType
<1>4. PeersType'
    BY <1>0, <1>2, <1>3 DEF PeersType
<1>5. ListInv'
    <2>1. \A m \in Nodes : node'[m].addr = None => m # n /\ node'[m] = node[m]
        BY <1>1, <1>2
    <2> QED
        BY <1>0, <1>1, <1>2, <1>3, <2>1 DEF ListInv
<1>6. SocketInv'
    BY <1>0, <1>1, <1>2 DEF SocketInv, Leaving
<1>7. MessageInv'
    BY <1>0, <1>2, MessageFrame, TypeFacts
<1>8. OpenerInv'
    <2>1. ASSUME NEW m, m \in vNodes \cup warm \/ Closing(m)
          PROVE  m \in vNodes' \cup warm' \/ Closing(m)'
        <3>1. s.pc = "drop" \/ Closing(n)'
            BY DEF Closing, Leaving
        <3>2. m = n => n \in warm' \/ Closing(n)'
            BY <3>1
        <3>3. m # n => m \in vNodes \cup warm
            BY <1>0, <1>1, <2>1 DEF Closing
        <3> QED
            BY <1>3, <3>2, <3>3
    <2> QED
        BY <1>0, <2>1 DEF OpenerInv, Holds, Closing, Pointing
<1>9. CountInv'
    <2>1. \A m \in Nodes : Held(m)' = Held(m)
        <3>1. \A m \in Nodes : Owned(m)' <=> Owned(m)
            BY <1>0, <1>1 DEF Owned, Leaving
        <3> QED
            BY <3>1 DEF Held, One
    <2> QED
        BY <1>0, <1>2, <2>1 DEF CountInv
<1> QED
    BY <1>4, <1>5, <1>6, <1>7, <1>8, <1>9 DEF NodesInv

LEMMA ExamineNodeOK ==
    ASSUME NodesInv, NEW n \in Nodes, ExamineNode(n)
    PROVE  NodesInv'
<1>0. PeersType /\ ListInv /\ SocketInv /\ MessageInv /\ OpenerInv /\ CountInv
    BY DEF NodesInv
<1>u. UNCHANGED <<node, vNodesDisconnected, deleted, warm, semOutbound, setBanned, lostCount,
                  messageHandler, opener>>
         /\ socketHandler.pc = "disconnect" /\ n \in socketHandler.todo
    BY DEF ExamineNode
<1>1. CASE /\ vNodes' = vNodes \ {n}
           /\ socketHandler' = [socketHandler EXCEPT !.cur = n, !.todo = @ \ {n},
                                  !.pc = IF node[n].grant THEN "post" ELSE "close"]
    <2>1. PICK p \in {"post", "close"} :
             socketHandler' = [socketHandler EXCEPT !.cur = n, !.todo = @ \ {n}, !.pc = p]
        BY <1>1
    <2> DEFINE s == [socketHandler EXCEPT !.cur = n, !.todo = @ \ {n}, !.pc = p]
    <2>2. /\ s \in SocketState /\ s.pc \in Leaving /\ s.pc # "drop" /\ s.cur = n
          /\ s.todo = socketHandler.todo \ {n} /\ s.copy = socketHandler.copy
        BY <1>0, <2>1 DEF PeersType, SocketState, Leaving
    <2>3. node[n] \in Field /\ node' = [node EXCEPT ![n] = node[n]] /\ semOutbound' \in Int
        BY <1>0, <1>u, TypeFacts DEF PeersType
    <2> HIDE DEF s
    <2> QED
        BY <1>1, <1>u, <2>1, <2>2, <2>3, LeavingFrame DEF s
<1>2. CASE /\ socketHandler' = [socketHandler EXCEPT !.todo = @ \ {n}]
           /\ UNCHANGED vNodes
    <2>1. /\ socketHandler'.pc = "disconnect" /\ socketHandler'.todo = socketHandler.todo \ {n}
          /\ socketHandler'.copy = socketHandler.copy /\ socketHandler'.cur = socketHandler.cur
          /\ socketHandler' \in SocketState
        BY <1>0, <1>2, <1>u DEF PeersType, SocketState, Leaving
    <2>2. PeersType' /\ ListInv' /\ MessageInv'
        BY <1>0, <1>2, <1>u, <2>1 DEF PeersType, ListInv, MessageInv
    <2>3. SocketInv' /\ OpenerInv'
        BY <1>0, <1>2, <1>u, <2>1 DEF SocketInv, OpenerInv, Holds, Closing, Leaving
    <2>4. CountInv'
        BY <1>0, <1>2, <1>u, <2>1 DEF CountInv, Held, Owned, One, Leaving
    <2> QED
        BY <2>2, <2>3, <2>4 DEF NodesInv
<1> QED
    BY <1>1, <1>2 DEF ExamineNode

(* The rest of the disconnection, up to closing the socket.                *)
LEMMA LeavingOK ==
    ASSUME NodesInv, PostGrant \/ ClearGrant \/ CloseNode
    PROVE  NodesInv'
<1>0. PeersType /\ SocketInv /\ node \in [Nodes -> Field] /\ semOutbound \in Int
    BY DEF NodesInv, PeersType
<1>1. PICK n \in Nodes : n = socketHandler.cur /\ n \notin vNodes
    BY <1>0 DEF SocketInv, Leaving, PostGrant, ClearGrant, CloseNode
<1>2. PICK p \in {"clear", "close", "drop"} : socketHandler' = [socketHandler EXCEPT !.pc = p]
    BY DEF PostGrant, ClearGrant, CloseNode
<1> DEFINE s == [socketHandler EXCEPT !.pc = p]
<1>3. /\ s \in SocketState /\ s.pc = p /\ s.pc \in Leaving /\ s.cur = n
      /\ s.todo = socketHandler.todo \ {n} /\ s.copy = socketHandler.copy
      /\ socketHandler.pc \in {"post", "clear", "close"}
    <2>1. socketHandler.pc \in {"post", "clear", "close"}
        BY DEF PostGrant, ClearGrant, CloseNode
    <2>2. socketHandler.todo \ {n} = socketHandler.todo
        BY <1>0, <1>1, <2>1 DEF SocketInv, Leaving
    <2> QED
        BY <1>0, <1>1, <2>1, <2>2 DEF PeersType, SocketState, Leaving
<1> HIDE DEF s
<1>4. socketHandler' = s
    BY <1>2 DEF s
<1>5. /\ vNodes' = vNodes \ {n}
      /\ UNCHANGED <<vNodesDisconnected, deleted, setBanned, lostCount, messageHandler, opener>>
    BY <1>1 DEF PostGrant, ClearGrant, CloseNode, objects
<1>6. node[n] \in Field /\ Processing(n) \in BOOLEAN
    BY <1>0 DEF Processing
<1>7. CASE PostGrant
    <2>1. /\ node' = [node EXCEPT ![n] = node[n]] /\ semOutbound' \in Int
          /\ warm' = warm /\ s.pc # "drop"
        BY <1>0, <1>3, <1>4, <1>7 DEF PostGrant, objects, s, PeersType, SocketState
    <2> QED
        BY <1>1, <1>3, <1>4, <1>5, <1>6, <2>1, LeavingFrame
<1>8. CASE ClearGrant
    <2> DEFINE f == [node[n] EXCEPT !.grant = FALSE]
    <2>1. node' = [node EXCEPT ![n] = f] /\ semOutbound' \in Int /\ warm' = warm /\ s.pc # "drop"
        BY <1>0, <1>1, <1>3, <1>4, <1>8 DEF ClearGrant, s, PeersType, SocketState
    <2>2. /\ f \in Field /\ f.addr = node[n].addr /\ f.nRefCount = node[n].nRefCount
          /\ f.vRecvMsg = node[n].vRecvMsg
        BY <1>6 DEF Field
    <2> HIDE DEF f
    <2> QED
        BY <1>1, <1>3, <1>4, <1>5, <2>1, <2>2, LeavingFrame
<1>9. CASE CloseNode
    <2> DEFINE f == Closed(node[n], ~Processing(n))
    <2>1. node' = [node EXCEPT ![n] = f] /\ semOutbound' \in Int /\ warm' = warm \cup {n}
             /\ s.pc = "drop"
        BY <1>0, <1>1, <1>3, <1>4, <1>9 DEF CloseNode, s, PeersType, SocketState
    <2>2. /\ f \in Field /\ f.addr = node[n].addr /\ f.nRefCount = node[n].nRefCount
          /\ Processing(n) => f.vRecvMsg = node[n].vRecvMsg
        BY <1>6, ClosedField
    <2> HIDE DEF f
    <2> QED
        BY <1>1, <1>3, <1>4, <1>5, <2>1, <2>2, LeavingFrame
<1> QED
    BY <1>7, <1>8, <1>9

LEMMA DropNodeOK ==
    ASSUME NodesInv, DropNode
    PROVE  NodesInv'
<1>0. PeersType /\ ListInv /\ SocketInv /\ MessageInv /\ OpenerInv /\ CountInv
    BY DEF NodesInv
<1>1. PICK n : n = socketHandler.cur
    OBVIOUS
<1>2. /\ socketHandler.pc = "drop"
      /\ UNCHANGED <<vNodes, deleted, warm, semOutbound, setBanned, lostCount, messageHandler,
                     opener>>
      /\ vNodesDisconnected' = vNodesDisconnected \cup {n}
      /\ node' = node \/ node' = Releases({n})
      /\ socketHandler' = [socketHandler EXCEPT !.pc = "disconnect", !.cur = None]
    BY <1>1 DEF DropNode
<1>3. /\ socketHandler'.pc = "disconnect" /\ socketHandler'.todo = socketHandler.todo
      /\ socketHandler'.copy = socketHandler.copy /\ socketHandler'.cur = None
      /\ socketHandler' \in SocketState
    BY <1>0, <1>2 DEF PeersType, SocketState, Leaving
<1>4. /\ n \in Nodes /\ n \in warm /\ n \notin vNodes \cup vNodesDisconnected \cup deleted
      /\ node[n].addr # None /\ socketHandler.copy = {} /\ n # None
    BY <1>0, <1>1, <1>2, PeersAssumption DEF SocketInv, ListInv, PeersType, Leaving
<1>5. /\ node' \in [Nodes -> Field]
      /\ \A m \in Nodes : /\ node'[m].addr = node[m].addr
                          /\ node'[m].nRefCount >= node[m].nRefCount - One(m = n)
                          /\ node'[m].vRecvMsg = node[m].vRecvMsg
                          /\ m # n => node'[m] = node[m]
    <2>1. \A m \in Nodes : node[m].nRefCount \in Int
        BY <1>0 DEF PeersType, Field
    <2>2. CASE node' = node
        BY <1>0, <2>1, <2>2 DEF PeersType, One
    <2>3. CASE node' = Releases({n})
        BY <1>0, <2>1, <2>3, ReleasesField DEF PeersType, One
    <2> QED
        BY <1>2, <2>2, <2>3
<1>6. PeersType'
    BY <1>0, <1>2, <1>3, <1>4, <1>5 DEF PeersType
<1>7. ListInv'
    <2>1. \A m \in Nodes : node'[m].addr = None => m # n /\ node'[m] = node[m]
        BY <1>4, <1>5
    <2> QED
        BY <1>0, <1>2, <1>3, <1>4, <1>5, <2>1 DEF ListInv
<1>s. SocketInv'
    BY <1>0, <1>1, <1>2, <1>3, <1>4 DEF SocketInv, Leaving
<1>8. MessageInv'
    BY <1>0, <1>2, <1>5, MessageFrame, TypeFacts
<1>9. OpenerInv'
    BY <1>0, <1>2 DEF OpenerInv, Holds, Closing, Pointing
<1>10. CountInv'
    <2> SUFFICES ASSUME ~lostCount, NEW m \in Nodes
                 PROVE  node'[m].nRefCount >= Held(m)'
        BY <1>0, <1>2, <1>3 DEF CountInv
    <2>1. node[m].nRefCount >= Held(m) /\ node[m].nRefCount \in Int /\ node'[m].nRefCount \in Int
        BY <1>0, <1>5 DEF CountInv, PeersType, Field
    <2>2. Held(m)' = Held(m) - One(m = n)
        BY <1>1, <1>2, <1>3, <1>4 DEF Held, Owned, Leaving, One
    <2>3. Held(m) \in Int /\ One(m = n) \in Int
        BY DEF Held, One
    <2>4. node'[m].nRefCount >= node[m].nRefCount - One(m = n)
        BY <1>5
    <2> QED
        BY <2>1, <2>2, <2>3, <2>4
<1> QED
    BY <1>6, <1>7, <1>s, <1>8, <1>9, <1>10 DEF NodesInv

LEMMA DeleteNodesOK ==
    ASSUME NodesInv, DeleteNodes
    PROVE  NodesInv'
<1>0. PeersType /\ ListInv /\ SocketInv /\ MessageInv /\ OpenerInv /\ CountInv
    BY DEF NodesInv
<1>1. PICK D \in SUBSET Nodes : D = Deletable
    BY <1>0 DEF Deletable, PeersType
<1>2. /\ socketHandler.pc = "disconnect"
      /\ vNodesDisconnected' = vNodesDisconnected \ D /\ deleted' = deleted \cup D
      /\ semOutbound' = semOutbound + Cardinality({n \in D : node[n].grant})
      /\ node' = [n \in Nodes |-> IF n \in D THEN [node[n] EXCEPT !.grant = FALSE] ELSE node[n]]
      /\ socketHandler' = [socketHandler EXCEPT !.pc = "select"]
      /\ UNCHANGED <<vNodes, warm, setBanned, lostCount, messageHandler, opener>>
    BY <1>1 DEF DeleteNodes
<1>3. /\ socketHandler'.pc = "select" /\ socketHandler'.todo = socketHandler.todo
      /\ socketHandler'.copy = socketHandler.copy /\ socketHandler'.cur = socketHandler.cur
      /\ socketHandler' \in SocketState
      /\ socketHandler.copy = {}
    BY <1>0, <1>2 DEF PeersType, SocketState, Leaving, SocketInv
<1>4. \A n \in D : /\ n \in vNodesDisconnected /\ ~(node[n].nRefCount > 0) /\ n \notin warm
                   /\ n \notin vNodes /\ node[n].addr # None /\ n \in Nodes
    BY <1>0, <1>1 DEF Deletable, Referenced, ListInv
<1>5. /\ node' \in [Nodes -> Field]
      /\ \A n \in Nodes : /\ node'[n].addr = node[n].addr
                          /\ node'[n].nRefCount = node[n].nRefCount
                          /\ node'[n].vRecvMsg = node[n].vRecvMsg
                          /\ n \notin D => node'[n] = node[n]
    <2>1. \A n \in Nodes : node[n] \in Field
        BY <1>0, TypeFacts
    <2>2. \A f \in Field : LET g == [f EXCEPT !.grant = FALSE]
                           IN  /\ g \in Field /\ g.addr = f.addr
                               /\ g.nRefCount = f.nRefCount /\ g.vRecvMsg = f.vRecvMsg
        BY DEF Field
    <2> QED
        BY <1>2, <2>1, <2>2
<1>6. semOutbound' \in Int
    <2>1. IsFiniteSet(Nodes)
        BY PeersAssumption
    <2>2. IsFiniteSet({n \in D : node[n].grant})
        BY <2>1, FS_Subset
    <2> QED
        BY <1>0, <1>2, <2>2, FS_CardinalityType DEF PeersType
<1>7. PeersType'
    BY <1>0, <1>2, <1>3, <1>4, <1>5, <1>6 DEF PeersType
<1>8. ListInv'
    <2>1. \A n \in Nodes : node'[n].addr = None => n \notin D /\ node'[n] = node[n]
        BY <1>4, <1>5
    <2> QED
        BY <1>0, <1>2, <1>3, <1>4, <1>5, <2>1 DEF ListInv
<1>9. SocketInv'
    BY <1>3 DEF SocketInv, Leaving
<1>10. MessageInv'
    BY <1>0, <1>2, <1>5, MessageFrame, TypeFacts
<1>11. OpenerInv'
    BY <1>0, <1>2, <1>4 DEF OpenerInv, Holds, Closing, Pointing
<1>12. CountInv'
    <2>1. \A n \in Nodes : Held(n)' = Held(n)
        BY <1>2, <1>3 DEF Held, Owned, Leaving
    <2>2. ASSUME ~lostCount, NEW n \in D PROVE n \notin messageHandler.copy
        <3>1. node[n].nRefCount >= Held(n) /\ node[n].nRefCount \in Int /\ ~(node[n].nRefCount > 0)
            BY <1>0, <1>4, <2>2, TypeFacts DEF CountInv
        <3> QED
            BY <3>1 DEF Held, One
    <2> QED
        BY <1>0, <1>2, <1>3, <1>5, <2>1, <2>2 DEF CountInv
<1> QED
    BY <1>7, <1>8, <1>9, <1>10, <1>11, <1>12 DEF NodesInv

LEMMA BeginServiceOK ==
    ASSUME NodesInv, BeginService
    PROVE  NodesInv'
<1>0. PeersType /\ ListInv /\ SocketInv /\ MessageInv /\ OpenerInv /\ CountInv
    BY DEF NodesInv
<1>1. /\ socketHandler.pc = "select" /\ node' = AddRefs(vNodes)
      /\ socketHandler' = [socketHandler EXCEPT !.pc = "service", !.todo = vNodes, !.copy = vNodes]
      /\ UNCHANGED <<vNodes, vNodesDisconnected, deleted, warm, semOutbound, setBanned, lostCount,
                     messageHandler, opener>>
    BY DEF BeginService
<1>2. /\ socketHandler'.pc = "service" /\ socketHandler'.todo = vNodes
      /\ socketHandler'.copy = vNodes /\ socketHandler.copy = {}
      /\ socketHandler' \in SocketState
    BY <1>0, <1>1 DEF PeersType, SocketState, Leaving, SocketInv
<1>3. /\ node' \in [Nodes -> Field]
      /\ \A n \in Nodes : /\ node'[n].addr = node[n].addr
                          /\ node'[n].nRefCount = node[n].nRefCount + One(n \in vNodes)
                          /\ node'[n].vRecvMsg = node[n].vRecvMsg
                          /\ n \notin vNodes => node'[n] = node[n]
    BY <1>0, <1>1, AddRefsField DEF PeersType
<1>4. PeersType'
    BY <1>0, <1>1, <1>2, <1>3 DEF PeersType
<1>5. ListInv'
    <2>1. \A n \in Nodes : node'[n].addr = None => n \notin vNodes /\ node'[n] = node[n]
        BY <1>0, <1>3 DEF ListInv
    <2> QED
        BY <1>0, <1>1, <1>2, <1>3, <2>1 DEF ListInv
<1>6. SocketInv' /\ OpenerInv'
    BY <1>0, <1>1, <1>2 DEF SocketInv, OpenerInv, Holds, Closing, Leaving
<1>7. MessageInv'
    BY <1>0, <1>1, <1>3, MessageFrame, TypeFacts
<1>8. CountInv'
    <2> SUFFICES ASSUME ~lostCount PROVE /\ \A n \in Nodes : node'[n].nRefCount >= Held(n)'
                                         /\ vNodes \cap deleted = {}
                                         /\ messageHandler.copy \cap deleted = {}
        BY <1>1, <1>2 DEF CountInv
    <2>1. ASSUME NEW n \in Nodes PROVE node'[n].nRefCount >= Held(n)'
        <3>1. Held(n)' = Held(n) + One(n \in vNodes)
            BY <1>1, <1>2 DEF Held, Owned, Leaving, One
        <3>2. Held(n) \in Int /\ One(n \in vNodes) \in Int
            BY DEF Held, One
        <3>3. node[n].nRefCount >= Held(n) /\ node[n].nRefCount \in Int
            BY <1>0, TypeFacts DEF CountInv
        <3> QED
            BY <1>3, <3>1, <3>2, <3>3
    <2> QED
        BY <1>0, <2>1 DEF CountInv, ListInv
<1> QED
    BY <1>4, <1>5, <1>6, <1>7, <1>8 DEF NodesInv

LEMMA ServiceNodeOK ==
    ASSUME NodesInv, NEW n \in Nodes, ServiceNode(n)
    PROVE  NodesInv'
<1>0. PeersType /\ ListInv /\ SocketInv /\ MessageInv /\ OpenerInv /\ CountInv
    BY DEF NodesInv
<1>1. /\ socketHandler.pc = "service" /\ n \in socketHandler.todo
      /\ socketHandler' = [socketHandler EXCEPT !.todo = @ \ {n}]
      /\ UNCHANGED <<vNodes, vNodesDisconnected, deleted, warm, semOutbound, setBanned, lostCount,
                     messageHandler, opener>>
    BY DEF ServiceNode
<1>2. /\ socketHandler'.pc = "service" /\ socketHandler'.todo = socketHandler.todo \ {n}
      /\ socketHandler'.copy = socketHandler.copy
      /\ socketHandler' \in SocketState
    BY <1>0, <1>1 DEF PeersType, SocketState, Leaving
<1>3. n \in socketHandler.copy /\ node[n].addr # None /\ node[n] \in Field
    BY <1>0, <1>1, TypeFacts DEF SocketInv, ListInv
<1>4. \E f \in Field : /\ node' = [node EXCEPT ![n] = f]
                       /\ f.addr = node[n].addr /\ f.nRefCount = node[n].nRefCount
                       /\ f.grant = node[n].grant
                       /\ Processing(n) => f.vRecvMsg = node[n].vRecvMsg
    <2>1. CASE UNCHANGED node
        BY <1>0, <1>3, <2>1 DEF PeersType
    <2>2. CASE ~Processing(n) /\ node' = [node EXCEPT ![n] = Received(@)]
        BY <1>0, <1>3, <2>2, ReceivedField DEF PeersType
    <2>3. CASE ~Processing(n) /\ node' = [node EXCEPT ![n] = Closed(@, TRUE)]
        BY <1>0, <1>3, <2>3, ClosedField DEF PeersType
    <2>4. CASE node' = [node EXCEPT ![n].fDisconnect = TRUE]
        <3>1. node' = [node EXCEPT ![n] = [node[n] EXCEPT !.fDisconnect = TRUE]]
            BY <1>0, <2>4 DEF PeersType
        <3>2. LET g == [node[n] EXCEPT !.fDisconnect = TRUE]
              IN  /\ g \in Field /\ g.addr = node[n].addr /\ g.nRefCount = node[n].nRefCount
                  /\ g.grant = node[n].grant /\ g.vRecvMsg = node[n].vRecvMsg
            BY <1>3 DEF Field
        <3> QED
            BY <3>1, <3>2
    <2> QED
        BY <2>1, <2>2, <2>3, <2>4 DEF ServiceNode
<1>5. /\ node' \in [Nodes -> Field]
      /\ \A m \in Nodes : /\ node'[m].addr = node[m].addr
                          /\ node'[m].nRefCount = node[m].nRefCount
                          /\ Processing(m) => node'[m].vRecvMsg = node[m].vRecvMsg
                          /\ m # n => node'[m] = node[m]
    BY <1>0, <1>4 DEF PeersType
<1>6. PeersType'
    BY <1>0, <1>1, <1>2, <1>5 DEF PeersType
<1>7. ListInv'
    <2>1. \A m \in Nodes : node'[m].addr = None => node'[m] = node[m]
        BY <1>3, <1>5
    <2> QED
        BY <1>0, <1>1, <1>2, <1>5, <2>1 DEF ListInv
<1>8. SocketInv' /\ OpenerInv'
    BY <1>0, <1>1, <1>2 DEF SocketInv, OpenerInv, Holds, Closing, Leaving
<1>9. MessageInv'
    BY <1>0, <1>1, <1>5, MessageFrame, TypeFacts
<1>10. CountInv'
    <2>1. \A m \in Nodes : Held(m)' = Held(m)
        BY <1>1, <1>2 DEF Held, Owned, Leaving
    <2> QED
        BY <1>0, <1>1, <1>2, <1>5, <2>1 DEF CountInv
<1> QED
    BY <1>6, <1>7, <1>8, <1>9, <1>10 DEF NodesInv

LEMMA EndServiceOK ==
    ASSUME NodesInv, EndService
    PROVE  NodesInv'
<1>0. PeersType /\ ListInv /\ SocketInv /\ MessageInv /\ OpenerInv /\ CountInv
    BY DEF NodesInv
<1> DEFINE C == socketHandler.copy
<1>1. /\ socketHandler.pc = "service" /\ node' = Releases(C)
      /\ socketHandler' = [socketHandler EXCEPT !.pc = "top", !.copy = {}]
      /\ UNCHANGED <<vNodes, vNodesDisconnected, deleted, warm, semOutbound, setBanned, lostCount,
                     messageHandler, opener>>
    BY DEF EndService
<1>2. /\ socketHandler'.pc = "top" /\ socketHandler'.todo = socketHandler.todo
      /\ socketHandler'.copy = {}
      /\ socketHandler' \in SocketState
    BY <1>0, <1>1 DEF PeersType, SocketState, Leaving
<1>3. /\ node' \in [Nodes -> Field]
      /\ \A n \in Nodes : /\ node'[n].addr = node[n].addr
                          /\ node'[n].nRefCount = node[n].nRefCount - One(n \in C)
                          /\ node'[n].vRecvMsg = node[n].vRecvMsg
                          /\ n \notin C => node'[n] = node[n]
    BY <1>0, <1>1, ReleasesField DEF PeersType
<1>4. PeersType'
    BY <1>0, <1>1, <1>2, <1>3 DEF PeersType
<1>5. ListInv'
    <2>1. \A n \in Nodes : node'[n].addr = None => node'[n] = node[n]
        BY <1>0, <1>3 DEF ListInv
    <2> QED
        BY <1>0, <1>1, <1>2, <1>3, <2>1 DEF ListInv
<1>6. SocketInv' /\ OpenerInv'
    BY <1>0, <1>1, <1>2 DEF SocketInv, OpenerInv, Holds, Closing, Leaving
<1>7. MessageInv'
    BY <1>0, <1>1, <1>3, MessageFrame, TypeFacts
<1>8. CountInv'
    <2> SUFFICES ASSUME ~lostCount, NEW n \in Nodes PROVE node'[n].nRefCount >= Held(n)'
        BY <1>0, <1>1, <1>2 DEF CountInv
    <2>1. Held(n)' = Held(n) - One(n \in C)
        BY <1>1, <1>2 DEF Held, Owned, Leaving, One
    <2>2. Held(n) \in Int /\ One(n \in C) \in Int
        BY DEF Held, One
    <2>3. node[n].nRefCount >= Held(n) /\ node[n].nRefCount \in Int
        BY <1>0, TypeFacts DEF CountInv
    <2> QED
        BY <1>3, <2>1, <2>2, <2>3
<1> QED
    BY <1>4, <1>5, <1>6, <1>7, <1>8 DEF NodesInv

-----------------------------------------------------------------------------
(* The steps of ThreadMessageHandler2 *)

LEMMA BeginPollOK ==
    ASSUME NodesInv, BeginPoll
    PROVE  NodesInv'
<1>0. PeersType /\ ListInv /\ SocketInv /\ MessageInv /\ OpenerInv /\ CountInv
    BY DEF NodesInv
<1>1. /\ messageHandler.pc = "idle" /\ node' = AddRefs(vNodes)
      /\ messageHandler' = [messageHandler EXCEPT !.pc = "poll", !.copy = vNodes, !.todo = vNodes]
      /\ UNCHANGED <<vNodes, vNodesDisconnected, deleted, warm, semOutbound, setBanned, lostCount,
                     socketHandler, opener>>
    BY DEF BeginPoll, CopyNodes
<1>2. /\ messageHandler'.pc = "poll" /\ messageHandler'.todo = vNodes
      /\ messageHandler'.copy = vNodes /\ messageHandler.copy = {}
      /\ messageHandler' \in [pc : {"idle", "poll", "process"}, todo : SUBSET Nodes,
                              copy : SUBSET Nodes, cur : Nodes \cup {None},
                              it : 0 .. FloodSize, wiped : BOOLEAN]
    BY <1>0, <1>1 DEF PeersType, MessageInv
<1>3. /\ node' \in [Nodes -> Field]
      /\ \A n \in Nodes : /\ node'[n].addr = node[n].addr
                          /\ node'[n].nRefCount = node[n].nRefCount + One(n \in vNodes)
                          /\ n \notin vNodes => node'[n] = node[n]
    BY <1>0, <1>1, AddRefsField DEF PeersType
<1>4. PeersType'
    BY <1>0, <1>1, <1>2, <1>3 DEF PeersType
<1>5. ListInv'
    <2>1. \A n \in Nodes : node'[n].addr = None => n \notin vNodes /\ node'[n] = node[n]
        BY <1>0, <1>3 DEF ListInv
    <2> QED
        BY <1>0, <1>1, <1>2, <1>3, <2>1 DEF ListInv
<1>6. SocketInv' /\ OpenerInv' /\ MessageInv'
    <2>1. SocketInv'
        BY <1>0, <1>1, <1>3 DEF SocketInv
    <2>2. OpenerInv'
        BY <1>0, <1>1 DEF OpenerInv, Holds, Closing
    <2>3. MessageInv'
        BY <1>2 DEF MessageInv
    <2> QED
        BY <2>1, <2>2, <2>3
<1>7. CountInv'
    <2> SUFFICES ASSUME ~lostCount PROVE /\ \A n \in Nodes : node'[n].nRefCount >= Held(n)'
                                         /\ vNodes \cap deleted = {}
                                         /\ socketHandler.copy \cap deleted = {}
        BY <1>1, <1>2 DEF CountInv
    <2>1. ASSUME NEW n \in Nodes PROVE node'[n].nRefCount >= Held(n)'
        <3>1. Held(n)' = Held(n) + One(n \in vNodes)
            BY <1>1, <1>2 DEF Held, Owned, Leaving, One
        <3>2. Held(n) \in Int /\ One(n \in vNodes) \in Int
            BY DEF Held, One
        <3>3. node[n].nRefCount >= Held(n) /\ node[n].nRefCount \in Int
            BY <1>0, TypeFacts DEF CountInv
        <3> QED
            BY <1>3, <3>1, <3>2, <3>3
    <2> QED
        BY <1>0, <2>1 DEF CountInv, ListInv
<1> QED
    BY <1>4, <1>5, <1>6, <1>7 DEF NodesInv

LEMMA PollNodeOK ==
    ASSUME NodesInv, NEW n \in Nodes, PollNode(n)
    PROVE  NodesInv'
<1>0. PeersType /\ ListInv /\ SocketInv /\ MessageInv /\ OpenerInv /\ CountInv
    BY DEF NodesInv
<1>1. /\ messageHandler.pc = "poll" /\ n \in messageHandler.todo
      /\ \/ messageHandler' = [messageHandler EXCEPT !.todo = @ \ {n}]
         \/ messageHandler' = [messageHandler EXCEPT !.pc = "process", !.cur = n, !.todo = @ \ {n},
                                                     !.it = 0, !.wiped = FALSE]
      /\ UNCHANGED <<node, vNodes, vNodesDisconnected, deleted, warm, semOutbound, setBanned,
                     lostCount, socketHandler, opener>>
    BY DEF PollNode, objects
<1>2. 0 \in 0 .. FloodSize
    BY PeersAssumption
<1>3. /\ messageHandler'.copy = messageHandler.copy
      /\ messageHandler'.todo = messageHandler.todo \ {n}
      /\ \/ messageHandler'.pc = "poll"
         \/ messageHandler'.pc = "process" /\ messageHandler'.cur = n /\ messageHandler'.it = 0
      /\ messageHandler' \in [pc : {"idle", "poll", "process"}, todo : SUBSET Nodes,
                              copy : SUBSET Nodes, cur : Nodes \cup {None},
                              it : 0 .. FloodSize, wiped : BOOLEAN]
    <2>1. CASE messageHandler' = [messageHandler EXCEPT !.todo = @ \ {n}]
        BY <1>0, <1>1, <2>1 DEF PeersType
    <2>2. CASE messageHandler' = [messageHandler EXCEPT !.pc = "process", !.cur = n,
                                     !.todo = @ \ {n}, !.it = 0, !.wiped = FALSE]
        <3> DEFINE T == messageHandler.todo \ {n}
        <3>1. T \in SUBSET Nodes /\ n \in Nodes \cup {None}
            BY <1>0, TypeFacts
        <3>2. messageHandler' = [messageHandler EXCEPT !.pc = "process", !.cur = n, !.todo = T,
                                                       !.it = 0, !.wiped = FALSE]
            BY <1>0, <2>2 DEF PeersType
        <3> HIDE DEF T
        <3>3. /\ messageHandler'.copy = messageHandler.copy /\ messageHandler'.todo = T
              /\ messageHandler'.pc = "process" /\ messageHandler'.cur = n
              /\ messageHandler'.it = 0
            BY <1>0, <3>2 DEF PeersType
        <3>4. messageHandler' \in [pc : {"idle", "poll", "process"}, todo : SUBSET Nodes,
                                   copy : SUBSET Nodes, cur : Nodes \cup {None},
                                   it : 0 .. FloodSize, wiped : BOOLEAN]
            BY <1>0, <1>2, <3>1, <3>2 DEF PeersType
        <3> QED
            BY <3>3, <3>4 DEF T
    <2> QED
        BY <1>1, <2>1, <2>2
<1>4. MessageInv'
    <2>1. node[n].vRecvMsg \in Nat
        BY <1>0, TypeFacts, PeersAssumption
    <2> QED
        BY <1>0, <1>1, <1>3, <2>1 DEF MessageInv
<1>5. PeersType' /\ ListInv' /\ SocketInv' /\ OpenerInv'
    <2>1. PeersType' /\ ListInv'
        BY <1>0, <1>1, <1>3 DEF PeersType, ListInv
    <2>2. SocketInv' /\ OpenerInv'
        BY <1>0, <1>1 DEF SocketInv, OpenerInv, Holds, Closing
    <2> QED
        BY <2>1, <2>2
<1>6. CountInv'
    BY <1>0, <1>1, <1>3 DEF CountInv, Held, Owned, Leaving
<1> QED
    BY <1>4, <1>5, <1>6 DEF NodesInv

(* The node that is being processed changes, but not its count.            *)
LEMMA ProcessFrame ==
    ASSUME NodesInv, NEW n \in Nodes, NEW f \in Field, n \in messageHandler.copy,
           node' = [node EXCEPT ![n] = f],
           f.addr = node[n].addr, f.nRefCount = node[n].nRefCount,
           messageHandler'.copy = messageHandler.copy,
           messageHandler' \in [pc : {"idle", "poll", "process"}, todo : SUBSET Nodes,
                                copy : SUBSET Nodes, cur : Nodes \cup {None},
                                it : 0 .. FloodSize, wiped : BOOLEAN],
           setBanned' \subseteq Addrs,
           UNCHANGED <<vNodes, vNodesDisconnected, deleted, warm, semOutbound, lostCount,
                       socketHandler, opener>>
    PROVE  PeersType' /\ ListInv' /\ SocketInv' /\ OpenerInv' /\ CountInv'
<1>0. PeersType /\ ListInv /\ SocketInv /\ MessageInv /\ OpenerInv /\ CountInv
    BY DEF NodesInv
<1>1. node[n].addr # None
    BY <1>0 DEF ListInv
<1>2. /\ node' \in [Nodes -> Field]
      /\ \A m \in Nodes : /\ node'[m].addr = node[m].addr
                          /\ node'[m].nRefCount = node[m].nRefCount
                          /\ m # n => node'[m] = node[m]
    BY <1>0 DEF PeersType
<1>3. PeersType'
    BY <1>0, <1>2 DEF PeersType
<1>4. ListInv'
    <2>1. \A m \in Nodes : node'[m].addr = None => node'[m] = node[m]
        BY <1>1, <1>2
    <2> QED
        BY <1>0, <1>2, <2>1 DEF ListInv
<1>5. SocketInv' /\ OpenerInv'
    BY <1>0 DEF SocketInv, OpenerInv, Holds, Closing, Leaving
<1>6. CountInv'
    <2>1. \A m \in Nodes : Held(m)' = Held(m)
        BY DEF Held, Owned, Leaving
    <2> QED
        BY <1>0, <1>2, <2>1 DEF CountInv
<1> QED
    BY <1>3, <1>4, <1>5, <1>6

LEMMA ProcessMessageOK ==
    ASSUME NodesInv, ProcessMessage
    PROVE  NodesInv'
<1>0. PeersType /\ ListInv /\ SocketInv /\ MessageInv /\ OpenerInv /\ CountInv
    BY DEF NodesInv
<1>1. messageHandler.pc = "process" /\ messageHandler.cur \in messageHandler.copy
    BY <1>0 DEF ProcessMessage, MessageInv
<1>2. PICK n \in Nodes : n = messageHandler.cur
    BY <1>0, <1>1, TypeFacts
<1> DEFINE it == messageHandler.it + (IF messageHandler.it < FloodSize THEN 1 ELSE 0)
<1>3. /\ messageHandler.wiped \/ messageHandler.it < node[n].vRecvMsg
      /\ UNCHANGED <<vNodes, vNodesDisconnected, deleted, warm, semOutbound, lostCount,
                     socketHandler, opener>>
    BY <1>2 DEF ProcessMessage
<1>4. /\ node[n] \in Field /\ node[n].vRecvMsg \in 0 .. FloodSize /\ FloodSize \in Nat
      /\ messageHandler.it \in 0 .. FloodSize
    BY <1>0, TypeFacts, PeersAssumption
<1>5. it \in 0 .. FloodSize /\ (messageHandler.wiped \/ it <= node[n].vRecvMsg)
    BY <1>3, <1>4
<1> HIDE DEF it
<1>6. node[n].addr \in Addrs
    BY <1>0, <1>1, <1>2, <1>4 DEF ListInv, Field
<1>7. ASSUME NEW f \in Field, node' = [node EXCEPT ![n] = f], f.addr = node[n].addr,
             f.nRefCount = node[n].nRefCount, NEW w \in BOOLEAN,
             w \/ (~messageHandler.wiped /\ f.vRecvMsg = node[n].vRecvMsg),
             messageHandler' = [messageHandler EXCEPT !.it = it, !.wiped = w],
             setBanned' \subseteq Addrs
      PROVE  NodesInv'
    <2>1. /\ messageHandler'.pc = "process" /\ messageHandler'.todo = messageHandler.todo
          /\ messageHandler'.copy = messageHandler.copy /\ messageHandler'.cur = n
          /\ messageHandler'.it = it /\ messageHandler'.wiped = w
          /\ messageHandler' \in [pc : {"idle", "poll", "process"}, todo : SUBSET Nodes,
                                  copy : SUBSET Nodes, cur : Nodes \cup {None},
                                  it : 0 .. FloodSize, wiped : BOOLEAN]
        BY <1>0, <1>1, <1>2, <1>5, <1>7 DEF PeersType
    <2>2. PeersType' /\ ListInv' /\ SocketInv' /\ OpenerInv' /\ CountInv'
        BY <1>1, <1>2, <1>3, <1>7, <2>1, ProcessFrame
    <2>3. node'[n].vRecvMsg = f.vRecvMsg
        BY <1>0, <1>7 DEF PeersType
    <2>4. MessageInv'
        BY <1>0, <1>1, <1>2, <1>5, <1>7, <2>1, <2>3 DEF MessageInv
    <2> QED
        BY <2>2, <2>4 DEF NodesInv
<1>8. CASE /\ UNCHANGED <<node, setBanned>>
           /\ messageHandler' = [messageHandler EXCEPT !.it = it]
    <2>1. node' = [node EXCEPT ![n] = node[n]]
        BY <1>0, <1>8 DEF PeersType
    <2>2. messageHandler' = [messageHandler EXCEPT !.it = it, !.wiped = messageHandler.wiped]
        BY <1>0, <1>8 DEF PeersType
    <2>3. messageHandler.wiped \in BOOLEAN /\ setBanned' \subseteq Addrs
        BY <1>0, <1>8 DEF PeersType
    <2> QED
        BY <1>4, <1>7, <2>1, <2>2, <2>3
<1>9. CASE /\ node' = [node EXCEPT ![n].fDisconnect = TRUE]
           /\ UNCHANGED setBanned
           /\ messageHandler' = [messageHandler EXCEPT !.it = it]
    <2> DEFINE f == [node[n] EXCEPT !.fDisconnect = TRUE]
    <2>1. node' = [node EXCEPT ![n] = f]
        BY <1>0, <1>9 DEF PeersType
    <2>2. messageHandler' = [messageHandler EXCEPT !.it = it, !.wiped = messageHandler.wiped]
        BY <1>0, <1>9 DEF PeersType
    <2>3. messageHandler.wiped \in BOOLEAN /\ setBanned' \subseteq Addrs
        BY <1>0, <1>9 DEF PeersType
    <2>4. /\ f \in Field /\ f.addr = node[n].addr /\ f.nRefCount = node[n].nRefCount
          /\ f.vRecvMsg = node[n].vRecvMsg
        BY <1>4 DEF Field
    <2> HIDE DEF f
    <2> QED
        BY <1>7, <2>1, <2>2, <2>3, <2>4
<1>10. CASE /\ node' = [node EXCEPT ![n] = Closed(@, TRUE)]
            /\ setBanned' = setBanned \cup {node[n].addr}
            /\ messageHandler' = [messageHandler EXCEPT !.it = it, !.wiped = @ \/ node[n].open]
    <2> DEFINE f == Closed(node[n], TRUE)
               w == messageHandler.wiped \/ node[n].open
    <2>1. node' = [node EXCEPT ![n] = f]
        BY <1>0, <1>10 DEF PeersType
    <2>2. messageHandler' = [messageHandler EXCEPT !.it = it, !.wiped = w]
        BY <1>0, <1>10 DEF PeersType
    <2>3. setBanned' \subseteq Addrs
        BY <1>0, <1>6, <1>10 DEF PeersType
    <2>4. /\ f \in Field /\ f.addr = node[n].addr /\ f.nRefCount = node[n].nRefCount
          /\ node[n].open \/ f.vRecvMsg = node[n].vRecvMsg
        BY <1>4, ClosedField
    <2>5. w \in BOOLEAN
        OBVIOUS
    <2>6. w \/ (~messageHandler.wiped /\ f.vRecvMsg = node[n].vRecvMsg)
        BY <2>4
    <2> HIDE DEF f, w
    <2> QED
        BY <1>7, <2>1, <2>2, <2>3, <2>4, <2>5, <2>6
<1> QED
    BY <1>2, <1>8, <1>9, <1>10 DEF ProcessMessage, it

LEMMA EndProcessOK ==
    ASSUME NodesInv, NEW fOk \in BOOLEAN, EndProcess(fOk)
    PROVE  NodesInv'
<1>0. PeersType /\ ListInv /\ SocketInv /\ MessageInv /\ OpenerInv /\ CountInv
    BY DEF NodesInv
<1>1. messageHandler.pc = "process" /\ messageHandler.cur \in messageHandler.copy
    BY <1>0 DEF EndProcess, MessageInv
<1>2. PICK n \in Nodes : n = messageHandler.cur
    BY <1>0, <1>1, TypeFacts
<1> DEFINE read == messageHandler.it + (IF fOk THEN 0 ELSE 1)
           left == IF messageHandler.wiped THEN 0 ELSE node[n].vRecvMsg - read
           f == [node[n] EXCEPT !.vRecvMsg = left]
           g == IF fOk THEN f ELSE Closed(f, TRUE)
<1>3. /\ ~fOk => messageHandler.it < node[n].vRecvMsg \/ messageHandler.wiped
      /\ node' = [node EXCEPT ![n] = g]
      /\ messageHandler' = [messageHandler EXCEPT !.pc = "poll", !.cur = None, !.it = 0,
                                                  !.wiped = FALSE]
      /\ UNCHANGED <<vNodes, vNodesDisconnected, deleted, warm, semOutbound, setBanned, lostCount,
                     socketHandler, opener>>
    BY <1>2 DEF EndProcess
<1>4. /\ node[n] \in Field /\ node[n].vRecvMsg \in 0 .. FloodSize /\ FloodSize \in Nat
      /\ messageHandler.it \in 0 .. FloodSize
      /\ messageHandler.wiped \/ messageHandler.it <= node[n].vRecvMsg
    BY <1>0, <1>1, <1>2, TypeFacts, PeersAssumption DEF MessageInv
<1>5. left \in 0 .. FloodSize
    BY <1>3, <1>4
<1> HIDE DEF left
<1>6. f \in Field /\ f.addr = node[n].addr /\ f.nRefCount = node[n].nRefCount
    BY <1>4, <1>5 DEF Field
<1> HIDE DEF f
<1>7. g \in Field /\ g.addr = node[n].addr /\ g.nRefCount = node[n].nRefCount
    BY <1>6, ClosedField
<1> HIDE DEF g
<1>8. /\ messageHandler'.pc = "poll" /\ messageHandler'.todo = messageHandler.todo
      /\ messageHandler'.copy = messageHandler.copy
      /\ messageHandler' \in [pc : {"idle", "poll", "process"}, todo : SUBSET Nodes,
                              copy : SUBSET Nodes, cur : Nodes \cup {None},
                              it : 0 .. FloodSize, wiped : BOOLEAN]
    <2>1. 0 \in 0 .. FloodSize
        BY <1>4
    <2>2. /\ messageHandler'.pc = "poll" /\ messageHandler'.todo = messageHandler.todo
          /\ messageHandler'.copy = messageHandler.copy
        BY <1>0, <1>3 DEF PeersType
    <2>3. messageHandler' \in [pc : {"idle", "poll", "process"}, todo : SUBSET Nodes,
                               copy : SUBSET Nodes, cur : Nodes \cup {None},
                               it : 0 .. FloodSize, wiped : BOOLEAN]
        BY <1>0, <1>3, <2>1 DEF PeersType
    <2> QED
        BY <2>2, <2>3
<1>9. setBanned' \subseteq Addrs
    BY <1>0, <1>3 DEF PeersType
<1>10. PeersType' /\ ListInv' /\ SocketInv' /\ OpenerInv' /\ CountInv'
    BY <1>1, <1>2, <1>3, <1>7, <1>8, <1>9, ProcessFrame
<1>11. MessageInv'
    BY <1>0, <1>1, <1>8 DEF MessageInv
<1> QED
    BY <1>10, <1>11 DEF NodesInv

LEMMA EndPollOK ==
    ASSUME NodesInv, EndPoll
    PROVE  NodesInv'
<1>0. PeersType /\ ListInv /\ SocketInv /\ MessageInv /\ OpenerInv /\ CountInv
    BY DEF NodesInv
<1> DEFINE C == messageHandler.copy
<1>1. /\ messageHandler.pc = "poll" /\ node' = Releases(C)
      /\ messageHandler' = [messageHandler EXCEPT !.pc = "idle", !.copy = {}]
      /\ UNCHANGED <<vNodes, vNodesDisconnected, deleted, warm, semOutbound, setBanned, lostCount,
                     socketHandler, opener>>
    BY DEF EndPoll
<1>2. /\ messageHandler'.pc = "idle" /\ messageHandler'.copy = {}
      /\ messageHandler' \in [pc : {"idle", "poll", "process"}, todo : SUBSET Nodes,
                              copy : SUBSET Nodes, cur : Nodes \cup {None},
                              it : 0 .. FloodSize, wiped : BOOLEAN]
    BY <1>0, <1>1 DEF PeersType
<1>3. /\ node' \in [Nodes -> Field]
      /\ \A n \in Nodes : /\ node'[n].addr = node[n].addr
                          /\ node'[n].nRefCount = node[n].nRefCount - One(n \in C)
                          /\ n \notin C => node'[n] = node[n]
    BY <1>0, <1>1, ReleasesField DEF PeersType
<1>4. PeersType'
    BY <1>0, <1>1, <1>2, <1>3 DEF PeersType
<1>5. ListInv'
    <2>1. \A n \in Nodes : node'[n].addr = None => node'[n] = node[n]
        BY <1>0, <1>3 DEF ListInv
    <2> QED
        BY <1>0, <1>1, <1>2, <1>3, <2>1 DEF ListInv
<1>6. SocketInv' /\ OpenerInv' /\ MessageInv'
    <2>1. SocketInv'
        BY <1>0, <1>1, <1>3 DEF SocketInv
    <2>2. OpenerInv'
        BY <1>0, <1>1 DEF OpenerInv, Holds, Closing
    <2>3. MessageInv'
        BY <1>2 DEF MessageInv
    <2> QED
        BY <2>1, <2>2, <2>3
<1>7. CountInv'
    <2> SUFFICES ASSUME ~lostCount, NEW n \in Nodes PROVE node'[n].nRefCount >= Held(n)'
        BY <1>0, <1>1, <1>2 DEF CountInv
    <2>1. Held(n)' = Held(n) - One(n \in C)
        BY <1>1, <1>2 DEF Held, Owned, Leaving, One
    <2>2. Held(n) \in Int /\ One(n \in C) \in Int
        BY DEF Held, One
    <2>3. node[n].nRefCount >= Held(n) /\ node[n].nRefCount \in Int
        BY <1>0, TypeFacts DEF CountInv
    <2> QED
        BY <1>3, <2>1, <2>2, <2>3
<1> QED
    BY <1>4, <1>5, <1>6, <1>7 DEF NodesInv

-----------------------------------------------------------------------------
(* The steps of the threads that open connections *)

LEMMA IdleState == Idle \in OpenerState /\ Idle.pc = "idle"
BY DEF Idle, OpenerState

(* An opener goes on and leaves every CNode alone.                         *)
LEMMA OpenerFrame ==
    ASSUME NodesInv, NEW t \in Openers, NEW r \in OpenerState,
           opener' = [opener EXCEPT ![t] = r],
           r.pc \in {"look", "dial"} => r.addr \in Addrs,
           r.pc \in Pointing => /\ r.node \in vNodes \cup warm \/ Closing(r.node)
                                /\ r.node \notin deleted,
           semOutbound' \in Int,
           UNCHANGED <<node, vNodes, vNodesDisconnected, deleted, warm, setBanned, lostCount,
                       socketHandler, messageHandler>>
    PROVE  NodesInv'
<1>0. PeersType /\ ListInv /\ SocketInv /\ MessageInv /\ OpenerInv /\ CountInv
    BY DEF NodesInv
<1>1. opener' \in [Openers -> OpenerState] /\ opener'[t] = r
         /\ \A u \in Openers : u # t => opener'[u] = opener[u]
    BY <1>0 DEF PeersType
<1>2. PeersType'
    BY <1>0, <1>1 DEF PeersType
<1>3. ListInv' /\ SocketInv' /\ MessageInv'
    BY <1>0 DEF ListInv, SocketInv, MessageInv
<1>4. OpenerInv'
    <2>1. ASSUME NEW u \in Openers
          PROVE  /\ opener'[u].pc \in {"look", "dial"} => opener'[u].addr \in Addrs
                 /\ opener'[u].pc \in Pointing =>
                       /\ opener'[u].node \in vNodes \cup warm \/ Closing(opener'[u].node)
                       /\ opener'[u].node \notin deleted
        <3>1. CASE u = t
            BY <1>1, <3>1
        <3>2. CASE u # t
            BY <1>0, <1>1, <3>2 DEF OpenerInv, Holds, Closing, Pointing
        <3> QED
            BY <3>1, <3>2
    <2> QED
        BY <2>1 DEF OpenerInv, Holds, Closing, Pointing
<1>5. CountInv'
    BY <1>0 DEF CountInv, Held, Owned, Leaving
<1> QED
    BY <1>2, <1>3, <1>4, <1>5 DEF NodesInv

(* An opener goes on and writes a field of the CNode it has a pointer to.  *)
LEMMA PointerFrame ==
    ASSUME NodesInv, NEW t \in Openers, Holds(t), NEW r \in OpenerState,
           opener' = [opener EXCEPT ![t] = r],
           r.pc = "idle" \/ (r.pc \in Pointing /\ r.node = opener[t].node),
           NEW n \in Nodes, n = opener[t].node, NEW f \in Field,
           node' = [node EXCEPT ![n] = f],
           f.addr = node[n].addr, f.vRecvMsg = node[n].vRecvMsg,
           lostCount' \in BOOLEAN, lostCount => lostCount',
           ~lostCount' => f.nRefCount >= node[n].nRefCount,
           semOutbound' \in Int,
           UNCHANGED <<vNodes, vNodesDisconnected, deleted, warm, setBanned,
                       socketHandler, messageHandler>>
    PROVE  NodesInv'
<1>0. PeersType /\ ListInv /\ SocketInv /\ MessageInv /\ OpenerInv /\ CountInv
    BY DEF NodesInv
<1>1. opener' \in [Openers -> OpenerState] /\ opener'[t] = r
         /\ \A u \in Openers : u # t => opener'[u] = opener[u]
    BY <1>0 DEF PeersType
<1>2. (n \in vNodes \cup warm \/ Closing(n)) /\ n \notin deleted /\ node[n].addr # None
    BY <1>0, PointerFacts DEF OpenerInv
<1>3. /\ node' \in [Nodes -> Field]
      /\ \A m \in Nodes : /\ node'[m].addr = node[m].addr
                          /\ node'[m].vRecvMsg = node[m].vRecvMsg
                          /\ m # n => node'[m] = node[m]
      /\ node'[n] = f
    BY <1>0 DEF PeersType
<1>4. PeersType'
    BY <1>0, <1>1, <1>3 DEF PeersType
<1>5. ListInv'
    <2>1. \A m \in Nodes : node'[m].addr = None => node'[m] = node[m]
        BY <1>2, <1>3
    <2> QED
        BY <1>0, <1>3, <2>1 DEF ListInv
<1>6. SocketInv'
    BY <1>0, <1>3 DEF SocketInv
<1>7. MessageInv'
    BY <1>0, <1>3, MessageFrame, TypeFacts
<1>8. OpenerInv'
    <2>1. ASSUME NEW u \in Openers
          PROVE  /\ opener'[u].pc \in {"look", "dial"} => opener'[u].addr \in Addrs
                 /\ opener'[u].pc \in Pointing =>
                       /\ opener'[u].node \in vNodes \cup warm \/ Closing(opener'[u].node)
                       /\ opener'[u].node \notin deleted
        <3>1. CASE u = t
            BY <1>1, <1>2, <3>1 DEF Pointing
        <3>2. CASE u # t
            BY <1>0, <1>1, <3>2 DEF OpenerInv, Holds, Pointing
        <3> QED
            BY <3>1, <3>2
    <2> QED
        BY <2>1 DEF OpenerInv, Holds, Closing, Pointing
<1>9. CountInv'
    <2> SUFFICES ASSUME ~lostCount'
                 PROVE  /\ \A m \in Nodes : node'[m].nRefCount >= Held(m)'
                        /\ socketHandler'.copy \cap deleted' = {}
                        /\ messageHandler'.copy \cap deleted' = {}
        BY DEF CountInv
    <2>1. \A m \in Nodes : Held(m)' = Held(m) /\ Held(m) \in Int
        BY DEF Held, Owned, Leaving, One
    <2>2. \A m \in Nodes : node[m].nRefCount >= Held(m) /\ node[m].nRefCount \in Int
        BY <1>0, TypeFacts DEF CountInv
    <2>3. \A m \in Nodes : node'[m].nRefCount \in Int /\ node'[m].nRefCount >= node[m].nRefCount
        <3>1. f.nRefCount \in Int
            BY DEF Field
        <3> QED
            BY <1>3, <2>2, <3>1
    <2>4. \A m \in Nodes : node'[m].nRefCount >= Held(m)'
        BY <2>1, <2>2, <2>3
    <2> QED
        BY <1>0, <2>4 DEF CountInv
<1> QED
    BY <1>4, <1>5, <1>6, <1>7, <1>8, <1>9 DEF NodesInv

(* A CNode is allocated and joins vNodes.                                  *)
LEMMA NewNodeFrame ==
    ASSUME NodesInv, NEW n \in Nodes, n \in Fresh, NEW a \in Addrs, NEW inbound \in BOOLEAN,
           node' = [node EXCEPT ![n] = NewNode(a, inbound)],
           vNodes' = vNodes \cup {n},
           opener' \in [Openers -> OpenerState], OpenerInv',
           UNCHANGED <<vNodesDisconnected, deleted, warm, semOutbound, setBanned, lostCount,
                       socketHandler, messageHandler>>
    PROVE  NodesInv'
<1>0. PeersType /\ ListInv /\ SocketInv /\ MessageInv /\ OpenerInv /\ CountInv
    BY DEF NodesInv
<1>1. /\ node[n].addr = None
      /\ n \notin vNodes \cup vNodesDisconnected \cup deleted \cup warm
      /\ n \notin socketHandler.copy \cup messageHandler.copy
    BY <1>0 DEF ListInv, Fresh
<1>2. /\ node' \in [Nodes -> Field] /\ node'[n].addr # None /\ node'[n].nRefCount = 1
      /\ \A m \in Nodes : m # n => node'[m] = node[m]
    BY <1>0, NewNodeField DEF PeersType
<1>3. PeersType'
    BY <1>0, <1>2 DEF PeersType
<1>4. ListInv'
    <2>1. \A m \in Nodes : node'[m].addr = None => m # n /\ node'[m] = node[m]
        BY <1>2
    <2> QED
        BY <1>0, <1>1, <2>1 DEF ListInv
<1>5. SocketInv'
    BY <1>0, <1>1 DEF SocketInv
<1>6. MessageInv'
    <2>1. \A m \in Nodes : Processing(m) => m # n
        BY <1>0, <1>1 DEF Processing, MessageInv
    <2> QED
        BY <1>0, <1>2, <2>1, MessageFrame, TypeFacts
<1>7. CountInv'
    <2> SUFFICES ASSUME ~lostCount, NEW m \in Nodes PROVE node'[m].nRefCount >= Held(m)'
        BY <1>0 DEF CountInv
    <2>1. CASE m = n
        <3>1. Held(m)' = 1
            BY <1>0, <1>1, <2>1 DEF Held, Owned, Leaving, One, SocketInv
        <3> QED
            BY <1>2, <2>1, <3>1
    <2>2. CASE m # n
        <3>1. Held(m)' = Held(m)
            BY <2>2 DEF Held, Owned, Leaving
        <3> QED
            BY <1>0, <1>2, <2>2, <3>1 DEF CountInv
    <2> QED
        BY <2>1, <2>2
<1> QED
    BY <1>3, <1>4, <1>5, <1>6, <1>7 DEF NodesInv

(* An opener without a pointer: it takes a slot, gives it back, chooses an *)
(* address or looks for an existing connection.                            *)
LEMMA LookingOK ==
    ASSUME NodesInv, NEW t \in Openers,
           \/ AcquireGrant(t) \/ NoCandidate(t) \/ DialFails(t) \/ LookForExisting(t)
           \/ \E a \in Targets[t] : OpenNetworkConnection(t, a)
    PROVE  NodesInv'
<1>0. PeersType /\ ListInv /\ SocketInv /\ MessageInv /\ OpenerInv /\ CountInv
    BY DEF NodesInv
<1>1. opener[t] \in OpenerState /\ opener \in [Openers -> OpenerState] /\ semOutbound \in Int
    BY <1>0, TypeFacts DEF PeersType
<1>2. CASE AcquireGrant(t)
    <2> DEFINE r == [opener[t] EXCEPT !.pc = "grant"]
    <2>1. opener' = [opener EXCEPT ![t] = r] /\ r \in OpenerState /\ r.pc = "grant"
        BY <1>1, <1>2 DEF AcquireGrant, OpenerState
    <2> HIDE DEF r
    <2> QED
        <3>1. semOutbound' \in Int
            BY <1>1, <1>2 DEF AcquireGrant
        <3>2. UNCHANGED <<node, vNodes, vNodesDisconnected, deleted, warm, setBanned, lostCount,
                          socketHandler, messageHandler>>
            BY <1>2 DEF AcquireGrant, objects
        <3> QED
            BY <2>1, <3>1, <3>2, OpenerFrame DEF Pointing
<1>3. CASE NoCandidate(t) \/ DialFails(t)
    <2>1. opener' = [opener EXCEPT ![t] = Idle] /\ semOutbound' \in Int
        BY <1>1, <1>3 DEF NoCandidate, DialFails, GiveUp
    <2>2. Idle.pc \notin {"look", "dial"} \cup Pointing /\ Idle \in OpenerState
        BY IdleState DEF Pointing
    <2>3. UNCHANGED <<node, vNodes, vNodesDisconnected, deleted, warm, setBanned, lostCount,
                      socketHandler, messageHandler>>
        BY <1>3 DEF NoCandidate, DialFails, GiveUp, objects
    <2> QED
        BY <2>1, <2>2, <2>3, OpenerFrame
<1>4. ASSUME NEW a \in Targets[t], OpenNetworkConnection(t, a) PROVE NodesInv'
    <2> DEFINE r == [opener[t] EXCEPT !.pc = "look", !.addr = a]
    <2>1. a \in Addrs
        BY PeersAssumption
    <2>2. opener' = [opener EXCEPT ![t] = r]
        BY <1>1, <1>4 DEF OpenNetworkConnection, OpenerState
    <2>3. r \in OpenerState /\ r.pc = "look" /\ r.addr = a
        BY <1>1, <2>1 DEF OpenerState
    <2> HIDE DEF r
    <2> QED
        BY <1>1, <1>4, <2>1, <2>2, <2>3, OpenerFrame DEF OpenNetworkConnection, objects, Pointing
<1>5. ASSUME opener[t].pc = "look", LookForExisting(t),
             opener' = [opener EXCEPT ![t].pc = "dial"]
      PROVE  NodesInv'
    <2> DEFINE r == [opener[t] EXCEPT !.pc = "dial"]
    <2>1. opener' = [opener EXCEPT ![t] = r]
        BY <1>1, <1>5 DEF OpenerState
    <2>2. r \in OpenerState /\ r.pc = "dial" /\ r.addr = opener[t].addr
        BY <1>1 DEF OpenerState
    <2>3. opener[t].addr \in Addrs
        BY <1>0, <1>5 DEF OpenerInv
    <2> HIDE DEF r
    <2> QED
        BY <1>1, <1>5, <2>1, <2>2, <2>3, OpenerFrame DEF LookForExisting, objects, Pointing
<1>6. ASSUME LookForExisting(t), NEW n \in FindNode(opener[t].addr),
             opener' = [opener EXCEPT ![t].pc = "count", ![t].node = n,
                                      ![t].count = node[n].nRefCount]
      PROVE  NodesInv'
    <2> DEFINE c == node[n].nRefCount
    <2>1. n \in vNodes /\ n \notin deleted /\ n \in Nodes \cup {None} /\ c \in Int
        BY <1>0, TypeFacts DEF FindNode, ListInv, PeersType
    <2> HIDE DEF c
    <2> DEFINE r == [opener[t] EXCEPT !.pc = "count", !.node = n, !.count = c]
    <2>2. opener' = [opener EXCEPT ![t] = r]
        BY <1>1, <1>6 DEF OpenerState, c
    <2>3. r \in OpenerState /\ r.pc = "count" /\ r.node = n
        BY <1>1, <2>1 DEF OpenerState
    <2> HIDE DEF r
    <2> QED
        BY <1>1, <1>6, <2>1, <2>2, <2>3, OpenerFrame DEF LookForExisting, objects
<1> QED
    BY <1>2, <1>3, <1>4, <1>5, <1>6 DEF LookForExisting

(* The increment that no lock protects: it adds to the count, or another   *)
(* thread's change of it is lost.                                          *)
LEMMA AddRefExistingOK ==
    ASSUME NodesInv, NEW t \in Openers, AddRefExisting(t)
    PROVE  NodesInv'
<1>0. PeersType /\ OpenerInv
    BY DEF NodesInv
<1>1. opener[t] \in OpenerState /\ opener \in [Openers -> OpenerState] /\ semOutbound \in Int
         /\ node \in [Nodes -> Field]
    BY <1>0, TypeFacts DEF PeersType
<1>2. Holds(t) /\ opener[t].pc = "count"
    BY DEF AddRefExisting, Holds
<1>3. PICK n \in Nodes : n = opener[t].node
    BY <1>2, PointerFacts
<1> DEFINE c == opener[t].count + 1
           f == [node[n] EXCEPT !.nRefCount = c]
           r == [opener[t] EXCEPT !.pc = "move"]
<1>4. c \in Int /\ opener[t].count \in Int
    BY <1>1 DEF OpenerState
<1>5. node' = [node EXCEPT ![n] = f]
    BY <1>1, <1>3 DEF AddRefExisting
<1>6. opener' = [opener EXCEPT ![t] = r]
    BY <1>1 DEF AddRefExisting
<1>7. r \in OpenerState /\ r.pc = "move" /\ r.node = opener[t].node
    BY <1>1 DEF OpenerState
<1>8. lostCount' = (lostCount \/ node[n].nRefCount # opener[t].count) /\ lostCount \in BOOLEAN
    BY <1>0, <1>3 DEF AddRefExisting, PeersType
<1>9. ~lostCount' => c >= node[n].nRefCount
    <2>1. ~lostCount' => node[n].nRefCount = opener[t].count
        BY <1>8, Zenon
    <2> QED
        BY <1>4, <2>1
<1> HIDE DEF c
<1>10. node[n] \in Field
    BY <1>1
<1>11. /\ f \in Field /\ f.addr = node[n].addr /\ f.vRecvMsg = node[n].vRecvMsg
       /\ f.nRefCount = c
    BY <1>4, <1>10 DEF Field
<1>12. lostCount' \in BOOLEAN /\ (lostCount => lostCount')
    BY <1>8
<1>13. UNCHANGED <<vNodes, vNodesDisconnected, deleted, warm, setBanned, socketHandler,
                   messageHandler, semOutbound>>
    BY DEF AddRefExisting
<1> HIDE DEF f, r
<1>14. semOutbound' \in Int /\ (~lostCount' => f.nRefCount >= node[n].nRefCount)
    BY <1>1, <1>9, <1>11, <1>13
<1> QED
    BY <1>2, <1>3, <1>5, <1>6, <1>7, <1>11, <1>12, <1>13, <1>14, PointerFrame DEF Pointing

(* The steps of MoveTo.                                                    *)
LEMMA MoveGrantOK ==
    ASSUME NodesInv, NEW t \in Openers,
           MoveGrant(t) \/ PostMoved(t) \/ ClearMoved(t) \/ SetMoved(t)
    PROVE  NodesInv'
<1>0. PeersType /\ OpenerInv /\ ListInv /\ SocketInv
    BY DEF NodesInv
<1>1. opener[t] \in OpenerState /\ opener \in [Openers -> OpenerState] /\ semOutbound \in Int
         /\ node \in [Nodes -> Field] /\ lostCount \in BOOLEAN
    BY <1>0, TypeFacts DEF PeersType
<1>2. Holds(t)
    BY DEF MoveGrant, PostMoved, ClearMoved, SetMoved, Holds
<1>3. PICK n \in Nodes : n = opener[t].node
    BY <1>0, <1>2 DEF OpenerInv, PeersType, SocketInv, Closing, Leaving
<1>4. PICK p \in {"post", "clear", "set", "mark"} : opener' = [opener EXCEPT ![t].pc = p]
    BY DEF MoveGrant, PostMoved, ClearMoved, SetMoved
<1> DEFINE r == [opener[t] EXCEPT !.pc = p]
<1>5. opener' = [opener EXCEPT ![t] = r]
    BY <1>1, <1>4
<1>6. r \in OpenerState /\ r.pc \in Pointing /\ r.node = opener[t].node
    BY <1>1 DEF OpenerState, Pointing
<1> HIDE DEF r
<1>7. PICK f \in Field : /\ node' = [node EXCEPT ![n] = f]
                         /\ f.addr = node[n].addr /\ f.vRecvMsg = node[n].vRecvMsg
                         /\ f.nRefCount = node[n].nRefCount
    <2>1. node[n] \in Field
        BY <1>1
    <2>2. CASE UNCHANGED node
        BY <1>1, <2>1, <2>2
    <2>3. ASSUME NEW g \in BOOLEAN, node' = [node EXCEPT ![n].grant = g]
          PROVE  LET h == [node[n] EXCEPT !.grant = g]
                 IN  /\ h \in Field /\ node' = [node EXCEPT ![n] = h]
                     /\ h.addr = node[n].addr /\ h.vRecvMsg = node[n].vRecvMsg
                     /\ h.nRefCount = node[n].nRefCount
        BY <1>1, <2>1, <2>3 DEF Field
    <2>4. UNCHANGED node \/ \E g \in BOOLEAN : node' = [node EXCEPT ![n].grant = g]
        BY <1>3 DEF MoveGrant, PostMoved, ClearMoved, SetMoved, objects
    <2> QED
        BY <2>2, <2>3, <2>4
<1>8. semOutbound' \in Int /\ lostCount' = lostCount
    BY <1>1 DEF MoveGrant, PostMoved, ClearMoved, SetMoved
<1>9. UNCHANGED <<vNodes, vNodesDisconnected, deleted, warm, setBanned, socketHandler,
                  messageHandler>>
    BY DEF MoveGrant, PostMoved, ClearMoved, SetMoved, objects
<1>10. (lostCount => lostCount') /\ f.nRefCount >= node[n].nRefCount /\ lostCount' \in BOOLEAN
    <2>1. node[n].nRefCount \in Int
        BY <1>1 DEF Field
    <2> QED
        BY <1>1, <1>7, <1>8, <2>1
<1> QED
    BY <1>2, <1>3, <1>5, <1>6, <1>7, <1>8, <1>9, <1>10, PointerFrame

LEMMA MarkNetworkNodeOK ==
    ASSUME NodesInv, NEW t \in Openers, MarkNetworkNode(t)
    PROVE  NodesInv'
<1>0. PeersType /\ OpenerInv
    BY DEF NodesInv
<1>1. opener[t] \in OpenerState /\ opener \in [Openers -> OpenerState] /\ semOutbound \in Int
         /\ node \in [Nodes -> Field]
    BY <1>0, TypeFacts DEF PeersType
<1>2. Holds(t) /\ opener[t].pc = "mark"
    BY DEF MarkNetworkNode, Holds
<1>3. PICK n \in Nodes : n = opener[t].node
    BY <1>2, PointerFacts
<1> DEFINE f == [node[n] EXCEPT !.fNetworkNode = TRUE]
<1>4. node[n] \in Field
    BY <1>1
<1>5. node' = [node EXCEPT ![n] = f]
    BY <1>1, <1>3 DEF MarkNetworkNode
<1>6. opener' = [opener EXCEPT ![t] = Idle]
    BY <1>1 DEF MarkNetworkNode
<1>7. /\ f \in Field /\ f.addr = node[n].addr /\ f.vRecvMsg = node[n].vRecvMsg
      /\ f.nRefCount = node[n].nRefCount /\ node[n].nRefCount \in Int
    BY <1>4 DEF Field
<1>8. semOutbound' \in Int /\ lostCount' \in BOOLEAN /\ lostCount' = lostCount
    BY <1>0 DEF MarkNetworkNode, PeersType
<1>9. UNCHANGED <<vNodes, vNodesDisconnected, deleted, warm, setBanned, socketHandler,
                  messageHandler>>
    BY DEF MarkNetworkNode
<1> HIDE DEF f
<1> QED
    <2>1. (lostCount => lostCount') /\ f.nRefCount >= node[n].nRefCount
        BY <1>7, <1>8
    <2> QED
        BY <1>2, <1>3, <1>5, <1>6, <1>7, <1>8, <1>9, <2>1, IdleState, PointerFrame

(* A new CNode, dialled by an opener, by "addnode onetry" or by the peer.  *)
LEMMA DialOK ==
    ASSUME NodesInv, NEW t \in Openers, NEW n \in Nodes, Dial(t, n)
    PROVE  NodesInv'
<1>0. PeersType /\ ListInv /\ OpenerInv
    BY DEF NodesInv
<1>1. opener[t] \in OpenerState /\ opener \in [Openers -> OpenerState]
    BY <1>0, TypeFacts DEF PeersType
<1> DEFINE r == [opener[t] EXCEPT !.pc = "move", !.node = n]
<1>2. opener' = [opener EXCEPT ![t] = r]
    BY <1>1 DEF Dial, OpenerState
<1>3. r \in OpenerState /\ r.pc = "move" /\ r.node = n
    BY <1>1 DEF OpenerState
<1> HIDE DEF r
<1>4. opener' \in [Openers -> OpenerState] /\ opener'[t] = r
         /\ \A u \in Openers : u # t => opener'[u] = opener[u]
    BY <1>1, <1>2, <1>3
<1>5. /\ n \in Fresh /\ opener[t].addr \in Addrs
      /\ node' = [node EXCEPT ![n] = NewNode(opener[t].addr, FALSE)]
      /\ vNodes' = vNodes \cup {n}
      /\ UNCHANGED <<vNodesDisconnected, deleted, warm, semOutbound, setBanned, lostCount,
                     socketHandler, messageHandler>>
    BY <1>0 DEF Dial, OpenerInv
<1>6. OpenerInv'
    <2>1. n \notin deleted
        BY <1>0, <1>5 DEF ListInv, Fresh
    <2>2. ASSUME NEW u \in Openers
          PROVE  /\ opener'[u].pc \in {"look", "dial"} => opener'[u].addr \in Addrs
                 /\ opener'[u].pc \in Pointing =>
                       /\ opener'[u].node \in vNodes \cup {n} \cup warm \/ Closing(opener'[u].node)
                       /\ opener'[u].node \notin deleted
        <3>1. CASE u = t
            BY <1>3, <1>4, <2>1, <3>1
        <3>2. CASE u # t
            BY <1>0, <1>4, <3>2 DEF OpenerInv, Holds, Closing, Pointing
        <3> QED
            BY <3>1, <3>2
    <2> QED
        BY <1>5, <2>2 DEF OpenerInv, Holds, Closing, Pointing
<1> QED
    BY <1>4, <1>5, <1>6, NewNodeFrame

LEMMA UndialledOK ==
    ASSUME NodesInv, NEW n \in Nodes, NEW a,
           \/ a \in Incoming /\ AcceptConnection(a, n)
           \/ a \in OneTries /\ OneTry(a, n)
    PROVE  NodesInv'
<1>0. PeersType /\ OpenerInv
    BY DEF NodesInv
<1>1. PICK inbound \in BOOLEAN : node' = [node EXCEPT ![n] = NewNode(a, inbound)]
    BY DEF AcceptConnection, OneTry
<1>2. /\ a \in Addrs /\ n \in Fresh /\ vNodes' = vNodes \cup {n}
      /\ UNCHANGED <<vNodesDisconnected, deleted, warm, semOutbound, setBanned, lostCount,
                     socketHandler, messageHandler, opener>>
    BY PeersAssumption DEF AcceptConnection, OneTry
<1>3. opener' \in [Openers -> OpenerState] /\ OpenerInv'
    BY <1>0, <1>2 DEF PeersType, OpenerInv, Holds, Closing
<1> QED
    BY <1>1, <1>2, <1>3, NewNodeFrame

(* Fifteen minutes later no opener has a pointer to the CNode any more.    *)
LEMMA TimePassesOK ==
    ASSUME NodesInv, NEW n \in Nodes, TimePasses(n)
    PROVE  NodesInv'
<1>0. PeersType /\ ListInv /\ SocketInv /\ MessageInv /\ OpenerInv /\ CountInv
    BY DEF NodesInv
<1>1. /\ n \in vNodesDisconnected /\ warm' = warm \ {n}
      /\ \A t \in Openers : Holds(t) => opener[t].node # n
      /\ UNCHANGED <<node, vNodes, vNodesDisconnected, deleted, semOutbound, setBanned, lostCount,
                     socketHandler, messageHandler, opener>>
    BY DEF TimePasses
<1>2. PeersType' /\ ListInv'
    BY <1>0, <1>1 DEF PeersType, ListInv
<1>3. SocketInv' /\ MessageInv'
    BY <1>0, <1>1 DEF SocketInv, MessageInv, Leaving, ListInv
<1>4. OpenerInv'
    BY <1>0, <1>1 DEF OpenerInv, Holds, Closing, Pointing
<1>5. CountInv'
    BY <1>0, <1>1 DEF CountInv, Held, Owned, Leaving
<1> QED
    BY <1>2, <1>3, <1>4, <1>5 DEF NodesInv

LEMMA UntouchedOK ==
    ASSUME NodesInv, setBanned' \subseteq Addrs,
           UNCHANGED <<objects, semOutbound, lostCount, socketHandler, messageHandler, opener>>
    PROVE  NodesInv'
<1>1. PeersType'
    BY DEF NodesInv, PeersType, objects
<1>2. ListInv' /\ SocketInv' /\ MessageInv'
    BY DEF NodesInv, ListInv, SocketInv, MessageInv, objects
<1>3. OpenerInv' /\ CountInv'
    BY DEF NodesInv, OpenerInv, Holds, Closing, CountInv, Held, Owned, Leaving, objects
<1> QED
    BY <1>1, <1>2, <1>3 DEF NodesInv

LEMMA NodesInit == Init => NodesInv
<1> SUFFICES ASSUME Init PROVE NodesInv
    OBVIOUS
<1>1. PeersType
    <2>1. 0 \in 0 .. FloodSize /\ MaxOutbound \in Int
        BY PeersAssumption
    <2>2. messageHandler \in [pc : {"idle", "poll", "process"}, todo : SUBSET Nodes,
                              copy : SUBSET Nodes, cur : Nodes \cup {None},
                              it : 0 .. FloodSize, wiped : BOOLEAN]
        BY <2>1 DEF Init
    <2>3. socketHandler \in SocketState
        BY DEF Init, SocketState
    <2>4. node \in [Nodes -> Field] /\ opener \in [Openers -> OpenerState]
        BY UnbornField, IdleState DEF Init
    <2> QED
        BY <2>1, <2>2, <2>3, <2>4 DEF Init, PeersType
<1>2. ListInv /\ SocketInv /\ MessageInv
    BY DEF Init, ListInv, SocketInv, MessageInv, Leaving
<1>3. OpenerInv
    BY IdleState DEF Init, OpenerInv, Holds
<1>4. CountInv
    <2>1. \A n \in Nodes : node[n].nRefCount = 0 /\ Held(n) = 0
        BY UnbornField DEF Init, Held, Owned, Leaving, One
    <2> QED
        BY <2>1 DEF Init, CountInv
<1> QED
    BY <1>1, <1>2, <1>3, <1>4 DEF NodesInv

LEMMA NodesStep == NodesInv /\ [Next]_vars => NodesInv'
<1> SUFFICES ASSUME NodesInv, [Next]_vars PROVE NodesInv'
    OBVIOUS
<1>1. CASE SocketHandlerStep
    BY <1>1, BeginDisconnectOK, LeavingOK, DropNodeOK, DeleteNodesOK, BeginServiceOK, EndServiceOK,
       ExamineNodeOK, ServiceNodeOK DEF SocketHandlerStep
<1>2. CASE MessageHandlerStep
    BY <1>2, BeginPollOK, ProcessMessageOK, EndPollOK, PollNodeOK, EndProcessOK
       DEF MessageHandlerStep
<1>3. ASSUME NEW t \in Openers, OpenerStep(t) PROVE NodesInv'
    <2>1. CASE \/ AcquireGrant(t) \/ NoCandidate(t) \/ DialFails(t) \/ LookForExisting(t)
               \/ \E a \in Targets[t] : OpenNetworkConnection(t, a)
        BY <2>1, LookingOK
    <2>2. CASE \/ AddRefExisting(t) \/ MarkNetworkNode(t)
               \/ MoveGrant(t) \/ PostMoved(t) \/ ClearMoved(t) \/ SetMoved(t)
        BY <2>2, AddRefExistingOK, MoveGrantOK, MarkNetworkNodeOK
    <2>3. CASE \E n \in Nodes : Dial(t, n)
        BY <2>3, DialOK
    <2> QED
        BY <1>3, <2>1, <2>2, <2>3 DEF OpenerStep
<1>4. CASE \E n \in Nodes : \E a \in Incoming : AcceptConnection(a, n)
    BY <1>4, UndialledOK
<1>5. CASE \E n \in Nodes : \E a \in OneTries : OneTry(a, n)
    BY <1>5, UndialledOK
<1>6. CASE \E n \in Nodes : TimePasses(n)
    BY <1>6, TimePassesOK
<1>7. CASE \E a \in Addrs : BanEnds(a)
    BY <1>7, UntouchedOK DEF BanEnds, NodesInv, PeersType
<1>8. CASE UNCHANGED vars
    BY <1>8, UntouchedOK DEF vars, NodesInv, PeersType
<1> QED
    BY <1>1, <1>2, <1>3, <1>4, <1>5, <1>6, <1>7, <1>8 DEF Next

(* "wait until threads are done using it": however many threads open       *)
(* connections, no thread works on a CNode after DeleteNodes has freed it, *)
(* unless ConnectNode's increment without a lock lost another thread's.    *)
THEOREM NodesNeverUsedAfterDelete == Spec => []NoNodeUsedAfterDelete
<1>1. NodesInv => NoNodeUsedAfterDelete
    <2>1. PeersType => DOMAIN opener = Openers
        BY DEF PeersType
    <2> QED
        BY <2>1 DEF NodesInv, CountInv, OpenerInv, NoNodeUsedAfterDelete
<1> QED
    BY NodesInit, NodesStep, <1>1, PTL DEF Spec

-----------------------------------------------------------------------------
(* The slots of semOutbound *)

Giving == {"post", "clear"}
Granted == {n \in Nodes : node[n].grant /\ ~Posted(n)}
Dialing == {t \in Openers : opener[t].pc \notin {"idle", "mark"}}

(* While no two threads are inside MoveTo or Release of one grant, each of *)
(* them finds fHaveGrant as it left it.                                    *)
Alone ==
    /\ \A t, u \in Openers : \A n \in Nodes : t \in Handing(n) /\ u \in Handing(n) => t = u
    /\ \A n \in Nodes : Releasing(n) => Handing(n) = {}
HandOver ==
    /\ \A t \in Openers :
          /\ opener[t].pc \in Giving => node[opener[t].node].grant
          /\ opener[t].pc = "set" => ~node[opener[t].node].grant
    /\ socketHandler.pc \in Giving => node[socketHandler.cur].grant

SlotCount == semOutbound + Cardinality(Granted) + Cardinality(Dialing) = MaxOutbound
SlotInv ==
    /\ semOutbound >= 0 /\ grantRaced \in BOOLEAN
    /\ ~grantRaced => Alone /\ HandOver /\ SlotCount

LEMMA SlotTypes ==
    ASSUME PeersType
    PROVE  /\ semOutbound \in Int /\ MaxOutbound \in Int
           /\ IsFiniteSet(Granted) /\ IsFiniteSet(Dialing)
           /\ Cardinality(Granted) \in Nat /\ Cardinality(Dialing) \in Nat
<1>1. IsFiniteSet(Nodes) /\ IsFiniteSet(Openers) /\ MaxOutbound \in Int
    BY PeersAssumption
<1>2. IsFiniteSet(Granted) /\ IsFiniteSet(Dialing)
    <2>1. Granted \in SUBSET Nodes /\ Dialing \in SUBSET Openers
        BY DEF Granted, Dialing
    <2> QED
        BY <1>1, <2>1, FS_Subset
<1> QED
    BY <1>1, <1>2, FS_CardinalityType DEF PeersType

(* What a state says of Posted, in terms of the threads there are.         *)
LEMMA PostedMeans ==
    ASSUME PeersType, NEW n
    PROVE  Posted(n) <=> \/ socketHandler.pc = "clear" /\ socketHandler.cur = n
                         \/ \E t \in Openers : opener[t].pc = "clear" /\ opener[t].node = n
BY DEF PeersType, Posted

(* One element joins a finite set, or leaves it.                           *)
LEMMA JoinCount ==
    ASSUME NEW S, IsFiniteSet(S), NEW x
    PROVE  Cardinality(S \cup {x}) = Cardinality(S) + One(x \notin S)
<1>0. Cardinality(S) \in Nat
    BY FS_CardinalityType
<1>1. CASE x \in S
    <2>1. S \cup {x} = S
        BY <1>1
    <2> QED
        <3>1. Cardinality(S \cup {x}) = Cardinality(S)
            BY <2>1, Zenon
        <3> QED
            BY <1>0, <1>1, <3>1 DEF One
<1>2. CASE x \notin S
    BY <1>2, FS_AddElement DEF One
<1> QED
    BY <1>1, <1>2

LEMMA LeaveCount ==
    ASSUME NEW S, IsFiniteSet(S), NEW x
    PROVE  Cardinality(S \ {x}) = Cardinality(S) - One(x \in S)
<1>0. Cardinality(S) \in Nat
    BY FS_CardinalityType
<1>1. CASE x \in S
    BY <1>1, FS_RemoveElement DEF One
<1>2. CASE x \notin S
    <2>1. S \ {x} = S
        BY <1>2
    <2> QED
        <3>1. Cardinality(S \ {x}) = Cardinality(S)
            BY <2>1, Zenon
        <3> QED
            BY <1>0, <1>2, <3>1 DEF One
<1> QED
    BY <1>1, <1>2

(* A step that hands no slot on and leaves every grant as it is.           *)
SameGrants == \A n \in Nodes : node'[n].grant = node[n].grant

LEMMA SlotFrame ==
    ASSUME PeersType, PeersType', SlotInv, SameGrants, NodesInv,
           UNCHANGED <<semOutbound, opener, grantRaced>>,
           \/ UNCHANGED socketHandler
           \/ socketHandler.pc \notin Giving /\ socketHandler'.pc \notin Giving
    PROVE  SlotInv'
<1>1. \A n \in Nodes : /\ Posted(n)' = Posted(n) /\ Handing(n)' = Handing(n)
                       /\ Releasing(n)' = Releasing(n)
    BY DEF Posted, Handing, Releasing, Giving
<1>2. Granted' = Granted /\ Dialing' = Dialing
    BY <1>1 DEF Granted, Dialing, SameGrants
<1>3. /\ \A t \in Openers : opener[t].pc \in Giving \cup {"set"} => opener[t].node \in Nodes
      /\ socketHandler.pc \in Giving => socketHandler.cur \in Nodes
    BY PointerFacts DEF NodesInv, SocketInv, Holds, Giving, Leaving
<1>4. Alone => Alone'
    BY <1>1 DEF Alone
<1>5. HandOver => HandOver'
    BY <1>3 DEF HandOver, SameGrants
<1>6. SlotCount => SlotCount'
    BY <1>2 DEF SlotCount
<1> QED
    BY <1>4, <1>5, <1>6 DEF SlotInv

LEMMA GrantKept ==
    ASSUME PeersType, NEW n \in Nodes, NEW f, f.grant = node[n].grant,
           node' = [node EXCEPT ![n] = f]
    PROVE  SameGrants
BY DEF PeersType, SameGrants

LEMMA HandlersKeepSlots ==
    ASSUME NodesInv, PeersType', SlotInv, UNCHANGED <<semOutbound, opener, grantRaced>>,
           \/ BeginDisconnect \/ CloseNode \/ DropNode \/ BeginService \/ EndService
           \/ BeginPoll \/ ProcessMessage \/ EndPoll
           \/ \E n \in Nodes : ServiceNode(n) \/ PollNode(n)
           \/ \E fOk \in BOOLEAN : EndProcess(fOk)
    PROVE  SlotInv'
<1>0. PeersType /\ MessageInv /\ node \in [Nodes -> Field] /\ (\A n \in Nodes : node[n] \in Field)
    BY TypeFacts DEF NodesInv, PeersType
<1>1. \/ UNCHANGED socketHandler
      \/ socketHandler.pc \notin Giving /\ socketHandler'.pc \notin Giving
    <2>1. socketHandler \in SocketState
        BY <1>0 DEF PeersType
    <2>2. CASE BeginDisconnect \/ CloseNode \/ DropNode \/ BeginService \/ EndService
        BY <2>1, <2>2 DEF BeginDisconnect, DropNode, CloseNode, BeginService, EndService, Giving,
           SocketState
    <2>3. CASE BeginPoll \/ ProcessMessage \/ EndPoll \/ \E fOk \in BOOLEAN : EndProcess(fOk)
        BY <2>3 DEF BeginPoll, ProcessMessage, EndPoll, EndProcess
    <2>4. ASSUME NEW n \in Nodes, PollNode(n) PROVE UNCHANGED socketHandler
        BY <2>4 DEF PollNode
    <2>5. ASSUME NEW n \in Nodes, ServiceNode(n)
          PROVE  socketHandler.pc \notin Giving /\ socketHandler'.pc \notin Giving
        BY <2>1, <2>5 DEF ServiceNode, SocketState, Giving
    <2> QED
        BY <2>2, <2>3, <2>4, <2>5
<1>2. SUFFICES SameGrants
    BY <1>0, <1>1, SlotFrame
<1>3. CASE BeginDisconnect \/ \E n \in Nodes : PollNode(n)
    BY <1>3 DEF BeginDisconnect, PollNode, objects, SameGrants
<1>4. ASSUME NEW S, node' = AddRefs(S) \/ node' = Releases(S) PROVE SameGrants
    <2>1. \A n \in Nodes : node'[n].grant = node[n].grant
        <3>1. CASE node' = AddRefs(S)
            BY <1>0, <3>1, AddRefsField
        <3>2. CASE node' = Releases(S)
            BY <1>0, <3>2, ReleasesField
        <3> QED
            BY <1>4, <3>1, <3>2
    <2> QED
        BY <2>1 DEF SameGrants
<1>5. CASE DropNode
    <2>1. CASE node' = node
        BY <2>1 DEF SameGrants
    <2>2. CASE node' = Releases({socketHandler.cur})
        BY <1>4, <2>2
    <2> QED
        BY <1>5, <2>1, <2>2 DEF DropNode
<1>13. CASE CloseNode
    <2>1. PICK n \in Nodes : n = socketHandler.cur
        BY <1>0, <1>13 DEF CloseNode, NodesInv, ListInv, SocketInv, Leaving
    <2> DEFINE f == Closed(node[n], ~Processing(n))
    <2>2. node' = [node EXCEPT ![n] = f]
        BY <1>0, <1>13, <2>1 DEF CloseNode
    <2>3. f.grant = node[n].grant
        BY <1>0, <2>1, ClosedField DEF Processing
    <2> HIDE DEF f
    <2> QED
        BY <1>0, <2>2, <2>3, GrantKept
<1>6. CASE BeginService \/ EndService \/ BeginPoll \/ EndPoll
    BY <1>4, <1>6 DEF BeginService, EndService, BeginPoll, CopyNodes, EndPoll
<1>7. ASSUME NEW n \in Nodes, node' = [node EXCEPT ![n].fDisconnect = TRUE]
      PROVE  SameGrants
    <2>1. /\ node' = [node EXCEPT ![n] = [node[n] EXCEPT !.fDisconnect = TRUE]]
          /\ [node[n] EXCEPT !.fDisconnect = TRUE].grant = node[n].grant
        BY <1>0, <1>7 DEF Field
    <2> QED
        BY <1>0, <2>1, GrantKept
<1>8. ASSUME NEW n \in Nodes, node' = [node EXCEPT ![n] = Closed(node[n], TRUE)]
      PROVE  SameGrants
    BY <1>0, <1>8, ClosedField, GrantKept
<1>9. ASSUME NEW n \in Nodes, ServiceNode(n) PROVE SameGrants
    <2>1. CASE UNCHANGED node
        BY <2>1 DEF SameGrants
    <2>2. CASE node' = [node EXCEPT ![n] = Received(node[n])]
        BY <1>0, <2>2, ReceivedField, GrantKept
    <2>3. CASE node' = [node EXCEPT ![n] = Closed(node[n], TRUE)]
        BY <1>8, <2>3
    <2>4. CASE node' = [node EXCEPT ![n].fDisconnect = TRUE]
        BY <1>7, <2>4
    <2> QED
        BY <1>9, <2>1, <2>2, <2>3, <2>4 DEF ServiceNode
<1>10. messageHandler.pc = "process" => messageHandler.cur \in Nodes
    BY <1>0, TypeFacts DEF MessageInv
<1>11. CASE ProcessMessage
    <2> DEFINE n == messageHandler.cur
    <2>1. n \in Nodes
        BY <1>10, <1>11 DEF ProcessMessage
    <2>2. CASE UNCHANGED node
        BY <2>2 DEF SameGrants
    <2>3. CASE node' = [node EXCEPT ![n] = Closed(node[n], TRUE)]
        BY <1>8, <2>1, <2>3
    <2>4. CASE node' = [node EXCEPT ![n].fDisconnect = TRUE]
        BY <1>7, <2>1, <2>4
    <2> QED
        BY <1>11, <2>2, <2>3, <2>4 DEF ProcessMessage
<1>12. ASSUME NEW fOk \in BOOLEAN, EndProcess(fOk) PROVE SameGrants
    <2>1. PICK n \in Nodes : n = messageHandler.cur
        BY <1>10, <1>12 DEF EndProcess
    <2> DEFINE read == messageHandler.it + (IF fOk THEN 0 ELSE 1)
               left == IF messageHandler.wiped THEN 0 ELSE node[n].vRecvMsg - read
               f == [node[n] EXCEPT !.vRecvMsg = left]
    <2>2. node' = [node EXCEPT ![n] = IF fOk THEN f ELSE Closed(f, TRUE)]
        BY <1>12, <2>1 DEF EndProcess
    <2> HIDE DEF left
    <2>3. f.grant = node[n].grant /\ Closed(f, TRUE).grant = f.grant
        BY <1>0 DEF Field, Closed
    <2> HIDE DEF f
    <2> QED
        BY <1>0, <2>2, <2>3, GrantKept
<1> QED
    BY <1>3, <1>5, <1>6, <1>9, <1>11, <1>12, <1>13

(* Examining a node may begin a release, which changes no slot yet.        *)
LEMMA ExamineNodeSlots ==
    ASSUME NodesInv, NodesInv', SlotInv, NEW n \in Nodes, ExamineNode(n)
    PROVE  SlotInv'
<1>0. /\ PeersType /\ PeersType' /\ SameGrants
      /\ UNCHANGED <<node, semOutbound, opener>> /\ socketHandler.pc = "disconnect"
    BY DEF NodesInv, ExamineNode, SameGrants
<1>1. CASE socketHandler' = [socketHandler EXCEPT !.todo = @ \ {n}] /\ UNCHANGED grantRaced
    <2>1. socketHandler'.pc = "disconnect"
        BY <1>0, <1>1 DEF PeersType, SocketState
    <2> QED
        BY <1>0, <1>1, <2>1, SlotFrame DEF Giving
<1>2. CASE /\ socketHandler' = [socketHandler EXCEPT !.cur = n, !.todo = @ \ {n},
                                  !.pc = IF node[n].grant THEN "post" ELSE "close"]
           /\ grantRaced' = (grantRaced \/ (node[n].grant /\ Handing(n) # {}))
    <2>1. CASE ~node[n].grant
        <3>1. socketHandler'.pc = "close" /\ UNCHANGED grantRaced
            BY <1>0, <1>2, <2>1 DEF PeersType, SocketState, SlotInv
        <3> QED
            BY <1>0, <3>1, SlotFrame DEF Giving
    <2>2. CASE node[n].grant
        <3>1. socketHandler'.pc = "post" /\ socketHandler'.cur = n
            BY <1>0, <1>2, <2>2 DEF PeersType, SocketState
        <3>s. grantRaced' \in BOOLEAN
            BY <1>2
        <3>2. SUFFICES ASSUME ~grantRaced' PROVE Alone' /\ HandOver' /\ SlotCount'
            BY <1>0, <3>s DEF SlotInv
        <3>3. ~grantRaced /\ Handing(n) = {} /\ Alone /\ HandOver /\ SlotCount
            BY <1>0, <1>2, <2>2, <3>2 DEF SlotInv
        <3>4. \A m \in Nodes : Posted(m)' = Posted(m) /\ Handing(m)' = Handing(m)
            BY <1>0, <3>1 DEF Posted, Handing
        <3>5. Granted' = Granted /\ Dialing' = Dialing
            BY <1>0, <3>4 DEF Granted, Dialing
        <3>6. Alone'
            BY <3>1, <3>3, <3>4 DEF Alone, Releasing
        <3>7. HandOver'
            BY <1>0, <2>2, <3>1, <3>3 DEF HandOver
        <3> QED
            BY <1>0, <3>3, <3>5, <3>6, <3>7 DEF SlotCount
    <2> QED
        BY <2>1, <2>2
<1> QED
    BY <1>1, <1>2 DEF ExamineNode

(* The socket handler gives the slot of a node back: it posts it, then it  *)
(* takes the mark away.                                                    *)
LEMMA PostGrantSlots ==
    ASSUME NodesInv, SlotInv, PostGrant
    PROVE  SlotInv'
<1>0. /\ PeersType /\ semOutbound' = semOutbound + 1 /\ socketHandler.pc = "post"
      /\ UNCHANGED <<node, opener, grantRaced>>
      /\ socketHandler'.pc = "clear" /\ socketHandler'.cur = socketHandler.cur
    BY DEF NodesInv, PostGrant, objects, PeersType, SocketState
<1>1. SUFFICES ASSUME ~grantRaced PROVE Alone' /\ HandOver' /\ SlotCount'
    BY <1>0, SlotTypes DEF SlotInv
<1>2. PICK n \in Nodes : n = socketHandler.cur
    BY <1>0 DEF NodesInv, SocketInv, Leaving
<1>3. Alone /\ HandOver /\ SlotCount /\ node[n].grant /\ Handing(n) = {}
    BY <1>0, <1>1, <1>2 DEF SlotInv, HandOver, Alone, Giving, Releasing
<1>4. /\ n \in Granted
      /\ \A m \in Nodes : /\ Posted(m)' <=> Posted(m) \/ m = n
                          /\ Handing(m)' = Handing(m) /\ Releasing(m)' = Releasing(m)
    BY <1>0, <1>2, <1>3 DEF Granted, Posted, Handing, Releasing, PeersType
<1>5. Granted' = Granted \ {n} /\ Dialing' = Dialing
    BY <1>0, <1>4 DEF Granted, Dialing
<1>6. Cardinality(Granted') = Cardinality(Granted) - 1
    BY <1>0, <1>4, <1>5, LeaveCount, SlotTypes DEF One
<1>7. Alone' /\ HandOver'
    BY <1>0, <1>3, <1>4 DEF Alone, HandOver, Giving
<1> QED
    BY <1>0, <1>3, <1>5, <1>6, <1>7, SlotTypes DEF SlotCount

LEMMA ClearGrantSlots ==
    ASSUME NodesInv, SlotInv, ClearGrant
    PROVE  SlotInv'
<1>0. /\ PeersType /\ UNCHANGED <<semOutbound, opener, grantRaced>>
      /\ socketHandler.pc = "clear" /\ socketHandler'.pc = "close"
    BY DEF NodesInv, ClearGrant, PeersType, SocketState
<1>1. SUFFICES ASSUME ~grantRaced PROVE Alone' /\ HandOver' /\ SlotCount'
    BY <1>0 DEF SlotInv
<1>2. PICK n \in Nodes : n = socketHandler.cur
    BY <1>0 DEF NodesInv, SocketInv, Leaving
<1>3. Alone /\ HandOver /\ SlotCount /\ Handing(n) = {} /\ Posted(n)
    BY <1>0, <1>1, <1>2 DEF SlotInv, Alone, Giving, Releasing, Posted
<1>4. /\ node'[n].grant = FALSE
      /\ \A m \in Nodes : m # n => node'[m] = node[m]
    BY <1>0, <1>2, TypeFacts DEF ClearGrant, PeersType, Field
<1>5. \A m \in Nodes : /\ m # n => Posted(m)' = Posted(m)
                       /\ Handing(m)' = Handing(m) /\ ~Releasing(m)'
    BY <1>0, <1>2 DEF Posted, Handing, Releasing
<1>6. Granted' = Granted /\ Dialing' = Dialing
    BY <1>0, <1>3, <1>4, <1>5 DEF Granted, Dialing
<1>7. Alone'
    BY <1>3, <1>5 DEF Alone
<1>8. \A t \in Openers : opener[t].pc \in Giving \cup {"set"} =>
          opener[t].node \in Nodes /\ opener[t].node # n
    BY <1>3, PointerFacts DEF Handing, Holds, Giving
<1>9. HandOver'
    BY <1>0, <1>3, <1>4, <1>8 DEF HandOver, Giving
<1> QED
    BY <1>0, <1>3, <1>6, <1>7, <1>9 DEF SlotCount

(* Deleting the nodes whose slot came too late posts it.  No thread is     *)
(* handing one to them.                                                    *)
LEMMA DeleteNodesSlots ==
    ASSUME NodesInv, SlotInv, DeleteNodes
    PROVE  SlotInv'
<1>0. /\ PeersType /\ node \in [Nodes -> Field] /\ Deletable \subseteq Nodes
      /\ UNCHANGED <<opener, grantRaced>>
      /\ socketHandler.pc = "disconnect" /\ socketHandler'.pc = "select"
    BY DEF NodesInv, PeersType, Deletable, DeleteNodes, SocketState
<1> DEFINE R == {n \in Deletable : node[n].grant}
<1>1. \A t \in Openers : Holds(t) => opener[t].node \notin Deletable
    BY <1>0 DEF NodesInv, OpenerInv, ListInv, Closing, Deletable, Referenced
<1>2. R = Granted \cap Deletable
    BY <1>0, <1>1, PostedMeans DEF Granted, Holds
<1>3. \A n \in Nodes : node'[n].grant = IF n \in Deletable THEN FALSE ELSE node[n].grant
    BY <1>0 DEF DeleteNodes, Field
<1>4. \A n \in Nodes : /\ Posted(n)' = Posted(n) /\ Handing(n)' = Handing(n)
                       /\ ~Releasing(n)'
    BY <1>0 DEF Posted, Handing, Releasing
<1>5. Granted' = Granted \ R /\ Dialing' = Dialing
    BY <1>0, <1>2, <1>3, <1>4 DEF Granted, Dialing
<1>6. semOutbound' = semOutbound + Cardinality(R)
    BY DEF DeleteNodes
<1> HIDE DEF R
<1>7. IsFiniteSet(R) /\ IsFiniteSet(Granted \ R)
    BY <1>0, <1>2, SlotTypes, FS_Subset
<1>8. Cardinality(R) \in Nat /\ Cardinality(Granted \ R) \in Nat
    BY <1>7, FS_CardinalityType
<1>9. Cardinality(Granted) = Cardinality(Granted \ R) + Cardinality(R)
    <2>1. Granted \cap R = R
        BY <1>2
    <2>2. Cardinality(Granted \ R) = Cardinality(Granted) - Cardinality(R)
        <3>1. Cardinality(Granted \ R) = Cardinality(Granted) - Cardinality(Granted \cap R)
            BY <1>0, SlotTypes, FS_Difference
        <3> QED
            BY <2>1, <3>1, Zenon
    <2> QED
        BY <1>0, <1>8, <2>2, SlotTypes
<1>10. semOutbound' >= 0
    BY <1>0, <1>6, <1>8, SlotTypes DEF SlotInv
<1>11. SUFFICES ASSUME ~grantRaced PROVE Alone' /\ HandOver' /\ SlotCount'
    BY <1>0, <1>10 DEF SlotInv
<1>12. Alone /\ HandOver /\ SlotCount
    BY <1>11 DEF SlotInv
<1>13. Alone'
    BY <1>4, <1>12 DEF Alone
<1>14. HandOver'
    <2>1. \A t \in Openers : opener[t].pc \in Giving \cup {"set"} =>
              opener[t].node \in Nodes /\ opener[t].node \notin Deletable
        BY <1>1 DEF Holds, Giving, NodesInv, OpenerInv, PeersType, SocketInv, Closing, Leaving
    <2> QED
        BY <1>0, <1>3, <1>12, <2>1 DEF HandOver, Giving
<1> QED
    BY <1>0, <1>5, <1>6, <1>8, <1>9, <1>12, <1>13, <1>14, SlotTypes DEF SlotCount

(* A new node has no slot yet.                                             *)
LEMMA NewNodeSlots ==
    ASSUME NodesInv, NEW n \in Nodes, n \in Fresh, NEW a \in Addrs, NEW inbound \in BOOLEAN,
           node' = [node EXCEPT ![n] = NewNode(a, inbound)]
    PROVE  SameGrants
<1>1. PeersType /\ node[n] = Unborn
    BY DEF NodesInv, ListInv, Fresh
<1>2. NewNode(a, inbound).grant = node[n].grant
    BY <1>1, UnbornField, NewNodeField
<1> QED
    BY <1>1, <1>2, GrantKept

(* A step of an opener that moves no grant: it may take a free slot, or    *)
(* give its own back.                                                      *)
LEMMA OpenerSlotFrame ==
    ASSUME NodesInv, SlotInv, NEW t \in Openers, NEW r,
           opener' = [opener EXCEPT ![t] = r], SameGrants,
           UNCHANGED <<socketHandler, grantRaced>>,
           opener[t].pc \notin Giving \cup {"set"}, r.pc \notin Giving \cup {"set"},
           semOutbound' = semOutbound + One(t \in Dialing) - One(r.pc \notin {"idle", "mark"}),
           semOutbound' >= 0
    PROVE  SlotInv'
<1>0. PeersType /\ opener \in [Openers -> OpenerState]
    BY DEF NodesInv, PeersType
<1>1. opener'[t] = r /\ \A u \in Openers : u # t => opener'[u] = opener[u]
    BY <1>0
<1>2. \A n \in Nodes : /\ Posted(n)' = Posted(n) /\ Handing(n)' = Handing(n)
                       /\ Releasing(n)' = Releasing(n)
    <2>1. DOMAIN opener' = Openers /\ DOMAIN opener = Openers
        BY <1>0
    <2> QED
        BY <1>1, <2>1 DEF Posted, Handing, Releasing, Giving
<1>3. Granted' = Granted
    BY <1>2 DEF Granted, SameGrants
<1>4. Dialing' = IF r.pc \notin {"idle", "mark"} THEN Dialing \cup {t} ELSE Dialing \ {t}
    BY <1>1 DEF Dialing
<1>5. Cardinality(Dialing') = Cardinality(Dialing) - One(t \in Dialing)
                                + One(r.pc \notin {"idle", "mark"})
    <2>1. CASE r.pc \in {"idle", "mark"}
        BY <1>0, <1>4, <2>1, SlotTypes, LeaveCount DEF One
    <2>2. CASE r.pc \notin {"idle", "mark"}
        BY <1>0, <1>4, <2>2, SlotTypes, JoinCount DEF One
    <2> QED
        BY <2>1, <2>2
<1>6. SUFFICES ASSUME ~grantRaced PROVE Alone' /\ HandOver' /\ SlotCount'
    BY DEF SlotInv
<1>7. Alone /\ HandOver /\ SlotCount
    BY <1>6 DEF SlotInv
<1>8. Alone'
    BY <1>2, <1>7 DEF Alone
<1>9. HandOver'
    <2>1. /\ \A u \in Openers : opener[u].pc \in Giving \cup {"set"} => opener[u].node \in Nodes
          /\ socketHandler.pc \in Giving => socketHandler.cur \in Nodes
        BY PointerFacts DEF NodesInv, SocketInv, Holds, Giving, Leaving
    <2> QED
        BY <1>1, <1>7, <2>1 DEF HandOver, SameGrants
<1>10. One(t \in Dialing) \in 0 .. 1 /\ One(r.pc \notin {"idle", "mark"}) \in 0 .. 1
    BY DEF One
<1> QED
    BY <1>0, <1>3, <1>5, <1>7, <1>8, <1>9, <1>10, SlotTypes DEF SlotCount

(* The node that an opener hands its slot to.                              *)
LEMMA HandingFacts ==
    ASSUME NodesInv, NEW t \in Openers, opener[t].pc \in Giving \cup {"set"}, Alone
    PROVE  /\ opener[t].node \in Nodes
           /\ \A u \in Openers : u # t /\ opener[u].pc \in Giving \cup {"set"} =>
                                     opener[u].node # opener[t].node
           /\ socketHandler.pc \in Giving => socketHandler.cur # opener[t].node
           /\ \A u \in Openers : opener[u].pc \in Giving \cup {"set"} => opener[u].node \in Nodes
           /\ socketHandler.pc \in Giving => socketHandler.cur \in Nodes
<1>1. /\ \A u \in Openers : opener[u].pc \in Giving \cup {"set"} => opener[u].node \in Nodes
      /\ socketHandler.pc \in Giving => socketHandler.cur \in Nodes
    BY PointerFacts DEF NodesInv, SocketInv, Holds, Giving, Leaving
<1>2. \A u \in Openers : \A n \in Nodes :
          u \in Handing(n) <=> opener[u].pc \in Giving \cup {"set"} /\ opener[u].node = n
    BY DEF Handing, Giving
<1>3. \A n \in Nodes : Releasing(n) <=> socketHandler.pc \in Giving /\ socketHandler.cur = n
    BY DEF Releasing, Giving
<1> QED
    BY <1>1, <1>2, <1>3 DEF Alone

(* MoveTo: fHaveGrant of the node is read, a slot it had is posted, its    *)
(* mark goes, and the opener's slot is the node's.                         *)
LEMMA MoveGrantSlots ==
    ASSUME NodesInv, SlotInv, NEW t \in Openers, MoveGrant(t)
    PROVE  SlotInv'
<1>0. /\ PeersType /\ opener \in [Openers -> OpenerState]
      /\ UNCHANGED <<node, semOutbound, socketHandler>> /\ opener[t].pc = "move"
    BY DEF NodesInv, PeersType, MoveGrant, objects
<1>s. grantRaced' \in BOOLEAN
    BY DEF MoveGrant
<1>1. SUFFICES ASSUME ~grantRaced' PROVE Alone' /\ HandOver' /\ SlotCount'
    BY <1>0, <1>s DEF SlotInv
<1>2. PICK n \in Nodes : n = opener[t].node
    BY <1>0 DEF NodesInv, OpenerInv, PeersType, Holds, Closing, SocketInv, Leaving
<1>3. Handing(n) = {} /\ ~Releasing(n) /\ Alone /\ HandOver /\ SlotCount
    BY <1>1, <1>2 DEF MoveGrant, SlotInv
<1>4. /\ opener'[t].pc = IF node[n].grant THEN "post" ELSE "set"
      /\ opener'[t].node = n
      /\ \A u \in Openers : u # t => opener'[u] = opener[u]
      /\ DOMAIN opener' = Openers
    BY <1>0, <1>2 DEF MoveGrant, OpenerState
<1>5. \A m \in Nodes : /\ Posted(m)' = Posted(m) /\ Releasing(m)' = Releasing(m)
                       /\ Handing(m)' = IF m = n THEN {t} ELSE Handing(m)
    <2>1. \A u \in Openers : opener'[u].pc = "clear" <=> opener[u].pc = "clear"
        BY <1>0, <1>4
    <2>2. \A m \in Nodes : Posted(m)' = Posted(m) /\ Releasing(m)' = Releasing(m)
        BY <1>0, <1>4, <2>1 DEF Posted, Releasing, PeersType
    <2>3. \A m \in Nodes : Handing(m)' = IF m = n THEN {t} ELSE Handing(m)
        BY <1>0, <1>3, <1>4 DEF Handing
    <2> QED
        BY <2>2, <2>3
<1>6. Granted' = Granted /\ Dialing' = Dialing
    BY <1>0, <1>4, <1>5 DEF Granted, Dialing
<1>7. Alone'
    BY <1>3, <1>5 DEF Alone
<1>8. HandOver'
    BY <1>0, <1>2, <1>3, <1>4 DEF HandOver, Giving
<1> QED
    BY <1>0, <1>3, <1>6, <1>7, <1>8 DEF SlotCount

LEMMA PostMovedSlots ==
    ASSUME NodesInv, SlotInv, NEW t \in Openers, PostMoved(t)
    PROVE  SlotInv'
<1>0. /\ PeersType /\ opener \in [Openers -> OpenerState]
      /\ UNCHANGED <<node, grantRaced, socketHandler>> /\ semOutbound' = semOutbound + 1
      /\ opener[t].pc = "post"
    BY DEF NodesInv, PeersType, PostMoved, objects
<1>1. SUFFICES ASSUME ~grantRaced PROVE Alone' /\ HandOver' /\ SlotCount'
    BY <1>0, SlotTypes DEF SlotInv
<1>2. Alone /\ HandOver /\ SlotCount
    BY <1>1 DEF SlotInv
<1>3. PICK n \in Nodes : n = opener[t].node
    BY <1>0, <1>2, HandingFacts DEF Giving
<1>4. /\ opener'[t].pc = "clear" /\ opener'[t].node = n
      /\ \A u \in Openers : u # t => opener'[u] = opener[u]
      /\ DOMAIN opener' = Openers
    BY <1>0, <1>3 DEF PostMoved, OpenerState
<1>5. node[n].grant /\ ~Posted(n)
    BY <1>0, <1>2, <1>3, HandingFacts, PostedMeans DEF HandOver, Giving
<1>6. \A m \in Nodes : /\ Posted(m)' <=> Posted(m) \/ m = n
                       /\ Releasing(m)' = Releasing(m) /\ Handing(m)' = Handing(m)
    <2>1. \A m \in Nodes : Posted(m)' <=> Posted(m) \/ m = n
        BY <1>0, <1>3, <1>4 DEF Posted, PeersType
    <2>2. \A m \in Nodes : Releasing(m)' = Releasing(m) /\ Handing(m)' = Handing(m)
        BY <1>0, <1>3, <1>4 DEF Releasing, Handing
    <2> QED
        BY <2>1, <2>2
<1>7. Granted' = Granted \ {n} /\ n \in Granted /\ Dialing' = Dialing
    BY <1>0, <1>4, <1>5, <1>6 DEF Granted, Dialing
<1>8. Cardinality(Granted') = Cardinality(Granted) - 1
    BY <1>0, <1>7, LeaveCount, SlotTypes DEF One
<1>9. Alone'
    BY <1>2, <1>6 DEF Alone
<1>10. HandOver'
    BY <1>0, <1>2, <1>4, <1>5 DEF HandOver, Giving
<1> QED
    BY <1>0, <1>2, <1>7, <1>8, <1>9, <1>10, SlotTypes DEF SlotCount

LEMMA ClearMovedSlots ==
    ASSUME NodesInv, SlotInv, NEW t \in Openers, ClearMoved(t)
    PROVE  SlotInv'
<1>0. /\ PeersType /\ opener \in [Openers -> OpenerState]
      /\ UNCHANGED <<semOutbound, grantRaced, socketHandler>> /\ opener[t].pc = "clear"
    BY DEF NodesInv, PeersType, ClearMoved
<1>1. SUFFICES ASSUME ~grantRaced PROVE Alone' /\ HandOver' /\ SlotCount'
    BY <1>0 DEF SlotInv
<1>2. Alone /\ HandOver /\ SlotCount
    BY <1>1 DEF SlotInv
<1>3. PICK n \in Nodes : n = opener[t].node
    BY <1>0, <1>2, HandingFacts DEF Giving
<1>4. /\ opener'[t].pc = "set" /\ opener'[t].node = n
      /\ \A u \in Openers : u # t => opener'[u] = opener[u]
      /\ DOMAIN opener' = Openers
    BY <1>0, <1>3 DEF ClearMoved, OpenerState
<1>5. node'[n].grant = FALSE /\ \A m \in Nodes : m # n => node'[m] = node[m]
    BY <1>0, <1>3, TypeFacts DEF ClearMoved, PeersType, Field
<1>6. Posted(n) /\ \A m \in Nodes : m # n => Posted(m)' = Posted(m)
    BY <1>0, <1>3, <1>4 DEF Posted, PeersType
<1>7. \A m \in Nodes : Releasing(m)' = Releasing(m) /\ Handing(m)' = Handing(m)
    BY <1>0, <1>3, <1>4 DEF Releasing, Handing
<1>8. Granted' = Granted /\ Dialing' = Dialing
    BY <1>0, <1>4, <1>5, <1>6 DEF Granted, Dialing
<1>9. Alone'
    BY <1>2, <1>7 DEF Alone
<1>10. HandOver'
    <2>1. \A u \in Openers : u # t /\ opener'[u].pc \in Giving \cup {"set"} =>
              opener'[u] = opener[u] /\ node'[opener[u].node] = node[opener[u].node]
        BY <1>0, <1>2, <1>3, <1>4, <1>5, HandingFacts DEF Giving
    <2>2. socketHandler.pc \in Giving => node'[socketHandler.cur] = node[socketHandler.cur]
        BY <1>0, <1>2, <1>3, <1>5, HandingFacts DEF Giving
    <2> QED
        BY <1>0, <1>2, <1>4, <1>5, <2>1, <2>2 DEF HandOver, Giving
<1> QED
    BY <1>0, <1>2, <1>8, <1>9, <1>10 DEF SlotCount

LEMMA SetMovedSlots ==
    ASSUME NodesInv, SlotInv, NEW t \in Openers, SetMoved(t)
    PROVE  SlotInv'
<1>0. /\ PeersType /\ opener \in [Openers -> OpenerState]
      /\ UNCHANGED <<semOutbound, grantRaced, socketHandler>> /\ opener[t].pc = "set"
    BY DEF NodesInv, PeersType, SetMoved
<1>1. SUFFICES ASSUME ~grantRaced PROVE Alone' /\ HandOver' /\ SlotCount'
    BY <1>0 DEF SlotInv
<1>2. Alone /\ HandOver /\ SlotCount
    BY <1>1 DEF SlotInv
<1>3. PICK n \in Nodes : n = opener[t].node
    BY <1>0, <1>2, HandingFacts DEF Giving
<1>4. /\ opener'[t].pc = "mark" /\ opener'[t].node = n
      /\ \A u \in Openers : u # t => opener'[u] = opener[u]
      /\ DOMAIN opener' = Openers
    BY <1>0, <1>3 DEF SetMoved, OpenerState
<1>5. node'[n].grant = TRUE /\ \A m \in Nodes : m # n => node'[m] = node[m]
    BY <1>0, <1>3, TypeFacts DEF SetMoved, PeersType, Field
<1>6. ~node[n].grant /\ ~Posted(n) /\ \A m \in Nodes : Posted(m)' = Posted(m)
    <2>1. ~node[n].grant /\ ~Posted(n)
        BY <1>0, <1>2, <1>3, HandingFacts, PostedMeans DEF HandOver, Giving
    <2>2. \A u \in Openers : opener'[u].pc = "clear" <=> opener[u].pc = "clear"
        BY <1>0, <1>4
    <2>3. \A m \in Nodes : Posted(m)' = Posted(m)
        BY <1>0, <1>4, <2>2 DEF Posted, PeersType
    <2> QED
        BY <2>1, <2>3
<1>7. \A m \in Nodes : Releasing(m)' = Releasing(m) /\ Handing(m)' \subseteq Handing(m)
    BY <1>0, <1>3, <1>4 DEF Releasing, Handing
<1>8. Granted' = Granted \cup {n} /\ n \notin Granted
    BY <1>5, <1>6 DEF Granted
<1>9. Dialing' = Dialing \ {t} /\ t \in Dialing
    BY <1>0, <1>4 DEF Dialing
<1>10. /\ Cardinality(Granted') = Cardinality(Granted) + 1
       /\ Cardinality(Dialing') = Cardinality(Dialing) - 1
    BY <1>0, <1>8, <1>9, SlotTypes, JoinCount, LeaveCount DEF One
<1>11. Alone'
    BY <1>2, <1>7 DEF Alone
<1>12. HandOver'
    <2>1. \A u \in Openers : opener'[u].pc \in Giving \cup {"set"} =>
              u # t /\ opener'[u] = opener[u] /\ node'[opener[u].node] = node[opener[u].node]
        BY <1>0, <1>2, <1>3, <1>4, <1>5, HandingFacts DEF Giving
    <2>2. socketHandler.pc \in Giving => node'[socketHandler.cur] = node[socketHandler.cur]
        BY <1>0, <1>2, <1>3, <1>5, HandingFacts DEF Giving
    <2> QED
        BY <1>0, <1>2, <2>1, <2>2 DEF HandOver, Giving
<1> QED
    BY <1>0, <1>2, <1>10, <1>11, <1>12, SlotTypes DEF SlotCount

(* The thread that dials has the slot until MoveTo hands it to the node.   *)
LEMMA OpenerSlots ==
    ASSUME NodesInv, SlotInv, NEW t \in Openers, OpenerStep(t)
    PROVE  SlotInv'
<1>0. PeersType /\ opener \in [Openers -> OpenerState] /\ opener[t] \in OpenerState
    BY TypeFacts DEF NodesInv, PeersType
<1>1. semOutbound \in Int /\ semOutbound >= 0
    BY <1>0 DEF PeersType, SlotInv
<1>2. CASE AcquireGrant(t)
    <2> DEFINE r == [opener[t] EXCEPT !.pc = "grant"]
    <2>1. opener' = [opener EXCEPT ![t] = r] /\ r.pc = "grant" /\ t \notin Dialing
             /\ opener[t].pc = "idle"
        BY <1>0, <1>2 DEF AcquireGrant, OpenerState, Dialing
    <2> HIDE DEF r
    <2>2. /\ SameGrants /\ UNCHANGED <<socketHandler, grantRaced>>
          /\ semOutbound' = semOutbound - 1 /\ semOutbound > 0
        BY <1>2 DEF AcquireGrant, objects, SameGrants
    <2>3. semOutbound' = semOutbound + One(t \in Dialing) - One(r.pc \notin {"idle", "mark"})
        BY <1>1, <2>1, <2>2 DEF One
    <2>4. opener[t].pc \notin Giving \cup {"set"} /\ r.pc \notin Giving \cup {"set"}
             /\ semOutbound' >= 0
        BY <1>1, <2>1, <2>2 DEF Giving
    <2> QED
        BY <2>1, <2>2, <2>3, <2>4, OpenerSlotFrame
<1>3. CASE NoCandidate(t) \/ DialFails(t)
    <2>1. /\ opener' = [opener EXCEPT ![t] = Idle] /\ t \in Dialing
          /\ opener[t].pc \notin Giving \cup {"set"}
        BY <1>3 DEF NoCandidate, DialFails, GiveUp, Dialing, Giving
    <2>2. /\ SameGrants /\ UNCHANGED <<socketHandler, grantRaced>>
          /\ semOutbound' = semOutbound + 1
        BY <1>3 DEF NoCandidate, DialFails, GiveUp, objects, SameGrants
    <2>3. semOutbound' = semOutbound + One(t \in Dialing) - One(Idle.pc \notin {"idle", "mark"})
        BY <1>1, <2>1, <2>2, IdleState DEF One
    <2>4. Idle.pc \notin Giving \cup {"set"}
        BY IdleState DEF Giving
    <2>5. semOutbound' >= 0
        BY <1>1, <2>2
    <2> QED
        BY <2>1, <2>2, <2>3, <2>4, <2>5, OpenerSlotFrame
<1>4. ASSUME NEW r, opener' = [opener EXCEPT ![t] = r], r.pc \notin Giving \cup {"set"},
             opener[t].pc \notin Giving \cup {"set"},
             (r.pc \notin {"idle", "mark"}) = (t \in Dialing), SameGrants,
             UNCHANGED <<semOutbound, socketHandler, grantRaced>>
      PROVE  SlotInv'
    <2>1. semOutbound' = semOutbound + One(t \in Dialing) - One(r.pc \notin {"idle", "mark"})
        BY <1>1, <1>4 DEF One
    <2> QED
        BY <1>1, <1>4, <2>1, OpenerSlotFrame
<1>5. CASE LookForExisting(t)
    <2>1. t \in Dialing /\ SameGrants /\ UNCHANGED <<semOutbound, socketHandler, grantRaced>>
             /\ opener[t].pc = "look"
        BY <1>5 DEF LookForExisting, Dialing, SameGrants, objects
    <2>2. CASE opener' = [opener EXCEPT ![t].pc = "dial"]
        <3> DEFINE r == [opener[t] EXCEPT !.pc = "dial"]
        <3>1. opener' = [opener EXCEPT ![t] = r] /\ r.pc = "dial"
            BY <1>0, <2>2 DEF OpenerState
        <3> HIDE DEF r
        <3> QED
            BY <1>4, <2>1, <3>1 DEF Giving
    <2>3. ASSUME NEW n, opener' = [opener EXCEPT ![t].pc = "count", ![t].node = n,
                                                 ![t].count = node[n].nRefCount]
          PROVE  SlotInv'
        <3> DEFINE c == node[n].nRefCount
                   r == [opener[t] EXCEPT !.pc = "count", !.node = n, !.count = c]
        <3>1. opener' = [opener EXCEPT ![t] = r] /\ r.pc = "count"
            BY <1>0, <2>3 DEF OpenerState
        <3> HIDE DEF r
        <3> QED
            BY <1>4, <2>1, <3>1 DEF Giving
    <2> QED
        BY <1>5, <2>2, <2>3 DEF LookForExisting
<1>6. ASSUME NEW a \in Targets[t], OpenNetworkConnection(t, a) PROVE SlotInv'
    <2> DEFINE r == [opener[t] EXCEPT !.pc = "look", !.addr = a]
    <2>1. opener' = [opener EXCEPT ![t] = r] /\ r.pc = "look"
        BY <1>0, <1>6 DEF OpenNetworkConnection, OpenerState
    <2>2. t \in Dialing /\ SameGrants /\ UNCHANGED <<semOutbound, socketHandler, grantRaced>>
             /\ opener[t].pc = "grant"
        BY <1>6 DEF OpenNetworkConnection, Dialing, SameGrants, objects
    <2> HIDE DEF r
    <2> QED
        BY <1>4, <2>1, <2>2 DEF Giving
<1>7. Holds(t) => opener[t].node \in Nodes
    BY <1>0 DEF NodesInv, OpenerInv, PeersType, Closing, SocketInv, Leaving
<1>8. CASE AddRefExisting(t)
    <2> DEFINE r == [opener[t] EXCEPT !.pc = "move"]
    <2>1. opener' = [opener EXCEPT ![t] = r] /\ r.pc = "move"
        BY <1>0, <1>8 DEF AddRefExisting, OpenerState
    <2>2. t \in Dialing /\ UNCHANGED <<semOutbound, socketHandler, grantRaced>>
             /\ opener[t].pc = "count"
        BY <1>8 DEF AddRefExisting, Dialing
    <2>3. PICK n \in Nodes : n = opener[t].node
        BY <1>7, <1>8 DEF AddRefExisting, Holds
    <2>4. SameGrants
        <3> DEFINE f == [node[n] EXCEPT !.nRefCount = opener[t].count + 1]
        <3>1. node' = [node EXCEPT ![n] = f]
            BY <1>0, <1>8, <2>3 DEF AddRefExisting, PeersType
        <3>2. f.grant = node[n].grant
            BY <1>0, TypeFacts DEF Field
        <3> HIDE DEF f
        <3> QED
            BY <1>0, <3>1, <3>2, GrantKept
    <2> HIDE DEF r
    <2> QED
        BY <1>4, <2>1, <2>2, <2>4 DEF Giving
<1>9. ASSUME NEW n \in Nodes, Dial(t, n) PROVE SlotInv'
    <2> DEFINE r == [opener[t] EXCEPT !.pc = "move", !.node = n]
    <2>1. opener' = [opener EXCEPT ![t] = r] /\ r.pc = "move"
        BY <1>0, <1>9 DEF Dial, OpenerState
    <2>2. t \in Dialing /\ UNCHANGED <<semOutbound, socketHandler, grantRaced>> /\ n \in Fresh
             /\ node' = [node EXCEPT ![n] = NewNode(opener[t].addr, FALSE)]
             /\ opener[t].pc = "dial"
        BY <1>9 DEF Dial, Dialing
    <2>3. opener[t].addr \in Addrs
        BY <1>9 DEF Dial, NodesInv, OpenerInv
    <2>4. SameGrants
        BY <2>2, <2>3, NewNodeSlots
    <2> HIDE DEF r
    <2> QED
        BY <1>4, <2>1, <2>2, <2>4 DEF Giving
<1>10. CASE MarkNetworkNode(t)
    <2>1. /\ opener' = [opener EXCEPT ![t] = Idle] /\ t \notin Dialing
          /\ UNCHANGED <<semOutbound, socketHandler, grantRaced>> /\ opener[t].pc = "mark"
        BY <1>10 DEF MarkNetworkNode, Dialing
    <2>2. PICK n \in Nodes : n = opener[t].node
        BY <1>7, <1>10 DEF MarkNetworkNode, Holds
    <2>3. SameGrants
        <3> DEFINE f == [node[n] EXCEPT !.fNetworkNode = TRUE]
        <3>1. node' = [node EXCEPT ![n] = f]
            BY <1>0, <1>10, <2>2 DEF MarkNetworkNode, PeersType
        <3>2. f.grant = node[n].grant
            BY <1>0, TypeFacts DEF Field
        <3> HIDE DEF f
        <3> QED
            BY <1>0, <3>1, <3>2, GrantKept
    <2>4. /\ Idle.pc \notin Giving \cup {"set"} /\ opener[t].pc \notin Giving \cup {"set"}
          /\ (Idle.pc \notin {"idle", "mark"}) = (t \in Dialing)
        BY <2>1, IdleState DEF Giving
    <2> QED
        BY <1>4, <2>1, <2>3, <2>4
<1> QED
    BY <1>2, <1>3, <1>5, <1>6, <1>8, <1>9, <1>10, MoveGrantSlots, PostMovedSlots,
       ClearMovedSlots, SetMovedSlots DEF OpenerStep

LEMMA SlotInit == Init => SlotInv
<1> SUFFICES ASSUME Init PROVE SlotInv
    OBVIOUS
<1>1. Granted = {} /\ Dialing = {}
    BY UnbornField, IdleState DEF Init, Granted, Dialing
<1>2. Cardinality(Granted) = 0 /\ Cardinality(Dialing) = 0
    BY <1>1, FS_EmptySet
<1>3. Alone /\ HandOver
    BY IdleState DEF Init, Alone, HandOver, Handing, Releasing, Giving
<1>4. semOutbound = MaxOutbound /\ MaxOutbound \in Nat /\ grantRaced = FALSE
    BY PeersAssumption DEF Init
<1>5. SlotCount
    BY <1>2, <1>4 DEF SlotCount
<1>6. semOutbound >= 0 /\ grantRaced \in BOOLEAN
    <2>1. semOutbound \in Nat
        BY <1>4, Zenon
    <2>2. grantRaced \in BOOLEAN
        BY <1>4, Zenon
    <2> QED
        BY <2>1, <2>2
<1> QED
    BY <1>3, <1>5, <1>6 DEF SlotInv

LEMMA SlotStep == NodesInv /\ SlotInv /\ [Next]_vars => SlotInv'
<1> SUFFICES ASSUME NodesInv, SlotInv, [Next]_vars PROVE SlotInv'
    OBVIOUS
<1>0. NodesInv' /\ PeersType /\ PeersType'
    BY NodesStep DEF NodesInv
<1>1. CASE SocketHandlerStep
    <2>1. CASE BeginDisconnect \/ CloseNode \/ DropNode \/ BeginService \/ EndService
        BY <1>0, <2>1, HandlersKeepSlots DEF BeginDisconnect, CloseNode, DropNode, BeginService,
           EndService
    <2>2. ASSUME NEW n \in Nodes, ServiceNode(n) PROVE SlotInv'
        BY <1>0, <2>2, HandlersKeepSlots DEF ServiceNode
    <2> QED
        BY <1>0, <1>1, <2>1, <2>2, DeleteNodesSlots, ExamineNodeSlots, PostGrantSlots,
           ClearGrantSlots DEF SocketHandlerStep
<1>2. CASE MessageHandlerStep
    <2>1. UNCHANGED <<semOutbound, opener, grantRaced>>
        BY <1>2 DEF MessageHandlerStep, BeginPoll, ProcessMessage, EndPoll, PollNode, EndProcess
    <2> QED
        BY <1>0, <1>2, <2>1, HandlersKeepSlots DEF MessageHandlerStep
<1>3. ASSUME NEW t \in Openers, OpenerStep(t) PROVE SlotInv'
    BY <1>3, OpenerSlots
<1>4. ASSUME NEW n \in Nodes, NEW a \in Incoming \cup OneTries,
             AcceptConnection(a, n) \/ OneTry(a, n)
      PROVE  SlotInv'
    <2>1. PICK inbound \in BOOLEAN : node' = [node EXCEPT ![n] = NewNode(a, inbound)]
        BY <1>4 DEF AcceptConnection, OneTry
    <2>2. /\ a \in Addrs /\ n \in Fresh
          /\ UNCHANGED <<semOutbound, opener, grantRaced, socketHandler>>
        BY <1>4, PeersAssumption DEF AcceptConnection, OneTry
    <2> QED
        BY <1>0, <2>1, <2>2, NewNodeSlots, SlotFrame
<1>5. ASSUME UNCHANGED <<node, semOutbound, opener, grantRaced, socketHandler>> PROVE SlotInv'
    BY <1>0, <1>5, SlotFrame DEF SameGrants
<1>6. CASE (\E n \in Nodes : TimePasses(n)) \/ (\E a \in Addrs : BanEnds(a)) \/ UNCHANGED vars
    BY <1>5, <1>6 DEF TimePasses, BanEnds, vars, objects
<1> QED
    BY <1>1, <1>2, <1>3, <1>4, <1>6 DEF Next

(* No slot of semOutbound is lost or doubled on its way from the semaphore *)
(* to the thread that dials, to the CNode and back through the steps of    *)
(* MoveTo and Release, and no CNode is in two lists, however the threads   *)
(* interleave, until two threads are inside MoveTo or Release of one grant *)
(* at once: that is the only interleaving that can break it.               *)
THEOREM SlotsAlwaysConserved == Spec => []SlotsConserved
<1>1. NodesInv /\ SlotInv => SlotsConserved
    <2> SUFFICES ASSUME NodesInv, SlotInv PROVE SlotsConserved
        OBVIOUS
    <2>0. PeersType /\ ListInv /\ DOMAIN node = Nodes /\ DOMAIN opener = Openers
        BY DEF NodesInv, PeersType
    <2>1. semOutbound \in Nat
        BY <2>0, SlotTypes DEF SlotInv
    <2>2. TypeOK
        <3>1. messageHandler.it <= FloodSize
            BY <2>0, TypeFacts, PeersAssumption
        <3>2. vNodes \cup vNodesDisconnected \cup deleted \cup warm
                 \subseteq {n \in DOMAIN node : node[n].addr # None}
            BY <2>0 DEF PeersType, ListInv
        <3>3. \A n \in DOMAIN node : node[n] \in Field
            BY <2>0, TypeFacts
        <3> QED
            BY <2>0, <2>1, <3>1, <3>2, <3>3 DEF TypeOK, PeersType, ListInv
    <2>3. ~grantRaced => GrantsConserved
        BY <2>0 DEF SlotInv, SlotCount, Granted, Dialing, GrantsConserved
    <2> QED
        BY <2>2, <2>3 DEF SlotsConserved
<1> QED
    BY NodesInit, NodesStep, SlotInit, SlotStep, <1>1, PTL DEF Spec

-----------------------------------------------------------------------------
(* The address manager.                                                    *)

(* The invariant, of any value of the object                               *)

Fields == {"mapAddr", "source", "nRefCount", "fInTried", "nRandomPos", "nLastSuccess",
           "vRandom", "vvNew", "vvTried", "nNew", "nTried"}

\* A record with these fields, and their types.
IsRecord(m) == m = [x \in Fields |-> m[x]]

Typed(m) ==
  /\ m.mapAddr \in SUBSET Addr /\ m.source \in [Addr -> Source \cup {NoSource}]
  /\ m.nRefCount \in [Addr -> Nat] /\ m.fInTried \in [Addr -> BOOLEAN]
  /\ m.nRandomPos \in [Addr -> Nat] /\ m.nLastSuccess \in [Addr -> 0..MaxTime]
  /\ m.vRandom \in Seq(Addr) /\ m.vvNew \in [NewBucket -> SUBSET Addr]
  /\ m.vvTried \in [TriedBucket -> Seq(Addr)] /\ m.nNew \in Nat /\ m.nTried \in Nat

\* The new buckets of an address.
In(m, x) == {b \in NewBucket : x \in m.vvNew[b]}

Sourced(m) == \A a \in m.mapAddr : m.source[a] \in Source

Order(m) ==
  /\ \A i \in DOMAIN m.vRandom : m.vRandom[i] \in m.mapAddr /\ m.nRandomPos[m.vRandom[i]] = i
  /\ \A a \in m.mapAddr : m.nRandomPos[a] \in DOMAIN m.vRandom /\ m.vRandom[m.nRandomPos[a]] = a

\* Of one address.
RefOK(m, x) ==
  /\ m.nRefCount[x] = Cardinality(In(m, x))
  /\ m.nRefCount[x] <= ADDRMAN_NEW_BUCKETS_PER_ADDRESS
  /\ x \notin m.mapAddr => m.nRefCount[x] = 0 /\ ~m.fInTried[x]
  /\ x \in m.mapAddr => (m.fInTried[x] <=> m.nRefCount[x] = 0)

Refs(m) == \A x \in Addr : RefOK(m, x)

\* Of one tried bucket.
Distinct(s) == \A i, j \in DOMAIN s : s[i] = s[j] => i = j
TriedOK(m, k) ==
  /\ Distinct(m.vvTried[k])
  /\ ToSet(m.vvTried[k]) = {a \in Addr : m.fInTried[a] /\ GetTriedBucket[a] = k}

Tables(m) == \A k \in TriedBucket : TriedOK(m, k)

Counts(m) ==
  /\ m.nNew = Cardinality(NewEntries(m))
  /\ m.nTried = Cardinality(TriedEntries(m))
  /\ Len(m.vRandom) = m.nNew + m.nTried

Sizes(m) ==
  /\ \A b \in NewBucket : Cardinality(m.vvNew[b]) <= ADDRMAN_NEW_BUCKET_SIZE
  /\ \A k \in TriedBucket : Len(m.vvTried[k]) <= ADDRMAN_TRIED_BUCKET_SIZE

Book(m) == IsRecord(m) /\ Typed(m) /\ Sourced(m) /\ Order(m) /\ Refs(m) /\ Tables(m)
           /\ Counts(m) /\ Sizes(m)

\* The tried entries of m are still known.
Stay(m, r) == \A x \in Addr : m.fInTried[x] => x \in r.mapAddr

LEMMA TriedAreKnown ==
  ASSUME NEW m, Book(m)
  PROVE  Stay(m, m)
BY DEF Book, Refs, RefOK, Stay

LEMMA FromFields ==
  ASSUME NEW m
  PROVE  m \in CAddrMan <=> IsRecord(m) /\ Typed(m)
<1>1. ASSUME m \in CAddrMan PROVE IsRecord(m) /\ Typed(m)
  BY <1>1 DEF CAddrMan, IsRecord, Fields, Typed
<1>2. ASSUME IsRecord(m), Typed(m) PROVE m \in CAddrMan
  <2>1. m = [mapAddr |-> m.mapAddr, source |-> m.source, nRefCount |-> m.nRefCount,
             fInTried |-> m.fInTried, nRandomPos |-> m.nRandomPos, nLastSuccess |-> m.nLastSuccess,
             vRandom |-> m.vRandom, vvNew |-> m.vvNew, vvTried |-> m.vvTried,
             nNew |-> m.nNew, nTried |-> m.nTried]
    BY <1>2 DEF IsRecord, Fields
  <2> QED BY <1>2, <2>1 DEF Typed, CAddrMan
<1> QED BY <1>1, <1>2

\* What the run checks is this invariant of am.
LEMMA BookIsConsistent == AddressBookConsistent <=> Book(am)
<1>1. AddrManTypeOK <=> IsRecord(am) /\ Typed(am) /\ Sourced(am)
  BY FromFields DEF AddrManTypeOK, Sourced
<1>2. RandomOrderConsistent <=> Order(am)
  BY DEF RandomOrderConsistent, Order
<1>3. RefCountsExact <=> Refs(am)
  BY DEF RefCountsExact, Refs, RefOK, Buckets, In
<1>4. TriedTableExact <=> Tables(am)
  BY DEF TriedTableExact, Tables, TriedOK, Distinct
<1>5. (CountsExact <=> Counts(am)) /\ (BucketsBounded <=> Sizes(am))
  BY DEF CountsExact, Counts, BucketsBounded, Sizes
<1> QED BY <1>1, <1>2, <1>3, <1>4, <1>5 DEF AddressBookConsistent, Book

\* Sets of addresses and of new buckets are finite.
LEMMA Finite ==
  /\ \A S \in SUBSET Addr : IsFiniteSet(S) /\ Cardinality(S) \in Nat
  /\ \A S \in SUBSET NewBucket : IsFiniteSet(S) /\ Cardinality(S) \in Nat
<1>1. IsFiniteSet(Addr) /\ IsFiniteSet(NewBucket)
  BY AddrManAssumption
<1> QED BY <1>1, FS_Subset, FS_CardinalityType

-----------------------------------------------------------------------------
(* Loops                                                                   *)

\* Every non-empty set of natural numbers has a least element.
LEMMA LeastNat ==
  ASSUME NEW T \in SUBSET Nat, T # {}
  PROVE  \E m \in T : \A n \in T : m <= n
<1>1. PICK m \in T : \A n \in T : ~(<<n, m>> \in OpToRel(<, Nat))
  BY NatLessThanWellFounded, WFMin
<1>2. \A n \in T : ~(n < m)
  BY <1>1 DEF OpToRel
<1>3. \A n \in T : m <= n
  BY <1>2, SMT
<1> QED
  BY <1>3

\* A set with 0, and with the successor of each of its members up to n,
\* has all of 0 .. n.
LEMMA LoopInduction ==
  ASSUME NEW n \in Nat, NEW S, 0 \in S, \A i \in 1 .. n : i - 1 \in S => i \in S
  PROVE  \A i \in 0 .. n : i \in S
<1> DEFINE Bad == (0 .. n) \ S
<1>1. SUFFICES ASSUME Bad # {} PROVE FALSE
  OBVIOUS
<1>2. PICK m \in Bad : \A k \in Bad : m <= k
  <2>1. Bad \in SUBSET Nat
    OBVIOUS
  <2> HIDE DEF Bad
  <2> QED
    BY <1>1, <2>1, LeastNat
<1>3. m \in 1 .. n /\ m - 1 \in 0 .. n /\ m - 1 \notin S
  BY <1>2
<1>4. m <= m - 1
  BY <1>2, <1>3
<1> QED
  BY <1>3, <1>4

\* A loop of n turns, whatever a turn computes, has a value after each.
LoopOf(f, k, V, first, step) ==
  /\ f \in [0 .. k -> V] /\ f[0] = first
  /\ \A i \in 1 .. k : f[i] = step[<<i, f[i - 1]>>]

LEMMA LoopExists ==
  ASSUME NEW n \in Nat, NEW V, NEW first \in V, NEW step \in [(1 .. n) \X V -> V]
  PROVE  \E f : LoopOf(f, n, V, first, step)
<1> DEFINE S == {k \in 0 .. n : \E f : LoopOf(f, k, V, first, step)}
<1>1. 0 \in S
  <2>1. LoopOf([i \in 0 .. 0 |-> first], 0, V, first, step)
    BY DEF LoopOf
  <2> QED
    BY <2>1
<1>2. ASSUME NEW k \in 1 .. n, k - 1 \in S
   PROVE  k \in S
  <2>1. PICK f : LoopOf(f, k - 1, V, first, step)
    BY <1>2
  <2> DEFINE g == [i \in 0 .. k |-> IF i = k THEN step[<<k, f[k - 1]>>] ELSE f[i]]
  <2>2. f[k - 1] \in V /\ step[<<k, f[k - 1]>>] \in V
    BY <2>1 DEF LoopOf
  <2>3. \A i \in 0 .. k : i # k => i \in 0 .. k - 1 /\ f[i] \in V
    BY <2>1 DEF LoopOf
  <2>4. g \in [0 .. k -> V] /\ g[0] = first
    BY <2>1, <2>2, <2>3 DEF LoopOf
  <2>5. ASSUME NEW i \in 1 .. k PROVE g[i] = step[<<i, g[i - 1]>>]
    <3>1. i - 1 \in 0 .. k /\ i - 1 # k /\ i \in 0 .. k
      OBVIOUS
    <3>2. g[i - 1] = f[i - 1]
      BY <3>1
    <3>3. CASE i = k
      <4>1. g[k] = step[<<k, f[k - 1]>>]
        OBVIOUS
      <4> QED
        BY <3>2, <3>3, <4>1
    <3>4. CASE i # k
      <4>1. i \in 1 .. k - 1 /\ g[i] = f[i]
        BY <3>1, <3>4
      <4> QED
        BY <2>1, <3>2, <4>1 DEF LoopOf
    <3> QED
      BY <3>3, <3>4
  <2> HIDE DEF g
  <2> QED
    BY <2>4, <2>5 DEF LoopOf
<1> HIDE DEF S
<1>3. n \in S
  BY <1>1, <1>2, LoopInduction
<1> QED
  BY <1>3 DEF S

\* What holds at first and is kept by every turn holds at the end.
Follows(f, n, V, first, step) ==
  f[0] = first /\ \A i \in 1 .. n : f[i - 1] \in V => f[i] = step[<<i, f[i - 1]>>]

KeptBy(J, n, V, first, step) ==
  /\ <<0, first>> \in J
  /\ \A i \in 1 .. n : \A v \in V : <<i - 1, v>> \in J => <<i, step[<<i, v>>]>> \in J

LEMMA LoopKeeps ==
  ASSUME NEW n \in Nat, NEW V, NEW first \in V, NEW step \in [(1 .. n) \X V -> V],
         NEW f, Follows(f, n, V, first, step), NEW J, KeptBy(J, n, V, first, step)
  PROVE  f[n] \in V /\ <<n, f[n]>> \in J
<1> USE DEF Follows, KeptBy
<1> DEFINE S == {i \in 0 .. n : f[i] \in V /\ <<i, f[i]>> \in J}
<1>1. 0 \in S
  OBVIOUS
<1>2. ASSUME NEW i \in 1 .. n, i - 1 \in S PROVE i \in S
  <2>1. f[i - 1] \in V /\ <<i - 1, f[i - 1]>> \in J /\ i \in 0 .. n
    BY <1>2
  <2>2. f[i] = step[<<i, f[i - 1]>>] /\ step[<<i, f[i - 1]>>] \in V
    BY <2>1
  <2> QED BY <2>1, <2>2
<1> HIDE DEF S
<1>3. n \in S
  BY <1>1, <1>2, LoopInduction
<1> QED BY <1>3 DEF S

-----------------------------------------------------------------------------
(* vRandom                                                                 *)

\* Two entries change places.
LEMMA SwapRandomKeeps ==
  ASSUME NEW m, IsRecord(m), Typed(m), Order(m),
         NEW i \in 1..Len(m.vRandom), NEW j \in 1..Len(m.vRandom)
  PROVE  LET r == SwapRandom(m, i, j)
         IN /\ IsRecord(r) /\ Typed(r) /\ Order(r)
            /\ r.mapAddr = m.mapAddr /\ r.source = m.source /\ r.nRefCount = m.nRefCount
            /\ r.fInTried = m.fInTried /\ r.nLastSuccess = m.nLastSuccess /\ r.vvNew = m.vvNew
            /\ r.vvTried = m.vvTried /\ r.nNew = m.nNew /\ r.nTried = m.nTried
            /\ Len(r.vRandom) = Len(m.vRandom) /\ r.vRandom[j] = m.vRandom[i]
<1> DEFINE r == SwapRandom(m, i, j)
           x == m.vRandom[i]
           y == m.vRandom[j]
<1>1. CASE i = j
  BY <1>1 DEF SwapRandom
<1>2. CASE i # j
  <2>0. /\ DOMAIN m.vRandom = 1..Len(m.vRandom) /\ x \in m.mapAddr /\ y \in m.mapAddr
        /\ x \in Addr /\ y \in Addr /\ m.nRandomPos[x] = i /\ m.nRandomPos[y] = j /\ x # y
    <3>1. m.vRandom \in Seq(Addr) /\ DOMAIN m.vRandom = 1..Len(m.vRandom)
      BY DEF Typed
    <3>2. x \in m.mapAddr /\ m.nRandomPos[x] = i
      BY <3>1 DEF Order
    <3>3. y \in m.mapAddr /\ m.nRandomPos[y] = j
      BY <3>1 DEF Order
    <3>4. x \in Addr /\ y \in Addr
      BY <3>1
    <3> HIDE DEF x, y
    <3> QED BY <1>2, <3>1, <3>2, <3>3, <3>4
  <2>a. m.vRandom \in Seq(Addr) /\ m.mapAddr \subseteq Addr /\ m.nRandomPos \in [Addr -> Nat]
    BY DEF Typed
  <2>b. i \in Nat /\ j \in Nat /\ DOMAIN m.vRandom \subseteq Nat
    BY <2>a
  <2>1. /\ IsRecord(r)
        /\ r.mapAddr = m.mapAddr /\ r.source = m.source /\ r.nRefCount = m.nRefCount
        /\ r.fInTried = m.fInTried /\ r.nLastSuccess = m.nLastSuccess /\ r.vvNew = m.vvNew
        /\ r.vvTried = m.vvTried /\ r.nNew = m.nNew /\ r.nTried = m.nTried
        /\ r.nRandomPos = [m.nRandomPos EXCEPT ![x] = j, ![y] = i]
        /\ r.vRandom = [m.vRandom EXCEPT ![i] = y, ![j] = x]
    BY <1>2 DEF SwapRandom, IsRecord, Fields
  <2> HIDE DEF r, x, y
  <2>2. /\ r.vRandom \in Seq(Addr) /\ Len(r.vRandom) = Len(m.vRandom)
        /\ DOMAIN r.vRandom = DOMAIN m.vRandom
        /\ \A n \in DOMAIN m.vRandom :
             r.vRandom[n] = IF n = j THEN x ELSE IF n = i THEN y ELSE m.vRandom[n]
    <3>1. m.vRandom \in Seq(Addr)
      BY DEF Typed
    <3> DEFINE s == [m.vRandom EXCEPT ![i] = y]
    <3>2. s \in Seq(Addr) /\ Len(s) = Len(m.vRandom)
          /\ \A n \in 1..Len(m.vRandom) : s[n] = IF n = i THEN y ELSE m.vRandom[n]
      BY <2>0, <3>1, ExceptSeq
    <3>3. r.vRandom = [s EXCEPT ![j] = x]
      BY <2>1
    <3> HIDE DEF s
    <3>4. /\ r.vRandom \in Seq(Addr) /\ Len(r.vRandom) = Len(s)
          /\ \A n \in 1..Len(s) : r.vRandom[n] = IF n = j THEN x ELSE s[n]
      BY <2>0, <3>2, <3>3, ExceptSeq
    <3> QED BY <2>0, <3>2, <3>4
  <2>3. /\ r.nRandomPos \in [Addr -> Nat]
        /\ \A a \in Addr : r.nRandomPos[a] = IF a = y THEN i ELSE IF a = x THEN j ELSE m.nRandomPos[a]
    <3> DEFINE p == [m.nRandomPos EXCEPT ![x] = j]
    <3>1. p \in [Addr -> Nat] /\ \A a \in Addr : p[a] = IF a = x THEN j ELSE m.nRandomPos[a]
      BY <2>0, <2>a, <2>b
    <3>2. r.nRandomPos = [p EXCEPT ![y] = i]
      BY <2>1
    <3> HIDE DEF p
    <3> QED BY <2>0, <2>b, <3>1, <3>2
  <2>4. Order(r)
    <3>1. ASSUME NEW n \in DOMAIN m.vRandom
          PROVE  r.vRandom[n] \in m.mapAddr /\ r.nRandomPos[r.vRandom[n]] = n
      <4>1. m.vRandom[n] \in m.mapAddr /\ m.nRandomPos[m.vRandom[n]] = n
        BY DEF Order
      <4> QED BY <2>0, <2>2, <2>3, <2>a, <2>b, <4>1
    <3>2. ASSUME NEW a \in m.mapAddr
          PROVE  r.nRandomPos[a] \in DOMAIN m.vRandom /\ r.vRandom[r.nRandomPos[a]] = a
      <4>1. m.nRandomPos[a] \in DOMAIN m.vRandom /\ m.vRandom[m.nRandomPos[a]] = a
        BY DEF Order
      <4> QED BY <2>0, <2>2, <2>3, <2>a, <2>b, <4>1 DEF x, y
    <3> QED BY <2>1, <2>2, <3>1, <3>2 DEF Order
  <2>5. Typed(r)
    <3>1. r.vRandom \in Seq(Addr) /\ r.nRandomPos \in [Addr -> Nat]
      BY <2>2, <2>3
    <3>2. /\ r.mapAddr = m.mapAddr /\ r.source = m.source /\ r.nRefCount = m.nRefCount
          /\ r.fInTried = m.fInTried /\ r.nLastSuccess = m.nLastSuccess /\ r.vvNew = m.vvNew
          /\ r.vvTried = m.vvTried /\ r.nNew = m.nNew /\ r.nTried = m.nTried
      BY <2>1
    <3> QED BY <3>1, <3>2 DEF Typed
  <2> QED BY <2>1, <2>2, <2>4, <2>5 DEF x, r
<1> QED BY <1>1, <1>2

\* A new entry comes last.
LEMMA CreateKeeps ==
  ASSUME NEW m, IsRecord(m), Typed(m), Order(m), NEW a \in Addr \ m.mapAddr, NEW s \in Source
  PROVE  LET r == Create(m, a, s)
         IN /\ IsRecord(r) /\ Typed(r) /\ Order(r)
            /\ r.mapAddr = m.mapAddr \cup {a} /\ r.source = [m.source EXCEPT ![a] = s]
            /\ r.nRefCount = m.nRefCount /\ r.fInTried = m.fInTried
            /\ r.nLastSuccess = m.nLastSuccess /\ r.vvNew = m.vvNew /\ r.vvTried = m.vvTried
            /\ r.nNew = m.nNew + 1 /\ r.nTried = m.nTried
            /\ Len(r.vRandom) = Len(m.vRandom) + 1
<1> DEFINE r == Create(m, a, s)
           n == Len(m.vRandom)
<1>1. /\ IsRecord(r)
      /\ r.mapAddr = m.mapAddr \cup {a} /\ r.source = [m.source EXCEPT ![a] = s]
      /\ r.nRefCount = m.nRefCount /\ r.fInTried = m.fInTried
      /\ r.nLastSuccess = m.nLastSuccess /\ r.vvNew = m.vvNew /\ r.vvTried = m.vvTried
      /\ r.nNew = m.nNew + 1 /\ r.nTried = m.nTried
      /\ r.nRandomPos = [m.nRandomPos EXCEPT ![a] = n + 1]
      /\ r.vRandom = Append(m.vRandom, a)
  BY DEF Create, IsRecord, Fields
<1>2. /\ m.vRandom \in Seq(Addr) /\ m.mapAddr \subseteq Addr /\ m.nRandomPos \in [Addr -> Nat]
      /\ m.source \in [Addr -> Source \cup {NoSource}] /\ m.nNew \in Nat
  BY DEF Typed
<1>3. n \in Nat /\ DOMAIN m.vRandom = 1..n
  BY <1>2
<1> HIDE DEF r
<1>4. /\ r.vRandom \in Seq(Addr) /\ Len(r.vRandom) = n + 1 /\ DOMAIN r.vRandom = 1..n + 1
      /\ r.vRandom[n + 1] = a /\ \A i \in 1..n : r.vRandom[i] = m.vRandom[i]
  BY <1>1, <1>2
<1> HIDE DEF n
<1>5. /\ r.nRandomPos \in [Addr -> Nat]
      /\ \A x \in Addr : r.nRandomPos[x] = IF x = a THEN n + 1 ELSE m.nRandomPos[x]
  BY <1>1, <1>2, <1>3
<1>6. Order(r)
  <2>1. ASSUME NEW i \in 1..n + 1
        PROVE  r.vRandom[i] \in m.mapAddr \cup {a} /\ r.nRandomPos[r.vRandom[i]] = i
    <3>1. CASE i = n + 1
      BY <1>4, <1>5, <3>1
    <3>2. CASE i # n + 1
      <4>1. i \in 1..n
        BY <1>3, <3>2
      <4>2. m.vRandom[i] \in m.mapAddr /\ m.nRandomPos[m.vRandom[i]] = i
        BY <1>3, <4>1 DEF Order
      <4> QED BY <1>2, <1>4, <1>5, <4>1, <4>2
    <3> QED BY <3>1, <3>2
  <2>2. ASSUME NEW x \in m.mapAddr \cup {a}
        PROVE  r.nRandomPos[x] \in 1..n + 1 /\ r.vRandom[r.nRandomPos[x]] = x
    <3>1. CASE x = a
      BY <1>3, <1>4, <1>5, <3>1
    <3>2. CASE x # a
      <4>1. x \in m.mapAddr /\ m.nRandomPos[x] \in 1..n /\ m.vRandom[m.nRandomPos[x]] = x
        BY <1>3, <3>2 DEF Order
      <4>2. x \in Addr /\ r.nRandomPos[x] = m.nRandomPos[x]
        BY <1>2, <1>5, <3>2, <4>1
      <4>3. m.nRandomPos[x] \in 1..n + 1
        BY <1>3, <4>1
      <4> QED BY <1>4, <4>1, <4>2, <4>3
    <3> QED BY <3>1, <3>2
  <2> QED BY <1>1, <1>4, <2>1, <2>2 DEF Order
<1>7. Typed(r)
  <2>1. r.source \in [Addr -> Source \cup {NoSource}] /\ r.nNew \in Nat /\ r.mapAddr \subseteq Addr
    BY <1>1, <1>2
  <2>2. /\ r.nRefCount = m.nRefCount /\ r.fInTried = m.fInTried
        /\ r.nLastSuccess = m.nLastSuccess /\ r.vvNew = m.vvNew /\ r.vvTried = m.vvTried
        /\ r.nTried = m.nTried
    BY <1>1
  <2> QED BY <1>4, <1>5, <2>1, <2>2 DEF Typed
<1> QED BY <1>1, <1>4, <1>6, <1>7 DEF r, n

\* The entry of a goes last and is dropped.
LEMMA DeleteKeeps ==
  ASSUME NEW m, IsRecord(m), Typed(m), Order(m), NEW a \in m.mapAddr, m.nNew # 0
  PROVE  LET r == Delete(m, a)
         IN /\ IsRecord(r) /\ Typed(r) /\ Order(r)
            /\ r.mapAddr = m.mapAddr \ {a} /\ r.source = [m.source EXCEPT ![a] = NoSource]
            /\ r.nRefCount = m.nRefCount /\ r.fInTried = m.fInTried
            /\ r.vvNew = m.vvNew /\ r.vvTried = m.vvTried
            /\ r.nNew = m.nNew - 1 /\ r.nTried = m.nTried
            /\ Len(r.vRandom) = Len(m.vRandom) - 1
<1> DEFINE n == Len(m.vRandom)
           p == m.nRandomPos[a]
           w == SwapRandom(m, p, n)
           r == Delete(m, a)
<1>1. n \in Nat /\ DOMAIN m.vRandom = 1..n /\ p \in 1..n /\ n \in 1..n /\ m.vRandom[p] = a /\ a \in Addr
  <2>1. m.vRandom \in Seq(Addr) /\ m.mapAddr \subseteq Addr
    BY DEF Typed
  <2>2. p \in DOMAIN m.vRandom /\ m.vRandom[p] = a
    BY DEF Order
  <2> QED BY <2>1, <2>2
<1>2. /\ IsRecord(w) /\ Typed(w) /\ Order(w)
      /\ w.mapAddr = m.mapAddr /\ w.source = m.source /\ w.nRefCount = m.nRefCount
      /\ w.fInTried = m.fInTried /\ w.nLastSuccess = m.nLastSuccess /\ w.vvNew = m.vvNew
      /\ w.vvTried = m.vvTried /\ w.nNew = m.nNew /\ w.nTried = m.nTried
      /\ Len(w.vRandom) = n /\ w.vRandom[n] = a
  <2> HIDE DEF p
  <2>1. LET r1 == SwapRandom(m, p, n)
        IN /\ IsRecord(r1) /\ Typed(r1) /\ Order(r1)
           /\ r1.mapAddr = m.mapAddr /\ r1.source = m.source /\ r1.nRefCount = m.nRefCount
           /\ r1.fInTried = m.fInTried /\ r1.nLastSuccess = m.nLastSuccess /\ r1.vvNew = m.vvNew
           /\ r1.vvTried = m.vvTried /\ r1.nNew = m.nNew /\ r1.nTried = m.nTried
           /\ Len(r1.vRandom) = Len(m.vRandom) /\ r1.vRandom[n] = m.vRandom[p]
    BY <1>1, SwapRandomKeeps
  <2> QED BY <1>1, <2>1
<1>3. r = [w EXCEPT !.vRandom      = SubSeq(@, 1, Len(@) - 1),
                    !.mapAddr      = @ \ {a},
                    !.source       = [@ EXCEPT ![a] = NoSource],
                    !.nRandomPos   = [@ EXCEPT ![a] = 0],
                    !.nLastSuccess = [@ EXCEPT ![a] = 0],
                    !.nNew         = @ - 1]
  BY DEF Delete
<1> HIDE DEF w, p, r
<1>4. /\ IsRecord(r)
      /\ r.mapAddr = w.mapAddr \ {a} /\ r.source = [w.source EXCEPT ![a] = NoSource]
      /\ r.nRefCount = w.nRefCount /\ r.fInTried = w.fInTried
      /\ r.nLastSuccess = [w.nLastSuccess EXCEPT ![a] = 0] /\ r.vvNew = w.vvNew /\ r.vvTried = w.vvTried
      /\ r.nNew = w.nNew - 1 /\ r.nTried = w.nTried
      /\ r.nRandomPos = [w.nRandomPos EXCEPT ![a] = 0]
      /\ r.vRandom = SubSeq(w.vRandom, 1, Len(w.vRandom) - 1)
  BY <1>2, <1>3 DEF IsRecord, Fields
<1>5. /\ w.vRandom \in Seq(Addr) /\ w.mapAddr \subseteq Addr /\ w.nRandomPos \in [Addr -> Nat]
      /\ w.source \in [Addr -> Source \cup {NoSource}] /\ w.nNew \in Nat /\ w.nNew # 0
      /\ w.nLastSuccess \in [Addr -> 0..MaxTime] /\ DOMAIN w.vRandom = 1..n
  <2>1. /\ w.vRandom \in Seq(Addr) /\ w.mapAddr \subseteq Addr /\ w.nRandomPos \in [Addr -> Nat]
        /\ w.source \in [Addr -> Source \cup {NoSource}] /\ w.nNew \in Nat
        /\ w.nLastSuccess \in [Addr -> 0..MaxTime]
    BY <1>2 DEF Typed
  <2> QED BY <1>2, <2>1
<1> HIDE DEF n
<1>6. /\ r.vRandom \in Seq(Addr) /\ Len(r.vRandom) = n - 1 /\ DOMAIN r.vRandom = 1..n - 1
      /\ \A i \in 1..n - 1 : r.vRandom[i] = w.vRandom[i]
  <2>1. \A i \in 1..n - 1 : w.vRandom[i] \in Addr
    BY <1>1, <1>5
  <2>2. r.vRandom = SubSeq(w.vRandom, 1, n - 1) /\ 1 \in Int /\ n - 1 \in Int
    BY <1>1, <1>2, <1>4
  <2>3. /\ SubSeq(w.vRandom, 1, n - 1) \in Seq(Addr)
        /\ Len(SubSeq(w.vRandom, 1, n - 1)) = IF 1 <= n - 1 THEN (n - 1) - 1 + 1 ELSE 0
        /\ \A i \in 1..(n - 1) - 1 + 1 : SubSeq(w.vRandom, 1, n - 1)[i] = w.vRandom[1 + i - 1]
    BY <2>1, <2>2, SubSeqProperties
  <2>4. \A i \in 1..n - 1 : 1 + i - 1 = i /\ (n - 1) - 1 + 1 = n - 1
    BY <1>1
  <2> QED BY <1>1, <2>2, <2>3, <2>4
<1>7. /\ r.nRandomPos \in [Addr -> Nat]
      /\ \A x \in Addr : r.nRandomPos[x] = IF x = a THEN 0 ELSE w.nRandomPos[x]
  BY <1>1, <1>4, <1>5
<1>8. Order(r)
  <2>1. ASSUME NEW i \in 1..n - 1
        PROVE  r.vRandom[i] \in w.mapAddr \ {a} /\ r.nRandomPos[r.vRandom[i]] = i
    <3>1. i \in 1..n /\ i # n /\ n \in 1..n
      BY <1>1
    <3>2. w.vRandom[i] \in w.mapAddr /\ w.nRandomPos[w.vRandom[i]] = i /\ w.nRandomPos[w.vRandom[n]] = n
      BY <1>2, <1>5, <3>1 DEF Order
    <3>3. w.vRandom[i] # a
      BY <1>2, <3>1, <3>2
    <3> QED BY <1>5, <1>6, <1>7, <3>2, <3>3
  <2>2. ASSUME NEW x \in w.mapAddr \ {a}
        PROVE  r.nRandomPos[x] \in 1..n - 1 /\ r.vRandom[r.nRandomPos[x]] = x
    <3>1. w.nRandomPos[x] \in 1..n /\ w.vRandom[w.nRandomPos[x]] = x
      BY <1>2, <1>5 DEF Order
    <3>2. w.nRandomPos[x] # n
      BY <1>2, <3>1
    <3>3. w.nRandomPos[x] \in 1..n - 1
      BY <1>1, <3>1, <3>2
    <3> QED BY <1>5, <1>6, <1>7, <3>1, <3>3
  <2> QED BY <1>4, <1>6, <2>1, <2>2 DEF Order
<1>9. Typed(r)
  <2>1. r.source \in [Addr -> Source \cup {NoSource}] /\ r.nNew \in Nat /\ r.mapAddr \subseteq Addr
    <3>1. r.nNew \in Nat
      BY <1>4, <1>5
    <3>2. r.mapAddr \subseteq Addr
      BY <1>4, <1>5
    <3>3. r.source \in [Addr -> Source \cup {NoSource}]
      <4>1. r.source = [w.source EXCEPT ![a] = NoSource]
        BY <1>4
      <4>2. w.source \in [Addr -> Source \cup {NoSource}]
        BY <1>5
      <4> QED BY <4>1, <4>2
    <3> QED BY <3>1, <3>2, <3>3
  <2>2. r.nLastSuccess \in [Addr -> 0..MaxTime]
    <3>1. 0 \in 0..MaxTime
      BY AddrManAssumption
    <3>2. r.nLastSuccess = [w.nLastSuccess EXCEPT ![a] = 0]
      BY <1>4
    <3>3. w.nLastSuccess \in [Addr -> 0..MaxTime]
      BY <1>5
    <3> QED BY <3>1, <3>2, <3>3
  <2> QED BY <1>2, <1>4, <1>6, <1>7, <2>1, <2>2 DEF Typed
<1> QED BY <1>2, <1>4, <1>6, <1>8, <1>9 DEF r, n

-----------------------------------------------------------------------------
(* Add_                                                                    *)

\* a has come into the new bucket b, from which gone, one entry or none, went:
\* an entry that was in no other bucket is destroyed.
Entered(m, r, a, b, gone) ==
  /\ IsRecord(r) /\ Typed(r) /\ Sourced(r) /\ Order(r)
  /\ a \notin m.vvNew[b] /\ gone \in SUBSET m.vvNew[b]
  /\ \A c \in NewBucket : r.vvNew[c] = IF c = b THEN (m.vvNew[b] \ gone) \cup {a} ELSE m.vvNew[c]
  /\ \A x \in Addr : r.nRefCount[x] = IF x = a THEN m.nRefCount[x] + 1
                                      ELSE IF x \in gone THEN m.nRefCount[x] - 1
                                      ELSE m.nRefCount[x]
  /\ r.mapAddr = (m.mapAddr \cup {a}) \ {x \in gone : m.nRefCount[x] = 1}
  /\ r.fInTried = m.fInTried /\ r.vvTried = m.vvTried /\ r.nTried = m.nTried
  /\ r.nNew = Cardinality((NewEntries(m) \cup {a}) \ {x \in gone : m.nRefCount[x] = 1})
  /\ Len(r.vRandom) = r.nNew + r.nTried
  /\ Cardinality((m.vvNew[b] \ gone) \cup {a}) <= ADDRMAN_NEW_BUCKET_SIZE

LEMMA EnteredIsBook ==
  ASSUME NEW m, Book(m), NEW a \in Addr, NEW b \in NewBucket,
         MayAdd(m, a), NEW gone, NEW r, Entered(m, r, a, b, gone)
  PROVE  Book(r) /\ Stay(m, r)
<1> USE DEF Entered
<1>1. /\ m.vvNew \in [NewBucket -> SUBSET Addr] /\ m.mapAddr \subseteq Addr
      /\ m.nRefCount \in [Addr -> Nat] /\ gone \subseteq Addr
      /\ ADDRMAN_NEW_BUCKETS_PER_ADDRESS \in Nat \ {0}
  BY AddrManAssumption DEF Book, Typed
<1>2. \A c \in NewBucket : r.vvNew[c] = IF c = b THEN (m.vvNew[b] \ gone) \cup {a} ELSE m.vvNew[c]
  OBVIOUS
<1>3. \A x \in Addr : In(m, x) \in SUBSET NewBucket /\ RefOK(m, x)
  BY DEF In, Book, Refs
<1>4. \A x \in gone : x \in m.mapAddr /\ ~m.fInTried[x] /\ m.nRefCount[x] # 0 /\ x # a
  <2> SUFFICES ASSUME NEW x \in gone PROVE x \in m.mapAddr /\ ~m.fInTried[x] /\ m.nRefCount[x] # 0
    OBVIOUS
  <2>1. x \in Addr /\ In(m, x) # {} /\ IsFiniteSet(In(m, x))
    BY <1>1, <1>3, Finite DEF In
  <2>2. Cardinality(In(m, x)) # 0
    BY <2>1, FS_EmptySet
  <2> QED BY <1>3, <2>1, <2>2 DEF RefOK
<1>5. /\ ~m.fInTried[a] /\ m.nRefCount[a] + 1 <= ADDRMAN_NEW_BUCKETS_PER_ADDRESS
      /\ a \in m.mapAddr => m.nRefCount[a] # 0
  <2>1. RefOK(m, a) /\ m.nRefCount[a] \in Nat
    BY <1>1, <1>3
  <2> QED BY <1>1, <2>1 DEF RefOK, MayAdd
<1>6. ASSUME NEW x \in Addr PROVE RefOK(r, x)
  <2>0. IsFiniteSet(In(m, x)) /\ RefOK(m, x) /\ m.nRefCount[x] \in Nat
    BY <1>1, <1>3, Finite
  <2>1. CASE x = a
    <3>1. In(r, x) = In(m, x) \cup {b} /\ b \notin In(m, x)
      BY <1>2, <2>1 DEF In
    <3>2. Cardinality(In(m, x) \cup {b}) = Cardinality(In(m, x)) + 1
      BY <2>0, <3>1, FS_AddElement
    <3>3. Cardinality(In(r, x)) = m.nRefCount[x] + 1
      BY <2>0, <3>1, <3>2 DEF RefOK
    <3>4. x \in r.mapAddr
      BY <1>4, <2>1
    <3> QED BY <1>5, <2>0, <2>1, <3>3, <3>4 DEF RefOK
  <2>2. CASE x \in gone
    <3>1. In(r, x) = In(m, x) \ {b} /\ b \in In(m, x) /\ x # a
      BY <1>2, <1>4, <2>2 DEF In
    <3>2. Cardinality(In(m, x) \ {b}) = Cardinality(In(m, x)) - 1
      BY <2>0, <3>1, FS_RemoveElement
    <3>3. Cardinality(In(r, x)) = m.nRefCount[x] - 1
      BY <2>0, <3>1, <3>2 DEF RefOK
    <3>4. x \in m.mapAddr /\ ~m.fInTried[x] /\ m.nRefCount[x] # 0
      BY <1>4, <2>2
    <3>5. r.nRefCount[x] = m.nRefCount[x] - 1 /\ (x \in r.mapAddr <=> m.nRefCount[x] # 1)
      BY <2>2, <3>1, <3>4
    <3>6. m.nRefCount[x] <= ADDRMAN_NEW_BUCKETS_PER_ADDRESS
      BY <2>0 DEF RefOK
    <3>7. /\ r.nRefCount[x] <= ADDRMAN_NEW_BUCKETS_PER_ADDRESS
          /\ r.nRefCount[x] = 0 <=> m.nRefCount[x] = 1
      BY <1>1, <2>0, <3>5, <3>6
    <3> QED BY <3>3, <3>4, <3>5, <3>7 DEF RefOK
  <2>3. CASE x # a /\ x \notin gone
    <3>1. In(r, x) = In(m, x)
      BY <1>2, <2>3 DEF In
    <3>2. r.nRefCount[x] = m.nRefCount[x] /\ (x \in r.mapAddr <=> x \in m.mapAddr)
      BY <2>3
    <3> QED BY <2>0, <3>1, <3>2 DEF RefOK
  <2> QED BY <2>1, <2>2, <2>3
<1>7. Counts(r)
  <2>1. \A x \in Addr : r.nRefCount[x] = 0 => x # a /\ (x \in gone => m.nRefCount[x] = 1)
                                              /\ (x \notin gone => m.nRefCount[x] = 0)
    BY <1>1
  <2>2. \A x \in Addr : (m.nRefCount[x] = 0 /\ x # a) \/ (x \in gone /\ m.nRefCount[x] = 1)
                          => r.nRefCount[x] = 0
    BY <1>1, <1>4
  <2>3. NewEntries(r) = (NewEntries(m) \cup {a}) \ {x \in gone : m.nRefCount[x] = 1}
    BY <1>1, <1>4, <2>1, <2>2 DEF NewEntries
  <2>4. TriedEntries(r) = TriedEntries(m)
    BY <1>4, <1>5 DEF TriedEntries
  <2> QED BY <2>3, <2>4 DEF Counts, Book
<1>8. Tables(r) /\ Sizes(r)
  <2>1. Tables(r)
    BY DEF Book, Tables, TriedOK
  <2> QED BY <1>2, <2>1 DEF Book, Sizes
<1>9. Stay(m, r)
  <2>1. \A x \in Addr : m.fInTried[x] => x \in m.mapAddr /\ x \notin gone
    BY <1>4, TriedAreKnown DEF Stay
  <2> QED BY <2>1 DEF Stay
<1> QED BY <1>6, <1>7, <1>8, <1>9 DEF Book, Refs

\* An address that may be added has an entry, made for it if it had none.
LEMMA FoundKeeps ==
  ASSUME NEW m, Book(m), NEW a \in Addr, NEW s \in Source, MayAdd(m, a),
         NEW r, r = IF a \in m.mapAddr THEN m ELSE Create(m, a, s)
  PROVE  /\ IsRecord(r) /\ Typed(r) /\ Sourced(r) /\ Order(r)
         /\ r.mapAddr = m.mapAddr \cup {a}
         /\ r.nRefCount = m.nRefCount /\ r.fInTried = m.fInTried
         /\ r.vvNew = m.vvNew /\ r.vvTried = m.vvTried /\ r.nTried = m.nTried
         /\ r.nNew = Cardinality(NewEntries(m) \cup {a}) /\ Len(r.vRandom) = r.nNew + r.nTried
<1>0. IsFiniteSet(NewEntries(m)) /\ RefOK(m, a) /\ m.nNew = Cardinality(NewEntries(m))
  BY Finite DEF Book, Typed, NewEntries, Refs, Counts
<1>1. CASE a \in m.mapAddr
  <2>1. a \in NewEntries(m)
    BY <1>0, <1>1 DEF NewEntries, RefOK, MayAdd
  <2>2. NewEntries(m) \cup {a} = NewEntries(m) /\ m.mapAddr \cup {a} = m.mapAddr /\ r = m
    BY <1>1, <2>1
  <2> QED BY <1>0, <2>2 DEF Book, Counts
<1>2. CASE a \notin m.mapAddr
  <2>1. LET q == Create(m, a, s)
         IN /\ IsRecord(q) /\ Typed(q) /\ Order(q)
            /\ q.mapAddr = m.mapAddr \cup {a} /\ q.source = [m.source EXCEPT ![a] = s]
            /\ q.nRefCount = m.nRefCount /\ q.fInTried = m.fInTried
            /\ q.nLastSuccess = m.nLastSuccess /\ q.vvNew = m.vvNew /\ q.vvTried = m.vvTried
            /\ q.nNew = m.nNew + 1 /\ q.nTried = m.nTried
            /\ Len(q.vRandom) = Len(m.vRandom) + 1
    BY <1>2, CreateKeeps DEF Book
  <2>2. r = Create(m, a, s)
    BY <1>2
  <2>3. /\ IsRecord(r) /\ Typed(r) /\ Order(r)
        /\ r.mapAddr = m.mapAddr \cup {a} /\ r.source = [m.source EXCEPT ![a] = s]
        /\ r.nRefCount = m.nRefCount /\ r.fInTried = m.fInTried
        /\ r.vvNew = m.vvNew /\ r.vvTried = m.vvTried /\ r.nTried = m.nTried
        /\ r.nNew = m.nNew + 1 /\ Len(r.vRandom) = Len(m.vRandom) + 1
    BY <2>1, <2>2
  <2>4. Sourced(r)
    <3>1. m.source \in [Addr -> Source \cup {NoSource}] /\ m.mapAddr \subseteq Addr
          /\ \A x \in m.mapAddr : m.source[x] \in Source
      BY DEF Book, Typed, Sourced
    <3> QED BY <2>3, <3>1 DEF Sourced
  <2>5. r.nNew = Cardinality(NewEntries(m) \cup {a})
    <3>1. a \notin NewEntries(m)
      BY <1>2 DEF NewEntries
    <3>2. Cardinality(NewEntries(m) \cup {a}) = Cardinality(NewEntries(m)) + 1
      BY <1>0, <3>1, FS_AddElement
    <3> QED BY <1>0, <2>3, <3>2
  <2>6. Len(r.vRandom) = r.nNew + r.nTried
    <3>1. m.nNew \in Nat /\ m.nTried \in Nat /\ Len(m.vRandom) = m.nNew + m.nTried
      BY DEF Book, Typed, Counts
    <3> QED BY <2>3, <3>1
  <2> QED BY <2>3, <2>4, <2>5, <2>6
<1> QED BY <1>1, <1>2

\* A known address is told of again, an unknown one gets its entry; a full
\* bucket drops one for it.
LEMMA AddStep ==
  ASSUME Book(am), NEW a \in Addr, NEW s \in Source, Add(a, s)
  PROVE  Book(am') /\ Stay(am, am')
<1> DEFINE b == GetNewBucket[<<a, s>>]
           found == IF a \in am.mapAddr THEN am ELSE Create(am, a, s)
           counted == [found EXCEPT !.nRefCount[a] = @ + 1]
           Insert(m) == [m EXCEPT !.vvNew[b] = @ \cup {a}]
<1>1. /\ MayAdd(am, a) /\ a \notin am.vvNew[b]
      /\ IF Cardinality(am.vvNew[b]) = ADDRMAN_NEW_BUCKET_SIZE
         THEN \E v \in am.vvNew[b] : am' = Insert(ShrinkNew(counted, b, v))
         ELSE am' = Insert(counted)
  BY DEF Add
<1>2. /\ b \in NewBucket /\ am.vvNew \in [NewBucket -> SUBSET Addr]
      /\ am.nRefCount \in [Addr -> Nat] /\ ADDRMAN_NEW_BUCKET_SIZE \in Nat
      /\ Cardinality(am.vvNew[b]) <= ADDRMAN_NEW_BUCKET_SIZE
  <2>1. b \in NewBucket
    BY AddrManAssumption
  <2> QED BY <2>1, AddrManAssumption DEF Book, Typed, Sizes
<1>3. /\ IsRecord(found) /\ Typed(found) /\ Sourced(found) /\ Order(found)
      /\ found.mapAddr = am.mapAddr \cup {a}
      /\ found.nRefCount = am.nRefCount /\ found.fInTried = am.fInTried
      /\ found.vvNew = am.vvNew /\ found.vvTried = am.vvTried /\ found.nTried = am.nTried
      /\ found.nNew = Cardinality(NewEntries(am) \cup {a})
      /\ Len(found.vRandom) = found.nNew + found.nTried
  <2>1. found = IF a \in am.mapAddr THEN am ELSE Create(am, a, s)
    OBVIOUS
  <2>2. MayAdd(am, a)
    BY <1>1
  <2> HIDE DEF found
  <2> QED BY <2>1, <2>2, FoundKeeps
<1> HIDE DEF b, found
<1>a. MayAdd(am, a) /\ a \notin am.vvNew[b]
  BY <1>1
<1>4. /\ IsRecord(counted) /\ counted.mapAddr = found.mapAddr /\ counted.source = found.source
      /\ counted.nRefCount = [am.nRefCount EXCEPT ![a] = @ + 1]
      /\ counted.fInTried = found.fInTried /\ counted.nRandomPos = found.nRandomPos
      /\ counted.nLastSuccess = found.nLastSuccess /\ counted.vRandom = found.vRandom
      /\ counted.vvNew = found.vvNew /\ counted.vvTried = found.vvTried
      /\ counted.nNew = found.nNew /\ counted.nTried = found.nTried
  BY <1>3 DEF IsRecord, Fields
<1>5. Typed(counted) /\ Sourced(counted) /\ Order(counted)
  <2>1. [am.nRefCount EXCEPT ![a] = @ + 1] \in [Addr -> Nat]
    BY <1>2
  <2>2. counted.nRefCount \in [Addr -> Nat]
    BY <1>4, <2>1
  <2> HIDE DEF counted
  <2>3. Typed(counted)
    BY <1>3, <1>4, <2>2 DEF Typed
  <2>4. Sourced(counted) /\ Order(counted)
    BY <1>3, <1>4 DEF Sourced, Order
  <2> QED BY <2>3, <2>4
<1> HIDE DEF counted
<1>6. ASSUME NEW m, IsRecord(m), Typed(m), Sourced(m), Order(m)
      PROVE  LET r == Insert(m)
             IN /\ IsRecord(r) /\ Typed(r) /\ Sourced(r) /\ Order(r)
                /\ r.mapAddr = m.mapAddr /\ r.nRefCount = m.nRefCount /\ r.fInTried = m.fInTried
                /\ r.vvTried = m.vvTried /\ r.nNew = m.nNew /\ r.nTried = m.nTried
                /\ r.vRandom = m.vRandom
                /\ r.vvNew = [m.vvNew EXCEPT ![b] = @ \cup {a}]
  <2> DEFINE r == Insert(m)
  <2>1. /\ IsRecord(r) /\ r.mapAddr = m.mapAddr /\ r.source = m.source
        /\ r.nRefCount = m.nRefCount /\ r.fInTried = m.fInTried
        /\ r.nRandomPos = m.nRandomPos /\ r.nLastSuccess = m.nLastSuccess
        /\ r.vRandom = m.vRandom /\ r.vvTried = m.vvTried /\ r.nNew = m.nNew
        /\ r.nTried = m.nTried /\ r.vvNew = [m.vvNew EXCEPT ![b] = @ \cup {a}]
    BY <1>6 DEF IsRecord, Fields
  <2>2. [m.vvNew EXCEPT ![b] = @ \cup {a}] \in [NewBucket -> SUBSET Addr]
    BY <1>2, <1>6 DEF Typed
  <2> HIDE DEF r
  <2>3. Typed(r) /\ Sourced(r) /\ Order(r)
    BY <1>6, <2>1, <2>2 DEF Typed, Sourced, Order
  <2> QED BY <2>1, <2>3 DEF r
<1> HIDE DEF Insert
<1>7. CASE Cardinality(am.vvNew[b]) # ADDRMAN_NEW_BUCKET_SIZE
  <2> DEFINE gone == {}
  <2>1. am' = Insert(counted)
    BY <1>1, <1>7
  <2>2. LET r == Insert(counted)
        IN /\ IsRecord(r) /\ Typed(r) /\ Sourced(r) /\ Order(r)
           /\ r.mapAddr = counted.mapAddr /\ r.nRefCount = counted.nRefCount
           /\ r.fInTried = counted.fInTried
           /\ r.vvTried = counted.vvTried /\ r.nNew = counted.nNew /\ r.nTried = counted.nTried
           /\ r.vRandom = counted.vRandom
           /\ r.vvNew = [counted.vvNew EXCEPT ![b] = @ \cup {a}]
    BY <1>4, <1>5, <1>6
  <2>3. /\ IsRecord(am') /\ Typed(am') /\ Sourced(am') /\ Order(am')
        /\ am'.fInTried = am.fInTried /\ am'.vvTried = am.vvTried /\ am'.nTried = am.nTried
        /\ am'.nRefCount = [am.nRefCount EXCEPT ![a] = @ + 1]
        /\ am'.nNew = Cardinality(NewEntries(am) \cup {a})
        /\ Len(am'.vRandom) = am'.nNew + am'.nTried
        /\ am'.mapAddr = am.mapAddr \cup {a}
        /\ am'.vvNew = [am.vvNew EXCEPT ![b] = @ \cup {a}]
    BY <1>3, <1>4, <2>1, <2>2
  <2>4. \A c \in NewBucket :
           am'.vvNew[c] = IF c = b THEN (am.vvNew[b] \ gone) \cup {a} ELSE am.vvNew[c]
    BY <1>2, <2>3
  <2>5. Cardinality((am.vvNew[b] \ gone) \cup {a}) <= ADDRMAN_NEW_BUCKET_SIZE
    <3>1. IsFiniteSet(am.vvNew[b]) /\ Cardinality(am.vvNew[b]) \in Nat /\ am.vvNew[b] \ gone = am.vvNew[b]
      BY <1>2, Finite
    <3>2. Cardinality(am.vvNew[b] \cup {a}) = Cardinality(am.vvNew[b]) + 1
      BY <1>1, <3>1, FS_AddElement
    <3>3. Cardinality(am.vvNew[b] \cup {a}) <= ADDRMAN_NEW_BUCKET_SIZE
      BY <1>2, <1>7, <3>1, <3>2
    <3> QED BY <3>1, <3>3
  <2>6. \A x \in Addr : am'.nRefCount[x] = IF x = a THEN am.nRefCount[x] + 1
                                           ELSE IF x \in gone THEN am.nRefCount[x] - 1
                                           ELSE am.nRefCount[x]
    BY <1>2, <2>3
  <2>7. {x \in gone : am.nRefCount[x] = 1} = {} /\ gone \in SUBSET am.vvNew[b]
    OBVIOUS
  <2> HIDE DEF gone
  <2>8. /\ am'.mapAddr = (am.mapAddr \cup {a}) \ {x \in gone : am.nRefCount[x] = 1}
        /\ am'.nNew = Cardinality((NewEntries(am) \cup {a}) \ {x \in gone : am.nRefCount[x] = 1})
    BY <2>3, <2>7
  <2>9. a \notin am.vvNew[b]
    BY <1>a
  <2>10. Entered(am, am', a, b, gone)
    BY <2>3, <2>4, <2>5, <2>6, <2>7, <2>8, <2>9 DEF Entered
  <2>11. MayAdd(am, a) /\ b \in NewBucket
    BY <1>a, <1>2
  <2> QED BY <2>10, <2>11, EnteredIsBook
<1>8. CASE Cardinality(am.vvNew[b]) = ADDRMAN_NEW_BUCKET_SIZE
  <2>1. PICK v \in am.vvNew[b] : am' = Insert(ShrinkNew(counted, b, v))
    BY <1>1, <1>8
  <2> DEFINE gone == {v}
             lost == {x \in gone : am.nRefCount[x] = 1}
             dropped == [counted EXCEPT !.nRefCount[v] = @ - 1, !.vvNew[b] = @ \ {v}]
             shrunk == ShrinkNew(counted, b, v)
  <2>2. v \in Addr /\ v # a /\ v \in am.mapAddr /\ am.nRefCount[v] \in Nat \ {0}
    <3>1. v \in Addr /\ v # a /\ In(am, v) \in SUBSET NewBucket /\ b \in In(am, v)
      BY <1>a, <1>2 DEF In
    <3>2. IsFiniteSet(In(am, v)) /\ In(am, v) # {}
      BY <3>1, Finite
    <3>3. Cardinality(In(am, v)) # 0
      BY <3>2, FS_EmptySet
    <3>4. RefOK(am, v)
      BY <3>1 DEF Book, Refs
    <3> QED BY <1>2, <3>1, <3>3, <3>4 DEF RefOK
  <2>3. shrunk = IF dropped.nRefCount[v] = 0 THEN Delete(dropped, v) ELSE dropped
    BY DEF ShrinkNew
  <2> HIDE DEF shrunk
  <2>4. /\ IsRecord(dropped) /\ dropped.mapAddr = counted.mapAddr /\ dropped.source = counted.source
        /\ dropped.nRefCount = [counted.nRefCount EXCEPT ![v] = @ - 1]
        /\ dropped.fInTried = counted.fInTried /\ dropped.nRandomPos = counted.nRandomPos
        /\ dropped.nLastSuccess = counted.nLastSuccess /\ dropped.vRandom = counted.vRandom
        /\ dropped.vvNew = [counted.vvNew EXCEPT ![b] = @ \ {v}]
        /\ dropped.vvTried = counted.vvTried
        /\ dropped.nNew = counted.nNew /\ dropped.nTried = counted.nTried
    BY <1>4 DEF IsRecord, Fields
  <2> HIDE DEF dropped
  <2>5. /\ dropped.nRefCount \in [Addr -> Nat]
        /\ \A x \in Addr : dropped.nRefCount[x] = IF x = a THEN am.nRefCount[x] + 1
                                                  ELSE IF x \in gone THEN am.nRefCount[x] - 1
                                                  ELSE am.nRefCount[x]
    BY <1>2, <1>4, <2>2, <2>4
  <2>6. /\ dropped.vvNew \in [NewBucket -> SUBSET Addr]
        /\ \A c \in NewBucket : dropped.vvNew[c] = IF c = b THEN am.vvNew[b] \ gone ELSE am.vvNew[c]
    BY <1>2, <1>3, <1>4, <2>4
  <2>7. Typed(dropped) /\ Sourced(dropped) /\ Order(dropped)
    <3>1. Typed(dropped)
      BY <1>5, <2>4, <2>5, <2>6 DEF Typed
    <3> QED BY <1>5, <2>4, <3>1 DEF Sourced, Order
  <2>8. /\ dropped.mapAddr = am.mapAddr \cup {a} /\ dropped.fInTried = am.fInTried
        /\ dropped.vvTried = am.vvTried /\ dropped.nTried = am.nTried
        /\ dropped.nNew = Cardinality(NewEntries(am) \cup {a})
        /\ Len(dropped.vRandom) = dropped.nNew + dropped.nTried
    BY <1>3, <1>4, <2>4
  <2>9. /\ IsFiniteSet(NewEntries(am) \cup {a}) /\ v \in NewEntries(am) \cup {a}
        /\ Cardinality(NewEntries(am) \cup {a}) \in Nat \ {0}
    <3>1. NewEntries(am) \cup {a} \in SUBSET Addr /\ v \in NewEntries(am)
      BY <2>2 DEF NewEntries, Book, Typed
    <3>2. IsFiniteSet(NewEntries(am) \cup {a}) /\ Cardinality(NewEntries(am) \cup {a}) \in Nat
      BY <3>1, Finite
    <3> QED BY <3>1, <3>2, FS_EmptySet
  <2> HIDE DEF gone
  <2>10. /\ IsRecord(shrunk) /\ Typed(shrunk) /\ Sourced(shrunk) /\ Order(shrunk)
         /\ shrunk.mapAddr = (am.mapAddr \cup {a}) \ lost
         /\ shrunk.nRefCount = dropped.nRefCount /\ shrunk.fInTried = am.fInTried
         /\ shrunk.vvNew = dropped.vvNew /\ shrunk.vvTried = am.vvTried /\ shrunk.nTried = am.nTried
         /\ shrunk.nNew = Cardinality((NewEntries(am) \cup {a}) \ lost)
         /\ Len(shrunk.vRandom) = shrunk.nNew + shrunk.nTried
    <3>0. v \in gone /\ \A x \in gone : x = v
      BY DEF gone
    <3>1. CASE am.nRefCount[v] # 1
      <4>1. dropped.nRefCount[v] # 0 /\ lost = {}
        BY <2>2, <2>5, <3>0, <3>1
      <4>2. shrunk = dropped
        BY <2>3, <4>1
      <4> QED BY <2>4, <2>7, <2>8, <4>1, <4>2
    <3>2. CASE am.nRefCount[v] = 1
      <4>1. dropped.nRefCount[v] = 0 /\ lost = {v}
        BY <2>2, <2>5, <3>0, <3>2
      <4>2. shrunk = Delete(dropped, v)
        BY <2>3, <4>1
      <4>3. dropped.nNew # 0 /\ v \in dropped.mapAddr
        BY <2>2, <2>8, <2>9
      <4>4. LET r == Delete(dropped, v)
            IN /\ IsRecord(r) /\ Typed(r) /\ Order(r)
               /\ r.mapAddr = dropped.mapAddr \ {v} /\ r.source = [dropped.source EXCEPT ![v] = NoSource]
               /\ r.nRefCount = dropped.nRefCount /\ r.fInTried = dropped.fInTried
               /\ r.vvNew = dropped.vvNew /\ r.vvTried = dropped.vvTried
               /\ r.nNew = dropped.nNew - 1 /\ r.nTried = dropped.nTried
               /\ Len(r.vRandom) = Len(dropped.vRandom) - 1
        BY <2>4, <2>7, <4>3, DeleteKeeps
      <4>5. /\ IsRecord(shrunk) /\ Typed(shrunk) /\ Order(shrunk)
            /\ shrunk.mapAddr = dropped.mapAddr \ {v}
            /\ shrunk.source = [dropped.source EXCEPT ![v] = NoSource]
            /\ shrunk.nRefCount = dropped.nRefCount /\ shrunk.fInTried = am.fInTried
            /\ shrunk.vvNew = dropped.vvNew /\ shrunk.vvTried = am.vvTried
            /\ shrunk.nNew = dropped.nNew - 1 /\ shrunk.nTried = am.nTried
            /\ Len(shrunk.vRandom) = Len(dropped.vRandom) - 1
        BY <2>8, <4>2, <4>4
      <4>6. Sourced(shrunk)
        <5>1. dropped.source \in [Addr -> Source \cup {NoSource}] /\ dropped.mapAddr \subseteq Addr
          BY <2>7 DEF Typed
        <5> QED BY <2>7, <4>5, <5>1 DEF Sourced
      <4>7. Cardinality((NewEntries(am) \cup {a}) \ {v}) = Cardinality(NewEntries(am) \cup {a}) - 1
        BY <2>9, FS_RemoveElement
      <4>8. shrunk.nNew = Cardinality((NewEntries(am) \cup {a}) \ lost)
        BY <2>8, <4>1, <4>5, <4>7
      <4>9. Len(shrunk.vRandom) = shrunk.nNew + shrunk.nTried
        <5>1. dropped.nNew \in Nat /\ dropped.nTried \in Nat
          BY <2>7 DEF Typed
        <5> QED BY <2>8, <4>5, <5>1
      <4> QED BY <2>8, <4>1, <4>5, <4>6, <4>8, <4>9
    <3> QED BY <3>1, <3>2
  <2>11. LET r == Insert(shrunk)
         IN /\ IsRecord(r) /\ Typed(r) /\ Sourced(r) /\ Order(r)
            /\ r.mapAddr = shrunk.mapAddr /\ r.nRefCount = shrunk.nRefCount
            /\ r.fInTried = shrunk.fInTried
            /\ r.vvTried = shrunk.vvTried /\ r.nNew = shrunk.nNew /\ r.nTried = shrunk.nTried
            /\ r.vRandom = shrunk.vRandom
            /\ r.vvNew = [shrunk.vvNew EXCEPT ![b] = @ \cup {a}]
    BY <1>6, <2>10
  <2>12. am' = Insert(shrunk)
    BY <2>1 DEF shrunk
  <2>13. /\ IsRecord(am') /\ Typed(am') /\ Sourced(am') /\ Order(am')
         /\ am'.fInTried = am.fInTried /\ am'.vvTried = am.vvTried /\ am'.nTried = am.nTried
         /\ am'.nRefCount = dropped.nRefCount
         /\ am'.nNew = Cardinality((NewEntries(am) \cup {a}) \ lost)
         /\ Len(am'.vRandom) = am'.nNew + am'.nTried
         /\ am'.mapAddr = (am.mapAddr \cup {a}) \ lost
         /\ am'.vvNew = [dropped.vvNew EXCEPT ![b] = @ \cup {a}]
    BY <2>10, <2>11, <2>12
  <2>14. \A c \in NewBucket :
           am'.vvNew[c] = IF c = b THEN (am.vvNew[b] \ gone) \cup {a} ELSE am.vvNew[c]
    BY <1>2, <2>6, <2>13
  <2>15. Cardinality((am.vvNew[b] \ gone) \cup {a}) <= ADDRMAN_NEW_BUCKET_SIZE
    <3>1. IsFiniteSet(am.vvNew[b]) /\ IsFiniteSet(am.vvNew[b] \ {v})
          /\ Cardinality(am.vvNew[b]) \in Nat /\ a \notin am.vvNew[b] \ {v}
      BY <1>2, <1>a, Finite
    <3>2. Cardinality(am.vvNew[b] \ {v}) = Cardinality(am.vvNew[b]) - 1
      BY <3>1, FS_RemoveElement
    <3>3. Cardinality((am.vvNew[b] \ {v}) \cup {a}) = Cardinality(am.vvNew[b] \ {v}) + 1
      BY <3>1, FS_AddElement
    <3>4. Cardinality((am.vvNew[b] \ {v}) \cup {a}) <= ADDRMAN_NEW_BUCKET_SIZE
      BY <1>2, <1>8, <3>1, <3>2, <3>3
    <3> QED BY <3>4 DEF gone
  <2>16. gone \in SUBSET am.vvNew[b] /\ a \notin am.vvNew[b]
    BY <1>a DEF gone
  <2>17. Entered(am, am', a, b, gone)
    BY <2>5, <2>13, <2>14, <2>15, <2>16 DEF Entered
  <2>18. MayAdd(am, a) /\ b \in NewBucket
    BY <1>a, <1>2
  <2> QED BY <2>17, <2>18, EnteredIsBook
<1> QED BY <1>7, <1>8

-----------------------------------------------------------------------------
(* SelectTried                                                             *)

\* The orders of a list.
Shuffles(s) == {l \in Seq(Addr) : Len(l) = Len(s) /\ ToSet(l) = ToSet(s) /\ Distinct(l)}

LEMMA SwapIsOrder ==
  ASSUME NEW s \in Seq(Addr), NEW l \in Shuffles(s), NEW i \in 1..Len(s), NEW j \in 1..Len(s)
  PROVE  [l EXCEPT ![j] = l[i], ![i] = l[j]] \in Shuffles(s)
<1> DEFINE x == l[i]
           y == l[j]
           t == [l EXCEPT ![j] = x]
           r == [t EXCEPT ![i] = y]
           n == Len(s)
           at(k) == IF k = i THEN j ELSE IF k = j THEN i ELSE k
<1>1. /\ l \in Seq(Addr) /\ Len(l) = n /\ n \in Nat /\ DOMAIN l = 1..n
      /\ ToSet(l) = ToSet(s) /\ Distinct(l) /\ x \in Addr /\ y \in Addr
  BY DEF Shuffles
<1> HIDE DEF n, x, y
<1>0. i \in 1..n /\ j \in 1..n
  BY DEF n
<1>2. t \in Seq(Addr) /\ Len(t) = n /\ \A k \in 1..n : t[k] = IF k = j THEN x ELSE l[k]
  BY <1>0, <1>1, ExceptSeq
<1> HIDE DEF t
<1>3. r \in Seq(Addr) /\ Len(r) = n /\ \A k \in 1..n : r[k] = IF k = i THEN y ELSE t[k]
  BY <1>0, <1>1, <1>2, ExceptSeq
<1>r. r = [l EXCEPT ![j] = l[i], ![i] = l[j]]
  BY DEF t, x, y
<1> HIDE DEF r
<1>4. DOMAIN r = 1..n /\ \A k \in 1..n : at(k) \in 1..n /\ at(at(k)) = k /\ r[k] = l[at(k)]
  BY <1>0, <1>2, <1>3 DEF x, y
<1> HIDE DEF at
<1>5. ToSet(r) = ToSet(l)
  BY <1>1, <1>4 DEF ToSet
<1>6. Distinct(r)
  <2> SUFFICES ASSUME NEW a \in 1..n, NEW b \in 1..n, r[a] = r[b] PROVE a = b
    BY <1>4 DEF Distinct
  <2>1. l[at(a)] = l[at(b)] /\ at(a) \in 1..n /\ at(b) \in 1..n
    BY <1>4
  <2>2. at(a) = at(b)
    BY <1>1, <2>1 DEF Distinct
  <2> QED BY <1>4, <2>2
<1> QED BY <1>1, <1>3, <1>5, <1>6, <1>r DEF Shuffles, n

\* One turn of the loop.
Inspect(m, l, p, was) ==
  LET swapped == [was.list EXCEPT ![p] = was.list[l], ![l] = was.list[p]]
  IN IF was.oldest = 0 \/ m.nLastSuccess[was.list[p]] < was.success
     THEN [list |-> swapped, oldest |-> p, success |-> m.nLastSuccess[was.list[p]]]
     ELSE [list |-> swapped, oldest |-> was.oldest, success |-> was.success]

\* The shuffled bucket holds the same entries, and the position is one of it.
LEMMA SelectTriedKeeps ==
  ASSUME NEW m, Typed(m), NEW vTried \in Seq(Addr), Distinct(vTried),
         vTried # << >>, NEW c \in Draws(vTried)
  PROVE  LET r == SelectTried(m, vTried, c)
         IN r.list \in Shuffles(vTried) /\ r.oldest \in 1..Len(vTried)
<1> DEFINE n == Len(vTried)
           k == Len(c)
           V == [list : Shuffles(vTried), oldest : 0..n, success : 0..MaxTime]
           first == [list |-> vTried, oldest |-> 0, success |-> 0]
           Rule(f) == f = [i \in 0..k |->
               IF i = 0 THEN [list |-> vTried, oldest |-> 0, success |-> 0]
               ELSE LET was     == f[i - 1]
                        nTemp   == was.list[c[i]]
                        swapped == [was.list EXCEPT ![c[i]] = was.list[i], ![i] = nTemp]
                    IN IF was.oldest = 0 \/ m.nLastSuccess[nTemp] < was.success
                       THEN [list |-> swapped, oldest |-> c[i], success |-> m.nLastSuccess[nTemp]]
                       ELSE [list |-> swapped, oldest |-> was.oldest, success |-> was.success]]
           inspect == CHOOSE f : Rule(f)
           step == [p \in (1..k) \X V |-> Inspect(m, p[1], c[p[1]], p[2])]
           J == {p \in (0..k) \X V : p[1] = 0 \/ p[2].oldest # 0}
<1>1. n \in Nat \ {0} /\ k \in Nat /\ k \in 1..n /\ \A i \in 1..k : c[i] \in 1..n
  <2> DEFINE kk == IF n < ADDRMAN_TRIED_ENTRIES_INSPECT_ON_EVICT
                   THEN n ELSE ADDRMAN_TRIED_ENTRIES_INSPECT_ON_EVICT
  <2>1. n \in Nat \ {0} /\ kk \in 1..n
    BY EmptySeq, AddrManAssumption
  <2>2. c \in [1..kk -> 1..n]
    BY DEF Draws
  <2> HIDE DEF kk, n
  <2>3. c \in Seq(1..n)
    BY <2>1, <2>2
  <2>4. DOMAIN c = 1..k /\ DOMAIN c = 1..kk /\ k \in Nat
    BY <2>2, <2>3, LenProperties
  <2>5. k = kk
    <3>1. kk \in Nat /\ 1 \in 1..kk /\ kk \in 1..kk
      BY <2>1
    <3>2. 1..k = 1..kk
      BY <2>4
    <3> HIDE DEF k
    <3>3. 1 \in 1..k /\ kk \in 1..k
      BY <3>1, <3>2
    <3>4. k \in 1..k
      BY <2>4, <3>3
    <3>5. k \in 1..kk
      BY <3>2, <3>4
    <3> QED BY <2>4, <3>1, <3>3, <3>5
  <2> QED BY <2>1, <2>2, <2>5
<1>2. SelectTried(m, vTried, c) = inspect[k]
  BY DEF SelectTried
<1> HIDE DEF n, k
<1>3. first \in V /\ 0 \in 0..k
  BY <1>1, AddrManAssumption DEF Shuffles, n
<1>4. ASSUME NEW i \in 1..k, NEW was \in V
      PROVE  Inspect(m, i, c[i], was) \in V /\ Inspect(m, i, c[i], was).oldest # 0
  <2>1. was.list \in Shuffles(vTried) /\ was.oldest \in 0..n /\ was.success \in 0..MaxTime
    OBVIOUS
  <2>2. i \in 1..n /\ c[i] \in 1..n
    BY <1>1
  <2> DEFINE l == was.list
             swapped == [l EXCEPT ![c[i]] = l[i], ![i] = l[c[i]]]
  <2>3. swapped \in Shuffles(vTried)
    BY <2>1, <2>2, SwapIsOrder DEF n
  <2>4. l[c[i]] \in Addr
    BY <2>1, <2>2 DEF Shuffles, n
  <2>5. m.nLastSuccess[l[c[i]]] \in 0..MaxTime
    BY <2>4 DEF Typed
  <2>6. Inspect(m, i, c[i], was) =
          IF was.oldest = 0 \/ m.nLastSuccess[l[c[i]]] < was.success
          THEN [list |-> swapped, oldest |-> c[i], success |-> m.nLastSuccess[l[c[i]]]]
          ELSE [list |-> swapped, oldest |-> was.oldest, success |-> was.success]
    BY DEF Inspect
  <2> HIDE DEF swapped, l
  <2>7. c[i] \in 0..n /\ c[i] # 0
    BY <1>1, <2>2
  <2> QED BY <2>1, <2>3, <2>5, <2>6, <2>7
<1>5. step \in [(1..k) \X V -> V] /\ \A i \in 1..k : \A was \in V : step[<<i, was>>] = Inspect(m, i, c[i], was)
  <2> HIDE DEF V
  <2> QED BY <1>4
<1>6. PICK f : LoopOf(f, k, V, first, step)
  <2> HIDE DEF step, V, first
  <2> QED BY <1>1, <1>3, <1>5, LoopExists
<1> HIDE DEF step
<1>7. Rule(f)
  <2> HIDE DEF V
  <2>1. f \in [0..k -> V] /\ f[0] = first
    BY <1>6 DEF LoopOf
  <2>2. \A i \in 0..k : i # 0 => i \in 1..k
    BY <1>1
  <2>3. \A i \in 1..k : f[i] = Inspect(m, i, c[i], f[i - 1])
    <3>1. TAKE i \in 1..k
    <3>2. i - 1 \in 0..k
      BY <1>1
    <3>3. f[i - 1] \in V
      BY <2>1, <3>2
    <3>4. f[i] = step[<<i, f[i - 1]>>]
      BY <1>6 DEF LoopOf
    <3>5. \A v \in V : step[<<i, v>>] = Inspect(m, i, c[i], v)
      BY <1>5
    <3> QED BY <3>3, <3>4, <3>5
  <2>4. f = [i \in 0..k |-> IF i = 0 THEN first ELSE Inspect(m, i, c[i], f[i - 1])]
    BY <2>1, <2>2, <2>3
  <2> QED BY <2>4 DEF Inspect
<1>8. Rule(inspect)
  <2> HIDE DEF Rule
  <2> QED BY <1>7
<1> HIDE DEF inspect
<1>9. inspect[0] = first /\ \A i \in 1..k : inspect[i] = Inspect(m, i, c[i], inspect[i - 1])
  <2>1. 0 \in 0..k /\ \A i \in 1..k : i \in 0..k /\ i # 0
    BY <1>1
  <2> QED BY <1>8, <2>1 DEF Inspect
<1>10. <<0, first>> \in J /\ \A i \in 1..k : \A v \in V : <<i, step[<<i, v>>]>> \in J
  <2>1. \A i \in 1..k : i \in 0..k
    BY <1>1
  <2> HIDE DEF V
  <2> QED BY <1>3, <1>4, <1>5, <2>1
<1>11. inspect[k] \in V /\ <<k, inspect[k]>> \in J
  <2> HIDE DEF V, J, first
  <2>1. Follows(inspect, k, V, first, step)
    BY <1>5, <1>9 DEF Follows
  <2>2. KeptBy(J, k, V, first, step)
    BY <1>10 DEF KeptBy
  <2>3. k \in Nat /\ first \in V /\ step \in [(1..k) \X V -> V]
    BY <1>1, <1>3, <1>5
  <2> QED BY <2>1, <2>2, <2>3, LoopKeeps
<1> QED BY <1>1, <1>2, <1>11 DEF n

-----------------------------------------------------------------------------
(* Good_                                                                   *)

\* a has gone from its new buckets to its tried bucket; back, one tried entry
\* or none, has gone from there to the new bucket b.
Moved(m, r, a, back, b) ==
  /\ IsRecord(r) /\ Typed(r) /\ Sourced(r) /\ Order(r)
  /\ back \in SUBSET TriedEntries(m) /\ r.mapAddr = m.mapAddr
  /\ \A c \in NewBucket : r.vvNew[c] = IF c = b THEN (m.vvNew[c] \ {a}) \cup back ELSE m.vvNew[c] \ {a}
  /\ Cardinality(r.vvNew[b]) <= ADDRMAN_NEW_BUCKET_SIZE
  /\ \A x \in Addr : r.nRefCount[x] = IF x = a THEN 0 ELSE IF x \in back THEN 1 ELSE m.nRefCount[x]
  /\ \A x \in Addr : r.fInTried[x] <=> x = a \/ (m.fInTried[x] /\ x \notin back)
  /\ \A k \in TriedBucket :
       /\ Distinct(r.vvTried[k]) /\ Len(r.vvTried[k]) <= ADDRMAN_TRIED_BUCKET_SIZE
       /\ ToSet(r.vvTried[k]) = IF k = GetTriedBucket[a] THEN (ToSet(m.vvTried[k]) \ back) \cup {a}
                                ELSE ToSet(m.vvTried[k]) \ back
  /\ r.nNew = Cardinality((NewEntries(m) \ {a}) \cup back)
  /\ r.nTried = Cardinality((TriedEntries(m) \ back) \cup {a})
  /\ Len(r.vRandom) = r.nNew + r.nTried

LEMMA MovedIsBook ==
  ASSUME NEW m, Book(m), NEW a \in m.mapAddr, ~m.fInTried[a],
         NEW b \in NewBucket, NEW back, NEW r, Moved(m, r, a, back, b)
  PROVE  Book(r) /\ Stay(m, r)
<1>a. /\ IsRecord(r) /\ Typed(r) /\ Sourced(r) /\ Order(r)
      /\ back \in SUBSET TriedEntries(m) /\ r.mapAddr = m.mapAddr
      /\ Cardinality(r.vvNew[b]) <= ADDRMAN_NEW_BUCKET_SIZE
      /\ r.nNew = Cardinality((NewEntries(m) \ {a}) \cup back)
      /\ r.nTried = Cardinality((TriedEntries(m) \ back) \cup {a})
      /\ Len(r.vRandom) = r.nNew + r.nTried
  BY DEF Moved
<1>b. \A c \in NewBucket : r.vvNew[c] = IF c = b THEN (m.vvNew[c] \ {a}) \cup back ELSE m.vvNew[c] \ {a}
  BY DEF Moved
<1>c. \A x \in Addr : r.nRefCount[x] = IF x = a THEN 0 ELSE IF x \in back THEN 1 ELSE m.nRefCount[x]
  BY DEF Moved
<1>d. \A x \in Addr : r.fInTried[x] <=> x = a \/ (m.fInTried[x] /\ x \notin back)
  BY DEF Moved
<1>e. \A k \in TriedBucket :
       /\ Distinct(r.vvTried[k]) /\ Len(r.vvTried[k]) <= ADDRMAN_TRIED_BUCKET_SIZE
       /\ ToSet(r.vvTried[k]) = IF k = GetTriedBucket[a] THEN (ToSet(m.vvTried[k]) \ back) \cup {a}
                                ELSE ToSet(m.vvTried[k]) \ back
  BY DEF Moved
<1>1. /\ m.vvNew \in [NewBucket -> SUBSET Addr] /\ m.mapAddr \subseteq Addr /\ a \in Addr
      /\ m.nRefCount \in [Addr -> Nat] /\ back \subseteq m.mapAddr /\ a \notin back
      /\ ADDRMAN_NEW_BUCKETS_PER_ADDRESS \in Nat \ {0}
  BY <1>a, AddrManAssumption DEF Book, Typed, TriedEntries
<1>2. \A x \in Addr : In(m, x) \in SUBSET NewBucket /\ RefOK(m, x)
  BY DEF In, Book, Refs
<1>3. \A x \in back : x \in Addr /\ m.nRefCount[x] = 0 /\ m.fInTried[x] /\ In(m, x) = {}
  <2> SUFFICES ASSUME NEW x \in back
               PROVE  x \in Addr /\ m.nRefCount[x] = 0 /\ m.fInTried[x] /\ In(m, x) = {}
    OBVIOUS
  <2>1. x \in m.mapAddr /\ x \in Addr /\ m.fInTried[x]
    BY <1>1, <1>a DEF TriedEntries
  <2>2. m.nRefCount[x] = 0 /\ Cardinality(In(m, x)) = 0
    BY <1>2, <2>1 DEF RefOK
  <2>3. IsFiniteSet(In(m, x))
    BY <1>2, <2>1, Finite
  <2> QED BY <2>1, <2>2, <2>3, FS_EmptySet
<1>4. ASSUME NEW x \in Addr PROVE RefOK(r, x)
  <2>0. RefOK(m, x) /\ In(m, x) \in SUBSET NewBucket
    BY <1>2
  <2>1. CASE x = a
    <3>1. In(r, x) = {}
      BY <1>1, <1>b, <2>1 DEF In
    <3>2. Cardinality(In(r, x)) = 0
      BY <3>1, FS_EmptySet
    <3>3. r.nRefCount[x] = 0 /\ r.fInTried[x] /\ x \in r.mapAddr
      BY <1>a, <1>c, <1>d, <2>1
    <3>4. r.nRefCount[x] <= ADDRMAN_NEW_BUCKETS_PER_ADDRESS
      BY <1>1, <3>3
    <3>5. r.nRefCount[x] = Cardinality(In(r, x)) /\ r.nRefCount[x] = 0
      BY <3>2, <3>3
    <3>6. /\ x \notin r.mapAddr => r.nRefCount[x] = 0 /\ ~r.fInTried[x]
          /\ x \in r.mapAddr => (r.fInTried[x] <=> r.nRefCount[x] = 0)
      BY <3>3
    <3> QED BY <3>4, <3>5, <3>6 DEF RefOK
  <2>2. CASE x \in back
    <3>1. In(r, x) = {b}
      BY <1>1, <1>3, <1>b, <2>2 DEF In
    <3>2. Cardinality(In(r, x)) = 1
      BY <3>1, FS_Singleton
    <3>3. r.nRefCount[x] = 1 /\ ~r.fInTried[x] /\ x \in r.mapAddr
      BY <1>1, <1>a, <1>c, <1>d, <2>2
    <3> QED BY <1>1, <3>2, <3>3 DEF RefOK
  <2>3. CASE x # a /\ x \notin back
    <3>1. In(r, x) = In(m, x)
      BY <1>b, <2>3 DEF In
    <3>2. r.nRefCount[x] = m.nRefCount[x] /\ (r.fInTried[x] <=> m.fInTried[x]) /\ r.mapAddr = m.mapAddr
      BY <1>a, <1>c, <1>d, <2>3
    <3> QED BY <2>0, <3>1, <3>2 DEF RefOK
  <2> QED BY <2>1, <2>2, <2>3
<1>5. Counts(r)
  <2>1. NewEntries(r) = (NewEntries(m) \ {a}) \cup back
    BY <1>1, <1>3, <1>a, <1>c DEF NewEntries
  <2>2. TriedEntries(r) = (TriedEntries(m) \ back) \cup {a}
    BY <1>1, <1>a, <1>d DEF TriedEntries
  <2> QED BY <1>a, <2>1, <2>2 DEF Counts
<1>6. ASSUME NEW k \in TriedBucket PROVE TriedOK(r, k)
  <2>1. ToSet(m.vvTried[k]) = {x \in Addr : m.fInTried[x] /\ GetTriedBucket[x] = k}
    BY DEF Book, Tables, TriedOK
  <2>2. ToSet(r.vvTried[k]) = {x \in Addr : r.fInTried[x] /\ GetTriedBucket[x] = k}
    <3>1. CASE k = GetTriedBucket[a]
      <4>1. ToSet(r.vvTried[k]) = (ToSet(m.vvTried[k]) \ back) \cup {a}
        BY <1>e, <3>1
      <4> QED BY <1>1, <1>d, <2>1, <3>1, <4>1, Zenon
    <3>2. CASE k # GetTriedBucket[a]
      <4>1. ToSet(r.vvTried[k]) = ToSet(m.vvTried[k]) \ back
        BY <1>e, <3>2
      <4> QED BY <1>1, <1>d, <2>1, <3>2, <4>1, Zenon
    <3> QED BY <3>1, <3>2
  <2> QED BY <1>e, <2>2 DEF TriedOK
<1>7. ASSUME NEW c \in NewBucket PROVE Cardinality(r.vvNew[c]) <= ADDRMAN_NEW_BUCKET_SIZE
  <2>1. CASE c # b
    <3>1. r.vvNew[c] \in SUBSET m.vvNew[c] /\ IsFiniteSet(m.vvNew[c])
      BY <1>1, <1>b, <2>1, Finite
    <3>2. Cardinality(r.vvNew[c]) <= Cardinality(m.vvNew[c])
      BY <3>1, FS_Subset
    <3>3. Cardinality(m.vvNew[c]) <= ADDRMAN_NEW_BUCKET_SIZE
      BY DEF Book, Sizes
    <3>4. /\ Cardinality(m.vvNew[c]) \in Nat /\ Cardinality(r.vvNew[c]) \in Nat
          /\ ADDRMAN_NEW_BUCKET_SIZE \in Nat
      BY <1>1, <3>1, Finite, AddrManAssumption
    <3> QED BY <3>2, <3>3, <3>4
  <2> QED BY <1>a, <2>1
<1>8. Stay(m, r)
  BY <1>a, TriedAreKnown DEF Stay
<1> QED BY <1>a, <1>e, <1>4, <1>5, <1>6, <1>7, <1>8 DEF Book, Refs, Tables, Sizes

\* Only the statistics of an entry change.
LEMMA SucceededKeeps ==
  ASSUME Book(am), NEW a \in Addr, NEW nTime \in 1..MaxTime
  PROVE  LET r == Succeeded(a, nTime)
         IN /\ Book(r)
            /\ r.mapAddr = am.mapAddr /\ r.source = am.source /\ r.nRefCount = am.nRefCount
            /\ r.fInTried = am.fInTried /\ r.nRandomPos = am.nRandomPos
            /\ r.vRandom = am.vRandom /\ r.vvNew = am.vvNew
            /\ r.vvTried = am.vvTried /\ r.nNew = am.nNew /\ r.nTried = am.nTried
<1> DEFINE r == Succeeded(a, nTime)
<1>1. /\ IsRecord(r)
      /\ r.mapAddr = am.mapAddr /\ r.source = am.source /\ r.nRefCount = am.nRefCount
      /\ r.fInTried = am.fInTried /\ r.nRandomPos = am.nRandomPos
      /\ r.nLastSuccess = [am.nLastSuccess EXCEPT ![a] = nTime]
      /\ r.vRandom = am.vRandom /\ r.vvNew = am.vvNew
      /\ r.vvTried = am.vvTried /\ r.nNew = am.nNew /\ r.nTried = am.nTried
  BY DEF Book, Succeeded, IsRecord, Fields
<1>2. r.nLastSuccess \in [Addr -> 0..MaxTime]
  <2> HIDE DEF r
  <2>1. am.nLastSuccess \in [Addr -> 0..MaxTime]
    BY DEF Book, Typed
  <2>2. r.nLastSuccess = [am.nLastSuccess EXCEPT ![a] = nTime]
    BY <1>1
  <2>3. nTime \in 0..MaxTime
    OBVIOUS
  <2> QED BY <2>1, <2>2, <2>3
<1> HIDE DEF r
<1>3. Typed(r) /\ Sourced(r) /\ Order(r)
  BY <1>1, <1>2 DEF Book, Typed, Sourced, Order
<1>4. Counts(r)
  BY <1>1 DEF Book, Counts, NewEntries, TriedEntries
<1>5. Refs(r) /\ Tables(r) /\ Sizes(r)
  BY <1>1 DEF Book, Refs, RefOK, In, Tables, TriedOK, Sizes
<1> QED BY <1>1, <1>3, <1>4, <1>5 DEF Book, r

\* a has left its new buckets: it is counted nowhere yet.
LEMMA LeaveNewKeeps ==
  ASSUME NEW m, Book(m), NEW a \in m.mapAddr, ~m.fInTried[a]
  PROVE  LET r == LeaveNew(m, a)
         IN /\ IsRecord(r) /\ Typed(r) /\ Sourced(r) /\ Order(r)
            /\ r.mapAddr = m.mapAddr /\ r.source = m.source
            /\ r.nRefCount = [m.nRefCount EXCEPT ![a] = 0]
            /\ r.fInTried = m.fInTried /\ r.nLastSuccess = m.nLastSuccess
            /\ r.nRandomPos = m.nRandomPos /\ r.vRandom = m.vRandom
            /\ r.vvNew = [b \in NewBucket |-> m.vvNew[b] \ {a}]
            /\ r.vvTried = m.vvTried /\ r.nTried = m.nTried
            /\ r.nNew = m.nNew - 1 /\ r.nNew = Cardinality(NewEntries(m) \ {a})
<1> DEFINE r == LeaveNew(m, a)
<1>0. /\ a \in Addr /\ m.mapAddr \subseteq Addr /\ m.nRefCount \in [Addr -> Nat]
      /\ m.vvNew \in [NewBucket -> SUBSET Addr] /\ m.nNew \in Nat /\ RefOK(m, a)
  BY DEF Book, Typed, Refs
<1>1. /\ IsRecord(r)
      /\ r.mapAddr = m.mapAddr /\ r.source = m.source
      /\ r.nRefCount = [m.nRefCount EXCEPT ![a] = m.nRefCount[a] - Cardinality(In(m, a))]
      /\ r.fInTried = m.fInTried /\ r.nLastSuccess = m.nLastSuccess
      /\ r.nRandomPos = m.nRandomPos /\ r.vRandom = m.vRandom
      /\ r.vvNew = [b \in NewBucket |-> m.vvNew[b] \ {a}]
      /\ r.vvTried = m.vvTried /\ r.nTried = m.nTried /\ r.nNew = m.nNew - 1
  BY DEF Book, LeaveNew, IsRecord, Fields, In
<1> HIDE DEF r
<1>2. m.nRefCount[a] - Cardinality(In(m, a)) = 0 /\ m.nRefCount[a] # 0
  BY <1>0 DEF RefOK
<1>3. r.nRefCount = [m.nRefCount EXCEPT ![a] = 0]
  BY <1>1, <1>2
<1>4. m.nNew - 1 = Cardinality(NewEntries(m) \ {a}) /\ m.nNew - 1 \in Nat
  <2>1. a \in NewEntries(m) /\ NewEntries(m) \in SUBSET Addr
    BY <1>0, <1>2 DEF NewEntries
  <2>2. IsFiniteSet(NewEntries(m))
    BY <2>1, Finite
  <2>3. Cardinality(NewEntries(m) \ {a}) = Cardinality(NewEntries(m)) - 1
    BY <2>1, <2>2, FS_RemoveElement
  <2>4. m.nNew = Cardinality(NewEntries(m))
    BY DEF Book, Counts
  <2>5. NewEntries(m) # {} /\ Cardinality(NewEntries(m)) # 0
    BY <2>1, <2>2, FS_EmptySet
  <2> QED BY <1>0, <2>3, <2>4, <2>5
<1>5. Typed(r)
  <2>1. r.nRefCount \in [Addr -> Nat] /\ r.vvNew \in [NewBucket -> SUBSET Addr] /\ r.nNew \in Nat
    BY <1>0, <1>1, <1>3, <1>4
  <2> QED BY <1>1, <2>1 DEF Book, Typed
<1>6. Sourced(r) /\ Order(r)
  BY <1>1 DEF Book, Sourced, Order
<1> QED BY <1>1, <1>3, <1>4, <1>5, <1>6 DEF r

\* An entry that is not in a list comes last in it.
LEMMA AppendFresh ==
  ASSUME NEW s \in Seq(Addr), Distinct(s), NEW a \in Addr, a \notin ToSet(s)
  PROVE  /\ Append(s, a) \in Seq(Addr) /\ Len(Append(s, a)) = Len(s) + 1
         /\ Distinct(Append(s, a)) /\ ToSet(Append(s, a)) = ToSet(s) \cup {a}
<1> DEFINE n == Len(s)
           t == Append(s, a)
<1>1. /\ t \in Seq(Addr) /\ Len(t) = n + 1 /\ DOMAIN t = 1..n + 1 /\ n \in Nat
      /\ \A i \in 1..n : t[i] = s[i]
      /\ t[n + 1] = a /\ DOMAIN s = 1..n
  OBVIOUS
<1> HIDE DEF t, n
<1>2. \A i \in 1..n + 1 : i # n + 1 => i \in 1..n
  BY <1>1
<1>3. \A i \in 1..n : i \in 1..n + 1 /\ i # n + 1 /\ s[i] # a
  BY <1>1 DEF ToSet
<1>4. Distinct(t)
  <2> SUFFICES ASSUME NEW i \in 1..n + 1, NEW j \in 1..n + 1, t[i] = t[j] PROVE i = j
    BY <1>1 DEF Distinct
  <2>1. CASE i \in 1..n /\ j \in 1..n
    BY <1>1, <2>1 DEF Distinct
  <2>2. CASE i = n + 1 /\ j \in 1..n
    BY <1>1, <1>3, <2>2
  <2>3. CASE i \in 1..n /\ j = n + 1
    BY <1>1, <1>3, <2>3
  <2> QED BY <1>2, <2>1, <2>2, <2>3
<1>5. ToSet(t) = ToSet(s) \cup {a}
  <2>1. n + 1 \in 1..n + 1
    BY <1>1
  <2> QED BY <1>1, <1>2, <1>3, <2>1 DEF ToSet
<1> QED BY <1>1, <1>4, <1>5 DEF t, n

\* There is room for a in its tried bucket.
LEMMA PushTriedKeeps ==
  ASSUME NEW m, Book(m), NEW a \in m.mapAddr, ~m.fInTried[a],
         Len(m.vvTried[GetTriedBucket[a]]) < ADDRMAN_TRIED_BUCKET_SIZE
  PROVE  Book(PushTried(LeaveNew(m, a), a)) /\ Stay(m, PushTried(LeaveNew(m, a), a))
<1> DEFINE left == LeaveNew(m, a)
           k == GetTriedBucket[a]
           r == PushTried(left, a)
<1>1. /\ IsRecord(left) /\ Typed(left) /\ Sourced(left) /\ Order(left)
      /\ left.mapAddr = m.mapAddr /\ left.nRefCount = [m.nRefCount EXCEPT ![a] = 0]
      /\ left.fInTried = m.fInTried /\ left.vRandom = m.vRandom
      /\ left.vvNew = [b \in NewBucket |-> m.vvNew[b] \ {a}]
      /\ left.vvTried = m.vvTried /\ left.nTried = m.nTried
      /\ left.nNew = m.nNew - 1 /\ left.nNew = Cardinality(NewEntries(m) \ {a})
  <2>1. LET q == LeaveNew(m, a)
        IN /\ IsRecord(q) /\ Typed(q) /\ Sourced(q) /\ Order(q)
           /\ q.mapAddr = m.mapAddr /\ q.source = m.source
           /\ q.nRefCount = [m.nRefCount EXCEPT ![a] = 0]
           /\ q.fInTried = m.fInTried /\ q.nLastSuccess = m.nLastSuccess
           /\ q.nRandomPos = m.nRandomPos /\ q.vRandom = m.vRandom
           /\ q.vvNew = [b \in NewBucket |-> m.vvNew[b] \ {a}]
           /\ q.vvTried = m.vvTried /\ q.nTried = m.nTried
           /\ q.nNew = m.nNew - 1 /\ q.nNew = Cardinality(NewEntries(m) \ {a})
    BY LeaveNewKeeps
  <2> QED BY <2>1
<1>2. r = [left EXCEPT !.vvTried[k] = Append(@, a), !.nTried = @ + 1, !.fInTried[a] = TRUE]
  BY DEF PushTried
<1> HIDE DEF left, r
<1>3. /\ IsRecord(r)
      /\ r.mapAddr = left.mapAddr /\ r.source = left.source /\ r.nRefCount = left.nRefCount
      /\ r.fInTried = [left.fInTried EXCEPT ![a] = TRUE] /\ r.nRandomPos = left.nRandomPos
      /\ r.nLastSuccess = left.nLastSuccess /\ r.vRandom = left.vRandom /\ r.vvNew = left.vvNew
      /\ r.vvTried = [left.vvTried EXCEPT ![k] = Append(left.vvTried[k], a)]
      /\ r.nNew = left.nNew /\ r.nTried = left.nTried + 1
  <2>1. r = [left EXCEPT !.vvTried = [left.vvTried EXCEPT ![k] = Append(left.vvTried[k], a)],
                         !.nTried = left.nTried + 1,
                         !.fInTried = [left.fInTried EXCEPT ![a] = TRUE]]
    BY <1>2
  <2> QED BY <1>1, <2>1 DEF IsRecord, Fields
<1>4. /\ a \in Addr /\ k \in TriedBucket /\ m.vvTried \in [TriedBucket -> Seq(Addr)]
      /\ m.fInTried \in [Addr -> BOOLEAN] /\ m.nTried \in Nat /\ m.nNew \in Nat
      /\ m.nRefCount \in [Addr -> Nat] /\ m.vvNew \in [NewBucket -> SUBSET Addr]
      /\ ADDRMAN_TRIED_BUCKET_SIZE \in Nat
  BY AddrManAssumption DEF Book, Typed
<1> HIDE DEF k
<1> DEFINE s == m.vvTried[k]
<1>5. s \in Seq(Addr) /\ Len(s) \in Nat /\ DOMAIN s = 1..Len(s) /\ Distinct(s) /\ a \notin ToSet(s)
      /\ Len(s) < ADDRMAN_TRIED_BUCKET_SIZE
  <2>1. s \in Seq(Addr) /\ Len(s) \in Nat /\ DOMAIN s = 1..Len(s)
    BY <1>4
  <2>2. Distinct(s) /\ ToSet(s) = {x \in Addr : m.fInTried[x] /\ GetTriedBucket[x] = k}
    BY <1>4 DEF Book, Tables, TriedOK
  <2> QED BY <2>1, <2>2 DEF k
<1>6. /\ Append(s, a) \in Seq(Addr) /\ Len(Append(s, a)) = Len(s) + 1
      /\ Distinct(Append(s, a)) /\ ToSet(Append(s, a)) = ToSet(s) \cup {a}
  BY <1>4, <1>5, AppendFresh
<1>7. Typed(r) /\ Sourced(r) /\ Order(r)
  <2>1. r.vvTried \in [TriedBucket -> Seq(Addr)]
    BY <1>1, <1>3, <1>4, <1>6
  <2>2. r.fInTried \in [Addr -> BOOLEAN] /\ r.nTried \in Nat
    BY <1>1, <1>3, <1>4
  <2>3. Typed(r)
    BY <1>1, <1>3, <2>1, <2>2 DEF Typed
  <2> QED BY <1>1, <1>3, <2>3 DEF Sourced, Order
<1> DEFINE back == {}
<1>8. PICK b \in NewBucket : TRUE
  <2>1. RefOK(m, a) /\ In(m, a) \subseteq NewBucket
    BY <1>4 DEF Book, Refs, In
  <2>2. Cardinality(In(m, a)) # 0
    BY <2>1 DEF RefOK
  <2>3. In(m, a) # {}
    BY <2>2, FS_EmptySet
  <2> QED BY <2>1, <2>3
<1>9. /\ r.nTried = Cardinality((TriedEntries(m) \ back) \cup {a})
      /\ r.nNew = Cardinality((NewEntries(m) \ {a}) \cup back)
      /\ Len(r.vRandom) = r.nNew + r.nTried
  <2>1. a \notin TriedEntries(m) /\ TriedEntries(m) \in SUBSET Addr
    BY DEF TriedEntries, Book, Typed
  <2>2. Cardinality(TriedEntries(m) \cup {a}) = Cardinality(TriedEntries(m)) + 1
    BY <2>1, Finite, FS_AddElement
  <2>3. Len(m.vRandom) = m.nNew + m.nTried /\ m.nTried = Cardinality(TriedEntries(m))
    BY DEF Book, Counts
  <2>4. TriedEntries(m) \ back = TriedEntries(m) /\ (NewEntries(m) \ {a}) \cup back = NewEntries(m) \ {a}
    OBVIOUS
  <2>5. r.nTried = m.nTried + 1 /\ r.nNew = m.nNew - 1 /\ r.vRandom = m.vRandom
        /\ r.nNew = Cardinality(NewEntries(m) \ {a}) /\ m.nTried \in Nat /\ m.nNew \in Nat
    BY <1>1, <1>3, <1>4
  <2>6. (TriedEntries(m) \ back) \cup {a} = TriedEntries(m) \cup {a}
    OBVIOUS
  <2> HIDE DEF back
  <2>7. r.nTried = Cardinality((TriedEntries(m) \ back) \cup {a})
    BY <2>2, <2>3, <2>5, <2>6
  <2>8. r.nNew = Cardinality((NewEntries(m) \ {a}) \cup back)
    BY <2>4, <2>5
  <2>9. Len(r.vRandom) = r.nNew + r.nTried
    BY <2>3, <2>5
  <2> QED BY <2>7, <2>8, <2>9
<1>10. \A c \in NewBucket : r.vvNew[c] = IF c = b THEN (m.vvNew[c] \ {a}) \cup back ELSE m.vvNew[c] \ {a}
  BY <1>1, <1>3
<1>11. \A x \in Addr : r.nRefCount[x] = IF x = a THEN 0 ELSE IF x \in back THEN 1 ELSE m.nRefCount[x]
  BY <1>1, <1>3, <1>4
<1>12. \A x \in Addr : r.fInTried[x] <=> x = a \/ (m.fInTried[x] /\ x \notin back)
  BY <1>1, <1>3, <1>4
<1>13. ASSUME NEW q \in TriedBucket
       PROVE  /\ Distinct(r.vvTried[q]) /\ Len(r.vvTried[q]) <= ADDRMAN_TRIED_BUCKET_SIZE
              /\ ToSet(r.vvTried[q]) = IF q = k THEN (ToSet(m.vvTried[q]) \ back) \cup {a}
                                       ELSE ToSet(m.vvTried[q]) \ back
  <2>1. CASE q = k
    <3>1. r.vvTried[q] = Append(s, a)
      <4>1. r.vvTried = [m.vvTried EXCEPT ![k] = Append(m.vvTried[k], a)]
        BY <1>1, <1>3
      <4>2. m.vvTried \in [TriedBucket -> Seq(Addr)]
        BY <1>4
      <4> QED BY <2>1, <4>1, <4>2
    <3>2. ToSet(s) \ back = ToSet(s) /\ s = m.vvTried[q]
      BY <2>1
    <3> HIDE DEF s, back
    <3> QED BY <1>4, <1>5, <1>6, <2>1, <3>1, <3>2
  <2>2. CASE q # k
    <3>1. r.vvTried[q] = m.vvTried[q]
      BY <1>1, <1>3, <1>4, <2>2
    <3>2. Distinct(m.vvTried[q]) /\ Len(m.vvTried[q]) <= ADDRMAN_TRIED_BUCKET_SIZE
      BY DEF Book, Tables, TriedOK, Sizes
    <3> QED BY <2>2, <3>1, <3>2
  <2> QED BY <2>1, <2>2
<1>14. Cardinality(r.vvNew[b]) <= ADDRMAN_NEW_BUCKET_SIZE
  <2>1. r.vvNew[b] \in SUBSET m.vvNew[b] /\ m.vvNew[b] \in SUBSET Addr
    BY <1>1, <1>3, <1>4
  <2>2. Cardinality(r.vvNew[b]) <= Cardinality(m.vvNew[b])
    BY <2>1, Finite, FS_Subset
  <2>3. Cardinality(m.vvNew[b]) <= ADDRMAN_NEW_BUCKET_SIZE
    BY DEF Book, Sizes
  <2>4. /\ Cardinality(m.vvNew[b]) \in Nat /\ Cardinality(r.vvNew[b]) \in Nat
        /\ ADDRMAN_NEW_BUCKET_SIZE \in Nat
    BY <2>1, Finite, AddrManAssumption
  <2> QED BY <2>2, <2>3, <2>4
<1>15. back \in SUBSET TriedEntries(m) /\ r.mapAddr = m.mapAddr
  BY <1>1, <1>3
<1> HIDE DEF back
<1>16. Moved(m, r, a, back, b)
  BY <1>3, <1>7, <1>9, <1>10, <1>11, <1>12, <1>13, <1>14, <1>15 DEF Moved, k
<1>17. Book(r) /\ Stay(m, r)
  BY <1>16, MovedIsBook
<1> QED BY <1>17 DEF r, left

\* One entry of a list is replaced by one that is not in it.
LEMMA ReplacedList ==
  ASSUME NEW s \in Seq(Addr), Distinct(s), NEW a \in Addr, a \notin ToSet(s), NEW n \in 1..Len(s)
  PROVE  LET t == [s EXCEPT ![n] = a]
         IN t \in Seq(Addr) /\ Len(t) = Len(s) /\ Distinct(t) /\ ToSet(t) = (ToSet(s) \ {s[n]}) \cup {a}
<1> DEFINE t == [s EXCEPT ![n] = a]
<1>1. t \in Seq(Addr) /\ Len(t) = Len(s) /\ \A i \in 1..Len(s) : t[i] = IF i = n THEN a ELSE s[i]
  BY ExceptSeq
<1>2. DOMAIN s = 1..Len(s) /\ DOMAIN t = 1..Len(s) /\ n \in 1..Len(s)
  BY <1>1
<1> HIDE DEF t
<1>3. \A i \in 1..Len(s) : s[i] # a
  BY <1>2 DEF ToSet
<1>4. Distinct(t)
  <2> SUFFICES ASSUME NEW i \in 1..Len(s), NEW j \in 1..Len(s), t[i] = t[j] PROVE i = j
    BY <1>2 DEF Distinct
  <2> QED BY <1>1, <1>2, <1>3 DEF Distinct
<1>5. ToSet(t) = (ToSet(s) \ {s[n]}) \cup {a}
  <2>1. \A i \in 1..Len(s) : i # n => s[i] # s[n]
    BY <1>2 DEF Distinct
  <2> QED BY <1>1, <1>2, <2>1 DEF ToSet
<1> QED BY <1>1, <1>4, <1>5 DEF t

\* There is none: an entry of the full bucket goes back to a new one.
LEMMA ReplaceTriedKeeps ==
  ASSUME NEW m, Book(m), NEW a \in m.mapAddr, ~m.fInTried[a],
         NEW list \in Shuffles(m.vvTried[GetTriedBucket[a]]), NEW nPos \in 1..Len(list),
         NEW nOrigin \in NewBucket, a \in m.vvNew[nOrigin]
  PROVE  LET r == ReplaceTried(LeaveNew(m, a), a, list, nPos, nOrigin)
         IN Book(r) /\ Stay(m, r)
<1> DEFINE left == LeaveNew(m, a)
           k == GetTriedBucket[a]
           s == m.vvTried[k]
           old == list[nPos]
           b == BucketForEvicted(left, old, nOrigin)
           t == [list EXCEPT ![nPos] = a]
           r == ReplaceTried(left, a, list, nPos, nOrigin)
<1>1. /\ IsRecord(left) /\ Typed(left) /\ Sourced(left) /\ Order(left)
      /\ left.mapAddr = m.mapAddr /\ left.source = m.source
      /\ left.nRefCount = [m.nRefCount EXCEPT ![a] = 0]
      /\ left.fInTried = m.fInTried /\ left.vRandom = m.vRandom
      /\ left.vvNew = [c \in NewBucket |-> m.vvNew[c] \ {a}]
      /\ left.vvTried = m.vvTried /\ left.nTried = m.nTried
      /\ left.nNew = m.nNew - 1 /\ left.nNew = Cardinality(NewEntries(m) \ {a})
  <2>1. LET q == LeaveNew(m, a)
        IN /\ IsRecord(q) /\ Typed(q) /\ Sourced(q) /\ Order(q)
           /\ q.mapAddr = m.mapAddr /\ q.source = m.source
           /\ q.nRefCount = [m.nRefCount EXCEPT ![a] = 0]
           /\ q.fInTried = m.fInTried /\ q.nLastSuccess = m.nLastSuccess
           /\ q.nRandomPos = m.nRandomPos /\ q.vRandom = m.vRandom
           /\ q.vvNew = [c \in NewBucket |-> m.vvNew[c] \ {a}]
           /\ q.vvTried = m.vvTried /\ q.nTried = m.nTried
           /\ q.nNew = m.nNew - 1 /\ q.nNew = Cardinality(NewEntries(m) \ {a})
    BY LeaveNewKeeps
  <2> QED BY <2>1
<1>2. /\ a \in Addr /\ k \in TriedBucket /\ m.vvTried \in [TriedBucket -> Seq(Addr)]
      /\ m.fInTried \in [Addr -> BOOLEAN] /\ m.nTried \in Nat /\ m.nNew \in Nat
      /\ m.nRefCount \in [Addr -> Nat] /\ m.vvNew \in [NewBucket -> SUBSET Addr]
      /\ ADDRMAN_NEW_BUCKET_SIZE \in Nat /\ m.mapAddr \subseteq Addr
  BY AddrManAssumption DEF Book, Typed
<1>3. r = [left EXCEPT !.vvTried[k] = t, !.fInTried = [@ EXCEPT ![a] = TRUE, ![old] = FALSE],
                       !.nRefCount[old] = 1, !.vvNew[b] = @ \cup {old}, !.nNew = @ + 1]
  BY DEF ReplaceTried
<1> HIDE DEF left, r, b, t, k
<1>4. /\ IsRecord(r)
      /\ r.mapAddr = left.mapAddr /\ r.source = left.source
      /\ r.nRefCount = [left.nRefCount EXCEPT ![old] = 1]
      /\ r.fInTried = [left.fInTried EXCEPT ![a] = TRUE, ![old] = FALSE]
      /\ r.nRandomPos = left.nRandomPos
      /\ r.nLastSuccess = left.nLastSuccess /\ r.vRandom = left.vRandom
      /\ r.vvNew = [left.vvNew EXCEPT ![b] = left.vvNew[b] \cup {old}]
      /\ r.vvTried = [left.vvTried EXCEPT ![k] = t]
      /\ r.nNew = left.nNew + 1 /\ r.nTried = left.nTried
  BY <1>1, <1>3 DEF IsRecord, Fields
<1>5. /\ list \in Seq(Addr) /\ Distinct(list) /\ ToSet(list) = ToSet(s) /\ Len(list) = Len(s)
      /\ old \in ToSet(s) /\ ToSet(s) = {x \in Addr : m.fInTried[x] /\ GetTriedBucket[x] = k}
      /\ Len(s) <= ADDRMAN_TRIED_BUCKET_SIZE
  <2>1. list \in Seq(Addr) /\ Distinct(list) /\ ToSet(list) = ToSet(s) /\ Len(list) = Len(s)
    BY DEF Shuffles, k
  <2>2. old \in ToSet(list)
    BY <2>1 DEF ToSet
  <2>3. ToSet(s) = {x \in Addr : m.fInTried[x] /\ GetTriedBucket[x] = k} /\ Len(s) <= ADDRMAN_TRIED_BUCKET_SIZE
    BY <1>2 DEF Book, Tables, TriedOK, Sizes
  <2> QED BY <2>1, <2>2, <2>3
<1>6. /\ t \in Seq(Addr) /\ Len(t) = Len(s) /\ Distinct(t)
      /\ ToSet(t) = (ToSet(s) \ {old}) \cup {a}
  <2>1. a \notin ToSet(list)
    BY <1>5
  <2>2. nPos \in 1..Len(list)
    OBVIOUS
  <2>3. LET q == [list EXCEPT ![nPos] = a]
        IN q \in Seq(Addr) /\ Len(q) = Len(list) /\ Distinct(q)
           /\ ToSet(q) = (ToSet(list) \ {list[nPos]}) \cup {a}
    BY <1>2, <1>5, <2>1, <2>2, ReplacedList
  <2> QED BY <1>5, <2>3 DEF t
<1>7. old \in Addr /\ m.fInTried[old] /\ GetTriedBucket[old] = k /\ old # a
  BY <1>5
<1>8. old \in m.mapAddr /\ m.nRefCount[old] = 0 /\ m.source[old] \in Source
  <2>1. RefOK(m, old)
    BY <1>7 DEF Book, Refs
  <2>2. old \in m.mapAddr
    BY <1>7, <2>1 DEF RefOK
  <2> QED BY <1>7, <2>1, <2>2 DEF RefOK, Book, Sourced
<1> HIDE DEF old, s
<1>9. /\ b \in NewBucket /\ IsFiniteSet(left.vvNew[b])
      /\ Cardinality(left.vvNew[b]) \in Nat /\ Cardinality(left.vvNew[b]) < ADDRMAN_NEW_BUCKET_SIZE
  <2> DEFINE nU == GetNewBucket[<<old, left.source[old]>>]
  <2>1. nU \in NewBucket
    BY <1>1, <1>7, <1>8, AddrManAssumption
  <2>2. b = IF Cardinality(left.vvNew[nU]) < ADDRMAN_NEW_BUCKET_SIZE THEN nU ELSE nOrigin
    BY DEF b, BucketForEvicted
  <2> HIDE DEF nU
  <2>3. \A c \in NewBucket : IsFiniteSet(left.vvNew[c]) /\ Cardinality(left.vvNew[c]) \in Nat
    <3>1. left.vvNew \in [NewBucket -> SUBSET Addr]
      BY <1>1 DEF Typed
    <3> QED BY <3>1, Finite
  <2>4. Cardinality(left.vvNew[nOrigin]) < ADDRMAN_NEW_BUCKET_SIZE
    <3>1. left.vvNew[nOrigin] = m.vvNew[nOrigin] \ {a} /\ IsFiniteSet(m.vvNew[nOrigin])
          /\ Cardinality(m.vvNew[nOrigin]) \in Nat
      BY <1>1, <1>2, Finite
    <3>2. Cardinality(m.vvNew[nOrigin] \ {a}) = Cardinality(m.vvNew[nOrigin]) - 1
      BY <3>1, FS_RemoveElement
    <3>3. Cardinality(m.vvNew[nOrigin]) <= ADDRMAN_NEW_BUCKET_SIZE
      BY DEF Book, Sizes
    <3> QED BY <1>2, <3>1, <3>2, <3>3
  <2> QED BY <2>1, <2>2, <2>3, <2>4
<1> DEFINE back == {old}
<1>10. /\ \A c \in NewBucket : r.vvNew[c] = IF c = b THEN (m.vvNew[c] \ {a}) \cup back ELSE m.vvNew[c] \ {a}
       /\ r.vvNew \in [NewBucket -> SUBSET Addr]
  <2>1. left.vvNew \in [NewBucket -> SUBSET Addr] /\ \A c \in NewBucket : left.vvNew[c] = m.vvNew[c] \ {a}
    BY <1>1, <1>2
  <2>2. left.vvNew[b] \cup {old} \in SUBSET Addr
    BY <1>7, <1>9, <2>1
  <2>3. /\ \A c \in NewBucket : r.vvNew[c] = IF c = b THEN left.vvNew[b] \cup {old} ELSE left.vvNew[c]
        /\ r.vvNew \in [NewBucket -> SUBSET Addr]
    BY <1>4, <1>9, <2>1, <2>2
  <2> QED BY <1>9, <2>1, <2>3
<1>11. /\ \A x \in Addr : r.nRefCount[x] = IF x = a THEN 0 ELSE IF x \in back THEN 1 ELSE m.nRefCount[x]
       /\ r.nRefCount \in [Addr -> Nat]
  <2>1. /\ left.nRefCount \in [Addr -> Nat]
        /\ \A x \in Addr : left.nRefCount[x] = IF x = a THEN 0 ELSE m.nRefCount[x]
    BY <1>1, <1>2
  <2>2. /\ r.nRefCount \in [Addr -> Nat]
        /\ \A x \in Addr : r.nRefCount[x] = IF x = old THEN 1 ELSE left.nRefCount[x]
    BY <1>4, <1>7, <2>1
  <2> QED BY <1>7, <2>1, <2>2
<1>12. /\ \A x \in Addr : r.fInTried[x] <=> x = a \/ (m.fInTried[x] /\ x \notin back)
       /\ r.fInTried \in [Addr -> BOOLEAN]
  <2> DEFINE f == [m.fInTried EXCEPT ![a] = TRUE]
  <2>1. f \in [Addr -> BOOLEAN] /\ \A x \in Addr : f[x] = IF x = a THEN TRUE ELSE m.fInTried[x]
    BY <1>2
  <2>2. r.fInTried = [f EXCEPT ![old] = FALSE]
    BY <1>1, <1>4
  <2> HIDE DEF f
  <2>3. r.fInTried \in [Addr -> BOOLEAN] /\ \A x \in Addr : r.fInTried[x] = IF x = old THEN FALSE ELSE f[x]
    BY <1>7, <2>1, <2>2
  <2> QED BY <1>7, <2>1, <2>3
<1>13. ASSUME NEW q \in TriedBucket
       PROVE  /\ Distinct(r.vvTried[q]) /\ Len(r.vvTried[q]) <= ADDRMAN_TRIED_BUCKET_SIZE
              /\ ToSet(r.vvTried[q]) = IF q = k THEN (ToSet(m.vvTried[q]) \ back) \cup {a}
                                       ELSE ToSet(m.vvTried[q]) \ back
  <2>1. CASE q = k
    <3>1. r.vvTried[q] = t
      BY <1>1, <1>2, <1>4, <2>1
    <3> QED BY <1>5, <1>6, <2>1, <3>1 DEF s
  <2>2. CASE q # k
    <3>1. r.vvTried[q] = m.vvTried[q]
      BY <1>1, <1>2, <1>4, <2>2
    <3>2. Distinct(m.vvTried[q]) /\ Len(m.vvTried[q]) <= ADDRMAN_TRIED_BUCKET_SIZE
          /\ ToSet(m.vvTried[q]) = {x \in Addr : m.fInTried[x] /\ GetTriedBucket[x] = q}
      BY DEF Book, Tables, TriedOK, Sizes
    <3>3. ToSet(m.vvTried[q]) \ back = ToSet(m.vvTried[q])
      BY <1>7, <2>2, <3>2
    <3> QED BY <2>2, <3>1, <3>2, <3>3
  <2> QED BY <2>1, <2>2
<1>14. Typed(r) /\ Sourced(r) /\ Order(r)
  <2>1. r.vvTried \in [TriedBucket -> Seq(Addr)]
    BY <1>1, <1>2, <1>4, <1>6
  <2>2. r.nNew \in Nat
    BY <1>1, <1>2, <1>4
  <2>3. Typed(r)
    BY <1>1, <1>4, <1>10, <1>11, <1>12, <2>1, <2>2 DEF Typed
  <2> QED BY <1>1, <1>4, <2>3 DEF Sourced, Order
<1>15. Cardinality(r.vvNew[b]) <= ADDRMAN_NEW_BUCKET_SIZE
  <2>1. r.vvNew[b] = left.vvNew[b] \cup {old}
    BY <1>1, <1>4, <1>9
  <2>2. Cardinality(left.vvNew[b] \cup {old}) <= Cardinality(left.vvNew[b]) + 1
    <3> DEFINE S == left.vvNew[b]
    <3>1. IsFiniteSet(S) /\ Cardinality(S) \in Nat
      BY <1>9
    <3> HIDE DEF S
    <3>2. Cardinality(S \cup {old}) = IF old \in S THEN Cardinality(S) ELSE Cardinality(S) + 1
      BY <3>1, FS_AddElement
    <3>3. Cardinality(S \cup {old}) <= Cardinality(S) + 1
      BY <3>1, <3>2
    <3> QED BY <3>3 DEF S
  <2>3. Cardinality(left.vvNew[b] \cup {old}) \in Nat
    BY <1>9, FS_AddElement, FS_CardinalityType
  <2> QED BY <1>2, <1>9, <2>1, <2>2, <2>3
<1>16. back \in SUBSET TriedEntries(m) /\ r.mapAddr = m.mapAddr
  BY <1>1, <1>4, <1>7, <1>8 DEF TriedEntries
<1>17. /\ r.nTried = Cardinality((TriedEntries(m) \ back) \cup {a})
       /\ r.nNew = Cardinality((NewEntries(m) \ {a}) \cup back)
       /\ Len(r.vRandom) = r.nNew + r.nTried
  <2>1. /\ a \notin TriedEntries(m) /\ old \in TriedEntries(m) /\ old \notin NewEntries(m)
        /\ TriedEntries(m) \in SUBSET Addr /\ NewEntries(m) \in SUBSET Addr
    BY <1>2, <1>7, <1>8 DEF TriedEntries, NewEntries
  <2>2. /\ IsFiniteSet(TriedEntries(m)) /\ IsFiniteSet(NewEntries(m))
        /\ Cardinality(TriedEntries(m)) \in Nat
    BY <2>1, Finite
  <2>3. IsFiniteSet(TriedEntries(m) \ {old}) /\ Cardinality(TriedEntries(m) \ {old}) = Cardinality(TriedEntries(m)) - 1
    BY <2>1, <2>2, FS_RemoveElement
  <2>4. Cardinality((TriedEntries(m) \ {old}) \cup {a}) = Cardinality(TriedEntries(m) \ {old}) + 1
    BY <2>1, <2>3, FS_AddElement
  <2>5. IsFiniteSet(NewEntries(m) \ {a}) /\ old \notin NewEntries(m) \ {a}
    BY <2>1, <2>2, FS_RemoveElement
  <2>6. Cardinality((NewEntries(m) \ {a}) \cup {old}) = Cardinality(NewEntries(m) \ {a}) + 1
    BY <2>5, FS_AddElement
  <2>7. Len(m.vRandom) = m.nNew + m.nTried /\ m.nTried = Cardinality(TriedEntries(m))
    BY DEF Book, Counts
  <2> QED BY <1>1, <1>2, <1>4, <2>2, <2>3, <2>4, <2>6, <2>7
<1> HIDE DEF back
<1>18. Moved(m, r, a, back, b)
  BY <1>4, <1>10, <1>11, <1>12, <1>13, <1>14, <1>15, <1>16, <1>17 DEF Moved, k
<1>19. Book(r) /\ Stay(m, r)
  BY <1>9, <1>18, MovedIsBook
<1> QED BY <1>19 DEF r, left
LEMMA MakeTriedStep ==
  ASSUME Book(am), NEW a \in Addr, NEW nTime \in 1..MaxTime, MakeTried(a, nTime)
  PROVE  Book(am') /\ Stay(am, am')
<1> DEFINE m == Succeeded(a, nTime)
           left == LeaveNew(m, a)
           vTried == am.vvTried[GetTriedBucket[a]]
<1>1. /\ Book(m) /\ m.mapAddr = am.mapAddr /\ m.fInTried = am.fInTried /\ m.vvNew = am.vvNew
      /\ m.vvTried = am.vvTried
  <2>1. LET r == Succeeded(a, nTime)
        IN /\ Book(r)
           /\ r.mapAddr = am.mapAddr /\ r.source = am.source /\ r.nRefCount = am.nRefCount
           /\ r.fInTried = am.fInTried /\ r.nRandomPos = am.nRandomPos
           /\ r.vRandom = am.vRandom /\ r.vvNew = am.vvNew
           /\ r.vvTried = am.vvTried /\ r.nNew = am.nNew /\ r.nTried = am.nTried
    BY SucceededKeeps
  <2> QED BY <2>1
<1>2. a \in am.mapAddr /\ ~am.fInTried[a]
  BY DEF MakeTried
<1>3. PICK nOrigin \in {b \in NewBucket : a \in am.vvNew[b]} :
         IF Len(vTried) < ADDRMAN_TRIED_BUCKET_SIZE
         THEN am' = PushTried(left, a)
         ELSE \E c \in Draws(vTried) :
                 LET chosen == SelectTried(left, vTried, c)
                 IN am' = ReplaceTried(left, a, chosen.list, chosen.oldest, nOrigin)
  BY DEF MakeTried
<1> HIDE DEF m, left
<1>4. CASE Len(vTried) < ADDRMAN_TRIED_BUCKET_SIZE
  <2>1. am' = PushTried(left, a)
    BY <1>3, <1>4
  <2>2. Book(PushTried(LeaveNew(m, a), a)) /\ Stay(m, PushTried(LeaveNew(m, a), a))
    BY <1>1, <1>2, <1>4, PushTriedKeeps
  <2> QED BY <1>1, <2>1, <2>2 DEF left, Stay
<1>5. CASE ~(Len(vTried) < ADDRMAN_TRIED_BUCKET_SIZE)
  <2>1. PICK c \in Draws(vTried) :
           am' = ReplaceTried(left, a, SelectTried(left, vTried, c).list,
                              SelectTried(left, vTried, c).oldest, nOrigin)
    BY <1>3, <1>5
  <2>2. Typed(left)
    <3>1. LET q == LeaveNew(m, a)
          IN /\ IsRecord(q) /\ Typed(q) /\ Sourced(q) /\ Order(q)
             /\ q.mapAddr = m.mapAddr /\ q.source = m.source
             /\ q.nRefCount = [m.nRefCount EXCEPT ![a] = 0]
             /\ q.fInTried = m.fInTried /\ q.nLastSuccess = m.nLastSuccess
             /\ q.nRandomPos = m.nRandomPos /\ q.vRandom = m.vRandom
             /\ q.vvNew = [c1 \in NewBucket |-> m.vvNew[c1] \ {a}]
             /\ q.vvTried = m.vvTried /\ q.nTried = m.nTried
             /\ q.nNew = m.nNew - 1 /\ q.nNew = Cardinality(NewEntries(m) \ {a})
      BY <1>1, <1>2, LeaveNewKeeps
    <3> QED BY <3>1 DEF left
  <2>3. vTried \in Seq(Addr) /\ Distinct(vTried) /\ vTried # << >>
    <3>1. GetTriedBucket[a] \in TriedBucket /\ am.vvTried \in [TriedBucket -> Seq(Addr)]
          /\ ADDRMAN_TRIED_BUCKET_SIZE \in Nat \ {0}
      BY AddrManAssumption DEF Book, Typed
    <3>2. Distinct(vTried) /\ vTried \in Seq(Addr)
      BY <3>1 DEF Book, Tables, TriedOK
    <3> QED BY <1>5, <3>1, <3>2, EmptySeq
  <2> HIDE DEF vTried
  <2> DEFINE chosen == SelectTried(left, vTried, c)
  <2>4. chosen.list \in Shuffles(vTried) /\ chosen.oldest \in 1..Len(vTried)
    <3>1. LET r == SelectTried(left, vTried, c)
          IN r.list \in Shuffles(vTried) /\ r.oldest \in 1..Len(vTried)
      BY <2>2, <2>3, SelectTriedKeeps
    <3> QED BY <3>1
  <2> HIDE DEF chosen
  <2>5. chosen.list \in Shuffles(m.vvTried[GetTriedBucket[a]]) /\ chosen.oldest \in 1..Len(chosen.list)
    BY <1>1, <2>4 DEF Shuffles, vTried
  <2>6. nOrigin \in NewBucket /\ a \in m.vvNew[nOrigin] /\ a \in m.mapAddr /\ ~m.fInTried[a]
    BY <1>1, <1>2
  <2>7. LET r == ReplaceTried(LeaveNew(m, a), a, chosen.list, chosen.oldest, nOrigin)
        IN Book(r) /\ Stay(m, r)
    BY <1>1, <2>5, <2>6, ReplaceTriedKeeps
  <2>8. am' = ReplaceTried(LeaveNew(m, a), a, chosen.list, chosen.oldest, nOrigin)
    BY <2>1 DEF left, chosen
  <2> QED BY <1>1, <2>7, <2>8 DEF Stay
<1> QED BY <1>4, <1>5

LEMMA GoodAgainStep ==
  ASSUME Book(am), NEW a \in Addr, NEW nTime \in 1..MaxTime, GoodAgain(a, nTime)
  PROVE  Book(am') /\ Stay(am, am')
<1>1. LET r == Succeeded(a, nTime)
      IN /\ Book(r)
         /\ r.mapAddr = am.mapAddr /\ r.source = am.source /\ r.nRefCount = am.nRefCount
         /\ r.fInTried = am.fInTried /\ r.nRandomPos = am.nRandomPos
         /\ r.vRandom = am.vRandom /\ r.vvNew = am.vvNew
         /\ r.vvTried = am.vvTried /\ r.nNew = am.nNew /\ r.nTried = am.nTried
  BY SucceededKeeps
<1> QED BY <1>1, TriedAreKnown DEF GoodAgain, Stay

-----------------------------------------------------------------------------
(* GetAddr_                                                                *)

LEMMA GetAddrStep ==
  ASSUME Book(am), NEW i, NEW j, GetAddr(i, j)
  PROVE  Book(am') /\ Stay(am, am')
<1>1. i \in 1..Len(am.vRandom) /\ j \in 1..Len(am.vRandom)
  <2>1. i \in 1..Len(am.vRandom) /\ j \in i..Len(am.vRandom)
    BY DEF GetAddr
  <2> QED BY <2>1
<1>2. LET r == SwapRandom(am, i, j)
      IN /\ IsRecord(r) /\ Typed(r) /\ Order(r)
         /\ r.mapAddr = am.mapAddr /\ r.source = am.source /\ r.nRefCount = am.nRefCount
         /\ r.fInTried = am.fInTried /\ r.nLastSuccess = am.nLastSuccess /\ r.vvNew = am.vvNew
         /\ r.vvTried = am.vvTried /\ r.nNew = am.nNew /\ r.nTried = am.nTried
         /\ Len(r.vRandom) = Len(am.vRandom) /\ r.vRandom[j] = am.vRandom[i]
  BY <1>1, SwapRandomKeeps DEF Book
<1>3. /\ IsRecord(am') /\ Typed(am') /\ Order(am')
      /\ am'.mapAddr = am.mapAddr /\ am'.source = am.source /\ am'.nRefCount = am.nRefCount
      /\ am'.fInTried = am.fInTried /\ am'.vvNew = am.vvNew
      /\ am'.vvTried = am.vvTried /\ am'.nNew = am.nNew /\ am'.nTried = am.nTried
      /\ Len(am'.vRandom) = Len(am.vRandom)
  BY <1>2 DEF GetAddr
<1>4. Counts(am')
  BY <1>3 DEF Book, Counts, NewEntries, TriedEntries
<1>5. Sourced(am') /\ Refs(am') /\ Tables(am') /\ Sizes(am')
  BY <1>3 DEF Book, Sourced, Refs, RefOK, In, Tables, TriedOK, Sizes
<1>6. Stay(am, am')
  BY <1>3, TriedAreKnown DEF Stay
<1> QED BY <1>3, <1>4, <1>5, <1>6 DEF Book

-----------------------------------------------------------------------------
(* peers.dat                                                               *)

\* A list without repetitions is as long as the set of its members is large.
LEMMA DistinctLen ==
  ASSUME NEW T, NEW s \in Seq(T), Distinct(s)
  PROVE  IsFiniteSet(ToSet(s)) /\ Cardinality(ToSet(s)) = Len(s)
<1> DEFINE n == Len(s)
           D == 1..n
<1>1. n \in Nat /\ DOMAIN s = D /\ s \in [D -> T]
  BY LenProperties
<1>2. IsFiniteSet(D) /\ Cardinality(D) = n
  BY <1>1, FS_Interval
<1> HIDE DEF n
<1>3. s \in [D -> ToSet(s)] /\ \A y \in ToSet(s) : \E i \in D : s[i] = y
  BY <1>1 DEF ToSet
<1>4. \A i, j \in D : s[i] = s[j] => i = j
  BY <1>1 DEF Distinct
<1> HIDE DEF D
<1>5. s \in Surjection(D, ToSet(s))
  BY <1>3 DEF Surjection
<1>6. s \in Injection(D, ToSet(s))
  BY <1>1, <1>3, <1>4 DEF Injection, IsInjective
<1>7. IsFiniteSet(ToSet(s)) /\ Cardinality(ToSet(s)) = Cardinality(D)
  BY <1>2, <1>5, <1>6, FS_Surjection
<1> QED BY <1>2, <1>7 DEF n

\* SetToSeqs: the orders of a set.
LEMMA SetToSeqsOK ==
  ASSUME NEW S, IsFiniteSet(S), NEW s \in SetToSeqs(S)
  PROVE  s \in Seq(S) /\ Len(s) = Cardinality(S) /\ Distinct(s) /\ ToSet(s) = S
<1> DEFINE n == Cardinality(S)
           D == 1..n
<1>1. n \in Nat /\ IsFiniteSet(D) /\ Cardinality(D) = n
  BY FS_CardinalityType, FS_Interval
<1>2. s \in [D -> S] /\ \A i, j \in D : i # j => s[i] # s[j]
  BY DEF SetToSeqs
<1> HIDE DEF n
<1>3. s \in Seq(S) /\ Len(s) = n /\ DOMAIN s = D
  <2>1. s \in Seq(S)
    BY <1>1, <1>2
  <2> QED BY <1>1, <1>2, <2>1
<1> HIDE DEF D
<1>4. s \in Injection(D, S)
  BY <1>2 DEF Injection, IsInjective
<1>5. s \in Surjection(D, S)
  BY <1>1, <1>4, FS_Injection DEF n
<1>6. ToSet(s) = S
  BY <1>2, <1>3, <1>5 DEF Surjection, ToSet
<1> QED BY <1>2, <1>3, <1>6 DEF Distinct, n

\* One turn of the loop over the tried entries.
ReadOne(vTried, i, was) ==
  LET a == vTried[i]
      k == GetTriedBucket[a]
  IN IF Len(was.vvTried[k]) < ADDRMAN_TRIED_BUCKET_SIZE
     THEN [vRandom |-> Append(was.vRandom, a), nTried |-> was.nTried,
           vvTried |-> [was.vvTried EXCEPT ![k] = Append(@, a)]]
     ELSE [vRandom |-> was.vRandom, nTried |-> was.nTried - 1, vvTried |-> was.vvTried]

ReadTables == [vRandom : Seq(Addr), nTried : Int, vvTried : [TriedBucket -> Seq(Addr)]]

\* The first i tried entries stand in vRandom and in their buckets: none is lost.
ReadSoFar(m, vNew, vTried, i, v) ==
  /\ v.nTried = m.nTried /\ Len(v.vRandom) = Len(vNew) + i
  /\ \A p \in 1..Len(vNew) : v.vRandom[p] = vNew[p]
  /\ \A j \in 1..i : v.vRandom[Len(vNew) + j] = vTried[j]
  /\ \A k \in TriedBucket :
       /\ Distinct(v.vvTried[k]) /\ Len(v.vvTried[k]) <= ADDRMAN_TRIED_BUCKET_SIZE
       /\ \A x \in Addr : x \in ToSet(v.vvTried[k])
            <=> GetTriedBucket[x] = k /\ \E j \in 1..i : vTried[j] = x

LEMMA ReadOneType ==
  ASSUME NEW vTried \in Seq(Addr), NEW i \in 1..Len(vTried), NEW was \in ReadTables
  PROVE  ReadOne(vTried, i, was) \in ReadTables
<1> DEFINE a == vTried[i]
           k == GetTriedBucket[a]
<1>1. a \in Addr /\ k \in TriedBucket
  BY AddrManAssumption
<1>2. /\ was.vRandom \in Seq(Addr) /\ was.nTried \in Int
      /\ was.vvTried \in [TriedBucket -> Seq(Addr)] /\ was.vvTried[k] \in Seq(Addr)
  BY <1>1 DEF ReadTables
<1>3. ReadOne(vTried, i, was) =
        IF Len(was.vvTried[k]) < ADDRMAN_TRIED_BUCKET_SIZE
        THEN [vRandom |-> Append(was.vRandom, a), nTried |-> was.nTried,
              vvTried |-> [was.vvTried EXCEPT ![k] = Append(was.vvTried[k], a)]]
        ELSE [vRandom |-> was.vRandom, nTried |-> was.nTried - 1, vvTried |-> was.vvTried]
  BY DEF ReadOne
<1> HIDE DEF a, k
<1>4. Append(was.vRandom, a) \in Seq(Addr) /\ Append(was.vvTried[k], a) \in Seq(Addr)
  BY <1>1, <1>2
<1>5. [was.vvTried EXCEPT ![k] = Append(was.vvTried[k], a)] \in [TriedBucket -> Seq(Addr)]
  BY <1>1, <1>2, <1>4
<1>6. was.nTried - 1 \in Int
  BY <1>2
<1> QED BY <1>2, <1>3, <1>4, <1>5, <1>6 DEF ReadTables

LEMMA ReadOneKeeps ==
  ASSUME NEW m, Book(m), NEW vNew \in Seq(Addr), NEW vTried \in Seq(Addr),
         Distinct(vTried), ToSet(vTried) = TriedEntries(m), NEW i \in 1..Len(vTried),
         NEW was \in ReadTables, ReadSoFar(m, vNew, vTried, i - 1, was)
  PROVE  ReadSoFar(m, vNew, vTried, i, ReadOne(vTried, i, was))
<1> DEFINE a == vTried[i]
           k == GetTriedBucket[a]
           s == was.vvTried[k]
           r == ReadOne(vTried, i, was)
           n == Len(vNew)
<1>1. /\ a \in Addr /\ k \in TriedBucket /\ a \in TriedEntries(m) /\ n \in Nat /\ i \in Nat \ {0}
      /\ DOMAIN vTried = 1..Len(vTried) /\ Len(vTried) \in Nat
      /\ ADDRMAN_TRIED_BUCKET_SIZE \in Nat
  <2>1. DOMAIN vTried = 1..Len(vTried) /\ Len(vTried) \in Nat
    OBVIOUS
  <2>2. a \in Addr /\ a \in ToSet(vTried)
    BY <2>1 DEF ToSet
  <2> QED BY <2>1, <2>2, AddrManAssumption
<1>2. /\ was.vRandom \in Seq(Addr) /\ was.nTried \in Int
      /\ was.vvTried \in [TriedBucket -> Seq(Addr)] /\ s \in Seq(Addr) /\ Len(s) \in Nat
  BY <1>1 DEF ReadTables
<1>a. r = IF Len(s) < ADDRMAN_TRIED_BUCKET_SIZE
          THEN [vRandom |-> Append(was.vRandom, a), nTried |-> was.nTried,
                vvTried |-> [was.vvTried EXCEPT ![k] = Append(s, a)]]
          ELSE [vRandom |-> was.vRandom, nTried |-> was.nTried - 1, vvTried |-> was.vvTried]
  BY DEF ReadOne
<1>b. \A x \in ToSet(s) : x \in Addr
  BY <1>2 DEF ToSet
<1> HIDE DEF s, r
<1>3. /\ was.nTried = m.nTried /\ Len(was.vRandom) = n + (i - 1)
      /\ \A p \in 1..n : was.vRandom[p] = vNew[p]
      /\ \A j \in 1..i - 1 : was.vRandom[n + j] = vTried[j]
  BY DEF ReadSoFar
<1>4. \A q \in TriedBucket :
       /\ Distinct(was.vvTried[q]) /\ Len(was.vvTried[q]) <= ADDRMAN_TRIED_BUCKET_SIZE
       /\ \A x \in Addr : x \in ToSet(was.vvTried[q])
            <=> GetTriedBucket[x] = q /\ \E j \in 1..i - 1 : vTried[j] = x
  BY DEF ReadSoFar
<1>5. \A j \in 1..i - 1 : j \in 1..Len(vTried) /\ vTried[j] # a /\ vTried[j] \in Addr
  <2> SUFFICES ASSUME NEW j \in 1..i - 1 PROVE j \in 1..Len(vTried) /\ vTried[j] # a /\ vTried[j] \in Addr
    OBVIOUS
  <2>1. j \in 1..Len(vTried) /\ j # i
    BY <1>1
  <2>2. vTried[j] # a
    BY <1>1, <2>1 DEF Distinct
  <2> QED BY <2>1, <2>2
<1>6. a \notin ToSet(s) /\ Distinct(s)
  BY <1>1, <1>4, <1>5 DEF s
<1>7. Len(s) < ADDRMAN_TRIED_BUCKET_SIZE
  <2> DEFINE all == m.vvTried[k]
  <2>1. /\ Distinct(all) /\ Len(all) <= ADDRMAN_TRIED_BUCKET_SIZE /\ all \in Seq(Addr)
        /\ ToSet(all) = {x \in Addr : m.fInTried[x] /\ GetTriedBucket[x] = k}
    BY <1>1 DEF Book, Tables, TriedOK, Sizes, Typed
  <2>2. Len(all) \in Nat
    BY <2>1
  <2> HIDE DEF all
  <2>3. ToSet(s) \subseteq ToSet(all) \ {a}
    <3> SUFFICES ASSUME NEW x \in ToSet(s) PROVE x \in ToSet(all) /\ x # a
      OBVIOUS
    <3>1. x \in Addr
      BY <1>b
    <3>2. PICK j \in 1..i - 1 : vTried[j] = x /\ GetTriedBucket[x] = k
      BY <1>1, <1>4, <3>1 DEF s
    <3>3. x \in ToSet(vTried)
      BY <1>1, <1>5, <3>2 DEF ToSet
    <3>4. m.fInTried[x]
      BY <3>3 DEF TriedEntries
    <3> QED BY <1>6, <2>1, <3>1, <3>2, <3>4
  <2>4. a \in ToSet(all)
    BY <1>1, <2>1 DEF TriedEntries
  <2>5. IsFiniteSet(ToSet(all)) /\ Cardinality(ToSet(all)) = Len(all)
    BY <2>1, DistinctLen
  <2>6. IsFiniteSet(ToSet(all) \ {a}) /\ Cardinality(ToSet(all) \ {a}) = Len(all) - 1
    BY <2>4, <2>5, FS_RemoveElement
  <2>7. Cardinality(ToSet(s)) <= Len(all) - 1
    BY <2>3, <2>6, FS_Subset
  <2>8. Cardinality(ToSet(s)) = Len(s)
    BY <1>2, <1>6, DistinctLen
  <2> QED BY <1>1, <1>2, <2>1, <2>2, <2>7, <2>8
<1>8. /\ r.vRandom = Append(was.vRandom, a) /\ r.nTried = was.nTried
      /\ r.vvTried = [was.vvTried EXCEPT ![k] = Append(s, a)]
  BY <1>7, <1>a
<1> HIDE DEF k, a, n
<1>9. /\ Len(r.vRandom) = n + i
      /\ \A p \in 1..n : r.vRandom[p] = vNew[p]
      /\ \A j \in 1..i : r.vRandom[n + j] = vTried[j]
  <2> DEFINE u == was.vRandom
             N == n + (i - 1)
  <2>1. /\ u \in Seq(Addr) /\ Len(u) = N /\ N \in Nat
    BY <1>1, <1>2, <1>3
  <2> HIDE DEF u
  <2>2. /\ Len(Append(u, a)) = Len(u) + 1 /\ \A p \in 1..Len(u) : Append(u, a)[p] = u[p]
        /\ Append(u, a)[Len(u) + 1] = a
    BY <1>1, <2>1
  <2>3. N + 1 = n + i
    BY <1>1
  <2>4. \A p \in 1..n : p \in 1..N
    BY <1>1
  <2>5. \A j \in 1..i : j = i \/ (j \in 1..i - 1 /\ n + j \in 1..N)
    BY <1>1
  <2> HIDE DEF N
  <2>6. r.vRandom = Append(u, a)
    BY <1>8 DEF u
  <2>7. ASSUME NEW j \in 1..i PROVE r.vRandom[n + j] = vTried[j]
    <3>1. CASE j = i
      BY <2>1, <2>2, <2>3, <2>6, <3>1 DEF a
    <3>2. CASE j \in 1..i - 1 /\ n + j \in 1..N
      BY <1>3, <2>1, <2>2, <2>6, <3>2 DEF u
    <3> QED BY <2>5, <3>1, <3>2
  <2>8. \A p \in 1..n : r.vRandom[p] = vNew[p]
    BY <1>3, <2>1, <2>2, <2>4, <2>6 DEF u
  <2> QED BY <2>1, <2>2, <2>3, <2>6, <2>7, <2>8
<1>10. ASSUME NEW q \in TriedBucket
       PROVE  /\ Distinct(r.vvTried[q]) /\ Len(r.vvTried[q]) <= ADDRMAN_TRIED_BUCKET_SIZE
              /\ \A x \in Addr : x \in ToSet(r.vvTried[q])
                   <=> GetTriedBucket[x] = q /\ \E j \in 1..i : vTried[j] = x
  <2>0. /\ \A j \in 1..i : j = i \/ j \in 1..i - 1
        /\ i \in 1..i /\ \A j \in 1..i - 1 : j \in 1..i
    BY <1>1
  <2>1. CASE q = k
    <3>1. r.vvTried[q] = Append(s, a)
      BY <1>1, <1>2, <1>8, <2>1
    <3>2. /\ Distinct(Append(s, a)) /\ Len(Append(s, a)) = Len(s) + 1
          /\ ToSet(Append(s, a)) = ToSet(s) \cup {a}
      BY <1>1, <1>2, <1>6, AppendFresh
    <3>3. Len(Append(s, a)) <= ADDRMAN_TRIED_BUCKET_SIZE
      BY <1>1, <1>2, <1>7, <3>2
    <3>4. ASSUME NEW x \in Addr
          PROVE  x \in ToSet(s) \cup {a} <=> GetTriedBucket[x] = q /\ \E j \in 1..i : vTried[j] = x
      <4>1. x \in ToSet(s) <=> GetTriedBucket[x] = q /\ \E j \in 1..i - 1 : vTried[j] = x
        BY <1>4, <2>1 DEF s
      <4>2. GetTriedBucket[a] = q /\ vTried[i] = a
        BY <2>1 DEF k, a
      <4> QED BY <2>0, <4>1, <4>2
    <3> QED BY <3>1, <3>2, <3>3, <3>4
  <2>2. CASE q # k
    <3>1. r.vvTried[q] = was.vvTried[q]
      BY <1>1, <1>2, <1>8, <2>2
    <3>2. ASSUME NEW x \in Addr
          PROVE  x \in ToSet(was.vvTried[q]) <=> GetTriedBucket[x] = q /\ \E j \in 1..i : vTried[j] = x
      <4>1. x \in ToSet(was.vvTried[q]) <=> GetTriedBucket[x] = q /\ \E j \in 1..i - 1 : vTried[j] = x
        BY <1>4
      <4>2. vTried[i] = x => GetTriedBucket[x] # q
        BY <2>2 DEF k, a
      <4> QED BY <2>0, <4>1, <4>2
    <3> QED BY <1>4, <3>1, <3>2
  <2> QED BY <2>1, <2>2
<1>11. r.nTried = m.nTried
  BY <1>3, <1>8
<1> QED BY <1>9, <1>10, <1>11 DEF ReadSoFar, n, r

\* The whole loop.
LEMMA ReadTriedKeeps ==
  ASSUME NEW m, Book(m), NEW vNew \in Seq(Addr), NEW vTried \in Seq(Addr),
         Distinct(vTried), ToSet(vTried) = TriedEntries(m)
  PROVE  LET v == ReadTried(m, vNew, vTried)
         IN v \in ReadTables /\ ReadSoFar(m, vNew, vTried, Len(vTried), v)
<1> DEFINE n == Len(vTried)
           V == ReadTables
           first == [vRandom |-> vNew, nTried |-> m.nTried,
                     vvTried |-> [k \in TriedBucket |-> << >>]]
           Rule(f) == f = [i \in 0..n |->
               IF i = 0 THEN [vRandom |-> vNew, nTried |-> m.nTried,
                              vvTried |-> [k \in TriedBucket |-> << >>]]
               ELSE LET was == f[i - 1]
                        a   == vTried[i]
                        k   == GetTriedBucket[a]
                    IN IF Len(was.vvTried[k]) < ADDRMAN_TRIED_BUCKET_SIZE
                       THEN [vRandom |-> Append(was.vRandom, a), nTried |-> was.nTried,
                             vvTried |-> [was.vvTried EXCEPT ![k] = Append(@, a)]]
                       ELSE [vRandom |-> was.vRandom, nTried |-> was.nTried - 1,
                             vvTried |-> was.vvTried]]
           read == CHOOSE f : Rule(f)
           step == [p \in (1..n) \X V |-> ReadOne(vTried, p[1], p[2])]
           J == {p \in (0..n) \X V : ReadSoFar(m, vNew, vTried, p[1], p[2])}
<1>1. n \in Nat
  OBVIOUS
<1>2. ReadTried(m, vNew, vTried) = read[n]
  BY DEF ReadTried
<1>3. first \in V /\ 0 \in 0..n
  <2>1. m.nTried \in Int
    BY DEF Book, Typed
  <2>2. [k \in TriedBucket |-> << >>] \in [TriedBucket -> Seq(Addr)]
    BY EmptySeq
  <2> QED BY <1>1, <2>1, <2>2 DEF ReadTables
<1>4. ReadSoFar(m, vNew, vTried, 0, first)
  <2>1. first.nTried = m.nTried /\ first.vRandom = vNew /\ first.vvTried = [k \in TriedBucket |-> << >>]
    OBVIOUS
  <2> HIDE DEF first
  <2>2. Len(vNew) \in Nat /\ 1..0 = {}
    OBVIOUS
  <2>3. ASSUME NEW k \in TriedBucket
        PROVE  /\ Distinct(first.vvTried[k]) /\ Len(first.vvTried[k]) <= ADDRMAN_TRIED_BUCKET_SIZE
               /\ ToSet(first.vvTried[k]) = {}
    <3>1. first.vvTried[k] = << >>
      BY <2>1
    <3>2. Len(<< >>) = 0 /\ DOMAIN << >> = {}
      OBVIOUS
    <3>3. Distinct(<< >>) /\ ToSet(<< >>) = {}
      BY <3>2 DEF Distinct, ToSet
    <3>4. 0 <= ADDRMAN_TRIED_BUCKET_SIZE
      BY AddrManAssumption
    <3> QED BY <3>1, <3>2, <3>3, <3>4
  <2> QED BY <2>1, <2>2, <2>3 DEF ReadSoFar
<1> HIDE DEF n, V, first
<1>5. step \in [(1..n) \X V -> V] /\ \A i \in 1..n : \A was \in V : step[<<i, was>>] = ReadOne(vTried, i, was)
  <2>1. \A i \in 1..n : \A was \in V : ReadOne(vTried, i, was) \in V
    BY ReadOneType DEF n, V
  <2> QED BY <2>1
<1> HIDE DEF step
<1>6. PICK f : LoopOf(f, n, V, first, step)
  BY <1>1, <1>3, <1>5, LoopExists
<1>7. Rule(f)
  <2>1. f \in [0..n -> V] /\ f[0] = first
    BY <1>6 DEF LoopOf
  <2>2. \A i \in 0..n : i # 0 => i \in 1..n
    BY <1>1
  <2>3. \A i \in 1..n : f[i] = ReadOne(vTried, i, f[i - 1])
    <3>1. TAKE i \in 1..n
    <3>2. i - 1 \in 0..n
      BY <1>1
    <3>3. f[i - 1] \in V
      BY <2>1, <3>2
    <3>4. f[i] = step[<<i, f[i - 1]>>]
      BY <1>6 DEF LoopOf
    <3>5. \A v \in V : step[<<i, v>>] = ReadOne(vTried, i, v)
      BY <1>5
    <3> QED BY <3>3, <3>4, <3>5
  <2>4. f = [i \in 0..n |-> IF i = 0 THEN first ELSE ReadOne(vTried, i, f[i - 1])]
    BY <2>1, <2>2, <2>3
  <2> QED BY <2>4 DEF ReadOne, first
<1>8. Rule(read)
  <2> HIDE DEF Rule
  <2> QED BY <1>7
<1> HIDE DEF read
<1>9. read[0] = first /\ \A i \in 1..n : read[i] = ReadOne(vTried, i, read[i - 1])
  <2>1. 0 \in 0..n /\ \A i \in 1..n : i \in 0..n /\ i # 0
    BY <1>1
  <2> QED BY <1>8, <2>1 DEF ReadOne, first
<1>10. Follows(read, n, V, first, step)
  BY <1>5, <1>9 DEF Follows
<1>11. KeptBy(J, n, V, first, step)
  <2>1. <<0, first>> \in J
    BY <1>3, <1>4
  <2>2. ASSUME NEW i \in 1..n, NEW v \in V, <<i - 1, v>> \in J PROVE <<i, step[<<i, v>>]>> \in J
    <3>1. step[<<i, v>>] = ReadOne(vTried, i, v) /\ step[<<i, v>>] \in V /\ i \in 0..n
      BY <1>1, <1>5
    <3>2. ReadSoFar(m, vNew, vTried, i - 1, v)
      BY <2>2
    <3>3. ReadSoFar(m, vNew, vTried, i, ReadOne(vTried, i, v))
      BY <3>2, ReadOneKeeps DEF n, V
    <3> QED BY <3>1, <3>3
  <2> HIDE DEF J
  <2> QED BY <2>1, <2>2 DEF KeptBy
<1>12. read[n] \in V /\ <<n, read[n]>> \in J
  <2> HIDE DEF J
  <2> QED BY <1>1, <1>3, <1>5, <1>10, <1>11, LoopKeeps
<1> QED BY <1>2, <1>12 DEF n, V

\* What is read back is what was written, in another order.
LEMMA ReloadStep ==
  ASSUME Book(am), Reload
  PROVE  Book(am') /\ Stay(am, am')
<1>1. PICK vNew \in SetToSeqs(NewEntries(am)), vTried \in SetToSeqs(TriedEntries(am)) :
         am' = Load(am, vNew, vTried)
  BY DEF Reload
<1> DEFINE New == NewEntries(am)
           Tried == TriedEntries(am)
           read == ReadTried(am, vNew, vTried)
           order == read.vRandom
           kept == ToSet(order)
           r == Load(am, vNew, vTried)
<1>2. /\ am.mapAddr \subseteq Addr /\ am.fInTried \in [Addr -> BOOLEAN]
      /\ am.nRefCount \in [Addr -> Nat] /\ am.vvNew \in [NewBucket -> SUBSET Addr]
  BY DEF Book, Typed
<1>3. /\ New \in SUBSET Addr /\ Tried \in SUBSET Addr /\ New \cup Tried = am.mapAddr
      /\ New \cap Tried = {} /\ \A x \in Addr : am.fInTried[x] <=> x \in Tried
  <2>1. \A x \in Addr : (x \notin am.mapAddr => ~am.fInTried[x])
                        /\ (x \in am.mapAddr => (am.fInTried[x] <=> am.nRefCount[x] = 0))
    BY DEF Book, Refs, RefOK
  <2> QED BY <1>2, <2>1 DEF NewEntries, TriedEntries
<1>4. /\ vNew \in Seq(Addr) /\ Len(vNew) = Cardinality(New) /\ Distinct(vNew) /\ ToSet(vNew) = New
      /\ vTried \in Seq(Addr) /\ Len(vTried) = Cardinality(Tried) /\ Distinct(vTried)
      /\ ToSet(vTried) = Tried
  <2>1. IsFiniteSet(New) /\ IsFiniteSet(Tried)
    BY <1>3, Finite
  <2>2. vNew \in Seq(New) /\ Len(vNew) = Cardinality(New) /\ Distinct(vNew) /\ ToSet(vNew) = New
    BY <2>1, SetToSeqsOK
  <2>3. vTried \in Seq(Tried) /\ Len(vTried) = Cardinality(Tried) /\ Distinct(vTried)
        /\ ToSet(vTried) = Tried
    BY <2>1, SetToSeqsOK
  <2>4. vNew \in Seq(Addr) /\ vTried \in Seq(Addr)
    BY <1>3, <2>2, <2>3, SeqMonotonic
  <2> QED BY <2>2, <2>3, <2>4
<1>5. read \in ReadTables /\ ReadSoFar(am, vNew, vTried, Len(vTried), read)
  <2>1. LET v == ReadTried(am, vNew, vTried)
        IN v \in ReadTables /\ ReadSoFar(am, vNew, vTried, Len(vTried), v)
    BY <1>4, ReadTriedKeeps
  <2> QED BY <2>1
<1>6. r = [am EXCEPT !.mapAddr    = kept,
                     !.nRandomPos = [a \in Addr |-> IF a \in kept
                                        THEN CHOOSE i \in DOMAIN order : order[i] = a ELSE 0],
                     !.vRandom    = order,
                     !.fInTried   = [a \in Addr |-> \E k \in TriedBucket : a \in ToSet(read.vvTried[k])],
                     !.nRefCount  = [a \in Addr |-> Cardinality({b \in NewBucket : a \in am.vvNew[b]})],
                     !.vvTried    = read.vvTried,
                     !.nTried     = read.nTried]
  BY DEF Load
<1> HIDE DEF New, Tried, read, r
<1>7. /\ IsRecord(r) /\ r.mapAddr = kept /\ r.source = am.source
      /\ r.nRandomPos = [a \in Addr |-> IF a \in kept
                           THEN CHOOSE i \in DOMAIN order : order[i] = a ELSE 0]
      /\ r.vRandom = order /\ r.nLastSuccess = am.nLastSuccess
      /\ r.fInTried = [a \in Addr |-> \E k \in TriedBucket : a \in ToSet(read.vvTried[k])]
      /\ r.nRefCount = [a \in Addr |-> Cardinality({b \in NewBucket : a \in am.vvNew[b]})]
      /\ r.vvNew = am.vvNew /\ r.vvTried = read.vvTried
      /\ r.nNew = am.nNew /\ r.nTried = read.nTried
  BY <1>6 DEF Book, IsRecord, Fields
<1> DEFINE n == Len(vNew)
           N == Len(vTried)
<1>8. /\ order \in Seq(Addr) /\ read.vvTried \in [TriedBucket -> Seq(Addr)]
      /\ Len(order) = n + N /\ DOMAIN order = 1..n + N /\ n \in Nat /\ N \in Nat
      /\ DOMAIN vNew = 1..n /\ DOMAIN vTried = 1..N
  BY <1>4, <1>5 DEF ReadTables, ReadSoFar
<1>9. /\ read.nTried = am.nTried
      /\ \A p \in 1..n : order[p] = vNew[p]
      /\ \A j \in 1..N : order[n + j] = vTried[j]
      /\ \A k \in TriedBucket :
           /\ Distinct(read.vvTried[k]) /\ Len(read.vvTried[k]) <= ADDRMAN_TRIED_BUCKET_SIZE
           /\ \A x \in Addr : x \in ToSet(read.vvTried[k])
                <=> GetTriedBucket[x] = k /\ \E j \in 1..N : vTried[j] = x
  BY <1>5 DEF ReadSoFar
<1> HIDE DEF n, N, order
<1>10. /\ \A i \in 1..n + N : (i \in 1..n /\ order[i] = vNew[i])
                              \/ (i - n \in 1..N /\ order[i] = vTried[i - n])
       /\ \A i \in 1..n : i \in 1..n + N
       /\ \A j \in 1..N : n + j \in 1..n + N
  <2>0. n \in Nat /\ N \in Nat
    BY <1>8
  <2>1. /\ \A i \in 1..n + N : i \in 1..n \/ (i - n \in 1..N /\ n + (i - n) = i)
        /\ \A i \in 1..n : i \in 1..n + N
        /\ \A j \in 1..N : n + j \in 1..n + N
    BY <2>0
  <2>2. ASSUME NEW i \in 1..n + N
        PROVE  (i \in 1..n /\ order[i] = vNew[i]) \/ (i - n \in 1..N /\ order[i] = vTried[i - n])
    <3>1. CASE i \in 1..n
      BY <1>9, <3>1
    <3>2. CASE i - n \in 1..N /\ n + (i - n) = i
      <4>1. order[n + (i - n)] = vTried[i - n]
        BY <1>9, <3>2
      <4> QED BY <3>2, <4>1
    <3> QED BY <2>1, <3>1, <3>2
  <2> QED BY <2>1, <2>2
<1>11. kept = am.mapAddr
  <2>1. \A i \in 1..n + N : order[i] \in ToSet(vNew) \cup ToSet(vTried)
    <3>1. /\ \A i \in 1..n : vNew[i] \in ToSet(vNew)
          /\ \A i \in 1..N : vTried[i] \in ToSet(vTried)
      BY <1>8 DEF ToSet
    <3> QED BY <1>10, <3>1
  <2>2. /\ \A i \in 1..n : vNew[i] \in kept
        /\ \A j \in 1..N : vTried[j] \in kept
    <3>1. \A i \in 1..n + N : order[i] \in kept
      BY <1>8 DEF ToSet
    <3> QED BY <1>9, <1>10, <3>1
  <2>3. /\ kept = {order[i] : i \in 1..n + N}
        /\ ToSet(vNew) = {vNew[i] : i \in 1..n} /\ ToSet(vTried) = {vTried[i] : i \in 1..N}
    BY <1>8 DEF ToSet
  <2>4. kept = ToSet(vNew) \cup ToSet(vTried)
    BY <2>1, <2>2, <2>3
  <2> QED BY <1>3, <1>4, <2>4
<1>12. Distinct(order)
  <2> SUFFICES ASSUME NEW i \in 1..n + N, NEW j \in 1..n + N, order[i] = order[j] PROVE i = j
    BY <1>8 DEF Distinct
  <2>0. /\ \A p \in 1..n : vNew[p] \in New
        /\ \A p \in 1..N : vTried[p] \in Tried
    BY <1>4, <1>8 DEF ToSet
  <2>1. CASE i \in 1..n /\ order[i] = vNew[i] /\ j \in 1..n /\ order[j] = vNew[j]
    BY <1>4, <1>8, <2>1 DEF Distinct
  <2>2. CASE i - n \in 1..N /\ order[i] = vTried[i - n] /\ j - n \in 1..N /\ order[j] = vTried[j - n]
    <3>1. i - n = j - n
      BY <1>4, <1>8, <2>2 DEF Distinct
    <3> QED BY <1>8, <3>1
  <2>3. CASE i \in 1..n /\ order[i] = vNew[i] /\ j - n \in 1..N /\ order[j] = vTried[j - n]
    BY <1>3, <2>0, <2>3
  <2>4. CASE i - n \in 1..N /\ order[i] = vTried[i - n] /\ j \in 1..n /\ order[j] = vNew[j]
    BY <1>3, <2>0, <2>4
  <2> QED BY <1>10, <2>1, <2>2, <2>3, <2>4
<1>13. \A a \in kept : /\ r.nRandomPos[a] \in 1..n + N /\ order[r.nRandomPos[a]] = a
  <2> SUFFICES ASSUME NEW a \in kept PROVE r.nRandomPos[a] \in 1..n + N /\ order[r.nRandomPos[a]] = a
    OBVIOUS
  <2>1. a \in Addr /\ \E i \in 1..n + N : order[i] = a
    BY <1>2, <1>8, <1>11 DEF ToSet
  <2>2. r.nRandomPos[a] = CHOOSE i \in 1..n + N : order[i] = a
    BY <1>7, <1>8, <2>1
  <2> QED BY <2>1, <2>2
<1>14. Order(r)
  <2>1. ASSUME NEW i \in 1..n + N PROVE order[i] \in kept /\ r.nRandomPos[order[i]] = i
    <3>1. order[i] \in kept
      BY <1>8 DEF ToSet
    <3>2. r.nRandomPos[order[i]] \in 1..n + N /\ order[r.nRandomPos[order[i]]] = order[i]
      BY <1>13, <3>1
    <3>3. \A x, y \in 1..n + N : order[x] = order[y] => x = y
      BY <1>8, <1>12 DEF Distinct
    <3>4. r.nRandomPos[order[i]] = i
      BY <3>2, <3>3
    <3> QED BY <3>1, <3>4
  <2>2. r.vRandom = order /\ r.mapAddr = kept /\ DOMAIN order = 1..n + N
    BY <1>7, <1>8
  <2> HIDE DEF kept
  <2> QED BY <1>13, <2>1, <2>2 DEF Order
<1>15. r.nRefCount = am.nRefCount
  <2>1. \A x \in Addr : Cardinality({b \in NewBucket : x \in am.vvNew[b]}) = am.nRefCount[x]
    BY DEF Book, Refs, RefOK, In
  <2> QED BY <1>2, <1>7, <2>1
<1>16. \A x \in Addr : x \in Tried <=> \E j \in 1..N : vTried[j] = x
  BY <1>4, <1>8 DEF ToSet
<1>17. r.fInTried = am.fInTried
  <2>1. ASSUME NEW x \in Addr
        PROVE  (\E k \in TriedBucket : x \in ToSet(read.vvTried[k])) = am.fInTried[x]
    <3>1. GetTriedBucket[x] \in TriedBucket
      BY AddrManAssumption
    <3>2. (\E k \in TriedBucket : x \in ToSet(read.vvTried[k])) <=> am.fInTried[x]
      BY <1>3, <1>9, <1>16, <3>1
    <3> QED BY <1>2, <3>2
  <2> QED BY <1>2, <1>7, <2>1
<1>18. Typed(r) /\ Sourced(r)
  <2>1. r.nRandomPos \in [Addr -> Nat]
    <3>1. \A x \in Addr : r.nRandomPos[x] \in Nat
      <4>1. \A x \in Addr : x \notin kept => r.nRandomPos[x] = 0
        BY <1>7
      <4>2. \A i \in 1..n + N : i \in Nat
        BY <1>8
      <4> QED BY <1>13, <4>1, <4>2
    <3> QED BY <1>7, <3>1
  <2> QED BY <1>2, <1>7, <1>8, <1>9, <1>11, <1>15, <1>17, <2>1 DEF Book, Typed, Sourced
<1>19. Counts(r)
  <2>1. NewEntries(r) = New /\ TriedEntries(r) = Tried
    BY <1>7, <1>11, <1>15, <1>17 DEF New, Tried, NewEntries, TriedEntries
  <2>2. am.nNew = Cardinality(New) /\ am.nTried = Cardinality(Tried)
    BY DEF Book, Counts, New, Tried
  <2>3. Len(order) = am.nNew + am.nTried
    BY <1>4, <1>8, <2>2 DEF n, N
  <2> QED BY <1>7, <1>9, <2>1, <2>2, <2>3 DEF Counts
<1>20. Refs(r)
  BY <1>7, <1>11, <1>15, <1>17 DEF Book, Refs, RefOK, In
<1>21. Tables(r) /\ Sizes(r)
  <2>1. ASSUME NEW k \in TriedBucket
        PROVE  ToSet(r.vvTried[k]) = {x \in Addr : r.fInTried[x] /\ GetTriedBucket[x] = k}
    <3>1. ToSet(read.vvTried[k]) \subseteq Addr
      BY <1>8 DEF ToSet
    <3>2. \A x \in Addr : x \in ToSet(read.vvTried[k]) <=> GetTriedBucket[x] = k /\ x \in Tried
      BY <1>9, <1>16
    <3>3. \A x \in Addr : x \in Tried <=> r.fInTried[x]
      BY <1>3, <1>17
    <3>4. r.vvTried[k] = read.vvTried[k]
      BY <1>7
    <3> QED BY <3>1, <3>2, <3>3, <3>4
  <2> QED BY <1>7, <1>9, <2>1 DEF Book, Tables, TriedOK, Sizes
<1>22. Book(r)
  BY <1>7, <1>14, <1>18, <1>19, <1>20, <1>21 DEF Book
<1>23. Stay(am, r)
  BY <1>7, <1>11, TriedAreKnown DEF Stay
<1> QED BY <1>1, <1>22, <1>23 DEF r

-----------------------------------------------------------------------------
(* The theorems                                                            *)

LEMMA InitBook ==
  ASSUME AddrManInit
  PROVE  Book(am)
<1>1. /\ IsRecord(am)
      /\ am.mapAddr = {} /\ am.source = [a \in Addr |-> NoSource]
      /\ am.nRefCount = [a \in Addr |-> 0] /\ am.fInTried = [a \in Addr |-> FALSE]
      /\ am.nRandomPos = [a \in Addr |-> 0] /\ am.nLastSuccess = [a \in Addr |-> 0]
      /\ am.vRandom = << >> /\ am.vvNew = [b \in NewBucket |-> {}]
      /\ am.vvTried = [k \in TriedBucket |-> << >>] /\ am.nNew = 0 /\ am.nTried = 0
  BY DEF AddrManInit, IsRecord, Fields
<1>2. /\ 0 \in 0..MaxTime /\ 0 <= ADDRMAN_NEW_BUCKET_SIZE /\ 0 <= ADDRMAN_TRIED_BUCKET_SIZE
      /\ 0 <= ADDRMAN_NEW_BUCKETS_PER_ADDRESS
  BY AddrManAssumption
<1>3. << >> \in Seq(Addr) /\ Len(<< >>) = 0 /\ DOMAIN << >> = {} /\ Distinct(<< >>) /\ ToSet(<< >>) = {}
  <2>1. << >> \in Seq(Addr) /\ Len(<< >>) = 0 /\ DOMAIN << >> = {}
    BY EmptySeq
  <2> QED BY <2>1 DEF Distinct, ToSet
<1>4. Typed(am)
  BY <1>1, <1>2, <1>3 DEF Typed
<1>5. Sourced(am) /\ Order(am)
  BY <1>1, <1>3 DEF Sourced, Order
<1>6. \A x \in Addr : RefOK(am, x)
  <2> SUFFICES ASSUME NEW x \in Addr PROVE RefOK(am, x)
    OBVIOUS
  <2>1. In(am, x) = {}
    BY <1>1 DEF In
  <2>2. Cardinality(In(am, x)) = 0
    BY <2>1, FS_EmptySet
  <2> QED BY <1>1, <1>2, <2>2 DEF RefOK
<1>7. Tables(am)
  BY <1>1, <1>3 DEF Tables, TriedOK
<1>8. Counts(am)
  <2>1. NewEntries(am) = {} /\ TriedEntries(am) = {}
    BY <1>1 DEF NewEntries, TriedEntries
  <2> QED BY <1>1, <1>3, <2>1, FS_EmptySet DEF Counts
<1>9. Sizes(am)
  BY <1>1, <1>2, <1>3, FS_EmptySet DEF Sizes
<1> QED BY <1>1, <1>4, <1>5, <1>6, <1>7, <1>8, <1>9 DEF Book, Refs

LEMMA NextBook ==
  ASSUME Book(am), [AddrManNext]_am
  PROVE  Book(am') /\ Stay(am, am')
<1>1. ASSUME NEW a \in Addr, NEW s \in Source, Add(a, s) PROVE Book(am') /\ Stay(am, am')
  BY <1>1, AddStep
<1>2. ASSUME NEW a \in Addr, NEW nTime \in 1..MaxTime, GoodAgain(a, nTime) PROVE Book(am') /\ Stay(am, am')
  BY <1>2, GoodAgainStep
<1>3. ASSUME NEW a \in Addr, NEW nTime \in 1..MaxTime, MakeTried(a, nTime) PROVE Book(am') /\ Stay(am, am')
  BY <1>3, MakeTriedStep
<1>4. ASSUME NEW i \in 1..Cardinality(Addr), NEW j \in 1..Cardinality(Addr), GetAddr(i, j)
      PROVE  Book(am') /\ Stay(am, am')
  BY <1>4, GetAddrStep
<1>5. CASE Reload
  BY <1>5, ReloadStep
<1>6. CASE UNCHANGED am
  BY <1>6, TriedAreKnown DEF Stay
<1> QED BY <1>1, <1>2, <1>3, <1>4, <1>5, <1>6 DEF AddrManNext

\* Add_, Good_, GetAddr_ and the reading of peers.dat leave the address book
\* as Check_ wants it: every entry found where it says it is, counted as often
\* as it stands, and no bucket over its size.
THEOREM AddressBookAlwaysConsistent ==
  AddrManSpec => []AddressBookConsistent
<1>1. AddrManInit => Book(am)
  BY InitBook
<1>2. Book(am) /\ [AddrManNext]_am => Book(am)'
  BY NextBook
<1>3. Book(am) => AddressBookConsistent
  BY BookIsConsistent
<1> QED BY <1>1, <1>2, <1>3, PTL DEF AddrManSpec

\* An eviction from a full tried bucket, a full new bucket and a restart keep
\* every entry that is in the tried table: it is deleted by none of them.
THEOREM TriedAreNeverDeleted ==
  AddrManSpec => TriedNeverDeleted
<1>1. AddrManInit => Book(am)
  BY InitBook
<1>2. Book(am) /\ [AddrManNext]_am => Book(am)'
  BY NextBook
<1>3. Book(am) /\ [AddrManNext]_am => [\A a \in Addr : am.fInTried[a] => a \in am'.mapAddr]_am
  BY NextBook DEF Stay
<1> QED BY <1>1, <1>2, <1>3, PTL DEF AddrManSpec, TriedNeverDeleted

-----------------------------------------------------------------------------
(* Orphan transactions.                                                    *)

OrphanInv ==
    /\ mapOrphanTransactions \in [Honest -> SUBSET Tx]
    /\ mapOrphanTransactionsByPrev \in [Honest -> [Tx -> SUBSET Tx]]
    /\ \A n \in Honest : IsFiniteSet(mapOrphanTransactions[n])
    /\ OrphanMapsAgree

(* What AddOrphanTx and EraseOrphanTx make of the maps of one node.        *)
LEMMA OrphanMapsOfNode ==
    ASSUME OrphanInv, NEW n \in Honest, NEW S \in SUBSET Tx, NEW L \in [Tx -> SUBSET Tx],
           IsFiniteSet(S), Cardinality(S) <= MAX_ORPHAN_TRANSACTIONS,
           \A p \in Tx : L[p] = {o \in S : p \in Parents[o]},
           mapOrphanTransactions' = [mapOrphanTransactions EXCEPT ![n] = S],
           mapOrphanTransactionsByPrev' = [mapOrphanTransactionsByPrev EXCEPT ![n] = L]
    PROVE  OrphanInv'
<1>1. /\ mapOrphanTransactions' \in [Honest -> SUBSET Tx]
      /\ mapOrphanTransactionsByPrev' \in [Honest -> [Tx -> SUBSET Tx]]
    BY DEF OrphanInv
<1>2. ASSUME NEW m \in Honest
      PROVE  /\ IsFiniteSet(mapOrphanTransactions'[m])
             /\ Cardinality(mapOrphanTransactions'[m]) <= MAX_ORPHAN_TRANSACTIONS
             /\ \A p \in Tx : mapOrphanTransactionsByPrev'[m][p] =
                                {o \in mapOrphanTransactions'[m] : p \in Parents[o]}
    <2>1. CASE m = n
        <3>1. mapOrphanTransactions'[m] = S /\ mapOrphanTransactionsByPrev'[m] = L
            BY <2>1 DEF OrphanInv
        <3> QED
            BY <3>1
    <2>2. CASE m # n
        <3>1. /\ mapOrphanTransactions'[m] = mapOrphanTransactions[m]
              /\ mapOrphanTransactionsByPrev'[m] = mapOrphanTransactionsByPrev[m]
            BY <2>2 DEF OrphanInv
        <3> QED
            BY <3>1 DEF OrphanInv, OrphanMapsAgree
    <2> QED
        BY <2>1, <2>2
<1> QED
    BY <1>1, <1>2 DEF OrphanInv, OrphanMapsAgree

(* LimitOrphanTxSize leaves no more than the limit.                        *)
LEMMA AddOrphanTxKeeps ==
    ASSUME OrphanInv, NEW n \in Honest, NEW t \in Tx, AddOrphanTx(n, t)
    PROVE  OrphanInv'
<1> DEFINE has    == mapOrphanTransactions[n]
           fresh  == t \notin has \cup Large
           full   == IF fresh THEN has \cup {t} ELSE has
           linked == [p \in Tx |-> IF fresh /\ p \in Parents[t]
                                   THEN mapOrphanTransactionsByPrev[n][p] \cup {t}
                                   ELSE mapOrphanTransactionsByPrev[n][p]]
<1>1. /\ has \in SUBSET Tx /\ IsFiniteSet(has)
      /\ mapOrphanTransactionsByPrev[n] \in [Tx -> SUBSET Tx]
      /\ \A p \in Tx : mapOrphanTransactionsByPrev[n][p] = {o \in has : p \in Parents[o]}
    BY DEF OrphanInv, OrphanMapsAgree
<1>2. PICK evicted \in SUBSET full :
         /\ Cardinality(evicted) = IF Cardinality(full) > MAX_ORPHAN_TRANSACTIONS
                                   THEN Cardinality(full) - MAX_ORPHAN_TRANSACTIONS ELSE 0
         /\ mapOrphanTransactions' = [mapOrphanTransactions EXCEPT ![n] = full \ evicted]
         /\ mapOrphanTransactionsByPrev' =
               [mapOrphanTransactionsByPrev EXCEPT ![n] = WithoutOrphans(linked, evicted)]
    BY DEF AddOrphanTx
<1>3. full \in SUBSET Tx /\ IsFiniteSet(full)
    BY <1>1, FS_AddElement
<1>4. linked \in [Tx -> SUBSET Tx] /\ \A p \in Tx : linked[p] = {o \in full : p \in Parents[o]}
    <2> HIDE DEF has
    <2>1. CASE fresh
        BY <1>1, <2>1
    <2>2. CASE ~fresh
        BY <1>1, <2>2
    <2> QED
        BY <2>1, <2>2
<1> HIDE DEF full, linked
<1>5. /\ WithoutOrphans(linked, evicted) \in [Tx -> SUBSET Tx]
      /\ \A p \in Tx : WithoutOrphans(linked, evicted)[p] = {o \in full \ evicted : p \in Parents[o]}
    BY <1>4 DEF WithoutOrphans
<1>6. IsFiniteSet(full \ evicted) /\ Cardinality(full \ evicted) <= MAX_ORPHAN_TRANSACTIONS
    <2>1. full \cap evicted = evicted
        BY <1>2
    <2>2. /\ IsFiniteSet(full \ evicted)
          /\ Cardinality(full \ evicted) = Cardinality(full) - Cardinality(evicted)
        BY <1>3, <2>1, FS_Difference
    <2>3. Cardinality(full) \in Nat /\ MAX_ORPHAN_TRANSACTIONS \in Nat
        BY <1>3, FS_CardinalityType, RelayAssumption
    <2> QED
        BY <1>2, <2>2, <2>3
<1>7. full \ evicted \in SUBSET Tx
    BY <1>3
<1> QED
    BY <1>2, <1>5, <1>6, <1>7, OrphanMapsOfNode

(* EraseOrphanTx for what the tx handler took or refused.                  *)
LEMMA EraseOrphansKeeps ==
    ASSUME OrphanInv, NEW n \in Honest, NEW E,
           mapOrphanTransactions' = [mapOrphanTransactions EXCEPT ![n] = @ \ E],
           mapOrphanTransactionsByPrev' =
              [mapOrphanTransactionsByPrev EXCEPT ![n] = WithoutOrphans(@, E)]
    PROVE  OrphanInv'
<1> DEFINE S == mapOrphanTransactions[n]
           L == mapOrphanTransactionsByPrev[n]
<1>1. /\ S \in SUBSET Tx /\ IsFiniteSet(S) /\ Cardinality(S) <= MAX_ORPHAN_TRANSACTIONS
      /\ L \in [Tx -> SUBSET Tx] /\ \A p \in Tx : L[p] = {o \in S : p \in Parents[o]}
    BY DEF OrphanInv, OrphanMapsAgree
<1>2. /\ mapOrphanTransactions' = [mapOrphanTransactions EXCEPT ![n] = S \ E]
      /\ mapOrphanTransactionsByPrev' =
            [mapOrphanTransactionsByPrev EXCEPT ![n] = WithoutOrphans(L, E)]
    OBVIOUS
<1> HIDE DEF S, L
<1>3. S \ E \in SUBSET Tx /\ IsFiniteSet(S \ E) /\ Cardinality(S \ E) <= MAX_ORPHAN_TRANSACTIONS
    <2>1. S \ E \in SUBSET S
        OBVIOUS
    <2>2. IsFiniteSet(S \ E) /\ Cardinality(S \ E) <= Cardinality(S)
        BY <1>1, <2>1, FS_Subset
    <2>3. Cardinality(S) \in Nat /\ Cardinality(S \ E) \in Nat /\ MAX_ORPHAN_TRANSACTIONS \in Nat
        BY <1>1, <2>2, FS_CardinalityType, RelayAssumption
    <2> QED
        BY <1>1, <2>2, <2>3
<1>4. /\ WithoutOrphans(L, E) \in [Tx -> SUBSET Tx]
      /\ \A p \in Tx : WithoutOrphans(L, E)[p] = {o \in S \ E : p \in Parents[o]}
    BY <1>1 DEF WithoutOrphans
<1> QED
    BY <1>2, <1>3, <1>4, OrphanMapsOfNode

LEMMA ForgetOrphansKeeps ==
    ASSUME OrphanInv, NEW n \in Honest,
           mapOrphanTransactions' = [mapOrphanTransactions EXCEPT ![n] = {}],
           mapOrphanTransactionsByPrev' =
              [mapOrphanTransactionsByPrev EXCEPT ![n] = [t \in Tx |-> {}]]
    PROVE  OrphanInv'
<1> DEFINE S == {}
           L == [t \in Tx |-> {}]
<1>1. S \in SUBSET Tx /\ IsFiniteSet(S) /\ Cardinality(S) <= MAX_ORPHAN_TRANSACTIONS
    BY FS_EmptySet, RelayAssumption
<1>2. L \in [Tx -> SUBSET Tx] /\ \A p \in Tx : L[p] = {o \in S : p \in Parents[o]}
    OBVIOUS
<1>3. /\ mapOrphanTransactions' = [mapOrphanTransactions EXCEPT ![n] = S]
      /\ mapOrphanTransactionsByPrev' = [mapOrphanTransactionsByPrev EXCEPT ![n] = L]
    OBVIOUS
<1> HIDE DEF S, L
<1> QED
    BY <1>1, <1>2, <1>3, OrphanMapsOfNode

-----------------------------------------------------------------------------
(* The pool beside the orphans.                                            *)

PoolInv ==
    /\ mapTx \in [Honest -> SUBSET Tx] /\ txdb \in [Honest -> SUBSET Tx]
    /\ mapWallet \in [Honest -> SUBSET Tx]
    /\ OrphansNotInPool /\ OnlyBlocksStrandOrphans

(* The orphans of one node: what the two properties say of it.             *)
Drained(pool, chain, orphans) ==
    /\ orphans \cap pool = {}
    /\ \A o \in orphans : o \notin pool \cup chain /\ Parents[o] \subseteq pool \cup chain
                             => Parents[o] \cap chain # {}

LEMMA DrainedEverywhere ==
    (OrphansNotInPool /\ OnlyBlocksStrandOrphans)
        <=> \A n \in Honest : Drained(mapTx[n], txdb[n], mapOrphanTransactions[n])
BY DEF OrphansNotInPool, OnlyBlocksStrandOrphans, Drained, HasInputs

(* The work queue is closed: it ends when nothing in it has a dependent    *)
(* that could be taken.                                                    *)
LEMMA WorkQueueClosed ==
    ASSUME OrphanInv, NEW n \in Honest, NEW t \in Tx
    PROVE  WorkQueue(n, t) \subseteq Tx /\ QueueClosed(n, t, WorkQueue(n, t))
<1> DEFINE done == WorkQueue(n, t)
<1>1. done \subseteq Tx /\ t \in done
    BY DEF WorkQueue, QueueClosed
<1>2. ASSUME NEW o \in Dependents(n, done), HasInputs(n, o, done), o \notin Invalid
      PROVE  o \in done
    <2>1. o \in Tx
        BY <1>1 DEF Dependents, OrphanInv
    <2>2. ASSUME NEW S \in SUBSET Tx, QueueClosed(n, t, S)
          PROVE  o \in S
        <3>1. done \subseteq S
            BY <2>2 DEF WorkQueue
        <3>2. o \in Dependents(n, S) /\ HasInputs(n, o, S)
            BY <1>2, <3>1 DEF Dependents, HasInputs
        <3> QED
            BY <1>2, <2>2, <3>2 DEF QueueClosed
    <2> QED
        BY <2>1, <2>2 DEF WorkQueue
<1> QED
    BY <1>1, <1>2 DEF QueueClosed

LEMMA AcceptedDrains ==
    ASSUME OrphanInv, PoolInv, NEW n \in Honest, NEW t \in Tx
    PROVE  Drained(mapTx[n] \cup WorkQueue(n, t), txdb[n], mapOrphanTransactions[n] \ EraseQueue(n, t))
<1> DEFINE done == WorkQueue(n, t)
           orphans == mapOrphanTransactions[n]
<1>1. done \subseteq Tx /\ QueueClosed(n, t, done) /\ done \subseteq EraseQueue(n, t)
    BY WorkQueueClosed DEF EraseQueue
<1>2. Drained(mapTx[n], txdb[n], orphans)
    BY DrainedEverywhere DEF PoolInv
<1> HIDE DEF done
<1>3. (orphans \ EraseQueue(n, t)) \cap (mapTx[n] \cup done) = {}
    BY <1>1, <1>2 DEF Drained
<1>4. ASSUME NEW o \in orphans \ EraseQueue(n, t), o \notin mapTx[n] \cup done \cup txdb[n],
             Parents[o] \subseteq mapTx[n] \cup done \cup txdb[n], Parents[o] \cap txdb[n] = {}
      PROVE  FALSE
    <2>1. PICK p \in Parents[o] : p \in done
        BY <1>2, <1>4 DEF Drained
    <2>2. o \in Dependents(n, done)
        BY <1>1, <2>1 DEF Dependents, OrphanInv, OrphanMapsAgree
    <2>3. HasInputs(n, o, done)
        BY <1>4 DEF HasInputs
    <2>4. o \in EraseQueue(n, t)
        BY <1>1, <2>2, <2>3 DEF QueueClosed, EraseQueue, done
    <2> QED
        BY <1>4, <2>4
<1> QED
    BY <1>3, <1>4 DEF Drained, done

(* A step that leaves the other nodes as they are.                         *)
LEMMA DrainedAfter ==
    ASSUME OrphanInv, PoolInv, NEW n \in Honest, NEW pool \in SUBSET Tx, NEW chain \in SUBSET Tx,
           NEW orphans, Drained(pool, chain, orphans),
           mapTx' = [mapTx EXCEPT ![n] = pool], txdb' = [txdb EXCEPT ![n] = chain],
           mapOrphanTransactions' = [mapOrphanTransactions EXCEPT ![n] = orphans],
           mapWallet' \in [Honest -> SUBSET Tx]
    PROVE  PoolInv'
<1>1. mapTx' \in [Honest -> SUBSET Tx] /\ txdb' \in [Honest -> SUBSET Tx]
    BY DEF PoolInv
<1>2. ASSUME NEW k \in Honest
      PROVE  Drained(mapTx'[k], txdb'[k], mapOrphanTransactions'[k])
    <2>1. CASE k = n
        <3>1. mapTx'[k] = pool /\ txdb'[k] = chain /\ mapOrphanTransactions'[k] = orphans
            BY <2>1 DEF PoolInv, OrphanInv
        <3> QED
            BY <3>1
    <2>2. CASE k # n
        <3>1. /\ mapTx'[k] = mapTx[k] /\ txdb'[k] = txdb[k]
              /\ mapOrphanTransactions'[k] = mapOrphanTransactions[k]
            BY <2>2 DEF PoolInv, OrphanInv
        <3>2. Drained(mapTx[k], txdb[k], mapOrphanTransactions[k])
            BY DrainedEverywhere DEF PoolInv
        <3> QED
            BY <3>1, <3>2
    <2> QED
        BY <2>1, <2>2
<1>3. OrphansNotInPool' /\ OnlyBlocksStrandOrphans'
    BY <1>2 DEF OrphansNotInPool, OnlyBlocksStrandOrphans, Drained, HasInputs
<1> QED
    BY <1>1, <1>3 DEF PoolInv

-----------------------------------------------------------------------------
(* Each step keeps the maps.                                               *)

LEMMA OrphansUntouched ==
    ASSUME OrphanInv, UNCHANGED orphanVars
    PROVE  OrphanInv'
BY DEF orphanVars, OrphanInv, OrphanMapsAgree

LEMMA ReceiveTxKeepsMaps ==
    ASSUME OrphanInv, NEW n \in Honest, NEW m, ReceiveTx(n, m)
    PROVE  OrphanInv'
<1>1. PICK t \in Tx : ProcessTxAccepted(n, m, t) \/ ProcessTxOrphan(n, m, t) \/ ProcessTxRejected(n, m, t)
    BY DEF ReceiveTx
<1>2. CASE ProcessTxAccepted(n, m, t)
    <2> DEFINE E == EraseQueue(n, t)
    <2>1. /\ mapOrphanTransactions' = [mapOrphanTransactions EXCEPT ![n] = @ \ E]
          /\ mapOrphanTransactionsByPrev' =
                [mapOrphanTransactionsByPrev EXCEPT ![n] = WithoutOrphans(@, E)]
        BY <1>2 DEF ProcessTxAccepted
    <2> HIDE DEF E
    <2> QED
        BY <2>1, EraseOrphansKeeps
<1>3. CASE ProcessTxOrphan(n, m, t)
    BY <1>3, AddOrphanTxKeeps DEF ProcessTxOrphan
<1>4. CASE ProcessTxRejected(n, m, t)
    BY <1>4, OrphansUntouched DEF ProcessTxRejected, nodeVars, orphanVars
<1> QED
    BY <1>1, <1>2, <1>3, <1>4

LEMMA RestartKeepsMaps ==
    ASSUME OrphanInv, NEW n \in Honest, Restart(n)
    PROVE  OrphanInv'
BY ForgetOrphansKeeps DEF Restart

LEMMA OrphanInit == RelayInit => OrphanInv
<1> SUFFICES ASSUME RelayInit PROVE OrphanInv
    OBVIOUS
<1>1. /\ mapOrphanTransactions = [n \in Honest |-> {}]
      /\ mapOrphanTransactionsByPrev = [n \in Honest |-> [t \in Tx |-> {}]]
    BY DEF RelayInit
<1>2. IsFiniteSet({}) /\ Cardinality({}) = 0 /\ MAX_ORPHAN_TRANSACTIONS \in Nat
    BY FS_EmptySet, RelayAssumption
<1> QED
    BY <1>1, <1>2 DEF OrphanInv, OrphanMapsAgree

(* The steps that look at neither the orphans nor the pool nor the chain.  *)
Aside == UNCHANGED <<mapTx, txdb, mapWallet, orphanVars>>

LEMMA RelayCases ==
    ASSUME [RelayNext]_relayVars
    PROVE  \/ Aside
           \/ \E e \in HonestEnd : ReceiveTx(e[1], e[2])
           \/ \E n \in Honest, t \in Tx : CommitTransaction(n, t)
           \/ \E n \in Honest, t \in Tx : ConnectBlock(n, t)
           \/ \E n \in Honest : Restart(n)
<1>1. ASSUME NEW e \in HonestEnd, ProcessMessages(e[1], e[2])
      PROVE  Aside \/ ReceiveTx(e[1], e[2])
    <2>1. CASE ReceiveInv(e[1], e[2])
        BY <2>1 DEF ReceiveInv, ProcessInv, Aside
    <2>2. CASE ReceiveGetData(e[1], e[2])
        BY <2>2 DEF ReceiveGetData, ProcessGetData, nodeVars, Aside, orphanVars
    <2> QED
        BY <1>1, <2>1, <2>2 DEF ProcessMessages
<1>2. ASSUME NEW e \in HonestEnd, NEW fSendTrickle \in BOOLEAN, SendMessages(e[1], e[2], fSendTrickle)
      PROVE  Aside
    BY <1>2 DEF SendMessages, Aside
<1>3. ASSUME NEW n \in Honest, ResendWalletTransactions(n)
      PROVE  Aside
    BY <1>3 DEF ResendWalletTransactions, Aside
<1>4. CASE Tick
    BY <1>4 DEF Tick, Aside
<1>5. ASSUME NEW l \in Link, LoseLink(l) \/ Connect(l)
      PROVE  Aside
    BY <1>5 DEF LoseLink, Connect, nodeVars, orphanVars, Aside
<1>6. ASSUME NEW e \in HonestEnd, NEW t \in Tx, ForgetInventory(e, t)
      PROVE  Aside
    BY <1>6 DEF ForgetInventory, nodeVars, orphanVars, Aside
<1>7. ASSUME NEW e \in StrangerEnd, StrangerSends(e[1], e[2]) \/ StrangerReads(e[1], e[2])
      PROVE  Aside
    BY <1>7 DEF StrangerSends, StrangerReads, nodeVars, orphanVars, Aside
<1>8. CASE UNCHANGED relayVars
    BY <1>8 DEF relayVars, nodeVars, orphanVars, Aside
<1>9. CASE RelayNext
    BY <1>1, <1>2, <1>3, <1>4, <1>5, <1>6, <1>7, <1>9 DEF RelayNext
<1> QED
    BY <1>8, <1>9

LEMMA OrphanStep == OrphanInv /\ [RelayNext]_relayVars => OrphanInv'
<1> SUFFICES ASSUME OrphanInv, [RelayNext]_relayVars PROVE OrphanInv'
    OBVIOUS
<1>1. CASE Aside
    BY <1>1, OrphansUntouched DEF Aside
<1>2. ASSUME NEW e \in HonestEnd, ReceiveTx(e[1], e[2]) PROVE OrphanInv'
    BY <1>2, ReceiveTxKeepsMaps DEF HonestEnd
<1>3. ASSUME NEW n \in Honest, NEW t \in Tx, CommitTransaction(n, t) \/ ConnectBlock(n, t) PROVE OrphanInv'
    BY <1>3, OrphansUntouched DEF CommitTransaction, ConnectBlock
<1>4. ASSUME NEW n \in Honest, Restart(n) PROVE OrphanInv'
    BY <1>4, RestartKeepsMaps
<1> QED
    BY <1>1, <1>2, <1>3, <1>4, RelayCases

-----------------------------------------------------------------------------
(* Each step leaves the orphans drained.                                   *)

LEMMA ReceiveTxDrains ==
    ASSUME OrphanInv, PoolInv, NEW n \in Honest, NEW m, ReceiveTx(n, m)
    PROVE  PoolInv'
<1>1. PICK t \in Tx : ProcessTxAccepted(n, m, t) \/ ProcessTxOrphan(n, m, t) \/ ProcessTxRejected(n, m, t)
    BY DEF ReceiveTx
<1>2. Drained(mapTx[n], txdb[n], mapOrphanTransactions[n])
    BY DrainedEverywhere DEF PoolInv
<1>3. mapTx[n] \in SUBSET Tx /\ txdb[n] \in SUBSET Tx
    BY DEF PoolInv
<1>4. mapTx = [mapTx EXCEPT ![n] = mapTx[n]] /\ txdb = [txdb EXCEPT ![n] = txdb[n]]
    BY DEF PoolInv
<1>5. CASE ProcessTxAccepted(n, m, t)
    <2> DEFINE pool == mapTx[n] \cup WorkQueue(n, t)
               orphans == mapOrphanTransactions[n] \ EraseQueue(n, t)
    <2>1. /\ mapTx' = [mapTx EXCEPT ![n] = pool]
          /\ mapOrphanTransactions' = [mapOrphanTransactions EXCEPT ![n] = orphans]
          /\ txdb' = [txdb EXCEPT ![n] = txdb[n]] /\ mapWallet' \in [Honest -> SUBSET Tx]
        BY <1>4, <1>5 DEF ProcessTxAccepted, PoolInv
    <2>2. pool \in SUBSET Tx /\ Drained(pool, txdb[n], orphans)
        BY <1>3, AcceptedDrains, WorkQueueClosed
    <2> HIDE DEF pool, orphans
    <2> QED
        BY <1>3, <2>1, <2>2, DrainedAfter
<1>6. CASE ProcessTxOrphan(n, m, t)
    <2>1. /\ MissingInputs(n, t) /\ AddOrphanTx(n, t) /\ UNCHANGED <<mapTx, txdb, mapWallet>>
        BY <1>6 DEF ProcessTxOrphan
    <2>2. PICK orphans : /\ orphans \subseteq mapOrphanTransactions[n] \cup {t}
                         /\ mapOrphanTransactions' = [mapOrphanTransactions EXCEPT ![n] = orphans]
        <3> DEFINE has  == mapOrphanTransactions[n]
                   full == IF t \notin has \cup Large THEN has \cup {t} ELSE has
        <3>1. \E evicted \in SUBSET full :
                 mapOrphanTransactions' = [mapOrphanTransactions EXCEPT ![n] = full \ evicted]
            BY <2>1 DEF AddOrphanTx
        <3>2. full \subseteq has \cup {t}
            OBVIOUS
        <3> HIDE DEF full
        <3> QED
            BY <3>1, <3>2
    <2>3. Drained(mapTx[n], txdb[n], orphans)
        BY <1>2, <2>1, <2>2 DEF Drained, MissingInputs, HasInputs
    <2>4. /\ mapTx' = [mapTx EXCEPT ![n] = mapTx[n]] /\ txdb' = [txdb EXCEPT ![n] = txdb[n]]
          /\ mapWallet' \in [Honest -> SUBSET Tx]
        BY <1>4, <2>1 DEF PoolInv
    <2> QED
        BY <1>3, <2>2, <2>3, <2>4, DrainedAfter
<1>7. CASE ProcessTxRejected(n, m, t)
    BY <1>7 DEF ProcessTxRejected, nodeVars, PoolInv, OrphansNotInPool, OnlyBlocksStrandOrphans, HasInputs
<1> QED
    BY <1>1, <1>5, <1>6, <1>7

(* What the wallet makes is new: no orphan spends it yet.                  *)
LEMMA CommitTransactionDrains ==
    ASSUME OrphanInv, PoolInv, OrphansAreSigned, NEW n \in Honest, NEW t \in Tx, CommitTransaction(n, t)
    PROVE  PoolInv'
<1> DEFINE orphans == mapOrphanTransactions[n]
<1>1. /\ Owner[t] = n /\ t \notin mapWallet[n]
      /\ mapTx' = [mapTx EXCEPT ![n] = mapTx[n] \cup {t}]
      /\ mapWallet' = [mapWallet EXCEPT ![n] = @ \cup {t}] /\ UNCHANGED <<txdb, orphanVars>>
    BY DEF CommitTransaction
<1>2. ~Signed(t)
    BY <1>1, RelayAssumption DEF Signed
<1>3. \A o \in orphans : o # t /\ t \notin Parents[o]
    BY <1>2 DEF OrphansAreSigned
<1>4. Drained(mapTx[n], txdb[n], orphans)
    BY DrainedEverywhere DEF PoolInv
<1>5. Drained(mapTx[n] \cup {t}, txdb[n], orphans)
    BY <1>3, <1>4 DEF Drained
<1>6. /\ mapTx[n] \cup {t} \in SUBSET Tx /\ txdb[n] \in SUBSET Tx
      /\ txdb' = [txdb EXCEPT ![n] = txdb[n]]
      /\ mapOrphanTransactions' = [mapOrphanTransactions EXCEPT ![n] = orphans]
      /\ mapWallet' \in [Honest -> SUBSET Tx]
    BY <1>1 DEF PoolInv, OrphanInv, orphanVars
<1> HIDE DEF orphans
<1> QED
    BY <1>1, <1>5, <1>6, DrainedAfter

(* A block strands an orphan only by what it brings.                       *)
LEMMA ConnectBlockDrains ==
    ASSUME OrphanInv, PoolInv, NEW n \in Honest, NEW t \in Tx, ConnectBlock(n, t)
    PROVE  PoolInv'
<1> DEFINE orphans == mapOrphanTransactions[n]
           pool == mapTx[n] \ {t}
           chain == txdb[n] \cup {t}
<1>1. /\ mapTx' = [mapTx EXCEPT ![n] = pool] /\ txdb' = [txdb EXCEPT ![n] = chain]
      /\ mapWallet' \in [Honest -> SUBSET Tx]
      /\ mapOrphanTransactions' = [mapOrphanTransactions EXCEPT ![n] = orphans]
    BY DEF ConnectBlock, PoolInv, OrphanInv, orphanVars
<1>2. Drained(mapTx[n], txdb[n], orphans)
    BY DrainedEverywhere DEF PoolInv
<1>3. Drained(pool, chain, orphans)
    BY <1>2 DEF Drained
<1>4. pool \in SUBSET Tx /\ chain \in SUBSET Tx
    BY DEF PoolInv
<1> HIDE DEF orphans, pool, chain
<1> QED
    BY <1>1, <1>3, <1>4, DrainedAfter

LEMMA RestartDrains ==
    ASSUME OrphanInv, PoolInv, NEW n \in Honest, Restart(n)
    PROVE  PoolInv'
<1> DEFINE pool == WalletRelays(n, mapWallet[n])
<1>1. pool \in SUBSET Tx /\ txdb[n] \in SUBSET Tx
    BY DEF PoolInv, WalletRelays, Supporting
<1>2. Drained(pool, txdb[n], {})
    BY DEF Drained
<1>3. /\ mapTx' = [mapTx EXCEPT ![n] = pool] /\ txdb' = [txdb EXCEPT ![n] = txdb[n]]
      /\ mapOrphanTransactions' = [mapOrphanTransactions EXCEPT ![n] = {}]
      /\ mapWallet' \in [Honest -> SUBSET Tx]
    BY DEF Restart, PoolInv
<1> HIDE DEF pool
<1> QED
    BY <1>1, <1>2, <1>3, DrainedAfter

LEMMA DrainStep ==
    OrphanInv /\ PoolInv /\ OrphansAreSigned /\ [RelayNext]_relayVars => PoolInv'
<1> SUFFICES ASSUME OrphanInv, PoolInv, OrphansAreSigned, [RelayNext]_relayVars PROVE PoolInv'
    OBVIOUS
<1>1. CASE Aside
    BY <1>1 DEF Aside, orphanVars, PoolInv, OrphansNotInPool, OnlyBlocksStrandOrphans, HasInputs
<1>2. ASSUME NEW e \in HonestEnd, ReceiveTx(e[1], e[2]) PROVE PoolInv'
    BY <1>2, ReceiveTxDrains DEF HonestEnd
<1>3. ASSUME NEW n \in Honest, NEW t \in Tx, CommitTransaction(n, t) PROVE PoolInv'
    BY <1>3, CommitTransactionDrains
<1>4. ASSUME NEW n \in Honest, NEW t \in Tx, ConnectBlock(n, t) PROVE PoolInv'
    BY <1>4, ConnectBlockDrains
<1>5. ASSUME NEW n \in Honest, Restart(n) PROVE PoolInv'
    BY <1>5, RestartDrains
<1> QED
    BY <1>1, <1>2, <1>3, <1>4, <1>5, RelayCases

-----------------------------------------------------------------------------
(* AddOrphanTx, EraseOrphanTx and LimitOrphanTxSize keep both maps about   *)
(* the same orphans, no entry left behind, within the limit.               *)
THEOREM OrphanMapsAlwaysAgree == RelaySpec => []OrphanMapsAgree
<1>1. OrphanInv => OrphanMapsAgree
    BY DEF OrphanInv
<1> QED
    BY <1>1, OrphanInit, OrphanStep, PTL DEF RelaySpec

(* The tx handler leaves no orphan behind that the pool would take, unless *)
(* a block brought a parent, and no orphan is in the pool; given that a    *)
(* transaction cannot be sent before it is signed.                         *)
THEOREM OrphansAlwaysDrained ==
    RelaySpec /\ []OrphansAreSigned => [](OrphansNotInPool /\ OnlyBlocksStrandOrphans)
<1>1. RelayInit => PoolInv
    BY DEF RelayInit, PoolInv, OrphansNotInPool, OnlyBlocksStrandOrphans
<1>2. PoolInv => OrphansNotInPool /\ OnlyBlocksStrandOrphans
    BY DEF PoolInv
<1> QED
    BY <1>1, <1>2, OrphanInit, OrphanStep, DrainStep, PTL DEF RelaySpec
=============================================================================
