------------------------------- MODULE Peers --------------------------------
(***************************************************************************)
(* Connections to peers (src/src/net.cpp, src/src/net.h): the CNode        *)
(* objects that four kinds of threads share.  ThreadSocketHandler accepts, *)
(* reads, disconnects and deletes; ThreadMessageHandler works on a copy of *)
(* vNodes under reference counts; the threads that open connections hand   *)
(* their slot of semOutbound to the node they made; "addnode onetry" makes *)
(* a node from the RPC thread.  Each action is what a thread does without  *)
(* giving another a chance to interfere: a section under cs_vNodes, or one *)
(* access to a field that no lock protects.                                *)
(***************************************************************************)
EXTENDS Integers, FiniteSets

CONSTANTS
    Nodes,        \* the CNode objects that may be allocated, each once
    Addrs,
    Openers,      \* ThreadOpenConnections, ThreadOpenAddedConnections
    Targets,      \* the addresses each of them may dial
    OneTries,     \* the addresses "addnode onetry" is called with
    Incoming,     \* the addresses that may connect to us
    MaxOutbound,  \* the size of semOutbound
    MaxInbound,   \* -maxconnections less the outbound ones
    FloodSize,    \* ReceiveFloodSize() in messages
    None

ASSUME PeersAssumption ==
    /\ Targets \in [Openers -> SUBSET Addrs]
    /\ OneTries \subseteq Addrs /\ Incoming \subseteq Addrs
    /\ MaxOutbound \in Nat /\ MaxInbound \in Nat /\ FloodSize \in Nat \ {0}
    /\ None \notin Nodes \cup Addrs
    /\ IsFiniteSet(Nodes) /\ IsFiniteSet(Openers)

VARIABLES
    node,                \* the fields of every CNode
    vNodes,
    vNodesDisconnected,
    deleted,
    warm,                \* nodes whose nReleaseTime has not passed
    semOutbound,         \* the value of the semaphore
    setBanned,
    lostCount,           \* an update of a reference count has been lost (history)
    grantRaced,          \* two threads have handled one grant at once (history)
    socketHandler,       \* ThreadSocketHandler2
    messageHandler,      \* ThreadMessageHandler2 and ProcessMessages
    opener               \* OpenNetworkConnection in each opener

objects == <<node, vNodes, vNodesDisconnected, deleted, warm>>
history == <<lostCount, grantRaced>>
vars == <<objects, semOutbound, setBanned, history, socketHandler, messageHandler, opener>>

Field == [addr : Addrs \cup {None}, fInbound : BOOLEAN, fNetworkNode : BOOLEAN,
          fDisconnect : BOOLEAN, open : BOOLEAN, grant : BOOLEAN,
          nRefCount : Int, vRecvMsg : 0..FloodSize]

Unborn == [addr |-> None, fInbound |-> FALSE, fNetworkNode |-> FALSE,
           fDisconnect |-> FALSE, open |-> FALSE, grant |-> FALSE,
           nRefCount |-> 0, vRecvMsg |-> 0]

Fresh == {n \in Nodes : node[n].addr = None}
NewNode(a, inbound) ==
    [Unborn EXCEPT !.addr = a, !.fInbound = inbound, !.open = TRUE, !.nRefCount = 1]

(* cs_vNodes is held through the whole pass of the socket handler over the *)
(* nodes to disconnect; elsewhere one action is one section.               *)
CsNodesFree == socketHandler.pc \notin {"disconnect", "post", "clear", "close", "drop"}

FindNode(a) == {n \in vNodes : node[n].addr = a}

AddRefs(S) == [n \in Nodes |-> IF n \in S
                 THEN [node[n] EXCEPT !.nRefCount = @ + 1] ELSE node[n]]
Releases(S) == [n \in Nodes |-> IF n \in S
                 THEN [node[n] EXCEPT !.nRefCount = @ - 1] ELSE node[n]]

(* GetRefCount() *)
Referenced(n) == node[n].nRefCount > 0 \/ n \in warm

Processing(n) == messageHandler.pc = "process" /\ messageHandler.cur = n

(* CloseSocketDisconnect: the buffer is wiped when TRY_LOCK gets it, which *)
(* it does in the thread that holds cs_vRecvMsg itself.                    *)
Closed(f, mayWipe) ==
    [f EXCEPT !.fDisconnect = TRUE, !.open = FALSE,
              !.vRecvMsg = IF f.open /\ mayWipe THEN 0 ELSE @]

-----------------------------------------------------------------------------
(* ThreadSocketHandler2 *)

BeginDisconnect ==
    /\ socketHandler.pc = "top"
    /\ socketHandler' = [socketHandler EXCEPT !.pc = "disconnect", !.todo = vNodes]
    /\ UNCHANGED <<objects, semOutbound, setBanned, history, messageHandler, opener>>

UnusedByCount(n, vSendEmpty) ==                                       \* mutant
    ~Referenced(n) /\ node[n].vRecvMsg = 0 /\ vSendEmpty
Unused(n, vSendEmpty) ==
    \/ node[n].fDisconnect
    \/ ~Referenced(n) /\ node[n].vRecvMsg = 0 /\ vSendEmpty

(* No lock protects grantOutbound: Release and MoveTo read fHaveGrant,      *)
(* post, and write fHaveGrant, one after the other.                        *)
Handing(n) == {t \in Openers : opener[t].pc \in {"post", "clear", "set"} /\ opener[t].node = n}
Releasing(n) == socketHandler.pc \in {"post", "clear"} /\ socketHandler.cur = n

(* "remove from vNodes", and the first step of grantOutbound.Release().    *)
ExamineNode(n) ==
    /\ socketHandler.pc = "disconnect"
    /\ n \in socketHandler.todo
    /\ \E vSendEmpty \in BOOLEAN :
          IF Unused(n, vSendEmpty)
          THEN /\ vNodes' = vNodes \ {n}
               /\ socketHandler' = [socketHandler EXCEPT !.cur = n, !.todo = @ \ {n},
                                       !.pc = IF node[n].grant THEN "post" ELSE "close"]
               /\ grantRaced' = (grantRaced \/ (node[n].grant /\ Handing(n) # {}))
          ELSE /\ socketHandler' = [socketHandler EXCEPT !.todo = @ \ {n}]
               /\ UNCHANGED <<vNodes, grantRaced>>
    /\ UNCHANGED <<node, vNodesDisconnected, deleted, warm, semOutbound, setBanned, lostCount,
                   messageHandler, opener>>

PostGrant ==
    /\ socketHandler.pc = "post"
    /\ semOutbound' = semOutbound + 1
    /\ socketHandler' = [socketHandler EXCEPT !.pc = "clear"]
    /\ UNCHANGED <<objects, setBanned, history, messageHandler, opener>>

(* Mutant: the slot is given back and stays marked as held. *)
ClearNothing ==
    /\ socketHandler.pc = "clear"
    /\ socketHandler' = [socketHandler EXCEPT !.pc = "close"]
    /\ UNCHANGED <<objects, semOutbound, setBanned, history, messageHandler, opener>>
ClearGrant ==
    /\ socketHandler.pc = "clear"
    /\ node' = [node EXCEPT ![socketHandler.cur].grant = FALSE]
    /\ socketHandler' = [socketHandler EXCEPT !.pc = "close"]
    /\ UNCHANGED <<vNodes, vNodesDisconnected, deleted, warm, semOutbound, setBanned, history,
                   messageHandler, opener>>

CloseNode ==
    /\ socketHandler.pc = "close"
    /\ LET n == socketHandler.cur IN
          /\ node' = [node EXCEPT ![n] = Closed(@, ~Processing(n))]
          /\ warm' = warm \cup {n}
    /\ socketHandler' = [socketHandler EXCEPT !.pc = "drop"]
    /\ UNCHANGED <<vNodes, vNodesDisconnected, deleted, semOutbound, setBanned, history,
                   messageHandler, opener>>

(* Release() for the reference the connection itself has. *)
OwnsRef(n) == node[n].fNetworkNode \/ node[n].fInbound
DropNode ==
    /\ socketHandler.pc = "drop"
    /\ LET n == socketHandler.cur IN
          /\ node' = (IF OwnsRef(n) THEN Releases({n}) ELSE node)
          /\ vNodesDisconnected' = vNodesDisconnected \cup {n}
    /\ socketHandler' = [socketHandler EXCEPT !.pc = "disconnect", !.cur = None]
    /\ UNCHANGED <<vNodes, deleted, warm, semOutbound, setBanned, history, messageHandler, opener>>

Deletable == {n \in vNodesDisconnected : ~Referenced(n) /\ ~Processing(n)}

(* The destructor of grantOutbound posts a slot that came too late. *)
DeleteNodes ==
    /\ socketHandler.pc = "disconnect" /\ socketHandler.todo = {}
    /\ vNodesDisconnected' = vNodesDisconnected \ Deletable
    /\ deleted' = deleted \cup Deletable
    /\ semOutbound' = semOutbound + Cardinality({n \in Deletable : node[n].grant})
    /\ node' = [n \in Nodes |-> IF n \in Deletable
                  THEN [node[n] EXCEPT !.grant = FALSE] ELSE node[n]]
    /\ socketHandler' = [socketHandler EXCEPT !.pc = "select"]
    /\ UNCHANGED <<vNodes, warm, setBanned, history, messageHandler, opener>>

AcceptConnection(a, n) ==
    /\ socketHandler.pc = "select"
    /\ n \in Fresh
    /\ Cardinality({m \in vNodes : node[m].fInbound}) < MaxInbound
    /\ a \notin setBanned
    /\ node' = [node EXCEPT ![n] = NewNode(a, TRUE)]
    /\ vNodes' = vNodes \cup {n}
    /\ UNCHANGED <<vNodesDisconnected, deleted, warm, semOutbound, setBanned, history,
                   socketHandler, messageHandler, opener>>

BeginService ==
    /\ socketHandler.pc = "select"
    /\ node' = AddRefs(vNodes)
    /\ socketHandler' = [socketHandler EXCEPT !.pc = "service", !.todo = vNodes,
                                              !.copy = vNodes]
    /\ UNCHANGED <<vNodes, vNodesDisconnected, deleted, warm, semOutbound, setBanned, history,
                   messageHandler, opener>>

(* Flood control, else ReceiveMsgBytes. *)
Received(f) ==
    IF f.vRecvMsg = FloodSize THEN Closed(f, TRUE) ELSE [f EXCEPT !.vRecvMsg = @ + 1]

(* What one visit may find: nothing, data, the end of the connection or an *)
(* error, no traffic for too long.  Reading needs cs_vRecvMsg.             *)
ServiceNode(n) ==
    /\ socketHandler.pc = "service"
    /\ n \in socketHandler.todo
    /\ socketHandler' = [socketHandler EXCEPT !.todo = @ \ {n}]
    /\ \/ UNCHANGED node
       \/ /\ node[n].open /\ ~Processing(n)
          /\ node' = [node EXCEPT ![n] = Received(@)]
       \/ /\ node[n].open /\ ~Processing(n)
          /\ node' = [node EXCEPT ![n] = Closed(@, TRUE)]
       \/ /\ node[n].open
          /\ node' = [node EXCEPT ![n].fDisconnect = TRUE]
    /\ UNCHANGED <<vNodes, vNodesDisconnected, deleted, warm, semOutbound, setBanned, history,
                   messageHandler, opener>>

EndService ==
    /\ socketHandler.pc = "service" /\ socketHandler.todo = {}
    /\ node' = Releases(socketHandler.copy)
    /\ socketHandler' = [socketHandler EXCEPT !.pc = "top", !.copy = {}]
    /\ UNCHANGED <<vNodes, vNodesDisconnected, deleted, warm, semOutbound, setBanned, history,
                   messageHandler, opener>>

-----------------------------------------------------------------------------
(* ThreadMessageHandler2 and ProcessMessages *)

(* Mutant: the copy is made without references. *)
CopyUncounted == node' = node
CopyNodes == node' = AddRefs(vNodes)

BeginPoll ==
    /\ messageHandler.pc = "idle" /\ CsNodesFree
    /\ CopyNodes
    /\ messageHandler' = [messageHandler EXCEPT !.pc = "poll", !.copy = vNodes,
                                                !.todo = vNodes]
    /\ UNCHANGED <<vNodes, vNodesDisconnected, deleted, warm, semOutbound, setBanned, history,
                   socketHandler, opener>>

PollNode(n) ==
    /\ messageHandler.pc = "poll"
    /\ n \in messageHandler.todo
    /\ messageHandler' =
          IF node[n].fDisconnect
          THEN [messageHandler EXCEPT !.todo = @ \ {n}]
          ELSE [messageHandler EXCEPT !.pc = "process", !.cur = n, !.todo = @ \ {n},
                                      !.it = 0, !.wiped = FALSE]
    /\ UNCHANGED <<objects, semOutbound, setBanned, history, socketHandler, opener>>

(* One turn of the loop of ProcessMessages.  ProcessMessage may find the   *)
(* message in order, end the connection, or ban the peer, which closes the *)
(* socket and clears the deque that the loop walks over.  What the loop    *)
(* reads after that is undefined: another message of any kind, or none.    *)
ProcessMessage ==
    LET n == messageHandler.cur IN
    /\ messageHandler.pc = "process"
    /\ messageHandler.wiped \/ messageHandler.it < node[n].vRecvMsg
    /\ \/ UNCHANGED <<node, setBanned>>
          /\ messageHandler' = [messageHandler EXCEPT !.it = @ + (IF @ < FloodSize THEN 1 ELSE 0)]
       \/ /\ node' = [node EXCEPT ![n].fDisconnect = TRUE]
          /\ UNCHANGED setBanned
          /\ messageHandler' = [messageHandler EXCEPT !.it = @ + (IF @ < FloodSize THEN 1 ELSE 0)]
       \/ /\ node' = [node EXCEPT ![n] = Closed(@, TRUE)]
          /\ setBanned' = setBanned \cup {node[n].addr}
          /\ messageHandler' = [messageHandler EXCEPT
                !.it = @ + (IF @ < FloodSize THEN 1 ELSE 0),
                !.wiped = @ \/ node[n].open]
    /\ UNCHANGED <<vNodes, vNodesDisconnected, deleted, warm, semOutbound, history,
                   socketHandler, opener>>

(* The loop ends at the end of the buffer, at a message that is not        *)
(* complete, with a full send buffer, or at a wrong message start, which   *)
(* makes ThreadMessageHandler2 close the connection.                       *)
EndProcess(fOk) ==
    LET n == messageHandler.cur
        read == messageHandler.it + (IF fOk THEN 0 ELSE 1)
        left == IF messageHandler.wiped THEN 0 ELSE node[n].vRecvMsg - read
        f == [node[n] EXCEPT !.vRecvMsg = left]
    IN
    /\ messageHandler.pc = "process"
    /\ ~fOk => messageHandler.it < node[n].vRecvMsg \/ messageHandler.wiped
    /\ node' = [node EXCEPT ![n] = IF fOk THEN f ELSE Closed(f, TRUE)]
    /\ messageHandler' = [messageHandler EXCEPT !.pc = "poll", !.cur = None, !.it = 0,
                                                !.wiped = FALSE]
    /\ UNCHANGED <<vNodes, vNodesDisconnected, deleted, warm, semOutbound, setBanned, history,
                   socketHandler, opener>>

EndPoll ==
    /\ messageHandler.pc = "poll" /\ messageHandler.todo = {} /\ CsNodesFree
    /\ node' = Releases(messageHandler.copy)
    /\ messageHandler' = [messageHandler EXCEPT !.pc = "idle", !.copy = {}]
    /\ UNCHANGED <<vNodes, vNodesDisconnected, deleted, warm, semOutbound, setBanned, history,
                   socketHandler, opener>>

-----------------------------------------------------------------------------
(* OpenNetworkConnection and ConnectNode *)

Idle == [pc |-> "idle", addr |-> None, node |-> None, count |-> 0]

AcquireGrant(t) ==
    /\ opener[t].pc = "idle"
    /\ semOutbound > 0
    /\ semOutbound' = semOutbound - 1
    /\ opener' = [opener EXCEPT ![t].pc = "grant"]
    /\ UNCHANGED <<objects, setBanned, history, socketHandler, messageHandler>>

(* The destructor of the grant in the opener's loop. *)
GiveUp(t) ==
    /\ semOutbound' = semOutbound + 1
    /\ opener' = [opener EXCEPT ![t] = Idle]
    /\ UNCHANGED <<objects, setBanned, history, socketHandler, messageHandler>>

NoCandidate(t) == opener[t].pc = "grant" /\ GiveUp(t)

OpenNetworkConnection(t, a) ==
    /\ opener[t].pc = "grant" /\ CsNodesFree
    /\ FindNode(a) = {} /\ a \notin setBanned
    /\ opener' = [opener EXCEPT ![t].pc = "look", ![t].addr = a]
    /\ UNCHANGED <<objects, semOutbound, setBanned, history, socketHandler, messageHandler>>

(* "Look for an existing connection": its count is incremented with no     *)
(* lock held.                                                              *)
LookForExisting(t) ==
    /\ opener[t].pc = "look" /\ CsNodesFree
    /\ \/ /\ FindNode(opener[t].addr) = {}
          /\ opener' = [opener EXCEPT ![t].pc = "dial"]
       \/ \E n \in FindNode(opener[t].addr) :
             opener' = [opener EXCEPT ![t].pc = "count", ![t].node = n,
                                      ![t].count = node[n].nRefCount]
    /\ UNCHANGED <<objects, semOutbound, setBanned, history, socketHandler, messageHandler>>

AddRefExisting(t) ==
    /\ opener[t].pc = "count"
    /\ node' = [node EXCEPT ![opener[t].node].nRefCount = opener[t].count + 1]
    /\ lostCount' = (lostCount \/ node[opener[t].node].nRefCount # opener[t].count)
    /\ opener' = [opener EXCEPT ![t].pc = "move"]
    /\ UNCHANGED <<vNodes, vNodesDisconnected, deleted, warm, semOutbound, setBanned, grantRaced,
                   socketHandler, messageHandler>>

Dial(t, n) ==
    /\ opener[t].pc = "dial" /\ CsNodesFree
    /\ n \in Fresh
    /\ node' = [node EXCEPT ![n] = NewNode(opener[t].addr, FALSE)]
    /\ vNodes' = vNodes \cup {n}
    /\ opener' = [opener EXCEPT ![t].pc = "move", ![t].node = n]
    /\ UNCHANGED <<vNodesDisconnected, deleted, warm, semOutbound, setBanned, history,
                   socketHandler, messageHandler>>

DialFails(t) == opener[t].pc = "dial" /\ GiveUp(t)

(* MoveTo releases what the node held before: grant.Release(), then the    *)
(* assignments to grant.  The opener's own grant is local to it.           *)
MoveGrant(t) ==
    LET n == opener[t].node IN
    /\ opener[t].pc = "move"
    /\ opener' = [opener EXCEPT ![t].pc = IF node[n].grant THEN "post" ELSE "set"]
    /\ grantRaced' = (grantRaced \/ Handing(n) # {} \/ Releasing(n))
    /\ UNCHANGED <<objects, semOutbound, setBanned, lostCount, socketHandler, messageHandler>>

PostMoved(t) ==
    /\ opener[t].pc = "post"
    /\ semOutbound' = semOutbound + 1
    /\ opener' = [opener EXCEPT ![t].pc = "clear"]
    /\ UNCHANGED <<objects, setBanned, history, socketHandler, messageHandler>>

ClearMoved(t) ==
    /\ opener[t].pc = "clear"
    /\ node' = [node EXCEPT ![opener[t].node].grant = FALSE]
    /\ opener' = [opener EXCEPT ![t].pc = "set"]
    /\ UNCHANGED <<vNodes, vNodesDisconnected, deleted, warm, semOutbound, setBanned, history,
                   socketHandler, messageHandler>>

SetMoved(t) ==
    /\ opener[t].pc = "set"
    /\ node' = [node EXCEPT ![opener[t].node].grant = TRUE]
    /\ opener' = [opener EXCEPT ![t].pc = "mark"]
    /\ UNCHANGED <<vNodes, vNodesDisconnected, deleted, warm, semOutbound, setBanned, history,
                   socketHandler, messageHandler>>

MarkNetworkNode(t) ==
    /\ opener[t].pc = "mark"
    /\ node' = [node EXCEPT ![opener[t].node].fNetworkNode = TRUE]
    /\ opener' = [opener EXCEPT ![t] = Idle]
    /\ UNCHANGED <<vNodes, vNodesDisconnected, deleted, warm, semOutbound, setBanned, history,
                   socketHandler, messageHandler>>

(* "addnode onetry": ConnectNode by name from the RPC thread. *)
OneTry(a, n) ==
    /\ CsNodesFree
    /\ n \in Fresh
    /\ node' = [node EXCEPT ![n] = NewNode(a, FALSE)]
    /\ vNodes' = vNodes \cup {n}
    /\ UNCHANGED <<vNodesDisconnected, deleted, warm, semOutbound, setBanned, history,
                   socketHandler, messageHandler, opener>>

(* Fifteen minutes pass after a disconnect.  No opener stays that long     *)
(* between two statements of OpenNetworkConnection.                        *)
Holds(t) == opener[t].pc \in {"count", "move", "post", "clear", "set", "mark"}
TimePasses(n) ==
    /\ n \in warm /\ n \in vNodesDisconnected
    /\ \A t \in Openers : Holds(t) => opener[t].node # n
    /\ warm' = warm \ {n}
    /\ UNCHANGED <<node, vNodes, vNodesDisconnected, deleted, semOutbound, setBanned, history,
                   socketHandler, messageHandler, opener>>

BanEnds(a) ==
    /\ a \in setBanned
    /\ setBanned' = setBanned \ {a}
    /\ UNCHANGED <<objects, semOutbound, history, socketHandler, messageHandler, opener>>

-----------------------------------------------------------------------------
Init ==
    /\ node = [n \in Nodes |-> Unborn]
    /\ vNodes = {} /\ vNodesDisconnected = {} /\ deleted = {} /\ warm = {}
    /\ semOutbound = MaxOutbound
    /\ setBanned = {} /\ lostCount = FALSE /\ grantRaced = FALSE
    /\ socketHandler = [pc |-> "top", todo |-> {}, copy |-> {}, cur |-> None]
    /\ messageHandler = [pc |-> "idle", todo |-> {}, copy |-> {}, cur |-> None,
                         it |-> 0, wiped |-> FALSE]
    /\ opener = [t \in Openers |-> Idle]

SocketHandlerStep ==
    \/ BeginDisconnect \/ PostGrant \/ ClearGrant \/ CloseNode \/ DropNode \/ DeleteNodes
    \/ BeginService \/ EndService
    \/ \E n \in Nodes : ExamineNode(n) \/ ServiceNode(n)

MessageHandlerStep ==
    \/ BeginPoll \/ ProcessMessage \/ EndPoll
    \/ \E n \in Nodes : PollNode(n)
    \/ \E fOk \in BOOLEAN : EndProcess(fOk)

OpenerStep(t) ==
    \/ AcquireGrant(t) \/ NoCandidate(t) \/ LookForExisting(t) \/ AddRefExisting(t)
    \/ DialFails(t) \/ MoveGrant(t) \/ PostMoved(t) \/ ClearMoved(t) \/ SetMoved(t)
    \/ MarkNetworkNode(t)
    \/ \E a \in Targets[t] : OpenNetworkConnection(t, a)
    \/ \E n \in Nodes : Dial(t, n)

Next ==
    \/ SocketHandlerStep \/ MessageHandlerStep
    \/ \E t \in Openers : OpenerStep(t)
    \/ \E n \in Nodes : \E a \in Incoming : AcceptConnection(a, n)
    \/ \E n \in Nodes : \E a \in OneTries : OneTry(a, n)
    \/ \E n \in Nodes : TimePasses(n)
    \/ \E a \in Addrs : BanEnds(a)

Spec == Init /\ [][Next]_vars

(* The threads run, and one that waits for cs_vNodes gets it: the socket   *)
(* handler lets go of it in every turn.  The loop of ProcessMessages ends, *)
(* and time passes.                                                        *)
FairSpec ==
    /\ Spec
    /\ WF_vars(SocketHandlerStep) /\ WF_vars(MessageHandlerStep) /\ SF_vars(EndPoll)
    /\ WF_vars(\E fOk \in BOOLEAN : EndProcess(fOk))
    /\ \A t \in Openers : /\ WF_vars(AddRefExisting(t)) /\ WF_vars(MoveGrant(t))
                          /\ WF_vars(PostMoved(t)) /\ WF_vars(ClearMoved(t))
                          /\ WF_vars(SetMoved(t)) /\ WF_vars(MarkNetworkNode(t))
    /\ \A n \in Nodes : WF_vars(TimePasses(n))

-----------------------------------------------------------------------------
(* Type correctness.  (The properties speak of the objects and threads the *)
(* state has, so that they can be read in a state of any instance.)        *)
TypeOK ==
    /\ DOMAIN node \subseteq Nodes /\ \A n \in DOMAIN node : node[n] \in Field
    /\ vNodes \cup vNodesDisconnected \cup deleted \cup warm
          \subseteq {n \in DOMAIN node : node[n].addr # None}
    /\ vNodes \cap (vNodesDisconnected \cup deleted) = {}
    /\ vNodesDisconnected \cap deleted = {}
    /\ semOutbound \in Nat
    /\ setBanned \subseteq Addrs
    /\ messageHandler.it <= FloodSize

(* "wait until threads are done using it": no thread works on a CNode that *)
(* has been deleted, neither through its copy of vNodes nor through the    *)
(* pointer ConnectNode returned.  Only the increment that ConnectNode      *)
(* makes without a lock could break this, by overwriting another thread's. *)
NoNodeUsedAfterDelete ==
    /\ ~lostCount => /\ socketHandler.copy \cap deleted = {}
                     /\ messageHandler.copy \cap deleted = {}
    /\ \A t \in DOMAIN opener : Holds(t) => opener[t].node \notin deleted

(* Every slot of semOutbound is free, with an opener or with one node, the *)
(* middle of a hand-over included.                                         *)
Posted(n) ==
    \/ socketHandler.pc = "clear" /\ socketHandler.cur = n
    \/ \E t \in DOMAIN opener : opener[t].pc = "clear" /\ opener[t].node = n
GrantsConserved ==
    semOutbound + Cardinality({n \in DOMAIN node : node[n].grant /\ ~Posted(n)})
      + Cardinality({t \in DOMAIN opener : opener[t].pc \notin {"idle", "mark"}}) = MaxOutbound

(* No slot of semOutbound is lost or doubled by the threads that hand it   *)
(* on, a connection that ends in the middle included, and every CNode is   *)
(* in one list at most.  What could break the first is two threads inside  *)
(* MoveTo or Release of one grant at once, which nothing in the code keeps *)
(* apart: two openers that both see no grant leave one slot lost, an       *)
(* opener and the socket handler that both see one post it twice.          *)
SlotsConserved == TypeOK /\ (~grantRaced => GrantsConserved)
=============================================================================
