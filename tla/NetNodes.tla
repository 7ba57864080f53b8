------------------------------ MODULE NetNodes ------------------------------
(***************************************************************************)
(* The connections of a node (net.cpp, net.h, sync.h): CNode objects, their*)
(* reference counts and outbound slots, used by                            *)
(*   - the socket thread, which accepts, services and deletes nodes,       *)
(*   - the message thread, which polls them and chooses the sync node,     *)
(*   - the threads that open connections.                                  *)
(*                                                                         *)
(* A step is what a thread does under cs_vNodes, or for one node without   *)
(* it.  A deleted object's memory is used again for a later one.  What     *)
(* travels on the sockets is left out: a service or a poll may end in any  *)
(* of the ways the code has for it.  Connections are opened by address and *)
(* with a slot; the ones to a name (-connect, one-shots) are left out.     *)
(***************************************************************************)
EXTENDS Integers, FiniteSets

CONSTANTS
  Node,          \* memory a CNode object may occupy
  Addr,          \* addresses of peers
  Opener,        \* ThreadOpenConnections, ThreadOpenAddedConnections
  Settings,      \* threads: the openers and "message" StartNode has started;
                 \* nMaxOutbound: -maxconnections, but at most
                 \* MAX_OUTBOUND_CONNECTIONS; nMaxInbound: the rest of it
  None           \* a null pointer

ASSUME NetAssumption ==
  /\ IsFiniteSet(Node) /\ IsFiniteSet(Opener)
  /\ Settings \subseteq [threads : SUBSET (Opener \cup {"message"}),
                          nMaxOutbound : Nat, nMaxInbound : Nat]
  /\ Addr # {} /\ None \notin Node

VARIABLES
  setting,               \* the setting of this behaviour
  node,                  \* the CNode objects
  semOutbound,           \* free outbound slots
  pnodeSync,             \* the node blocks are synchronized from
  sPc, sCopy, sTodo,     \* socket thread: vNodesCopy and what is left of it
  mPc, mCopy, mTodo,     \* message thread
  pnodeNewSync,          \* message thread: candidate of StartSync
  opener                 \* threads that open connections

socketVars  == <<setting, sPc, sCopy, sTodo>>
messageVars == <<mPc, mCopy, mTodo, pnodeNewSync>>
netVars == <<node, semOutbound, pnodeSync, socketVars, messageVars, opener>>

(* History: fOwned is the reference of ConnectNode or accept, kept until   *)
(* the node is disconnected.                                               *)
CNode(inMemory, a, inbound) ==
  [life |-> inMemory, addr |-> a, fInbound |-> inbound, fNetworkNode |-> FALSE,
   fDisconnect |-> FALSE, grantOutbound |-> FALSE,
   nRefCount |-> IF inMemory = "free" THEN 0 ELSE 1, fStartSync |-> FALSE,
   fOwned |-> inMemory # "free"]

Free == CNode("free", CHOOSE a \in Addr : TRUE, FALSE)

vNodes == {n \in Node : node[n].life = "vNodes"}
vNodesDisconnected == {n \in Node : node[n].life = "disconnected"}

OpenerState ==
  [pc : {"wait", "choose", "connect", "addref", "written", "move", "flag"},
   addr : Addr, pnode : Node \cup {None}, nRead : Int, grant : BOOLEAN]

NetTypeOK ==
  /\ setting \in Settings
  /\ node \in [Node -> [life : {"free", "vNodes", "disconnected"}, addr : Addr,
                        fInbound : BOOLEAN, fNetworkNode : BOOLEAN,
                        fDisconnect : BOOLEAN, grantOutbound : BOOLEAN,
                        nRefCount : Int, fStartSync : BOOLEAN,
                        fOwned : BOOLEAN]]
  /\ semOutbound \in 0..setting.nMaxOutbound
  /\ pnodeSync \in Node \cup {None}
  /\ sPc \in {"disconnect", "accept", "copy", "service"}
  /\ mPc \in {"copy", "startSync", "setSync", "poll"}
  /\ sTodo \subseteq sCopy /\ sCopy \subseteq Node
  /\ mTodo \subseteq mCopy /\ mCopy \subseteq Node
  /\ pnodeNewSync \in Node \cup {None}
  /\ opener \in [Opener -> OpenerState]

NetInit ==
  /\ setting \in Settings
  /\ node = [n \in Node |-> Free]
  /\ semOutbound = setting.nMaxOutbound
  /\ pnodeSync = None
  /\ sPc = "disconnect" /\ sCopy = {} /\ sTodo = {}
  /\ mPc = "copy" /\ mCopy = {} /\ mTodo = {}
  /\ pnodeNewSync = None
  /\ opener = [o \in Opener |-> [pc |-> "wait", addr |-> CHOOSE a \in Addr : TRUE,
                                 pnode |-> None, nRead |-> 0, grant |-> FALSE]]

-----------------------------------------------------------------------------
(* AddRef and Release of every node of a set.                              *)
AddRefs(S, d) ==
  [n \in Node |-> IF n \in S THEN [node[n] EXCEPT !.nRefCount = @ + d]
                  ELSE node[n]]

ForgetSync(S) == IF pnodeSync \in S THEN None ELSE pnodeSync

(* CNode::CloseSocketDisconnect                                            *)
CloseSocketDisconnect(n) ==
  /\ node' = [node EXCEPT ![n].fDisconnect = TRUE]
  /\ pnodeSync' = ForgetSync({n})

-----------------------------------------------------------------------------
(* The socket thread, under cs_vNodes: nodes to disconnect leave vNodes,   *)
(* give back their outbound slot and the reference that kept them there;   *)
(* disconnected nodes nobody refers to are deleted, and a deleted node     *)
(* gives back a slot it still has.                                         *)
Disconnected(n) ==
  LET p == node[n]
      kept == p.fNetworkNode \/ p.fInbound
  IN  [p EXCEPT !.life = "disconnected", !.grantOutbound = FALSE,
                !.fDisconnect = TRUE,
                !.nRefCount = IF kept THEN @ - 1 ELSE @,
                !.fOwned = IF kept THEN FALSE ELSE @]

ToDisconnect ==
  {n \in vNodes : node[n].fDisconnect \/ node[n].nRefCount <= 0}

AfterDisconnect(n) == IF n \in ToDisconnect THEN Disconnected(n) ELSE node[n]

DisconnectedThen == {n \in Node : AfterDisconnect(n).life = "disconnected"}

Unreferenced ==
  {n \in DisconnectedThen : AfterDisconnect(n).nRefCount <= 0}

DisconnectSection(deleted, slots) ==
  /\ sPc = "disconnect"
  /\ node' = [n \in Node |-> IF n \in deleted THEN Free ELSE AfterDisconnect(n)]
  /\ semOutbound' = semOutbound + Cardinality(slots)
  /\ pnodeSync' = ForgetSync(ToDisconnect)
  /\ sPc' = "accept"
  /\ UNCHANGED <<setting, sCopy, sTodo, messageVars, opener>>

(* Mutant: a disconnected node is deleted without a look at its references.*)
DisconnectNodesEager ==
  DisconnectSection(DisconnectedThen,
                    {n \in DisconnectedThen : node[n].grantOutbound})

(* Mutant: a node still in use when it is disconnected is forgotten.       *)
DisconnectNodesOnce ==
  DisconnectSection(Unreferenced \cap ToDisconnect,
                    {n \in ToDisconnect : node[n].grantOutbound})

DisconnectNodes ==
  DisconnectSection(Unreferenced,
                    {n \in ToDisconnect \cup Unreferenced : node[n].grantOutbound})

(* Accept a connection, if one arrives and there is room for it.           *)
AcceptConnection ==
  /\ sPc = "accept"
  /\ sPc' = "copy"
  /\ \/ UNCHANGED node
     \/ /\ Cardinality({n \in vNodes : node[n].fInbound}) < setting.nMaxInbound
        /\ \E n \in Node, a \in Addr :
             /\ node[n].life = "free"
             /\ node' = [node EXCEPT ![n] = CNode("vNodes", a, TRUE)]
  /\ UNCHANGED <<setting, semOutbound, pnodeSync, sCopy, sTodo, messageVars, opener>>

SocketCopy ==
  /\ sPc = "copy"
  /\ sCopy' = vNodes
  /\ sTodo' = vNodes
  /\ node' = AddRefs(vNodes, 1)
  /\ sPc' = "service"
  /\ UNCHANGED <<setting, semOutbound, pnodeSync, messageVars, opener>>

(* Service one socket: nothing special, closed (flood, end of stream, an   *)
(* error, a bad message), or inactive.                                     *)
ServiceSocket(n) ==
  /\ sPc = "service"
  /\ n \in sTodo
  /\ sTodo' = sTodo \ {n}
  /\ \/ UNCHANGED <<node, pnodeSync>>
     \/ CloseSocketDisconnect(n)
     \/ /\ node' = [node EXCEPT ![n].fDisconnect = TRUE]
        /\ UNCHANGED pnodeSync
  /\ UNCHANGED <<setting, semOutbound, sPc, sCopy, messageVars, opener>>

SocketRelease ==
  /\ sPc = "service"
  /\ sTodo = {}
  /\ node' = AddRefs(sCopy, -1)
  /\ sCopy' = {}
  /\ sPc' = "disconnect"
  /\ UNCHANGED <<setting, semOutbound, pnodeSync, sTodo, messageVars, opener>>

-----------------------------------------------------------------------------
(* The message thread.                                                     *)
MessageCopy ==
  /\ mPc = "copy"
  /\ mCopy' = vNodes
  /\ mTodo' = vNodes
  /\ node' = AddRefs(vNodes, 1)
  /\ mPc' = IF pnodeSync \in vNodes THEN "poll" ELSE "startSync"
  /\ UNCHANGED <<semOutbound, pnodeSync, socketVars, pnodeNewSync, opener>>

(* StartSync: the best of the nodes that qualify, if any does.             *)
StartSync ==
  /\ mPc = "startSync"
  /\ \/ /\ pnodeNewSync' \in {n \in mCopy : ~node[n].fDisconnect}
        /\ mPc' = "setSync"
     \/ /\ mPc' = "poll"
        /\ UNCHANGED pnodeNewSync
  /\ UNCHANGED <<node, semOutbound, pnodeSync, socketVars, mCopy, mTodo, opener>>

SetSync ==
  /\ mPc = "setSync"
  /\ node' = [node EXCEPT ![pnodeNewSync].fStartSync = TRUE]
  /\ pnodeSync' = pnodeNewSync
  /\ pnodeNewSync' = None
  /\ mPc' = "poll"
  /\ UNCHANGED <<semOutbound, socketVars, mCopy, mTodo, opener>>

(* Poll one node: ProcessMessages may fail or mark the node; SendMessages  *)
(* starts the block download, if it gets cs_main.                          *)
PollNode(n) ==
  /\ mPc = "poll"
  /\ n \in mTodo
  /\ mTodo' = mTodo \ {n}
  /\ \/ node[n].fDisconnect /\ UNCHANGED <<node, pnodeSync>>
     \/ /\ ~node[n].fDisconnect
        /\ \E failed, marked \in BOOLEAN, start \in {FALSE, node[n].fStartSync} :
             /\ node' = [node EXCEPT ![n].fDisconnect = failed \/ marked,
                                     ![n].fStartSync = start]
             /\ pnodeSync' = IF failed THEN ForgetSync({n}) ELSE pnodeSync
  /\ UNCHANGED <<semOutbound, socketVars, mPc, mCopy, pnodeNewSync, opener>>

MessageRelease ==
  /\ mPc = "poll"
  /\ mTodo = {}
  /\ node' = AddRefs(mCopy, -1)
  /\ mCopy' = {}
  /\ mPc' = "copy"
  /\ UNCHANGED <<semOutbound, pnodeSync, socketVars, mTodo, pnodeNewSync, opener>>

-----------------------------------------------------------------------------
(* A thread that opens connections.  It waits for an outbound slot, ...    *)
WaitSlot(o) ==
  /\ opener[o].pc = "wait"
  /\ semOutbound > 0
  /\ semOutbound' = semOutbound - 1
  /\ opener' = [opener EXCEPT ![o].pc = "choose", ![o].grant = TRUE]
  /\ UNCHANGED <<node, pnodeSync, socketVars, messageVars>>

(* ... and gives it back when the connection is not made.                  *)
GiveUp(o) ==
  /\ opener' = [opener EXCEPT ![o].pc = "wait", ![o].grant = FALSE]
  /\ semOutbound' = semOutbound + 1
  /\ UNCHANGED node

(* OpenNetworkConnection: an address that is not connected in any          *)
(* direction.                                                              *)
OpenNetworkConnection(o) ==
  /\ opener[o].pc = "choose"
  /\ \/ /\ \E a \in Addr :
             /\ \A n \in vNodes : node[n].addr # a
             /\ opener' = [opener EXCEPT ![o].pc = "connect", ![o].addr = a]
        /\ UNCHANGED <<node, semOutbound>>
     \/ GiveUp(o)
  /\ UNCHANGED <<pnodeSync, socketVars, messageVars>>

(* FindNode(CService): an inbound node has another port.                   *)
FindNode(a) == {n \in vNodes : node[n].addr = a /\ ~node[n].fInbound}

(* ConnectNode: a node that another thread connected meanwhile, a new one, *)
(* or none when the peer does not answer.                                  *)
ConnectNode(o) ==
  LET a == opener[o].addr IN
  /\ opener[o].pc = "connect"
  /\ \/ /\ \E n \in FindNode(a) :
             opener' = [opener EXCEPT ![o].pc = "addref", ![o].pnode = n]
        /\ UNCHANGED <<node, semOutbound>>
     \/ /\ FindNode(a) = {}
        /\ \E n \in Node :
             /\ node[n].life = "free"
             /\ node' = [node EXCEPT ![n] = CNode("vNodes", a, FALSE)]
             /\ opener' = [opener EXCEPT ![o].pc = "move", ![o].pnode = n]
        /\ UNCHANGED semOutbound
     \/ FindNode(a) = {} /\ GiveUp(o)
  /\ UNCHANGED <<pnodeSync, socketVars, messageVars>>

(* The object FindNode returned may be gone by now, and what happens then  *)
(* is undefined: the thread stops.  nRefCount is a plain integer and       *)
(* cs_vNodes is not held, so an update by another thread between its read  *)
(* and its write is lost, or this one is.                                  *)
ReadRefCount(o) ==
  LET n == opener[o].pnode IN
  /\ opener[o].pc = "addref"
  /\ node[n].life # "free"
  /\ opener' = [opener EXCEPT ![o].pc = "written", ![o].nRead = node[n].nRefCount]
  /\ UNCHANGED <<node, semOutbound, pnodeSync, socketVars, messageVars>>

AddRefFound(o) ==
  LET n == opener[o].pnode IN
  /\ opener[o].pc = "written"
  /\ node[n].life # "free"
  /\ \/ node' = [node EXCEPT ![n].nRefCount = opener[o].nRead + 1]
     \/ node[n].nRefCount # opener[o].nRead /\ UNCHANGED node
  /\ opener' = [opener EXCEPT ![o].pc = "move", ![o].nRead = 0]
  /\ UNCHANGED <<semOutbound, pnodeSync, socketVars, messageVars>>

(* CSemaphoreGrant::MoveTo: the slot moves to the node, which first gives  *)
(* back one it already has.                                                *)
MoveGrant(o) ==
  LET n == opener[o].pnode IN
  /\ opener[o].pc = "move"
  /\ node[n].life # "free"
  /\ semOutbound' = semOutbound + (IF node[n].grantOutbound THEN 1 ELSE 0)
  /\ node' = [node EXCEPT ![n].grantOutbound = TRUE]
  /\ opener' = [opener EXCEPT ![o].pc = "flag", ![o].grant = FALSE]
  /\ UNCHANGED <<pnodeSync, socketVars, messageVars>>

SetNetworkNode(o) ==
  LET n == opener[o].pnode IN
  /\ opener[o].pc = "flag"
  /\ node[n].life # "free"
  /\ node' = [node EXCEPT ![n].fNetworkNode = TRUE]
  /\ opener' = [opener EXCEPT ![o].pc = "wait", ![o].pnode = None]
  /\ UNCHANGED <<semOutbound, pnodeSync, socketVars, messageVars>>

-----------------------------------------------------------------------------
ThreadSocketHandler ==
  \/ DisconnectNodes
  \/ AcceptConnection
  \/ SocketCopy
  \/ \E n \in Node : ServiceSocket(n)
  \/ SocketRelease

ThreadMessageHandler ==
  /\ "message" \in setting.threads
  /\ \/ MessageCopy
     \/ StartSync
     \/ SetSync
     \/ \E n \in Node : PollNode(n)
     \/ MessageRelease

ThreadOpenConnections(o) ==
  \/ WaitSlot(o)
  \/ OpenNetworkConnection(o)
  \/ ConnectNode(o)
  \/ ReadRefCount(o)
  \/ AddRefFound(o)
  \/ MoveGrant(o)
  \/ SetNetworkNode(o)

NetNext ==
  \/ ThreadSocketHandler
  \/ ThreadMessageHandler
  \/ \E o \in Opener \cap setting.threads : ThreadOpenConnections(o)

NetSpec == NetInit /\ [][NetNext]_netVars

-----------------------------------------------------------------------------
B(b) == IF b THEN 1 ELSE 0
OneOpener == Cardinality(Opener \cap setting.threads) = 1

(* With one thread that opens connections the count of references is       *)
(* exactly the number of its holders: so the assertion nRefCount >= 0 of   *)
(* GetRefCount never fails, and a node is not deleted while the socket or  *)
(* the message thread works on it.                                         *)
RefCounts ==
  OneOpener => \A n \in Node :
     node[n].nRefCount = B(node[n].fOwned) + B(n \in sCopy) + B(n \in mCopy)

(* "wait until threads are done using it" (ThreadSocketHandler2): with one *)
(* thread that opens connections, no thread has a pointer to a deleted     *)
(* node.  With two, ConnectNode may return one FindNode found and that is  *)
(* deleted before its reference is taken.                                  *)
NoUseAfterDelete ==
  OneOpener =>
  /\ \A n \in sCopy \cup mCopy : node[n].life # "free"
  /\ \A o \in Opener : opener[o].pnode # None =>
                         node[opener[o].pnode].life # "free"

(* Every outbound slot is free, with a thread that opens a connection, or  *)
(* with a node: none is lost or counted twice when nodes are connected,    *)
(* found connected, disconnected and deleted.                              *)
SlotsConserved ==
  semOutbound + Cardinality({n \in Node : node[n].grantOutbound})
              + Cardinality({o \in Opener : opener[o].grant})
    = setting.nMaxOutbound

(* With one such thread, a node whose creator's reference was given back   *)
(* is deleted.                                                             *)
DeletedEventually ==
  \A n \in Node :
     OneOpener /\ node[n].life = "disconnected" /\ ~node[n].fOwned
       ~> node[n].life = "free"

(* What the code says of itself, and does not hold.                        *)

(* "release outbound grant (if any)" (ThreadSocketHandler2): a disconnected*)
(* node would have no outbound slot.                                       *)
NoSlotDisconnected == \A n \in vNodesDisconnected : ~node[n].grantOutbound

(* "if this was the sync node, we'll need a new one"                       *)
(* (CNode::CloseSocketDisconnect): a node that has left vNodes would not   *)
(* be the sync node.                                                       *)
SyncNodeConnected == pnodeSync = None \/ pnodeSync \in vNodes

(* Counts, pointers and slots together: what the sockets, the message      *)
(* thread and one opener do to the shared nodes keeps all three.           *)
ReferencesExact == NetTypeOK /\ RefCounts /\ NoUseAfterDelete /\ SlotsConserved
=============================================================================
