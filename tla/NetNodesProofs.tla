--------------------------- MODULE NetNodesProofs ---------------------------
(***************************************************************************)
(* For every number of connections, addresses and threads: the outbound    *)
(* slots are conserved, and with one thread that opens connections the     *)
(* reference counts are exact and no thread has a pointer to a deleted     *)
(* node.                                                                   *)
(***************************************************************************)
EXTENDS NetNodes, FiniteSetTheorems, TLAPS

NodeType ==
  [life : {"free", "vNodes", "disconnected"}, addr : Addr, fInbound : BOOLEAN,
   fNetworkNode : BOOLEAN, fDisconnect : BOOLEAN, grantOutbound : BOOLEAN,
   nRefCount : Int, fStartSync : BOOLEAN, fOwned : BOOLEAN]

Granted == {n \in Node : node[n].grantOutbound}
Holding == {o \in Opener : opener[o].grant}

(* What each thread has at each point of its loop.                         *)
Threads ==
  /\ sPc # "service" => sCopy = {}
  /\ mPc = "copy" => mCopy = {}
  /\ mPc = "setSync" => pnodeNewSync \in mCopy
  /\ \A o \in Opener :
       /\ opener[o].grant <=> opener[o].pc \notin {"wait", "flag"}
       /\ opener[o].pnode \in Node <=> opener[o].pc \in {"addref", "written", "move", "flag"}
       /\ o \notin setting.threads => opener[o].pc = "wait"

(* Free memory holds no slot and no reference; a connected node has the    *)
(* reference of whoever connected it.                                      *)
Memory ==
  \A n \in Node :
    /\ node[n].life = "free" => ~node[n].grantOutbound /\ ~node[n].fOwned
    /\ node[n].life = "vNodes" => node[n].fOwned

(* What one opener alone can rely on: nobody else connects to the address  *)
(* it has chosen, so it never gets a node that exists already, and its new *)
(* node keeps its first reference until fNetworkNode is set.               *)
Alone(o) ==
  /\ opener[o].pc \notin {"addref", "written"}
  /\ opener[o].pc = "connect" =>
       \A n \in vNodes : node[n].addr = opener[o].addr => node[n].fInbound
  /\ opener[o].pc \in {"move", "flag"} =>
       LET p == node[opener[o].pnode]
       IN  p.life # "free" /\ p.fOwned /\ ~p.fNetworkNode /\ ~p.fInbound

InUse == \A n \in sCopy \cup mCopy : node[n].life # "free"

Exact == OneOpener => InUse /\ \A o \in Opener : Alone(o)

(* The inductive invariant.                                                *)
NetIInv == NetTypeOK /\ Threads /\ Memory /\ RefCounts /\ Exact /\ SlotsConserved

-----------------------------------------------------------------------------
(* The sets that the slots are counted over are finite.                    *)
LEMMA CountsFinite ==
  ASSUME NEW S, S \subseteq Node \/ S \subseteq Opener
  PROVE  IsFiniteSet(S) /\ Cardinality(S) \in Nat
BY NetAssumption, FS_Subset, FS_CardinalityType

(* A reference taken leaves an integer in nRefCount.                       *)
LEMMA OneMore == \A i \in Int : i + 1 \in Int
OBVIOUS

(* A slot that changes hands is counted once.                              *)
LEMMA SlotMoves ==
  \A s, g, h \in Nat : /\ (s - 1) + g + (h + 1) = s + g + h
                       /\ (s + 1) + g + (h - 1) = s + g + h
OBVIOUS

(* The types in the form the steps below use them.                         *)
LEMMA NetFacts ==
  ASSUME NetTypeOK
  PROVE  semOutbound \in Nat /\ node \in [Node -> NodeType]
BY DEF NetTypeOK, NodeType

(* One opener is the same as any opener that runs.                         *)
LEMMA OnlyOpener ==
  ASSUME OneOpener, NEW o \in Opener \cap setting.threads,
         NEW p \in Opener \cap setting.threads
  PROVE  o = p
<1>1. IsFiniteSet(Opener \cap setting.threads)
  BY NetAssumption, FS_Intersection, Zenon
<1>2. \E x : Opener \cap setting.threads = {x}
  BY <1>1, FS_Singleton DEF OneOpener
<1>. QED
  BY <1>2

(* A step conserves the slots if it leaves their number as it is.          *)
LEMMA SlotsKept ==
  ASSUME NetTypeOK, SlotsConserved, setting' = setting, semOutbound' \in Nat,
         semOutbound' + Cardinality(Granted') + Cardinality(Holding')
           = semOutbound + Cardinality(Granted) + Cardinality(Holding)
  PROVE  SlotsConserved' /\ semOutbound' \in 0..setting'.nMaxOutbound
<1>1. setting'.nMaxOutbound \in Nat
  BY NetAssumption DEF NetTypeOK
<1>2. semOutbound' + Cardinality(Granted') + Cardinality(Holding') = setting'.nMaxOutbound
  BY DEF SlotsConserved, Granted, Holding
<1>3. Cardinality(Granted') \in Nat /\ Cardinality(Holding') \in Nat
  <2>1. Granted' \subseteq Node /\ Holding' \subseteq Opener
    BY DEF Granted, Holding
  <2>. QED
    BY <2>1, CountsFinite
<1>4. SlotsConserved'
  BY <1>2 DEF SlotsConserved, Granted, Holding
<1>. QED
  BY <1>1, <1>2, <1>3, <1>4

(* A new object, and memory that holds none.                               *)
LEMMA CNodeType ==
  ASSUME NEW a \in Addr, NEW b \in BOOLEAN
  PROVE  /\ CNode("vNodes", a, b) \in NodeType
         /\ Free \in NodeType
         /\ Free.life = "free" /\ ~Free.grantOutbound /\ ~Free.fOwned /\ Free.nRefCount = 0
<1>1. (CHOOSE x \in Addr : TRUE) \in Addr
  BY NetAssumption
<1>2. CNode("vNodes", a, b) \in NodeType
  BY DEF CNode, NodeType
<1>3. \A x \in Addr : CNode("free", x, FALSE) \in NodeType
  BY DEF CNode, NodeType
<1>4. \A x : LET f == CNode("free", x, FALSE)
            IN  f.life = "free" /\ ~f.grantOutbound /\ ~f.fOwned /\ f.nRefCount = 0
  BY Zenon DEF CNode
<1>. QED
  BY <1>1, <1>2, <1>3, <1>4, Zenon DEF Free

(* The first state: no node, every slot free.                              *)
LEMMA NetIInvInit == NetInit => NetIInv
<1>. SUFFICES ASSUME NetInit PROVE NetIInv
  OBVIOUS
<1>0. PICK a \in Addr : TRUE
  BY NetAssumption
<1>1. node \in [Node -> NodeType] /\ \A n \in Node : node[n] = Free
  BY <1>0, CNodeType, Zenon DEF NetInit
<1>2. opener \in [Opener -> OpenerState]
      /\ \A o \in Opener : opener[o].pc = "wait" /\ opener[o].pnode = None /\ ~opener[o].grant
  <2>1. (CHOOSE x \in Addr : TRUE) \in Addr
    BY NetAssumption
  <2>. QED
    BY <2>1 DEF NetInit, OpenerState
<1>3. setting \in Settings /\ setting.nMaxOutbound \in Nat
      /\ semOutbound = setting.nMaxOutbound
  BY NetAssumption DEF NetInit
<1>4. NetTypeOK
  BY <1>1, <1>2, <1>3 DEF NetInit, NetTypeOK, NodeType
<1>5. Threads
  BY <1>2, NetAssumption DEF NetInit, Threads
<1>6. Memory /\ RefCounts
  <2>1. \A n \in Node : /\ node[n].life = "free" /\ ~node[n].grantOutbound
                        /\ ~node[n].fOwned /\ node[n].nRefCount = 0
    BY <1>0, <1>1, CNodeType, Zenon
  <2>2. sCopy = {} /\ mCopy = {}
    BY DEF NetInit
  <2>. QED
    BY <2>1, <2>2 DEF Memory, RefCounts, B
<1>7. Exact
  BY <1>2 DEF NetInit, Exact, InUse, Alone
<1>8. {n \in Node : node[n].grantOutbound} = {} /\ {o \in Opener : opener[o].grant} = {}
  BY <1>0, <1>1, <1>2, CNodeType, Zenon
<1>9. Cardinality({n \in Node : node[n].grantOutbound}) = 0
      /\ Cardinality({o \in Opener : opener[o].grant}) = 0
  BY <1>8, FS_EmptySet, Zenon
<1>10. SlotsConserved
  BY <1>3, <1>9 DEF SlotsConserved
<1>. QED
  BY <1>4, <1>5, <1>6, <1>7, <1>10 DEF NetIInv
-----------------------------------------------------------------------------
(* The disconnecting section: what is left of each node.                   *)
LEMMA DisconnectNodesKeeps ==
  ASSUME NetIInv, DisconnectNodes
  PROVE  NetIInv'
<1>. DEFINE un == Unreferenced
            ds == ToDisconnect
<1>0. /\ NetTypeOK /\ Threads /\ Memory /\ RefCounts /\ Exact /\ SlotsConserved
      /\ node \in [Node -> NodeType]
  BY DEF NetIInv, NetTypeOK, NodeType
<1>1. /\ sPc = "disconnect" /\ sPc' = "accept"
      /\ UNCHANGED <<setting, sCopy, sTodo, messageVars, opener>>
      /\ node' = [n \in Node |-> IF n \in un THEN Free ELSE AfterDisconnect(n)]
      /\ semOutbound' = semOutbound + Cardinality({n \in ds \cup un : node[n].grantOutbound})
      /\ pnodeSync' = ForgetSync(ds)
  BY DEF DisconnectNodes, DisconnectSection
<1>2. \A n \in Node : n \in ds =>
        LET q == AfterDisconnect(n)
            kept == node[n].fNetworkNode \/ node[n].fInbound
        IN  /\ node[n].life = "vNodes"
            /\ q \in NodeType /\ q.life = "disconnected" /\ ~q.grantOutbound
            /\ kept => ~q.fOwned /\ q.nRefCount = node[n].nRefCount - 1
            /\ ~kept => q.fOwned = node[n].fOwned /\ q.nRefCount = node[n].nRefCount
            /\ q.fNetworkNode = node[n].fNetworkNode /\ q.fInbound = node[n].fInbound
  <2>. SUFFICES ASSUME NEW n \in Node, n \in ds
                PROVE  LET q == AfterDisconnect(n)
                           kept == node[n].fNetworkNode \/ node[n].fInbound
                       IN  /\ node[n].life = "vNodes"
                           /\ q \in NodeType /\ q.life = "disconnected" /\ ~q.grantOutbound
                           /\ kept => ~q.fOwned /\ q.nRefCount = node[n].nRefCount - 1
                           /\ ~kept => q.fOwned = node[n].fOwned /\ q.nRefCount = node[n].nRefCount
                           /\ q.fNetworkNode = node[n].fNetworkNode /\ q.fInbound = node[n].fInbound
    BY Zenon
  <2>1. node[n] \in NodeType /\ node[n].life = "vNodes"
    BY <1>0 DEF ToDisconnect, vNodes
  <2>2. AfterDisconnect(n) = Disconnected(n)
    BY DEF AfterDisconnect
  <2>3. CASE node[n].fNetworkNode \/ node[n].fInbound
    <3>1. AfterDisconnect(n)
            = [node[n] EXCEPT !.life = "disconnected", !.grantOutbound = FALSE,
                              !.fDisconnect = TRUE, !.nRefCount = @ - 1, !.fOwned = FALSE]
      BY <2>2, <2>3, Zenon DEF Disconnected
    <3>2. node[n].nRefCount - 1 \in Int
      BY <2>1 DEF NodeType
    <3>3. AfterDisconnect(n) \in NodeType
      BY <2>1, <3>1, <3>2, Zenon DEF NodeType
    <3>4. /\ AfterDisconnect(n).life = "disconnected" /\ ~AfterDisconnect(n).grantOutbound
          /\ ~AfterDisconnect(n).fOwned
          /\ AfterDisconnect(n).nRefCount = node[n].nRefCount - 1
          /\ AfterDisconnect(n).fNetworkNode = node[n].fNetworkNode
          /\ AfterDisconnect(n).fInbound = node[n].fInbound
      BY <2>1, <3>1 DEF NodeType
    <3>. QED
      BY <2>1, <2>3, <3>3, <3>4
  <2>4. CASE ~(node[n].fNetworkNode \/ node[n].fInbound)
    <3>1. AfterDisconnect(n)
            = [node[n] EXCEPT !.life = "disconnected", !.grantOutbound = FALSE,
                              !.fDisconnect = TRUE, !.nRefCount = @, !.fOwned = @]
      BY <2>2, <2>4, Zenon DEF Disconnected
    <3>. QED
      BY <2>1, <2>4, <3>1, Zenon DEF NodeType
  <2>. QED
    BY <2>3, <2>4
<1>3. \A n \in Node : n \notin ds => AfterDisconnect(n) = node[n]
  BY DEF AfterDisconnect
<1>4. \A n \in Node : n \in un <=> /\ AfterDisconnect(n).life = "disconnected"
                                   /\ AfterDisconnect(n).nRefCount <= 0
  BY DEF Unreferenced, DisconnectedThen
<1>5. ds \subseteq Node /\ un \subseteq Node
  BY DEF ToDisconnect, vNodes, Unreferenced, DisconnectedThen
<1>. HIDE DEF un, ds
<1>6. /\ Free \in NodeType /\ Free.life = "free" /\ ~Free.grantOutbound
      /\ ~Free.fOwned /\ Free.nRefCount = 0
  <2>1. PICK a \in Addr : TRUE
    BY NetAssumption
  <2>. QED
    BY <2>1, CNodeType, Zenon
<1>7. node' \in [Node -> NodeType]
  BY <1>0, <1>1, <1>2, <1>3, <1>6
<1>8. SlotsConserved' /\ semOutbound' \in 0..setting'.nMaxOutbound
  <2>1. Granted' = Granted \ (ds \cup un)
    BY <1>1, <1>2, <1>3, <1>6 DEF Granted
  <2>2. {n \in ds \cup un : node[n].grantOutbound} = Granted \cap (ds \cup un)
    BY <1>5 DEF Granted
  <2>3. /\ Granted \subseteq Node /\ Holding \subseteq Opener
        /\ Granted \cap (ds \cup un) \subseteq Node
    BY DEF Granted, Holding
  <2>4. /\ Cardinality(Granted) \in Nat /\ IsFiniteSet(Granted)
        /\ Cardinality(Holding) \in Nat
        /\ Cardinality(Granted \cap (ds \cup un)) \in Nat
    BY <2>3, CountsFinite
  <2>5. Cardinality(Granted') = Cardinality(Granted) - Cardinality(Granted \cap (ds \cup un))
    BY <2>1, <2>4, FS_Difference, Zenon
  <2>6. semOutbound' = semOutbound + Cardinality(Granted \cap (ds \cup un))
    BY <1>1, <2>2, Zenon
  <2>7. Holding' = Holding
    BY <1>1 DEF Holding
  <2>8. semOutbound \in Nat
    BY <1>0 DEF NetTypeOK
  <2>. QED
    BY <1>0, <1>1, <2>4, <2>5, <2>6, <2>7, <2>8, SlotsKept
<1>9. NetTypeOK'
  <2>1. pnodeSync' \in Node \cup {None}
    BY <1>0, <1>1 DEF ForgetSync, NetTypeOK
  <2>. QED
    BY <1>0, <1>1, <1>7, <1>8, <2>1 DEF NetTypeOK, NodeType, messageVars
<1>10. Threads'
  BY <1>0, <1>1 DEF Threads, messageVars
<1>11. Memory'
  BY <1>0, <1>1, <1>2, <1>3, <1>6 DEF Memory
<1>12. ASSUME OneOpener
       PROVE  /\ \A n \in Node : node'[n].nRefCount
                   = B(node'[n].fOwned) + B(n \in sCopy) + B(n \in mCopy)
              /\ \A n \in Node : n \in un => n \notin sCopy \cup mCopy /\ ~AfterDisconnect(n).fOwned
  <2>1. \A n \in Node : AfterDisconnect(n).nRefCount
                          = B(AfterDisconnect(n).fOwned) + B(n \in sCopy) + B(n \in mCopy)
    BY <1>0, <1>2, <1>3, <1>12 DEF RefCounts, B, Memory, NodeType
  <2>2. \A n \in Node : n \in un => n \notin sCopy \cup mCopy /\ ~AfterDisconnect(n).fOwned
    BY <1>4, <2>1 DEF B
  <2>. QED
    BY <1>1, <1>6, <2>1, <2>2 DEF B
<1>13. OneOpener' = OneOpener
  BY <1>1 DEF OneOpener
<1>14. RefCounts'
  BY <1>1, <1>12, <1>13 DEF RefCounts, messageVars
<1>15. ASSUME OneOpener PROVE InUse'
  BY <1>0, <1>1, <1>2, <1>3, <1>12, <1>15 DEF Exact, InUse, NetTypeOK, messageVars
<1>16. ASSUME OneOpener, NEW o \in Opener PROVE Alone(o)'
  <2>1. Alone(o) /\ opener' = opener
    BY <1>0, <1>1, <1>16 DEF Exact
  <2>2. ASSUME opener[o].pc = "connect", NEW n \in Node, node'[n].life = "vNodes",
               node'[n].addr = opener[o].addr
        PROVE  node'[n].fInbound
    BY <1>1, <1>2, <1>3, <1>6, <2>1, <2>2 DEF Alone, vNodes
  <2>3. ASSUME opener[o].pc \in {"move", "flag"}
        PROVE  LET p == node'[opener[o].pnode]
               IN  p.life # "free" /\ p.fOwned /\ ~p.fNetworkNode /\ ~p.fInbound
    <3>1. opener[o].pnode \in Node
      BY <1>0, <2>3 DEF Threads
    <3>2. LET p == node[opener[o].pnode]
          IN  p.life # "free" /\ p.fOwned /\ ~p.fNetworkNode /\ ~p.fInbound
      BY <2>1, <2>3 DEF Alone
    <3>3. AfterDisconnect(opener[o].pnode).fOwned
      BY <1>2, <1>3, <3>1, <3>2
    <3>4. opener[o].pnode \notin un
      BY <1>12, <1>16, <3>1, <3>3
    <3>. QED
      BY <1>1, <1>2, <1>3, <3>1, <3>2, <3>3, <3>4
  <2>. QED
    BY <2>1, <2>2, <2>3 DEF Alone, vNodes
<1>17. Exact'
  BY <1>13, <1>15, <1>16 DEF Exact
<1>. QED
  BY <1>8, <1>9, <1>10, <1>11, <1>14, <1>17 DEF NetIInv
-----------------------------------------------------------------------------
(* Steps of the socket and the message thread that change no more of a     *)
(* node than its flags and its count of references.                        *)
Fixed(p) == <<p.life, p.addr, p.fInbound, p.fNetworkNode, p.grantOutbound, p.fOwned>>

(* Such a step keeps the slots and what the openers rely on.               *)
LEMMA FixedKeeps ==
  ASSUME NetIInv, \A n \in Node : Fixed(node'[n]) = Fixed(node[n]),
         UNCHANGED <<setting, semOutbound, opener>>,
         NetTypeOK', Threads', RefCounts', OneOpener => InUse'
  PROVE  NetIInv'
<1>1. \A n \in Node : /\ node'[n].life = node[n].life /\ node'[n].addr = node[n].addr
                      /\ node'[n].fInbound = node[n].fInbound
                      /\ node'[n].fNetworkNode = node[n].fNetworkNode
                      /\ node'[n].grantOutbound = node[n].grantOutbound
                      /\ node'[n].fOwned = node[n].fOwned
  BY DEF Fixed
<1>2. Granted' = Granted /\ Holding' = Holding
  BY <1>1 DEF Granted, Holding
<1>3. SlotsConserved'
  BY <1>2, Zenon DEF SlotsConserved, Granted, Holding, NetIInv
<1>4. Memory'
  BY <1>1 DEF Memory, NetIInv
<1>5. OneOpener' = OneOpener
  BY DEF OneOpener
<1>6. ASSUME OneOpener, NEW o \in Opener PROVE Alone(o)'
  <2>1. Alone(o) /\ Threads
    BY <1>6 DEF NetIInv, Exact
  <2>2. opener[o].pc \in {"move", "flag"} => opener[o].pnode \in Node
    BY <2>1 DEF Threads
  <2>. QED
    BY <1>1, <2>1, <2>2 DEF Alone, vNodes
<1>. QED
  BY <1>3, <1>4, <1>5, <1>6 DEF NetIInv, Exact

(* AddRef or Release of every node of a set.                               *)
LEMMA AddRefsIs ==
  ASSUME node \in [Node -> NodeType], NEW S, NEW d \in Int
  PROVE  /\ AddRefs(S, d) \in [Node -> NodeType]
         /\ \A n \in Node : /\ Fixed(AddRefs(S, d)[n]) = Fixed(node[n])
                            /\ AddRefs(S, d)[n].nRefCount
                                 = node[n].nRefCount + (IF n \in S THEN d ELSE 0)
<1>. DEFINE r == AddRefs(S, d)
<1>1. ASSUME NEW n \in Node
      PROVE  /\ r[n] \in NodeType /\ Fixed(r[n]) = Fixed(node[n])
             /\ r[n].nRefCount = node[n].nRefCount + (IF n \in S THEN d ELSE 0)
  <2>1. node[n] \in NodeType /\ node[n].nRefCount \in Int
    BY DEF NodeType
  <2>2. CASE n \in S
    <3>1. r[n] = [node[n] EXCEPT !.nRefCount = node[n].nRefCount + d]
      BY <2>2 DEF AddRefs
    <3>2. node[n].nRefCount + d \in Int
      BY <2>1
    <3>. QED
      BY <2>1, <2>2, <3>1, <3>2 DEF NodeType, Fixed
  <2>3. CASE n \notin S
    <3>1. r[n] = node[n]
      BY <2>3 DEF AddRefs
    <3>. QED
      BY <2>1, <2>3, <3>1
  <2>. QED
    BY <2>2, <2>3
<1>2. r = [n \in Node |-> r[n]]
  BY DEF AddRefs
<1>3. r \in [Node -> NodeType]
  <2>. HIDE DEF r
  <2>. QED
    BY <1>1, <1>2
<1>. QED
  BY <1>1, <1>3

(* Both threads copy vNodes with a reference to each of its nodes, and     *)
(* give these references back when they are done with them.                *)
LEMMA CopyKeeps ==
  ASSUME NetIInv, SocketCopy \/ SocketRelease \/ MessageCopy \/ MessageRelease
  PROVE  NetIInv'
<1>0. /\ NetTypeOK /\ Threads /\ RefCounts /\ Exact
      /\ node \in [Node -> NodeType]
  BY DEF NetIInv, NetTypeOK, NodeType
<1>1. vNodes \subseteq Node /\ 1 \in Int /\ -1 \in Int
  BY DEF vNodes
<1>2. ASSUME NEW S, NEW d \in Int, node' = AddRefs(S, d),
             UNCHANGED <<setting, semOutbound, opener>>,
             sPc' \in {"disconnect", "accept", "copy", "service"},
             mPc' \in {"copy", "startSync", "setSync", "poll"},
             sTodo' \subseteq sCopy', sCopy' \subseteq Node,
             mTodo' \subseteq mCopy', mCopy' \subseteq Node,
             pnodeSync' = pnodeSync, pnodeNewSync' = pnodeNewSync, Threads',
             \A n \in sCopy' : n \in sCopy \/ n \in vNodes,
             \A n \in mCopy' : n \in mCopy \/ n \in vNodes,
             \A n \in Node : B(n \in sCopy') + B(n \in mCopy')
                               = B(n \in sCopy) + B(n \in mCopy) + (IF n \in S THEN d ELSE 0)
      PROVE  NetIInv'
  <2>1. /\ node' \in [Node -> NodeType] /\ \A n \in Node : Fixed(node'[n]) = Fixed(node[n])
        /\ \A n \in Node : node'[n].nRefCount
                             = node[n].nRefCount + (IF n \in S THEN d ELSE 0)
    BY <1>0, <1>2, AddRefsIs
  <2>2. NetTypeOK'
    BY <1>0, <1>2, <2>1 DEF NetTypeOK, NodeType
  <2>3. \A n \in Node : node'[n].fOwned = node[n].fOwned /\ node'[n].life = node[n].life
    BY <2>1 DEF Fixed
  <2>4. OneOpener' = OneOpener
    BY <1>2 DEF OneOpener
  <2>5. RefCounts'
    <3>. SUFFICES ASSUME OneOpener, NEW n \in Node
                  PROVE  node'[n].nRefCount
                           = B(node'[n].fOwned) + B(n \in sCopy') + B(n \in mCopy')
      BY <2>4 DEF RefCounts
    <3>1. node[n].nRefCount = B(node[n].fOwned) + B(n \in sCopy) + B(n \in mCopy)
      BY <1>0 DEF RefCounts
    <3>2. \A b : B(b) \in Int
      BY DEF B
    <3>3. B(n \in sCopy') + B(n \in mCopy')
            = B(n \in sCopy) + B(n \in mCopy) + (IF n \in S THEN d ELSE 0)
      BY <1>2
    <3>. QED
      BY <1>2, <2>1, <2>3, <3>1, <3>2, <3>3
  <2>6. ASSUME OneOpener PROVE InUse'
    BY <1>0, <1>2, <2>3, <2>6 DEF Exact, InUse, vNodes
  <2>. QED
    BY <1>2, <2>1, <2>2, <2>5, <2>6, FixedKeeps
<1>3. CASE SocketCopy
  <2>1. sCopy = {} /\ sCopy' = vNodes /\ mCopy' = mCopy
    BY <1>0, <1>3 DEF SocketCopy, Threads, messageVars
  <2>2. \A n \in Node : B(n \in sCopy') + B(n \in mCopy')
           = B(n \in sCopy) + B(n \in mCopy) + (IF n \in vNodes THEN 1 ELSE 0)
    BY <2>1 DEF B
  <2>3. Threads'
    BY <1>0, <1>3 DEF SocketCopy, Threads, messageVars
  <2>. QED
    BY <1>0, <1>1, <1>2, <1>3, <2>1, <2>2, <2>3 DEF SocketCopy, NetTypeOK, messageVars
<1>4. CASE SocketRelease
  <2>1. sCopy' = {} /\ mCopy' = mCopy
    BY <1>4 DEF SocketRelease, messageVars
  <2>2. \A n \in Node : B(n \in sCopy') + B(n \in mCopy')
           = B(n \in sCopy) + B(n \in mCopy) + (IF n \in sCopy THEN -1 ELSE 0)
    BY <2>1 DEF B
  <2>3. Threads'
    BY <1>0, <1>4 DEF SocketRelease, Threads, messageVars
  <2>. QED
    BY <1>0, <1>1, <1>2, <1>4, <2>1, <2>2, <2>3 DEF SocketRelease, NetTypeOK, messageVars
<1>5. CASE MessageCopy
  <2>1. mCopy = {} /\ mCopy' = vNodes /\ sCopy' = sCopy
    BY <1>0, <1>5 DEF MessageCopy, Threads, socketVars
  <2>2. \A n \in Node : B(n \in sCopy') + B(n \in mCopy')
           = B(n \in sCopy) + B(n \in mCopy) + (IF n \in vNodes THEN 1 ELSE 0)
    BY <2>1 DEF B
  <2>3. Threads'
    BY <1>0, <1>5 DEF MessageCopy, Threads, socketVars
  <2>. QED
    BY <1>0, <1>1, <1>2, <1>5, <2>1, <2>2, <2>3 DEF MessageCopy, NetTypeOK, socketVars
<1>6. CASE MessageRelease
  <2>1. mCopy' = {} /\ sCopy' = sCopy
    BY <1>6 DEF MessageRelease, socketVars
  <2>2. \A n \in Node : B(n \in sCopy') + B(n \in mCopy')
           = B(n \in sCopy) + B(n \in mCopy) + (IF n \in mCopy THEN -1 ELSE 0)
    BY <2>1 DEF B
  <2>3. Threads'
    BY <1>0, <1>6 DEF MessageRelease, Threads, socketVars
  <2>. QED
    BY <1>0, <1>1, <1>2, <1>6, <2>1, <2>2, <2>3 DEF MessageRelease, NetTypeOK, socketVars
<1>. QED
  BY <1>3, <1>4, <1>5, <1>6

(* Servicing a socket, polling a node and choosing the sync node change    *)
(* flags only.                                                             *)
LEMMA FlagsKeep ==
  ASSUME NetIInv,
         \/ StartSync \/ SetSync
         \/ \E n \in Node : ServiceSocket(n) \/ PollNode(n)
  PROVE  NetIInv'
<1>0. NetTypeOK /\ Threads /\ RefCounts /\ Exact /\ node \in [Node -> NodeType]
  BY DEF NetIInv, NetTypeOK, NodeType
<1>1. UNCHANGED <<setting, semOutbound, opener, sCopy, mCopy>>
  BY Zenon DEF StartSync, SetSync, ServiceSocket, PollNode, socketVars, messageVars
<1>2. /\ node' \in [Node -> NodeType]
      /\ \A n \in Node : /\ Fixed(node'[n]) = Fixed(node[n])
                         /\ node'[n].nRefCount = node[n].nRefCount
  <2>1. \/ node' = node
        \/ \E m \in Node, a, b \in BOOLEAN :
             node' = [node EXCEPT ![m].fDisconnect = a, ![m].fStartSync = b]
    <3>1. \A m \in Node : /\ node[m].fDisconnect \in BOOLEAN
                          /\ node[m].fStartSync \in BOOLEAN
      BY <1>0 DEF NodeType
    <3>2. CASE StartSync
      BY <3>2 DEF StartSync
    <3>3. CASE SetSync
      <4>1. pnodeNewSync \in Node /\ node' = [node EXCEPT ![pnodeNewSync].fStartSync = TRUE]
        BY <1>0, <3>3 DEF SetSync, Threads, NetTypeOK
      <4>2. node' = [node EXCEPT ![pnodeNewSync].fDisconnect = node[pnodeNewSync].fDisconnect,
                                 ![pnodeNewSync].fStartSync = TRUE]
        BY <1>0, <4>1 DEF NodeType
      <4>. QED
        BY <3>1, <4>1, <4>2
    <3>4. ASSUME NEW m \in Node, ServiceSocket(m) PROVE <2>1!1 \/ <2>1!2
      <4>1. node' = node \/ node' = [node EXCEPT ![m].fDisconnect = TRUE]
        BY <3>4 DEF ServiceSocket, CloseSocketDisconnect
      <4>2. [node EXCEPT ![m].fDisconnect = TRUE]
              = [node EXCEPT ![m].fDisconnect = TRUE, ![m].fStartSync = node[m].fStartSync]
        BY <1>0 DEF NodeType
      <4>. QED
        BY <3>1, <4>1, <4>2
    <3>5. ASSUME NEW m \in Node, PollNode(m) PROVE <2>1!1 \/ <2>1!2
      <4>1. CASE node' = node
        BY <4>1
      <4>2. ASSUME NEW failed \in BOOLEAN, NEW marked \in BOOLEAN,
                   NEW start \in {FALSE, node[m].fStartSync},
                   node' = [node EXCEPT ![m].fDisconnect = failed \/ marked,
                                        ![m].fStartSync = start]
            PROVE  <2>1!2
        <5>1. (failed \/ marked) \in BOOLEAN
          OBVIOUS
        <5>2. start \in BOOLEAN
          BY <3>1
        <5>. QED
          BY <4>2, <5>1, <5>2, Zenon
      <4>. QED
        BY <3>5, <4>1, <4>2, Zenon DEF PollNode
    <3>. QED
      BY <3>2, <3>3, <3>4, <3>5, Zenon
  <2>2. CASE node' = node
    BY <1>0, <2>2
  <2>3. ASSUME NEW m \in Node, NEW a \in BOOLEAN, NEW b \in BOOLEAN,
               node' = [node EXCEPT ![m].fDisconnect = a, ![m].fStartSync = b]
        PROVE  <1>2!1 /\ <1>2!2
    <3>. DEFINE q == [node[m] EXCEPT !.fDisconnect = a, !.fStartSync = b]
    <3>1. node' = [node EXCEPT ![m] = q]
      BY <1>0, <2>3, Zenon
    <3>2. node[m] \in NodeType
      BY <1>0
    <3>3. q \in NodeType /\ Fixed(q) = Fixed(node[m]) /\ q.nRefCount = node[m].nRefCount
      BY <3>2, Zenon DEF NodeType, Fixed
    <3>. HIDE DEF q
    <3>4. node' \in [Node -> NodeType]
      BY <1>0, <3>1, <3>3
    <3>5. node'[m] = q /\ \A n \in Node \ {m} : node'[n] = node[n]
      BY <1>0, <3>1
    <3>. QED
      BY <3>3, <3>4, <3>5
  <2>4. CASE <2>1!2
    <3>1. PICK m \in Node, a, b \in BOOLEAN :
            node' = [node EXCEPT ![m].fDisconnect = a, ![m].fStartSync = b]
      BY <2>4, Zenon
    <3>. QED
      BY <2>3, <3>1, Zenon
  <2>. QED
    BY <2>1, <2>2, <2>4, Zenon
<1>3. /\ pnodeSync' \in Node \cup {None} /\ pnodeNewSync' \in Node \cup {None}
      /\ /\ sPc' = sPc /\ mPc' \in {"copy", "startSync", "setSync", "poll"}
         /\ sTodo' \subseteq sCopy /\ mTodo' \subseteq mCopy
         /\ mPc' = "copy" => mPc = "copy"
         /\ mPc' = "setSync" => pnodeNewSync' \in mCopy
  <2>1. \A S : ForgetSync(S) \in Node \cup {None}
    BY <1>0 DEF ForgetSync, NetTypeOK
  <2>2. CASE StartSync
    BY <1>0, <2>2 DEF StartSync, socketVars, NetTypeOK, Threads
  <2>3. CASE SetSync
    BY <1>0, <2>3 DEF SetSync, socketVars, NetTypeOK, Threads
  <2>4. ASSUME NEW n \in Node, ServiceSocket(n) PROVE <1>3!1 /\ <1>3!2
    <3>1. sTodo' \subseteq sTodo /\ UNCHANGED <<sPc, mPc, mTodo, pnodeNewSync>>
      BY <2>4 DEF ServiceSocket, messageVars
    <3>2. pnodeSync' \in Node \cup {None}
      BY <1>0, <2>1, <2>4 DEF ServiceSocket, CloseSocketDisconnect, NetTypeOK
    <3>. QED
      BY <1>0, <3>1, <3>2 DEF NetTypeOK, Threads
  <2>5. ASSUME NEW n \in Node, PollNode(n) PROVE <1>3!1 /\ <1>3!2
    <3>1. mTodo' \subseteq mTodo /\ UNCHANGED <<sPc, mPc, sTodo, pnodeNewSync>>
      BY <2>5, Zenon DEF PollNode, socketVars
    <3>2. pnodeSync' \in Node \cup {None}
      <4>1. pnodeSync' = pnodeSync \/ pnodeSync' = ForgetSync({n})
        BY <2>5, Zenon DEF PollNode
      <4>. QED
        BY <1>0, <2>1, <4>1 DEF NetTypeOK
    <3>. QED
      BY <1>0, <3>1, <3>2 DEF NetTypeOK, Threads
  <2>. QED
    BY <2>2, <2>3, <2>4, <2>5
<1>4. NetTypeOK'
  BY <1>0, <1>1, <1>2, <1>3 DEF NetTypeOK, NodeType
<1>5. Threads'
  BY <1>0, <1>1, <1>3 DEF Threads
<1>6. \A n \in Node : node'[n].fOwned = node[n].fOwned /\ node'[n].life = node[n].life
  BY <1>2 DEF Fixed
<1>7. RefCounts'
  BY <1>0, <1>1, <1>2, <1>6 DEF RefCounts, OneOpener
<1>8. ASSUME OneOpener PROVE InUse'
  BY <1>0, <1>1, <1>6, <1>8 DEF Exact, InUse, NetTypeOK
<1>. QED
  BY <1>1, <1>2, <1>4, <1>5, <1>7, <1>8, FixedKeeps
-----------------------------------------------------------------------------
(* A new node takes free memory: nobody has a reference to it or a slot    *)
(* there.                                                                  *)
LEMMA NewNode ==
  ASSUME NetIInv, NEW n \in Node, node[n].life = "free", NEW a \in Addr, NEW b \in BOOLEAN,
         node' = [node EXCEPT ![n] = CNode("vNodes", a, b)],
         UNCHANGED <<setting, sCopy, mCopy>>
  PROVE  /\ node' \in [Node -> NodeType] /\ Granted' = Granted /\ Memory' /\ RefCounts'
         /\ OneOpener => InUse'
         /\ node'[n].life = "vNodes" /\ node'[n].addr = a /\ node'[n].fInbound = b
         /\ node'[n].fOwned /\ ~node'[n].fNetworkNode
         /\ \A m \in Node : m # n => node'[m] = node[m]
<1>0. NetTypeOK /\ Memory /\ RefCounts /\ Exact /\ node \in [Node -> NodeType]
  BY DEF NetIInv, NetTypeOK, NodeType
<1>1. /\ node'[n] = CNode("vNodes", a, b) /\ node' \in [Node -> NodeType]
      /\ \A m \in Node : m # n => node'[m] = node[m]
  BY <1>0, CNodeType
<1>2. /\ node'[n].life = "vNodes" /\ node'[n].addr = a /\ node'[n].fInbound = b
      /\ node'[n].fOwned /\ ~node'[n].fNetworkNode /\ ~node'[n].grantOutbound
      /\ node'[n].nRefCount = 1
  BY <1>1, Zenon DEF CNode
<1>3. ~node[n].grantOutbound /\ ~node[n].fOwned
  BY <1>0 DEF Memory
<1>4. Granted' = Granted
  BY <1>1, <1>2, <1>3 DEF Granted
<1>5. Memory'
  BY <1>0, <1>1, <1>2 DEF Memory
<1>6. OneOpener' = OneOpener
  BY DEF OneOpener
<1>7. ASSUME OneOpener PROVE n \notin sCopy /\ n \notin mCopy
  BY <1>0, <1>7 DEF Exact, InUse
<1>8. RefCounts'
  <2>. SUFFICES ASSUME OneOpener, NEW m \in Node
                PROVE  node'[m].nRefCount = B(node'[m].fOwned) + B(m \in sCopy) + B(m \in mCopy)
    BY <1>6 DEF RefCounts
  <2>1. CASE m = n
    BY <1>2, <1>7, <2>1 DEF B
  <2>2. CASE m # n
    BY <1>0, <1>1, <2>2 DEF RefCounts
  <2>. QED
    BY <2>1, <2>2
<1>9. ASSUME OneOpener PROVE InUse'
  BY <1>0, <1>1, <1>2, <1>9 DEF Exact, InUse, NetTypeOK
<1>. QED
  BY <1>1, <1>2, <1>4, <1>5, <1>8, <1>9

(* Accepting a connection: the new node is an inbound one, which FindNode  *)
(* does not find.                                                          *)
LEMMA AcceptKeeps ==
  ASSUME NetIInv, AcceptConnection
  PROVE  NetIInv'
<1>0. NetTypeOK /\ Threads /\ Memory /\ RefCounts /\ Exact /\ SlotsConserved
  BY DEF NetIInv
<1>1. /\ sPc = "accept" /\ sPc' = "copy"
      /\ UNCHANGED <<setting, semOutbound, pnodeSync, sCopy, sTodo, messageVars, opener>>
  BY DEF AcceptConnection
<1>2. Threads' /\ Holding' = Holding /\ OneOpener' = OneOpener
  BY <1>0, <1>1 DEF Threads, Holding, OneOpener, messageVars
<1>3. CASE node' = node
  <2>1. NetTypeOK' /\ Memory' /\ SlotsConserved'
    BY <1>0, <1>1, <1>3 DEF NetTypeOK, Memory, SlotsConserved, messageVars
  <2>2. RefCounts' /\ Exact'
    BY <1>0, <1>1, <1>2, <1>3 DEF RefCounts, Exact, InUse, Alone, vNodes, messageVars
  <2>. QED
    BY <1>2, <2>1, <2>2 DEF NetIInv
<1>4. ASSUME NEW n \in Node, NEW a \in Addr, node[n].life = "free",
             node' = [node EXCEPT ![n] = CNode("vNodes", a, TRUE)]
      PROVE  NetIInv'
  <2>1. UNCHANGED <<setting, sCopy, mCopy>> /\ TRUE \in BOOLEAN
    BY <1>1 DEF messageVars
  <2>2. /\ node' \in [Node -> NodeType] /\ Granted' = Granted /\ Memory' /\ RefCounts'
        /\ OneOpener => InUse'
        /\ node'[n].fInbound = TRUE
        /\ \A m \in Node : m # n => node'[m] = node[m]
    BY <1>4, <2>1, NewNode, Zenon
  <2>3. NetTypeOK'
    BY <1>0, <1>1, <2>2 DEF NetTypeOK, NodeType, messageVars
  <2>4. SlotsConserved'
    BY <1>0, <1>1, <1>2, <2>2, Zenon DEF SlotsConserved, Granted, Holding
  <2>5. ASSUME OneOpener, NEW o \in Opener PROVE Alone(o)'
    <3>1. Alone(o) /\ opener' = opener
      BY <1>0, <1>1, <2>5 DEF Exact
    <3>2. opener[o].pc \in {"move", "flag"} => opener[o].pnode \in Node /\ opener[o].pnode # n
      BY <1>0, <1>4, <3>1 DEF Threads, Alone
    <3>. QED
      BY <2>2, <3>1, <3>2 DEF Alone, vNodes
  <2>. QED
    BY <1>2, <2>2, <2>3, <2>4, <2>5 DEF NetIInv, Exact
<1>. QED
  BY <1>3, <1>4, Zenon DEF AcceptConnection

-----------------------------------------------------------------------------
(* One opener is the only one that does not wait.                          *)
LEMMA OthersWait ==
  ASSUME NetIInv, OneOpener, NEW o \in Opener \cap setting.threads, NEW p \in Opener, p # o
  PROVE  opener[p].pc = "wait"
BY OnlyOpener DEF NetIInv, Threads

(* A step of an opener.                                                    *)
LEMMA OpenerKeeps ==
  ASSUME NetIInv, NEW o \in Opener \cap setting.threads, NEW s \in OpenerState,
         opener' = [opener EXCEPT ![o] = s],
         s.grant <=> s.pc \notin {"wait", "flag"},
         s.pnode \in Node <=> s.pc \in {"addref", "written", "move", "flag"},
         UNCHANGED <<pnodeSync, socketVars, messageVars>>,
         node' \in [Node -> NodeType], semOutbound' \in Nat,
         semOutbound' + Cardinality(Granted') + Cardinality(Holding')
           = semOutbound + Cardinality(Granted) + Cardinality(Holding),
         Memory', RefCounts', OneOpener => InUse' /\ Alone(o)'
  PROVE  NetIInv'
<1>0. NetTypeOK /\ Threads /\ Exact /\ SlotsConserved
  BY DEF NetIInv
<1>1. UNCHANGED <<setting, sPc, sCopy, sTodo, mPc, mCopy, mTodo, pnodeNewSync, pnodeSync>>
  BY DEF socketVars, messageVars
<1>2. opener \in [Opener -> OpenerState] /\ o \in Opener
  BY <1>0 DEF NetTypeOK
<1>3. /\ opener' \in [Opener -> OpenerState] /\ opener'[o] = s
      /\ \A p \in Opener : p # o => opener'[p] = opener[p]
  BY <1>2
<1>4. SlotsConserved' /\ semOutbound' \in 0..setting'.nMaxOutbound
  BY <1>0, <1>1, SlotsKept
<1>5. NetTypeOK'
  BY <1>0, <1>1, <1>3, <1>4 DEF NetTypeOK, NodeType
<1>6. Threads'
  BY <1>0, <1>1, <1>3 DEF Threads
<1>7. OneOpener' = OneOpener
  BY <1>1, Zenon DEF OneOpener
<1>8. ASSUME OneOpener, NEW p \in Opener, p # o PROVE Alone(p)'
  <2>1. opener'[p].pc = "wait"
    BY <1>3, <1>8, OthersWait
  <2>. QED
    BY <2>1 DEF Alone
<1>9. Exact'
  BY <1>7, <1>8 DEF Exact
<1>. QED
  BY <1>4, <1>5, <1>6, <1>9 DEF NetIInv

(* What a step of an opener that changes no node leaves as it is.          *)
LEMMA SameNodes ==
  ASSUME NetIInv, UNCHANGED <<node, pnodeSync, socketVars, messageVars>>
  PROVE  /\ node' \in [Node -> NodeType] /\ Granted' = Granted
         /\ Memory' /\ RefCounts' /\ (OneOpener => InUse')
<1>1. UNCHANGED <<setting, sCopy, mCopy>>
  BY DEF socketVars, messageVars
<1>2. node' \in [Node -> NodeType]
  BY DEF NetIInv, NetTypeOK, NodeType
<1>3. Granted' = Granted /\ Memory'
  BY DEF NetIInv, Granted, Memory
<1>. QED
  BY <1>1, <1>2, <1>3 DEF NetIInv, RefCounts, OneOpener, Exact, InUse

(* An opener takes a slot, or has one and gives it away.                   *)
LEMMA HoldingIs ==
  ASSUME NetTypeOK, NEW o \in Opener, NEW s \in OpenerState, opener' = [opener EXCEPT ![o] = s]
  PROVE  /\ s.grant = opener[o].grant => Holding' = Holding
         /\ s.grant /\ ~opener[o].grant => Cardinality(Holding') = Cardinality(Holding) + 1
         /\ ~s.grant /\ opener[o].grant => Cardinality(Holding') = Cardinality(Holding) - 1
         /\ Cardinality(Holding) \in Nat /\ Cardinality(Granted) \in Nat
<1>1. opener'[o] = s /\ \A p \in Opener : p # o => opener'[p] = opener[p]
  BY DEF NetTypeOK
<1>2. s.grant \in BOOLEAN /\ \A p \in Opener : opener[p].grant \in BOOLEAN
  BY DEF NetTypeOK, OpenerState
<1>3. /\ s.grant = opener[o].grant => Holding' = Holding
      /\ s.grant => Holding' = Holding \cup {o}
      /\ ~s.grant => Holding' = Holding \ {o}
      /\ o \in Holding <=> opener[o].grant
  BY <1>1, <1>2 DEF Holding
<1>4. Holding \subseteq Opener /\ Granted \subseteq Node
  BY DEF Holding, Granted
<1>5. IsFiniteSet(Holding) /\ Cardinality(Holding) \in Nat /\ Cardinality(Granted) \in Nat
  BY <1>4, CountsFinite
<1>6. /\ Cardinality(Holding \cup {o})
           = IF o \in Holding THEN Cardinality(Holding) ELSE Cardinality(Holding) + 1
      /\ Cardinality(Holding \ {o})
           = IF o \in Holding THEN Cardinality(Holding) - 1 ELSE Cardinality(Holding)
  BY <1>5, FS_AddElement, FS_RemoveElement, Zenon
<1>. QED
  BY <1>3, <1>5, <1>6
(* Waiting for a slot, choosing an address, and giving the slot back.      *)
LEMMA SlotKeeps ==
  ASSUME NetIInv, NEW o \in Opener \cap setting.threads,
         WaitSlot(o) \/ OpenNetworkConnection(o)
  PROVE  NetIInv'
<1>0. NetTypeOK /\ Threads /\ Exact /\ o \in Opener /\ opener[o] \in OpenerState
      /\ semOutbound \in Nat
  BY DEF NetIInv, NetTypeOK
<1>1. UNCHANGED <<node, pnodeSync, socketVars, messageVars>>
  BY DEF WaitSlot, OpenNetworkConnection, GiveUp
<1>2. /\ node' \in [Node -> NodeType] /\ Granted' = Granted
      /\ Memory' /\ RefCounts' /\ (OneOpener => InUse')
  BY <1>1, SameNodes
<1>3. opener[o].pnode = None /\ (opener[o].grant <=> opener[o].pc # "wait")
      /\ opener[o].pc \in {"wait", "choose"}
  BY <1>0 DEF Threads, OpenerState, WaitSlot, OpenNetworkConnection
<1>4. CASE WaitSlot(o)
  <2>. DEFINE s == [opener[o] EXCEPT !.pc = "choose", !.grant = TRUE]
  <2>0. opener' = [opener EXCEPT ![o] = s] /\ opener[o].pc = "wait"
        /\ semOutbound' = semOutbound - 1 /\ semOutbound > 0
    BY <1>0, <1>4, Zenon DEF WaitSlot, NetTypeOK
  <2>1. semOutbound' \in Nat /\ ~opener[o].grant
    BY <1>0, <1>3, <2>0
  <2>2. s \in OpenerState /\ s.grant /\ s.pc = "choose" /\ s.pnode = None
    BY <1>0, <1>3, Zenon DEF OpenerState
  <2>. HIDE DEF s
  <2>3. Cardinality(Holding') = Cardinality(Holding) + 1
        /\ Cardinality(Holding) \in Nat /\ Cardinality(Granted) \in Nat
    BY <1>0, <2>0, <2>1, <2>2, HoldingIs, Zenon
  <2>4. opener'[o] = s
    BY <1>0, <2>0 DEF NetTypeOK
  <2>5. Alone(o)'
    BY <2>2, <2>4 DEF Alone
  <2>6. semOutbound' + Cardinality(Granted') + Cardinality(Holding')
          = semOutbound + Cardinality(Granted) + Cardinality(Holding)
    <3>1. semOutbound \in Nat /\ Granted' = Granted /\ semOutbound' = semOutbound - 1
      BY <1>0, <1>2, <2>0
    <3>2. (semOutbound - 1) + Cardinality(Granted) + (Cardinality(Holding) + 1)
            = semOutbound + Cardinality(Granted) + Cardinality(Holding)
      BY <2>3, <3>1, SlotMoves
    <3>. QED
      BY <2>3, <3>1, <3>2
  <2>7. /\ s.grant <=> s.pc \notin {"wait", "flag"}
        /\ s.pnode \in Node <=> s.pc \in {"addref", "written", "move", "flag"}
    BY <2>2, NetAssumption
  <2>. QED
    BY <1>1, <1>2, <2>0, <2>1, <2>2, <2>5, <2>6, <2>7, OpenerKeeps, Zenon
<1>5. ASSUME OpenNetworkConnection(o), NEW a \in Addr, \A n \in vNodes : node[n].addr # a,
             opener' = [opener EXCEPT ![o].pc = "connect", ![o].addr = a],
             UNCHANGED semOutbound
      PROVE  NetIInv'
  <2>. DEFINE s == [opener[o] EXCEPT !.pc = "connect", !.addr = a]
  <2>1. opener' = [opener EXCEPT ![o] = s] /\ opener[o].grant
    BY <1>0, <1>3, <1>5, Zenon DEF NetTypeOK, OpenNetworkConnection
  <2>2. s \in OpenerState /\ s.grant = opener[o].grant /\ s.pc = "connect"
        /\ s.pnode = None /\ s.addr = a
    BY <1>0, <1>3, <1>5, Zenon DEF OpenerState
  <2>. HIDE DEF s
  <2>3. Holding' = Holding
    BY <1>0, <2>1, <2>2, HoldingIs, Zenon
  <2>4. opener'[o] = s
    BY <1>0, <2>1 DEF NetTypeOK
  <2>5. Alone(o)'
    BY <1>1, <1>5, <2>2, <2>4, Zenon DEF Alone, vNodes
  <2>6. semOutbound' + Cardinality(Granted') + Cardinality(Holding')
          = semOutbound + Cardinality(Granted) + Cardinality(Holding)
    BY <1>2, <1>5, <2>3
  <2>7. /\ s.grant <=> s.pc \notin {"wait", "flag"}
        /\ s.pnode \in Node <=> s.pc \in {"addref", "written", "move", "flag"}
    BY <2>1, <2>2, NetAssumption
  <2>. QED
    BY <1>0, <1>1, <1>2, <1>5, <2>1, <2>2, <2>5, <2>6, <2>7, OpenerKeeps, Zenon
<1>6. ASSUME OpenNetworkConnection(o), GiveUp(o) PROVE NetIInv'
  <2>1. opener[o].grant
    BY <1>3, <1>6 DEF OpenNetworkConnection
  <2>. DEFINE s == [opener[o] EXCEPT !.pc = "wait", !.grant = FALSE]
  <2>2. opener' = [opener EXCEPT ![o] = s] /\ semOutbound' = semOutbound + 1
    BY <1>0, <1>6, Zenon DEF GiveUp, NetTypeOK
  <2>3. s \in OpenerState /\ ~s.grant /\ s.pc = "wait" /\ s.pnode = None
    BY <1>0, <1>3, Zenon DEF OpenerState
  <2>. HIDE DEF s
  <2>4. Cardinality(Holding') = Cardinality(Holding) - 1
        /\ Cardinality(Holding) \in Nat /\ Cardinality(Granted) \in Nat
    BY <1>0, <2>1, <2>2, <2>3, HoldingIs, Zenon
  <2>5. opener'[o] = s
    BY <1>0, <2>2 DEF NetTypeOK
  <2>6. Alone(o)'
    BY <2>3, <2>5 DEF Alone
  <2>7. semOutbound' + Cardinality(Granted') + Cardinality(Holding')
          = semOutbound + Cardinality(Granted) + Cardinality(Holding)
    <3>1. semOutbound \in Nat /\ Granted' = Granted /\ semOutbound' = semOutbound + 1
      BY <1>0, <1>2, <2>2
    <3>2. (semOutbound + 1) + Cardinality(Granted) + (Cardinality(Holding) - 1)
            = semOutbound + Cardinality(Granted) + Cardinality(Holding)
      BY <2>4, <3>1, SlotMoves
    <3>. QED
      BY <2>4, <3>1, <3>2
  <2>8. /\ s.grant <=> s.pc \notin {"wait", "flag"}
        /\ s.pnode \in Node <=> s.pc \in {"addref", "written", "move", "flag"}
    BY <2>3, NetAssumption
  <2>9. semOutbound' \in Nat
    BY <1>0, <2>2
  <2>. QED
    BY <1>1, <1>2, <2>2, <2>3, <2>6, <2>7, <2>8, <2>9, OpenerKeeps, Zenon
<1>. QED
  BY <1>4, <1>5, <1>6 DEF OpenNetworkConnection

(* ConnectNode.  One opener finds no node with its address.                *)
LEMMA ConnectKeeps ==
  ASSUME NetIInv, NEW o \in Opener \cap setting.threads, ConnectNode(o)
  PROVE  NetIInv'
<1>0. NetTypeOK /\ Threads /\ Exact /\ o \in Opener /\ opener[o] \in OpenerState
      /\ semOutbound \in Nat
  BY DEF NetIInv, NetTypeOK
<1>1. /\ opener[o].pc = "connect" /\ opener[o].pnode = None /\ opener[o].grant
      /\ UNCHANGED <<pnodeSync, socketVars, messageVars>>
  BY <1>0 DEF ConnectNode, Threads, OpenerState
<1>2. ASSUME NEW n \in FindNode(opener[o].addr),
             opener' = [opener EXCEPT ![o].pc = "addref", ![o].pnode = n],
             UNCHANGED <<node, semOutbound>>
      PROVE  NetIInv'
  <2>1. /\ node' \in [Node -> NodeType] /\ Granted' = Granted
        /\ Memory' /\ RefCounts' /\ (OneOpener => InUse')
    BY <1>1, <1>2, SameNodes
  <2>2. ~OneOpener /\ n \in Node
    BY <1>0, <1>1, <1>2 DEF Exact, Alone, FindNode, vNodes
  <2>. DEFINE s == [opener[o] EXCEPT !.pc = "addref", !.pnode = n]
  <2>3. opener' = [opener EXCEPT ![o] = s]
    BY <1>0, <1>2, Zenon DEF NetTypeOK
  <2>4. s \in OpenerState /\ s.grant = opener[o].grant /\ s.pc = "addref" /\ s.pnode = n
    BY <1>0, <2>2, Zenon DEF OpenerState
  <2>. HIDE DEF s
  <2>5. Holding' = Holding
    BY <1>0, <2>3, <2>4, HoldingIs, Zenon
  <2>6. semOutbound' + Cardinality(Granted') + Cardinality(Holding')
          = semOutbound + Cardinality(Granted) + Cardinality(Holding)
    BY <1>2, <2>1, <2>5
  <2>7. /\ s.grant <=> s.pc \notin {"wait", "flag"}
        /\ s.pnode \in Node <=> s.pc \in {"addref", "written", "move", "flag"}
    BY <1>1, <2>2, <2>4
  <2>. QED
    BY <1>0, <1>1, <1>2, <2>1, <2>2, <2>3, <2>4, <2>6, <2>7, OpenerKeeps, Zenon
<1>3. ASSUME NEW n \in Node, node[n].life = "free",
             node' = [node EXCEPT ![n] = CNode("vNodes", opener[o].addr, FALSE)],
             opener' = [opener EXCEPT ![o].pc = "move", ![o].pnode = n],
             UNCHANGED semOutbound
      PROVE  NetIInv'
  <2>1. opener[o].addr \in Addr /\ UNCHANGED <<setting, sCopy, mCopy>> /\ FALSE \in BOOLEAN
    BY <1>0, <1>1 DEF OpenerState, socketVars, messageVars
  <2>2. /\ node' \in [Node -> NodeType] /\ Granted' = Granted
        /\ Memory' /\ RefCounts' /\ (OneOpener => InUse')
        /\ node'[n].life = "vNodes" /\ node'[n].fInbound = FALSE
        /\ node'[n].fOwned /\ ~node'[n].fNetworkNode
    BY <1>3, <2>1, NewNode, Zenon
  <2>. DEFINE s == [opener[o] EXCEPT !.pc = "move", !.pnode = n]
  <2>3. opener' = [opener EXCEPT ![o] = s]
    BY <1>0, <1>3, Zenon DEF NetTypeOK
  <2>4. s \in OpenerState /\ s.grant = opener[o].grant /\ s.pc = "move" /\ s.pnode = n
    BY <1>0, Zenon DEF OpenerState
  <2>. HIDE DEF s
  <2>5. Holding' = Holding
    BY <1>0, <2>3, <2>4, HoldingIs, Zenon
  <2>6. opener'[o] = s
    BY <1>0, <2>3 DEF NetTypeOK
  <2>7. Alone(o)'
    BY <2>2, <2>4, <2>6 DEF Alone
  <2>8. semOutbound' + Cardinality(Granted') + Cardinality(Holding')
          = semOutbound + Cardinality(Granted) + Cardinality(Holding)
    BY <1>3, <2>2, <2>5
  <2>9. /\ s.grant <=> s.pc \notin {"wait", "flag"}
        /\ s.pnode \in Node <=> s.pc \in {"addref", "written", "move", "flag"}
    BY <1>1, <2>4
  <2>. QED
    BY <1>0, <1>1, <1>3, <2>2, <2>3, <2>4, <2>7, <2>8, <2>9, OpenerKeeps, Zenon
<1>4. ASSUME GiveUp(o) PROVE NetIInv'
  <2>1. /\ node' \in [Node -> NodeType] /\ Granted' = Granted
        /\ Memory' /\ RefCounts' /\ (OneOpener => InUse')
    BY <1>1, <1>4, SameNodes DEF GiveUp
  <2>. DEFINE s == [opener[o] EXCEPT !.pc = "wait", !.grant = FALSE]
  <2>2. opener' = [opener EXCEPT ![o] = s] /\ semOutbound' = semOutbound + 1
    BY <1>0, <1>4, Zenon DEF GiveUp, NetTypeOK
  <2>3. s \in OpenerState /\ ~s.grant /\ s.pc = "wait" /\ s.pnode = None
    BY <1>0, <1>1, Zenon DEF OpenerState
  <2>. HIDE DEF s
  <2>4. Cardinality(Holding') = Cardinality(Holding) - 1
        /\ Cardinality(Holding) \in Nat /\ Cardinality(Granted) \in Nat
    BY <1>0, <1>1, <2>2, <2>3, HoldingIs, Zenon
  <2>5. opener'[o] = s
    BY <1>0, <2>2 DEF NetTypeOK
  <2>6. Alone(o)'
    BY <2>3, <2>5 DEF Alone
  <2>7. semOutbound' + Cardinality(Granted') + Cardinality(Holding')
          = semOutbound + Cardinality(Granted) + Cardinality(Holding)
    <3>1. semOutbound \in Nat /\ Granted' = Granted /\ semOutbound' = semOutbound + 1
      BY <1>0, <2>1, <2>2
    <3>2. (semOutbound + 1) + Cardinality(Granted) + (Cardinality(Holding) - 1)
            = semOutbound + Cardinality(Granted) + Cardinality(Holding)
      BY <2>4, <3>1, SlotMoves
    <3>. QED
      BY <2>4, <3>1, <3>2
  <2>8. /\ s.grant <=> s.pc \notin {"wait", "flag"}
        /\ s.pnode \in Node <=> s.pc \in {"addref", "written", "move", "flag"}
    BY <2>3, NetAssumption
  <2>9. semOutbound' \in Nat
    BY <1>0, <2>2
  <2>. QED
    BY <1>1, <2>1, <2>2, <2>3, <2>6, <2>7, <2>8, <2>9, OpenerKeeps, Zenon
<1>. QED
  BY <1>2, <1>3, <1>4, Zenon DEF ConnectNode

(* The race of two openers over a node that FindNode returned: its count   *)
(* may become anything, but no slot is lost.                               *)
LEMMA FoundKeeps ==
  ASSUME NetIInv, NEW o \in Opener \cap setting.threads, ReadRefCount(o) \/ AddRefFound(o)
  PROVE  NetIInv'
<1>0. NetTypeOK /\ Threads /\ Exact /\ Memory /\ o \in Opener /\ opener[o] \in OpenerState
      /\ semOutbound \in Nat /\ node \in [Node -> NodeType]
  BY NetFacts DEF NetIInv, NetTypeOK
<1>1. /\ opener[o].pc \in {"addref", "written"} /\ opener[o].pnode \in Node /\ opener[o].grant
      /\ UNCHANGED <<semOutbound, pnodeSync, socketVars, messageVars>>
  BY <1>0 DEF ReadRefCount, AddRefFound, Threads
<1>2. ~OneOpener /\ OneOpener' = OneOpener
  BY <1>0, <1>1 DEF Exact, Alone, OneOpener, socketVars
<1>3. /\ node' \in [Node -> NodeType]
      /\ \A n \in Node : Fixed(node'[n]) = Fixed(node[n])
  <2>1. CASE node' = node
    BY <1>0, <2>1
  <2>2. ASSUME NEW n \in Node, NEW c \in Int, node' = [node EXCEPT ![n].nRefCount = c]
        PROVE  <1>3!1 /\ <1>3!2
    <3>. DEFINE q == [node[n] EXCEPT !.nRefCount = c]
    <3>1. node' = [node EXCEPT ![n] = q]
      BY <1>0, <2>2
    <3>2. node[n] \in NodeType
      BY <1>0
    <3>3. q \in NodeType /\ Fixed(q) = Fixed(node[n])
      BY <3>2 DEF NodeType, Fixed
    <3>. HIDE DEF q
    <3>. QED
      BY <1>0, <3>1, <3>3
  <2>3. opener[o].nRead + 1 \in Int
    BY <1>0, OneMore DEF OpenerState
  <2>. QED
    BY <1>1, <2>1, <2>2, <2>3 DEF ReadRefCount, AddRefFound
<1>4. \A n \in Node : /\ node'[n].life = node[n].life /\ node'[n].fOwned = node[n].fOwned
                      /\ node'[n].grantOutbound = node[n].grantOutbound
  BY <1>3 DEF Fixed
<1>5. Granted' = Granted /\ Memory'
  BY <1>0, <1>4 DEF Granted, Memory
<1>6. RefCounts'
  BY <1>2 DEF RefCounts
<1>7. PICK s \in OpenerState : /\ opener' = [opener EXCEPT ![o] = s] /\ s.grant = opener[o].grant
                               /\ s.pnode = opener[o].pnode /\ s.pc \in {"written", "move"}
  <2>. DEFINE r(c) == [opener[o] EXCEPT !.pc = "written", !.nRead = c]
              w    == [opener[o] EXCEPT !.pc = "move", !.nRead = 0]
  <2>1. w \in OpenerState /\ w.grant = opener[o].grant /\ w.pnode = opener[o].pnode /\ w.pc = "move"
    <3>1. w \in OpenerState
      <4>1. ASSUME NEW c \in Int
            PROVE  [opener[o] EXCEPT !.pc = "move", !.nRead = c] \in OpenerState
        BY <1>0, Zenon DEF OpenerState
      <4>2. 0 \in Int
        OBVIOUS
      <4>. QED
        BY <4>1, <4>2, Zenon
    <3>2. w.grant = opener[o].grant /\ w.pnode = opener[o].pnode /\ w.pc = "move"
      BY <1>0 DEF OpenerState
    <3>. QED
      BY <3>1, <3>2
  <2>2. \A c \in Int : /\ r(c) \in OpenerState /\ r(c).grant = opener[o].grant
                       /\ r(c).pnode = opener[o].pnode /\ r(c).pc = "written"
    <3>1. ASSUME NEW c \in Int
          PROVE  /\ r(c) \in OpenerState /\ r(c).grant = opener[o].grant
                 /\ r(c).pnode = opener[o].pnode /\ r(c).pc = "written"
      BY <1>0, Zenon DEF OpenerState
    <3>. QED
      BY <3>1, Zenon
  <2>3. node[opener[o].pnode].nRefCount \in Int
    BY <1>0, <1>1 DEF NodeType
  <2>4. CASE ReadRefCount(o)
    <3>1. opener' = [opener EXCEPT ![o] = r(node[opener[o].pnode].nRefCount)]
      BY <1>0, <2>4, Zenon DEF ReadRefCount, NetTypeOK
    <3>. HIDE DEF r
    <3>. QED
      BY <2>2, <2>3, <3>1, Zenon
  <2>5. CASE AddRefFound(o)
    <3>1. opener' = [opener EXCEPT ![o] = w]
      BY <1>0, <2>5, Zenon DEF AddRefFound, NetTypeOK
    <3>. HIDE DEF w
    <3>. QED
      BY <2>1, <3>1, Zenon
  <2>. QED
    BY <2>4, <2>5
<1>8. Holding' = Holding
  BY <1>0, <1>7, HoldingIs, Zenon
<1>. QED
  BY <1>0, <1>1, <1>2, <1>3, <1>5, <1>6, <1>7, <1>8, OpenerKeeps, Zenon
(* CSemaphoreGrant::MoveTo: the opener's slot becomes the node's, and one  *)
(* that the node had becomes free.                                         *)
LEMMA MoveKeeps ==
  ASSUME NetIInv, NEW o \in Opener \cap setting.threads, MoveGrant(o)
  PROVE  NetIInv'
<1>. DEFINE n == opener[o].pnode
<1>0. NetTypeOK /\ Threads /\ Exact /\ Memory /\ RefCounts /\ o \in Opener
      /\ opener[o] \in OpenerState /\ semOutbound \in Nat /\ node \in [Node -> NodeType]
  BY NetFacts DEF NetIInv, NetTypeOK
<1>1. /\ opener[o].pc = "move" /\ n \in Node /\ opener[o].grant /\ node[n].life # "free"
      /\ semOutbound' = semOutbound + (IF node[n].grantOutbound THEN 1 ELSE 0)
      /\ node' = [node EXCEPT ![n].grantOutbound = TRUE]
      /\ opener' = [opener EXCEPT ![o].pc = "flag", ![o].grant = FALSE]
      /\ UNCHANGED <<pnodeSync, socketVars, messageVars>>
  BY <1>0 DEF MoveGrant, Threads
<1>. HIDE DEF n
<1>2. UNCHANGED <<setting, sCopy, mCopy>>
  BY <1>1 DEF socketVars, messageVars
<1>. DEFINE q == [node[n] EXCEPT !.grantOutbound = TRUE]
            s == [opener[o] EXCEPT !.pc = "flag", !.grant = FALSE]
<1>3. node' = [node EXCEPT ![n] = q]
  BY <1>0, <1>1
<1>4. /\ q \in NodeType /\ q.grantOutbound /\ q.life = node[n].life /\ q.fOwned = node[n].fOwned
      /\ q.nRefCount = node[n].nRefCount /\ q.fNetworkNode = node[n].fNetworkNode
      /\ q.fInbound = node[n].fInbound
  <2>1. node[n] \in NodeType
    BY <1>0, <1>1
  <2>. QED
    BY <2>1, Zenon DEF NodeType
<1>5. opener' = [opener EXCEPT ![o] = s]
  BY <1>0, <1>1, Zenon DEF NetTypeOK
<1>6. s \in OpenerState /\ ~s.grant /\ s.pc = "flag" /\ s.pnode = n
  BY <1>0, Zenon DEF OpenerState, n
<1>. HIDE DEF q, s
<1>7. /\ node' \in [Node -> NodeType] /\ node'[n] = q
      /\ \A m \in Node : m # n => node'[m] = node[m]
  BY <1>0, <1>1, <1>3, <1>4, Zenon
<1>8. Granted' = Granted \cup {n} /\ (n \in Granted <=> node[n].grantOutbound)
  BY <1>1, <1>4, <1>7 DEF Granted
<1>9. Granted \subseteq Node
  BY DEF Granted
<1>10. IsFiniteSet(Granted) /\ Cardinality(Granted) \in Nat
  BY <1>9, CountsFinite
<1>11. Cardinality(Granted') = IF n \in Granted THEN Cardinality(Granted)
                               ELSE Cardinality(Granted) + 1
  BY <1>8, <1>10, FS_AddElement, Zenon
<1>12. Cardinality(Holding') = Cardinality(Holding) - 1 /\ Cardinality(Holding) \in Nat
  BY <1>0, <1>1, <1>5, <1>6, HoldingIs, Zenon
<1>13. semOutbound' \in Nat
  BY <1>0, <1>1
<1>14. semOutbound' + Cardinality(Granted') + Cardinality(Holding')
         = semOutbound + Cardinality(Granted) + Cardinality(Holding)
  BY <1>0, <1>1, <1>8, <1>10, <1>11, <1>12
<1>15. Memory'
  BY <1>0, <1>1, <1>4, <1>7 DEF Memory
<1>16. RefCounts'
  BY <1>0, <1>2, <1>4, <1>7 DEF RefCounts, OneOpener
<1>17. ASSUME OneOpener PROVE InUse' /\ Alone(o)'
  <2>1. InUse'
    <3>1. InUse /\ sCopy \cup mCopy \subseteq Node
      BY <1>0, <1>17 DEF Exact, NetTypeOK
    <3>2. \A m \in Node : node'[m].life = node[m].life
      BY <1>4, <1>7
    <3>. QED
      BY <1>2, <3>1, <3>2 DEF InUse
  <2>2. Alone(o)
    BY <1>0, <1>17 DEF Exact
  <2>3. opener'[o] = s
    BY <1>0, <1>5 DEF NetTypeOK
  <2>4. Alone(o)'
    BY <1>1, <1>4, <1>6, <1>7, <2>2, <2>3 DEF Alone, n
  <2>. QED
    BY <2>1, <2>4
<1>18. /\ s.grant <=> s.pc \notin {"wait", "flag"}
       /\ s.pnode \in Node <=> s.pc \in {"addref", "written", "move", "flag"}
  BY <1>1, <1>6
<1>. QED
  BY <1>1, <1>5, <1>6, <1>7, <1>13, <1>14, <1>15, <1>16, <1>17, <1>18, OpenerKeeps, Zenon

(* fNetworkNode is set last: the opener is done with its node.             *)
LEMMA NetworkNodeKeeps ==
  ASSUME NetIInv, NEW o \in Opener \cap setting.threads, SetNetworkNode(o)
  PROVE  NetIInv'
<1>. DEFINE n == opener[o].pnode
<1>0. NetTypeOK /\ Threads /\ Exact /\ Memory /\ RefCounts /\ o \in Opener
      /\ opener[o] \in OpenerState /\ semOutbound \in Nat /\ node \in [Node -> NodeType]
  BY NetFacts DEF NetIInv, NetTypeOK
<1>1. /\ opener[o].pc = "flag" /\ n \in Node /\ ~opener[o].grant
      /\ node' = [node EXCEPT ![n].fNetworkNode = TRUE]
      /\ opener' = [opener EXCEPT ![o].pc = "wait", ![o].pnode = None]
      /\ UNCHANGED <<semOutbound, pnodeSync, socketVars, messageVars>>
  BY <1>0 DEF SetNetworkNode, Threads
<1>. HIDE DEF n
<1>2. UNCHANGED <<setting, sCopy, mCopy>>
  BY <1>1 DEF socketVars, messageVars
<1>. DEFINE q == [node[n] EXCEPT !.fNetworkNode = TRUE]
            s == [opener[o] EXCEPT !.pc = "wait", !.pnode = None]
<1>3. node' = [node EXCEPT ![n] = q]
  BY <1>0, <1>1
<1>4. /\ q \in NodeType /\ q.grantOutbound = node[n].grantOutbound /\ q.life = node[n].life
      /\ q.fOwned = node[n].fOwned /\ q.nRefCount = node[n].nRefCount
  <2>1. node[n] \in NodeType
    BY <1>0, <1>1
  <2>. QED
    BY <2>1, Zenon DEF NodeType
<1>5. opener' = [opener EXCEPT ![o] = s]
  BY <1>0, <1>1, Zenon DEF NetTypeOK
<1>6. s \in OpenerState /\ s.grant = opener[o].grant /\ s.pc = "wait" /\ s.pnode = None
  BY <1>0, Zenon DEF OpenerState
<1>. HIDE DEF q, s
<1>7. /\ node' \in [Node -> NodeType] /\ node'[n] = q
      /\ \A m \in Node : m # n => node'[m] = node[m]
  BY <1>0, <1>1, <1>3, <1>4, Zenon
<1>8. Granted' = Granted /\ Memory'
  BY <1>0, <1>4, <1>7 DEF Granted, Memory
<1>9. Holding' = Holding
  BY <1>0, <1>5, <1>6, HoldingIs, Zenon
<1>10. RefCounts'
  BY <1>0, <1>2, <1>4, <1>7 DEF RefCounts, OneOpener
<1>11. ASSUME OneOpener PROVE InUse' /\ Alone(o)'
  <2>1. InUse'
    BY <1>0, <1>2, <1>4, <1>7, <1>11 DEF Exact, InUse, NetTypeOK
  <2>2. opener'[o] = s
    BY <1>0, <1>5 DEF NetTypeOK
  <2>. QED
    BY <1>6, <2>1, <2>2 DEF Alone
<1>12. /\ s.grant <=> s.pc \notin {"wait", "flag"}
       /\ s.pnode \in Node <=> s.pc \in {"addref", "written", "move", "flag"}
  BY <1>1, <1>6, NetAssumption
<1>13. semOutbound' + Cardinality(Granted') + Cardinality(Holding')
         = semOutbound + Cardinality(Granted) + Cardinality(Holding)
  BY <1>1, <1>8, <1>9
<1>. QED
  BY <1>0, <1>1, <1>5, <1>6, <1>7, <1>8, <1>10, <1>11, <1>12, <1>13, OpenerKeeps, Zenon

-----------------------------------------------------------------------------
(* Every step of every thread keeps the invariant.                         *)
LEMMA NetIInvNext == NetIInv /\ [NetNext]_netVars => NetIInv'
<1>. SUFFICES ASSUME NetIInv, [NetNext]_netVars PROVE NetIInv'
  OBVIOUS
<1>1. CASE ThreadSocketHandler
  BY <1>1, DisconnectNodesKeeps, AcceptKeeps, CopyKeeps, FlagsKeep DEF ThreadSocketHandler
<1>2. CASE ThreadMessageHandler
  BY <1>2, CopyKeeps, FlagsKeep DEF ThreadMessageHandler
<1>3. ASSUME NEW o \in Opener \cap setting.threads, ThreadOpenConnections(o)
      PROVE  NetIInv'
  BY <1>3, SlotKeeps, ConnectKeeps, FoundKeeps, MoveKeeps, NetworkNodeKeeps
     DEF ThreadOpenConnections
<1>4. CASE UNCHANGED netVars
  <2>1. /\ UNCHANGED <<node, semOutbound, pnodeSync, opener, setting, sPc, sCopy, sTodo>>
        /\ UNCHANGED <<mPc, mCopy, mTodo, pnodeNewSync>>
    BY <1>4 DEF netVars, socketVars, messageVars
  <2>2. NetTypeOK'
    BY <2>1 DEF NetIInv, NetTypeOK
  <2>3. Threads' /\ Memory'
    BY <2>1 DEF NetIInv, Threads, Memory
  <2>4. RefCounts' /\ SlotsConserved'
    BY <2>1 DEF NetIInv, RefCounts, OneOpener, SlotsConserved
  <2>5. Exact'
    BY <2>1 DEF NetIInv, Exact, InUse, Alone, OneOpener, vNodes
  <2> QED BY <2>2, <2>3, <2>4, <2>5 DEF NetIInv
<1>. QED
  BY <1>1, <1>2, <1>3, <1>4 DEF NetNext

(* For every number of nodes, threads and slots: no outbound slot of a     *)
(* node is lost or counted twice, whatever the openers do to each other;   *)
(* and with one opener each nRefCount is the number of holders, and        *)
(* neither the copies of vNodes nor the opener point to a deleted node.    *)
THEOREM ReferencesExactTheorem == NetSpec => []ReferencesExact
<1>1. ASSUME NetIInv PROVE ReferencesExact
  <2>1. ASSUME OneOpener, NEW o \in Opener, opener[o].pnode # None
        PROVE  node[opener[o].pnode].life # "free"
    <3>1. opener[o].pnode \in Node /\ Alone(o)
      BY <1>1, <2>1 DEF NetIInv, NetTypeOK, OpenerState, Exact
    <3>2. opener[o].pc \in {"move", "flag"}
      BY <1>1, <3>1 DEF NetIInv, Threads, Alone
    <3>. QED
      BY <3>1, <3>2 DEF Alone
  <2>. QED
    BY <1>1, <2>1 DEF NetIInv, ReferencesExact, NoUseAfterDelete, Exact, InUse
<1>. QED
  BY <1>1, NetIInvInit, NetIInvNext, PTL DEF NetSpec
=============================================================================
