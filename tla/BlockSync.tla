----------------------------- MODULE BlockSync ------------------------------
(***************************************************************************)
(* The download of the block chain from a peer (main.cpp, net.h, net.cpp): *)
(* getblocks, inv, getdata and block messages between a node that is       *)
(* behind and a peer that has the chain, in batches that the peer          *)
(* continues with hashContinue.  Both run this program; each message       *)
(* handler and each SendMessages is one step, in a cs_main section, and    *)
(* messages keep their order on a connection.                              *)
(*                                                                         *)
(* ProcessBlock keeps what the download depends on: the index, orphan      *)
(* blocks and the longest chain.  A block may be refused for a passing     *)
(* reason (its time is ahead of this clock, the disk is full).             *)
(***************************************************************************)
EXTENDS Naturals, Sequences, FiniteSets, SequencesExt, MruSet

CONSTANTS
  Block,         \* hashes of blocks
  None,          \* the hash 0
  Parent,        \* hashPrevBlock of each, None for the genesis block
  Main,          \* the chain of the peer: heights 0.. -> Block
  Own,           \* what the node has at first
  OwnBest,       \* and its best block
  StartTip,      \* position of the best block of the peer when it connected
  BatchLimit,    \* nLimit of getblocks
  KnownLimit,    \* max_size of setInventoryKnown
  DenseLimit,    \* entries of a locator before its steps double
  NearTip,       \* blocks younger than nStakeMinAge
  Setting        \* settings of the node and the network: records of
                 \*   LastPow: LAST_POW_BLOCK, later blocks are proof-of-stake
                 \*   Initial: IsInitialBlockDownload at the node
                 \*   Daemon: the node is built without the GUI
                 \*   MaxRefused: bound, blocks refused for a passing reason

N == Len(Main)
Genesis == Main[1]

ASSUME SyncAssumption ==
  /\ None \notin Block /\ ToSet(Main) \subseteq Block /\ Own \subseteq Block
  /\ OwnBest \in Own /\ Genesis \in Own /\ Parent[Genesis] = None
  /\ \A i \in 2..N : Parent[Main[i]] = Main[i - 1]
  /\ StartTip \in 1..N /\ BatchLimit > 0 /\ DenseLimit > 0
  /\ Setting \subseteq [LastPow : Nat, Initial : BOOLEAN, Daemon : BOOLEAN, MaxRefused : Nat]

VARIABLES
  setting,        \* of this behaviour
  \* the node
  index,          \* mapBlockIndex
  best,           \* pindexBest
  orphans,        \* mapOrphanBlocks
  lastGetBlocks,  \* pindexLastGetBlocksBegin, hashLastGetBlocksEnd
  fStartSync,     \* the peer is chosen to synchronize from
  fSyncForceDueStuck,
  nPrev,          \* the best block the watchdog saw last
  askNow,         \* mapAskFor: requests that are due, in order
  askLater,       \* mapAskFor: retries, two minutes after the last
  alreadyAsked,   \* mapAlreadyAskedFor
  nRefused,
  \* the peer
  tip,            \* position of its best block in Main
  known,          \* setInventoryKnown
  toSend,         \* vInventoryToSend
  hashContinue,
  \* the connection
  toPeer, toNode

reqVars  == <<askNow, askLater, alreadyAsked>>
nodeVars == <<index, best, orphans, lastGetBlocks, fStartSync, fSyncForceDueStuck,
              nPrev, reqVars, nRefused>>
peerVars == <<setting, tip, known, toSend, hashContinue>>
vars == <<nodeVars, peerVars, toPeer, toNode>>

Entry == Block \cup {None}

TypeOK ==
  /\ setting \in Setting
  /\ index \subseteq Block /\ best \in index /\ orphans \subseteq Block
  /\ lastGetBlocks \in Entry \X Entry /\ nPrev \in Block
  /\ fStartSync \in BOOLEAN /\ fSyncForceDueStuck \in BOOLEAN
  /\ ToSet(askNow) \cup ToSet(askLater) \cup alreadyAsked \subseteq Block
  /\ nRefused \in 0..setting.MaxRefused
  /\ tip \in StartTip..N
  /\ IsInjective(known) /\ Len(known) <= KnownLimit
  /\ ToSet(known) \cup ToSet(toSend) \subseteq Block /\ hashContinue \in Entry

Init ==
  /\ setting \in Setting
  /\ index = Own /\ best = OwnBest /\ orphans = {}
  /\ lastGetBlocks = <<None, None>>
  /\ fStartSync = TRUE /\ fSyncForceDueStuck = FALSE /\ nPrev = Genesis
  /\ askNow = << >> /\ askLater = << >> /\ alreadyAsked = {} /\ nRefused = 0
  /\ tip = StartTip /\ known = << >> /\ toSend = << >> /\ hashContinue = None
  /\ toPeer = << >> /\ toNode = << >>

-----------------------------------------------------------------------------
(* Chains.                                                                 *)

Height[b \in Block] == IF Parent[b] = None THEN 0 ELSE Height[Parent[b]] + 1
Back[b \in Entry, n \in Nat] ==
  IF b = None \/ n = 0 THEN b ELSE Back[Parent[b], n - 1]

(* CBlockLocator::Set: dense at first, then exponentially larger steps.    *)
RECURSIVE vHave(_, _, _)
vHave(have, b, nStep) ==
  IF b = None THEN Append(have, Genesis)
  ELSE LET h == Append(have, b) IN
       vHave(h, Back[b, nStep], IF Len(h) > DenseLimit THEN 2 * nStep ELSE nStep)

Locator(b) == vHave(<< >>, b, 1)

(* CBlockLocator::GetBlockIndex at the peer: the position in its chain.    *)
MainChain == SubSeq(Main, 1, tip)
GetBlockIndex(loc) ==
  LET i == CHOOSE i \in DOMAIN loc : /\ loc[i] \in ToSet(MainChain)
                                     /\ \A j \in 1..i - 1 : loc[j] \notin ToSet(MainChain)
  IN CHOOSE n \in 1..tip : Main[n] = loc[i]

(* GetLastBlockIndex(pindexBest, false) at the peer.                       *)
LastPowBlock == Main[IF tip - 1 > setting.LastPow THEN setting.LastPow + 1 ELSE tip]

(* FoldLeft, with each value computed once.                                *)
Through(op(_, _), base, s) ==
  LET f[i \in 0..Len(s)] == IF i = 0 THEN base ELSE LET v == f[i - 1] IN op(v, s[i])
  IN f[Len(s)]

RECURSIVE OrphanRoot(_, _)
OrphanRoot(o, b) == IF Parent[b] \in o THEN OrphanRoot(o, Parent[b]) ELSE b

-----------------------------------------------------------------------------
(* The node.  Its state is passed along as a record n, so that a handler   *)
(* is one fold over what the message has.                                  *)

Node == [index |-> index, best |-> best, orphans |-> orphans, last |-> lastGetBlocks,
         now |-> askNow, later |-> askLater, asked |-> alreadyAsked, out |-> toPeer]

SetNode(n) ==
  /\ index' = n.index /\ best' = n.best /\ orphans' = n.orphans
  /\ lastGetBlocks' = n.last /\ toPeer' = n.out
  /\ askNow' = n.now /\ askLater' = n.later /\ alreadyAsked' = n.asked

AlreadyHave(n, b) == b \in n.index \cup n.orphans

PushGetBlocks(n, begin, end) ==
  IF n.last = <<begin, end>> THEN n
  ELSE [n EXCEPT !.last = <<begin, end>>,
                 !.out = Append(n.out, [cmd |-> "getblocks", loc |-> Locator(begin),
                                        stop |-> end])]

(* The first request is due at once, each retry two minutes after.         *)
AskFor(n, b) ==
  [n EXCEPT !.now   = IF b \in n.asked THEN n.now ELSE Append(n.now, b),
            !.later = IF b \in n.asked THEN Append(n.later, b) ELSE n.later,
            !.asked = n.asked \cup {b}]

(* The message "inv" of blocks: each is asked for, or an orphan among them *)
(* or a known last one makes the node ask for what comes between.          *)
GotInventory(inv) ==
  LET one(n, i) ==
        IF ~AlreadyHave(n, inv[i]) THEN AskFor(n, inv[i])
        ELSE IF inv[i] \in n.orphans
          THEN PushGetBlocks(n, n.best, OrphanRoot(n.orphans, inv[i]))
        ELSE IF i = Len(inv) THEN PushGetBlocks(n, inv[i], None)
        ELSE n
  IN Through(one, Node, [i \in DOMAIN inv |-> i])

(* Blocks that connect, with the orphans that follow them.                 *)
RECURSIVE Connected(_, _)
Connected(o, s) ==
  LET more == {b \in o : Parent[b] \in s} \ s IN
  IF more = {} THEN s ELSE Connected(o, s \cup more)

Longest(n, s) ==
  LET top == {b \in s : \A c \in s : Height[c] <= Height[b]} IN
  IF \E b \in top : Height[b] > Height[n.best] THEN CHOOSE b \in top : TRUE ELSE n.best

AcceptBlock(n, b) ==
  LET s == Connected(n.orphans, {b}) IN
  [n EXCEPT !.index = n.index \cup s, !.orphans = n.orphans \ s, !.best = Longest(n, s),
            !.asked = n.asked \ {b}]

(* Mutant: the missing parent is not asked for directly.                   *)
HoldOrphanOnly(n, b) ==
  LET h == [n EXCEPT !.orphans = n.orphans \cup {b}]
      g == PushGetBlocks(h, h.best, OrphanRoot(h.orphans, b))
  IN [g EXCEPT !.asked = g.asked \ {b}]

(* An orphan is held, and the peer asked to fill in what is missing.       *)
HoldOrphan(n, b) ==
  LET h == [n EXCEPT !.orphans = n.orphans \cup {b}]
      r == OrphanRoot(h.orphans, b)
      g == PushGetBlocks(h, h.best, r)
      a == IF setting.Initial THEN g ELSE AskFor(g, Parent[r])
  IN [a EXCEPT !.asked = a.asked \ {b}]

(* The message "block".                                                    *)
GotBlock(b) ==
  IF AlreadyHave(Node, b) THEN Node
  ELSE IF Parent[b] \notin index THEN HoldOrphan(Node, b)
  ELSE AcceptBlock(Node, b)

NodeReceive ==
  /\ toNode # << >>
  /\ toNode' = Tail(toNode)
  /\ LET m == Head(toNode) IN
     \E n \in {IF m.cmd = "inv" THEN GotInventory(m.inv) ELSE GotBlock(m.block)} : SetNode(n)
  /\ UNCHANGED <<fStartSync, fSyncForceDueStuck, nPrev, nRefused, peerVars>>

(* ProcessBlock returns false.                                             *)
NodeRefuse ==
  /\ nRefused < setting.MaxRefused
  /\ toNode # << >> /\ Head(toNode).cmd = "block"
  /\ ~AlreadyHave(Node, Head(toNode).block) /\ Parent[Head(toNode).block] \in index
  /\ toNode' = Tail(toNode)
  /\ nRefused' = nRefused + 1
  /\ UNCHANGED <<index, best, orphans, lastGetBlocks, fStartSync, fSyncForceDueStuck, nPrev,
                 reqVars, peerVars, toPeer>>

(* SendMessages to the peer: the start of the synchronization, then the    *)
(* requests that are due and still missing.                                *)
NodeSend ==
  /\ fStartSync \/ fSyncForceDueStuck \/ askNow # << >>
  /\ LET n == IF fStartSync \/ fSyncForceDueStuck THEN PushGetBlocks(Node, best, None) ELSE Node
         want == SelectSeq(askNow, LAMBDA b : ~AlreadyHave(n, b))
         sent == [n EXCEPT !.now = << >>, !.asked = n.asked \cup ToSet(want),
                           !.out = IF want = << >> THEN n.out
                                   ELSE Append(n.out, [cmd |-> "getdata", inv |-> want])]
     IN \E s \in {sent} : SetNode(s)
  /\ fStartSync' = FALSE /\ fSyncForceDueStuck' = FALSE
  /\ UNCHANGED <<nPrev, nRefused, peerVars, toNode>>

(* Two minutes pass.                                                       *)
RetryDue ==
  /\ askLater # << >>
  /\ askNow' = askNow \o askLater /\ askLater' = << >>
  /\ UNCHANGED <<index, best, orphans, lastGetBlocks, fStartSync, fSyncForceDueStuck, nPrev,
                 alreadyAsked, nRefused, peerVars, toPeer, toNode>>

(* Mutant: the flag is never set.                                     *)
WatchdogNever ==
  /\ setting.Daemon /\ Height[best] < StartTip - 1
  /\ nPrev' = best
  /\ fSyncForceDueStuck' = FALSE
  /\ UNCHANGED <<index, best, orphans, lastGetBlocks, fStartSync, reqVars, nRefused, peerVars,
                 toPeer, toNode>>

(* The main loop of the daemon: behind the peers and no new best block for *)
(* 32 seconds.                                                             *)
Watchdog ==
  /\ setting.Daemon /\ Height[best] < StartTip - 1
  /\ nPrev' = best
  /\ fSyncForceDueStuck' = (best = nPrev)
  /\ UNCHANGED <<index, best, orphans, lastGetBlocks, fStartSync, reqVars, nRefused, peerVars,
                 toPeer, toNode>>

-----------------------------------------------------------------------------
(* The peer.                                                               *)

PushInventory(s, b) == IF MruCount(known, b) THEN s ELSE Append(s, b)

(* The message "getblocks": the chain after the locator up to hashStop or  *)
(* the limit, which counts what the node knows already, too.               *)
GetBlocks(loc, stop) ==
  LET from == GetBlockIndex(loc) + 1
      at   == {i \in from..tip : Main[i] = stop \/ i - from + 1 = BatchLimit}
      end  == IF at = {} THEN tip ELSE CHOOSE i \in at : \A j \in at : i <= j
      stopped == at # {} /\ Main[end] = stop
      near == stop # Main[tip] /\ tip - end < NearTip
  IN /\ toSend' = Through(PushInventory, toSend,
                           IF ~stopped THEN SubSeq(Main, from, end)
                           ELSE SubSeq(Main, from, end - 1)
                                  \o (IF near THEN <<Main[tip]>> ELSE << >>))
     /\ hashContinue' = IF at # {} /\ ~stopped THEN Main[end] ELSE hashContinue

PeerGetBlocks ==
  /\ toPeer # << >> /\ Head(toPeer).cmd = "getblocks"
  /\ toPeer' = Tail(toPeer)
  /\ GetBlocks(Head(toPeer).loc, Head(toPeer).stop)
  /\ UNCHANGED <<nodeVars, setting, tip, known, toNode>>

(* The message "getdata": blocks, and after hashContinue an inv that is to *)
(* make the node ask for the next batch.                                   *)
PeerGetData ==
  /\ toPeer # << >> /\ Head(toPeer).cmd = "getdata"
  /\ toPeer' = Tail(toPeer)
  /\ LET inv == SelectSeq(Head(toPeer).inv, LAMBDA b : b \in ToSet(MainChain))
         answer(b) == <<[cmd |-> "block", block |-> b]>> \o
                      IF b = hashContinue
                      THEN <<[cmd |-> "inv", inv |-> <<LastPowBlock>>]>> ELSE << >>
     IN /\ toNode' = toNode \o FlattenSeq([i \in DOMAIN inv |-> answer(inv[i])])
        /\ hashContinue' = IF hashContinue \in ToSet(inv) THEN None ELSE hashContinue
  /\ UNCHANGED <<nodeVars, setting, tip, known, toSend>>

(* SendMessages to the node.                                               *)
PeerSend ==
  /\ toSend # << >>
  /\ LET one(s, b) == IF MruCount(s.known, b) THEN s
                      ELSE [known |-> MruInsert(s.known, KnownLimit, b), inv |-> Append(s.inv, b)]
         s == Through(one, [known |-> known, inv |-> << >>], toSend)
     IN /\ known' = s.known
        /\ toNode' = IF s.inv = << >> THEN toNode
                     ELSE Append(toNode, [cmd |-> "inv", inv |-> s.inv])
  /\ toSend' = << >>
  /\ UNCHANGED <<nodeVars, setting, tip, hashContinue, toPeer>>

(* The chain of the peer grows, and the new block is announced.            *)
PeerNewBlock ==
  /\ tip < N
  /\ tip' = tip + 1
  /\ toSend' = PushInventory(toSend, Main[tip + 1])
  /\ UNCHANGED <<nodeVars, setting, known, hashContinue, toPeer, toNode>>

-----------------------------------------------------------------------------
NodeStep == NodeReceive \/ NodeSend \/ RetryDue
PeerStep == PeerGetBlocks \/ PeerGetData \/ PeerSend

Next == NodeStep \/ NodeRefuse \/ Watchdog \/ PeerStep \/ PeerNewBlock

(* The message threads of both go round, the clock and the daemon's main   *)
(* loop go on.                                                             *)
Fairness ==
  /\ WF_vars(NodeReceive) /\ WF_vars(NodeSend) /\ WF_vars(RetryDue) /\ WF_vars(Watchdog)
  /\ WF_vars(PeerGetBlocks) /\ WF_vars(PeerGetData) /\ WF_vars(PeerSend)

Spec == Init /\ [][Next]_vars /\ Fairness

-----------------------------------------------------------------------------
(* The node ends up with the chain of its peer, whatever batches, orphans  *)
(* and announcements happen on the way: by itself while the newest block   *)
(* is proof-of-work, after that because the main loop of the daemon starts *)
(* the next batch.                                                         *)
Works == nRefused = 0 /\ (setting.Daemon \/ setting.LastPow >= N)
Synchronized == <>[](Works => best = Main[tip])

(* No orphan waits for ever: a block that was refused once is obtained     *)
(* again when one that follows it arrives ("so we ask for it again         *)
(* directly"), although the peer thinks the node knows it.  That is not    *)
(* done during the initial download.                                       *)
OrphansResolve == <>[](nRefused = 0 \/ ~setting.Initial => orphans = {})

(* ... without that exception: then what follows a refused block waits for *)
(* another peer.                                                           *)
AllOrphansResolve == <>[](orphans = {})

(* "When this block is requested, we'll send an inv that'll make them      *)
(* getblocks the next batch of inventory": the node does not stay at the   *)
(* end of a batch.                                                         *)
BatchesContinue == \A i \in 1..N : (best = Main[i] /\ i < tip) ~> (best # Main[i])
=============================================================================
