-------------------------- MODULE ChainReorgProofs --------------------------
(***************************************************************************)
(* What the proofs about the chain rest on, and the chain through a        *)
(* reorganization.  First facts about BlockTree that hold for every tree   *)
(* of blocks: how chains are ordered, that a valid chain never confirms a  *)
(* transaction twice, and that connecting and disconnecting a block of a   *)
(* valid chain move the transaction index exactly from one chain to the    *)
(* next.  Then type correctness of ChainState, step by step.  Then its     *)
(* inductive invariant through SetBestChain and Reorganize: a view of the  *)
(* database that stands for one chain is carried to the next chain by      *)
(* every block disconnected or connected.                                  *)
(***************************************************************************)
EXTENDS ChainState, TLAPS, NaturalsInduction, WellFoundedInduction

(* A nonempty set of natural numbers has a least element.                  *)
LEMMA LeastNat ==
  ASSUME NEW S \in SUBSET Nat, S # {}
  PROVE  \E x \in S : \A y \in S : x <= y
<1>1. IsWellFoundedOn(OpToRel(<, Nat), Nat)
  BY NatLessThanWellFounded
<1>2. \A T : T \subseteq Nat /\ T # {} =>
         \E x \in T : \A y \in T : ~ (<<y, x>> \in OpToRel(<, Nat))
  BY <1>1, WFMin, Zenon
<1>3. PICK x \in S : \A y \in S : ~ (<<y, x>> \in OpToRel(<, Nat))
  BY <1>2
<1>4. \A y \in S : ~ (y < x)
  BY <1>3 DEF OpToRel
<1>5. QED
  BY <1>4

(* A block is the last of its chain, and every chain but the genesis one   *)
(* is the parent's chain and the block.                                    *)
LEMMA ChainFacts ==
  ASSUME NEW b \in Block
  PROVE  /\ b \in Chain[b]
         /\ Chain[b] \subseteq Block
         /\ b # Genesis => /\ hashPrevBlock[b] \in Block
                           /\ hashPrevBlock[b] \in Chain[b]
                           /\ Chain[b] \ {b} = Chain[hashPrevBlock[b]]
                           /\ b \notin Chain[hashPrevBlock[b]]
<1>0. \A x \in Block : x \in Chain[x]
  <2>1. TAKE x \in Block
  <2>2. CASE x = Genesis
    BY <2>2, BlockTreeAssumption
  <2>3. CASE x # Genesis
    <3>1. Chain[x] = Chain[hashPrevBlock[x]] \cup {x}
      BY <2>3, BlockTreeAssumption
    <3>2. QED
      BY <3>1
  <2>4. QED
    BY <2>2, <2>3
<1>1. CASE b = Genesis
  BY <1>0, <1>1, BlockTreeAssumption
<1>2. CASE b # Genesis
  <2>1. /\ hashPrevBlock[b] \in Block
        /\ Chain[b] = Chain[hashPrevBlock[b]] \cup {b}
        /\ b \notin Chain[hashPrevBlock[b]]
    BY <1>2, BlockTreeAssumption
  <2>2. hashPrevBlock[b] \in Chain[hashPrevBlock[b]]
    BY <2>1, <1>0
  <2>3. QED
    BY <2>1, <2>2, BlockTreeAssumption
<1>3. QED
  BY <1>1, <1>2

(* Along a chain, trust grows strictly.                                    *)
LEMMA StrictTrust ==
  ASSUME NEW b \in Block, NEW c \in Chain[b], c # b
  PROVE  /\ nChainTrust[c] < nChainTrust[b]
         /\ b \notin Chain[c]
         /\ b # Genesis
         /\ c \in Chain[hashPrevBlock[b]]
<1>1. b # Genesis
  BY BlockTreeAssumption
<1>2. /\ hashPrevBlock[b] \in Block
      /\ c \in Chain[hashPrevBlock[b]]
      /\ c \in Block
  BY <1>1, ChainFacts
<1>3. /\ nChainTrust[c] <= nChainTrust[hashPrevBlock[b]]
      /\ nChainTrust[hashPrevBlock[b]] < nChainTrust[b]
  BY <1>1, <1>2, BlockTreeAssumption
<1>4. /\ nChainTrust[c] \in Nat
      /\ nChainTrust[b] \in Nat
      /\ nChainTrust[hashPrevBlock[b]] \in Nat
  BY <1>2, BlockTreeAssumption
<1>5. nChainTrust[c] < nChainTrust[b]
  BY <1>3, <1>4
<1>6. b \notin Chain[c]
  <2>1. SUFFICES ASSUME b \in Chain[c] PROVE FALSE
    OBVIOUS
  <2>2. nChainTrust[b] <= nChainTrust[c]
    BY <2>1, <1>2, BlockTreeAssumption
  <2>3. QED
    BY <2>2, <1>4, <1>5
<1>7. QED
  BY <1>1, <1>2, <1>5, <1>6

(* Two blocks of one chain with the same parent are the same block.        *)
LEMMA OneChild ==
  ASSUME NEW b \in Block, NEW c \in Chain[b], NEW d \in Chain[b],
         hashPrevBlock[c] = hashPrevBlock[d], hashPrevBlock[c] \in Block
  PROVE  c = d
<1>1. c \in Block /\ d \in Block /\ c # Genesis /\ d # Genesis
  BY BlockTreeAssumption
<1>2. SUFFICES ASSUME c # d PROVE FALSE
  OBVIOUS
<1>3. c \in Chain[d] \/ d \in Chain[c]
  BY BlockTreeAssumption
<1>4. c \in Chain[hashPrevBlock[d]] \/ d \in Chain[hashPrevBlock[c]]
  BY <1>1, <1>2, <1>3, StrictTrust
<1>5. QED
  BY <1>1, <1>4, ChainFacts

-----------------------------------------------------------------------------
(* The chain of a block of a valid chain is valid, and the block itself is *)
(* valid after exactly the chain of its parent.                            *)
LEMMA ValidPrefix ==
  ASSUME NEW b \in Block, ValidChain(b), NEW c \in Chain[b]
  PROVE  /\ ValidChain(c)
         /\ c # Genesis =>
              CanConnect(TxsOf(Chain[hashPrevBlock[c]]),
                         SpendsOf(Chain[hashPrevBlock[c]]), c)
<1>1. c \in Block /\ Chain[c] \subseteq Chain[b]
  BY BlockTreeAssumption
<1>2. ValidChain(c)
  BY <1>1 DEF ValidChain
<1>3. ASSUME c # Genesis
      PROVE  CanConnect(TxsOf(Chain[hashPrevBlock[c]]),
                        SpendsOf(Chain[hashPrevBlock[c]]), c)
  <2>1. Chain[c] \ {c} = Chain[hashPrevBlock[c]]
    BY <1>1, <1>3, ChainFacts
  <2>2. ValidBlock(c)
    BY <1>3 DEF ValidChain
  <2>3. QED
    BY <2>1, <2>2 DEF ValidBlock
<1>4. QED
  BY <1>2, <1>3

(* A block that connects on top of a valid chain makes a valid chain.      *)
LEMMA ValidExtend ==
  ASSUME NEW b \in Block, b # Genesis, ValidChain(hashPrevBlock[b]),
         CanConnect(TxsOf(Chain[hashPrevBlock[b]]),
                    SpendsOf(Chain[hashPrevBlock[b]]), b)
  PROVE  ValidChain(b)
<1>1. Chain[b] \ {b} = Chain[hashPrevBlock[b]]
  BY ChainFacts
<1>2. ValidBlock(b)
  BY <1>1 DEF ValidBlock
<1>3. QED
  BY <1>1, <1>2 DEF ValidChain

(* Every outpoint a valid chain spends is of a transaction of that chain.  *)
LEMMA SpendsKnown ==
  ASSUME NEW b \in Block, ValidChain(b), NEW o \in SpendsOf(Chain[b])
  PROVE  o[1] \in TxsOf(Chain[b])
<1>1. PICK c \in Chain[b] : o \in Spends(c)
  BY DEF SpendsOf
<1>2. PICK t \in Txs(c) : o \in vin[t]
  BY <1>1 DEF Spends
<1>3. c \in Block /\ c # Genesis
  <2>1. c \in Block
    BY BlockTreeAssumption
  <2>2. Txs(Genesis) = {}
    BY TransactionAssumption DEF Txs
  <2>3. QED
    BY <1>2, <2>1, <2>2
<1>4. /\ hashPrevBlock[c] \in Block
      /\ Chain[hashPrevBlock[c]] \subseteq Chain[b]
  BY <1>3, ChainFacts, BlockTreeAssumption
<1>5. o[1] \in EarlierTxs(c, t) \/ o[1] \in TxsOf(Chain[hashPrevBlock[c]])
  BY <1>2, <1>3, ValidPrefix DEF CanConnect
<1>6. EarlierTxs(c, t) \subseteq Txs(c)
  BY DEF EarlierTxs
<1>7. QED
  BY <1>4, <1>5, <1>6 DEF TxsOf

(* A valid chain confirms no transaction twice.  Take the first transaction*)
(* t of b that an ancestor c already confirmed.  It has an input, because  *)
(* the coinbases of a chain differ.  c spent that input, so b cannot find  *)
(* it unspent in the index; and it cannot come from an earlier transaction *)
(* of b, since c found it among the ancestors and t was the first.         *)
LEMMA NoDuplicateTx ==
  ASSUME NEW b \in Block, b # Genesis, ValidChain(b)
  PROVE  Txs(b) \cap TxsOf(Chain[hashPrevBlock[b]]) = {}
<1> DEFINE p == hashPrevBlock[b]
           D == {i \in DOMAIN vtx[b] : vtx[b][i] \in TxsOf(Chain[p])}
<1>1. SUFFICES ASSUME Txs(b) \cap TxsOf(Chain[p]) # {} PROVE FALSE
  OBVIOUS
<1>2. vtx[b] \in Seq(Tx)
  BY TransactionAssumption
<1>3. D \in SUBSET Nat /\ D # {}
  BY <1>1, <1>2 DEF Txs
<1>4. PICK i \in D : \A j \in D : i <= j
  BY <1>3, LeastNat
<1> DEFINE t == vtx[b][i]
<1>5. t \in Txs(b) /\ t \in TxsOf(Chain[p])
  BY <1>4 DEF Txs
<1>6. PICK c \in Chain[p] : t \in Txs(c)
  BY <1>5 DEF TxsOf
<1>7. p \in Block /\ c \in Block /\ c \in Chain[b] /\ c # b
  BY <1>6, ChainFacts, BlockTreeAssumption
<1>8. vin[t] # {}
  BY <1>5, <1>6, <1>7, TransactionAssumption
<1>9. PICK o \in vin[t] : TRUE
  BY <1>8
<1>10. o \in SpendsOf(Chain[p])
  BY <1>6, <1>9 DEF SpendsOf, Spends
<1>11. o[1] \in TxsOf(Chain[p])
  BY <1>7, <1>10, ValidPrefix, SpendsKnown, ChainFacts
<1>12. o[1] \in EarlierTxs(b, t)
  <2>1. CanConnect(TxsOf(Chain[p]), SpendsOf(Chain[p]), b)
    BY ValidPrefix, ChainFacts
  <2>2. QED
    BY <1>5, <1>9, <1>10, <2>1 DEF CanConnect
<1>13. PICK k, l \in DOMAIN vtx[b] : k < l /\ vtx[b][k] = o[1] /\ vtx[b][l] = t
  BY <1>12 DEF EarlierTxs
<1>14. l = i
  BY <1>4, <1>13, TransactionAssumption
<1>15. k \in D
  BY <1>11, <1>13
<1>16. i <= k /\ i \in Nat /\ k \in Nat
  BY <1>3, <1>4, <1>15
<1>17. QED
  BY <1>13, <1>14, <1>16

(* An outpoint a valid block spends is not spent by its ancestors, and none*)
(* of its own transactions' outpoints is.                                  *)
LEMMA FreshSpends ==
  ASSUME NEW b \in Block, b # Genesis, ValidChain(b)
  PROVE  /\ Spends(b) \cap SpendsOf(Chain[hashPrevBlock[b]]) = {}
         /\ OutPoints(Txs(b)) \cap SpendsOf(Chain[hashPrevBlock[b]]) = {}
<1> DEFINE p == hashPrevBlock[b]
<1>1. p \in Block /\ p \in Chain[b]
  BY ChainFacts
<1>2. ValidChain(p)
  BY <1>1, ValidPrefix
<1>3. Txs(b) \cap TxsOf(Chain[p]) = {}
  BY NoDuplicateTx
<1>4. \A o \in SpendsOf(Chain[p]) : o[1] \notin Txs(b)
  BY <1>1, <1>2, <1>3, SpendsKnown
<1>5. CanConnect(TxsOf(Chain[p]), SpendsOf(Chain[p]), b)
  BY ValidPrefix, ChainFacts
<1>6. ASSUME NEW o \in Spends(b), o \in SpendsOf(Chain[p]) PROVE FALSE
  <2>1. PICK t \in Txs(b) : o \in vin[t]
    BY <1>6 DEF Spends
  <2>2. o[1] \in EarlierTxs(b, t)
    BY <1>5, <1>6, <2>1 DEF CanConnect
  <2>3. QED
    BY <1>4, <1>6, <2>2 DEF EarlierTxs
<1>7. ASSUME NEW o \in OutPoints(Txs(b)), o \in SpendsOf(Chain[p]) PROVE FALSE
  <2>1. o[1] \in Txs(b)
    BY <1>7 DEF OutPoints
  <2>2. QED
    BY <1>4, <1>7, <2>1
<1>8. QED
  BY <1>6, <1>7

(* What ConnectBlock writes turns the exact index of the parent's chain    *)
(* into the exact index of the block's chain.                              *)
LEMMA ConnectExact ==
  ASSUME NEW b \in Block, b # Genesis, ValidChain(b)
  PROVE  LET p == hashPrevBlock[b] IN
         /\ TxsOf(Chain[p]) \cup Txs(b) = TxsOf(Chain[b])
         /\ (SpendsOf(Chain[p]) \ OutPoints(Txs(b))) \cup Spends(b)
              = SpendsOf(Chain[b])
<1> DEFINE p == hashPrevBlock[b]
<1>1. Chain[b] = Chain[p] \cup {b}
  BY BlockTreeAssumption
<1>2. TxsOf(Chain[b]) = TxsOf(Chain[p]) \cup Txs(b)
  BY <1>1 DEF TxsOf
<1>3. SpendsOf(Chain[b]) = SpendsOf(Chain[p]) \cup Spends(b)
  BY <1>1 DEF SpendsOf
<1>4. OutPoints(Txs(b)) \cap SpendsOf(Chain[p]) = {}
  BY FreshSpends
<1>5. QED
  BY <1>2, <1>3, <1>4

(* DisconnectBlock never fails on the last block of the chain the index    *)
(* stands for, and turns the index back into the one of the parent's chain.*)
LEMMA DisconnectExact ==
  ASSUME NEW b \in Block, b # Genesis, ValidChain(b)
  PROVE  LET p == hashPrevBlock[b] IN
         /\ CanDisconnect(TxsOf(Chain[b]), b)
         /\ TxsOf(Chain[b]) \ Txs(b) = TxsOf(Chain[p])
         /\ (SpendsOf(Chain[b]) \ Spends(b)) \ OutPoints(Txs(b))
              = SpendsOf(Chain[p])
<1> DEFINE p == hashPrevBlock[b]
<1>1. Chain[b] = Chain[p] \cup {b}
  BY BlockTreeAssumption
<1>2. TxsOf(Chain[b]) = TxsOf(Chain[p]) \cup Txs(b)
  BY <1>1 DEF TxsOf
<1>3. SpendsOf(Chain[b]) = SpendsOf(Chain[p]) \cup Spends(b)
  BY <1>1 DEF SpendsOf
<1>4. /\ Spends(b) \cap SpendsOf(Chain[p]) = {}
      /\ OutPoints(Txs(b)) \cap SpendsOf(Chain[p]) = {}
      /\ Txs(b) \cap TxsOf(Chain[p]) = {}
  BY FreshSpends, NoDuplicateTx
<1>6. ASSUME NEW t \in Txs(b), NEW o \in vin[t]
      PROVE  o[1] \in TxsOf(Chain[b]) \ LaterTxs(b, t) /\ o[2] \in vout[o[1]]
  <2>1. CanConnect(TxsOf(Chain[p]), SpendsOf(Chain[p]), b)
    BY ValidPrefix, ChainFacts
  <2>2. /\ o[2] \in vout[o[1]]
        /\ o[1] \in EarlierTxs(b, t) \/ o[1] \in TxsOf(Chain[p])
    BY <1>6, <2>1 DEF CanConnect
  <2>3. EarlierTxs(b, t) \subseteq Txs(b) /\ LaterTxs(b, t) \subseteq Txs(b)
    BY DEF EarlierTxs, LaterTxs
  <2>4. ASSUME o[1] \in EarlierTxs(b, t), o[1] \in LaterTxs(b, t) PROVE FALSE
    <3>1. PICK i, j \in DOMAIN vtx[b] :
             i < j /\ vtx[b][i] = o[1] /\ vtx[b][j] = t
      BY <2>4 DEF EarlierTxs
    <3>2. PICK k, l \in DOMAIN vtx[b] :
             k < l /\ vtx[b][k] = t /\ vtx[b][l] = o[1]
      BY <2>4 DEF EarlierTxs, LaterTxs
    <3>0. \A m, n \in DOMAIN vtx[b] : vtx[b][m] = vtx[b][n] => m = n
      BY TransactionAssumption, Zenon
    <3>3. i = l /\ j = k
      BY <3>0, <3>1, <3>2, Zenon
    <3>4. vtx[b] \in Seq(Tx)
      BY TransactionAssumption
    <3>5. QED
      BY <3>1, <3>2, <3>3, <3>4
  <2>5. QED
    BY <1>2, <1>4, <2>2, <2>3, <2>4
<1>7. CanDisconnect(TxsOf(Chain[b]), b)
  BY <1>6 DEF CanDisconnect
<1>8. QED
  BY <1>2, <1>3, <1>4, <1>7

-----------------------------------------------------------------------------
(* Type correctness of ChainState.                                         *)
USE DEF chainVars, orphanVars, syncVars, walkVars, queueVars, eventVars

(* The transactions and spends of a block have their types.                *)
LEMMA TxTypes ==
  ASSUME NEW b \in Block
  PROVE  Txs(b) \in SUBSET Tx /\ Spends(b) \in SUBSET (Tx \X Nat)
<1>1. vtx[b] \in Seq(Tx)
  BY TransactionAssumption
<1>2. Txs(b) \in SUBSET Tx
  BY <1>1 DEF Txs
<1>3. \A t \in Tx : vin[t] \in SUBSET (Tx \X Nat)
  BY TransactionAssumption
<1>4. QED
  BY <1>2, <1>3 DEF Spends

(* ConnectBlock and DisconnectBlock, field by field.                       *)
LEMMA ConnectBlockType ==
  ASSUME NEW v \in DB, NEW b \in Block, hashPrevBlock[b] \in Block,
         pnext \in [Block -> Block \cup {None}]
  PROVE  /\ ConnectBlock(v, b) \in DB
         /\ \A x \in Block : [ConnectBlock(v, b) EXCEPT !.best = x] \in DB
<1>1. Txs(b) \in SUBSET Tx /\ Spends(b) \in SUBSET (Tx \X Nat)
  BY TxTypes
<1>2. QED
  BY <1>1 DEF ConnectBlock, DB

(* DisconnectBlock yields a database state.                                *)
LEMMA DisconnectBlockType ==
  ASSUME NEW v \in DB, NEW b \in Block, hashPrevBlock[b] \in Block
  PROVE  DisconnectBlock(v, b) \in DB
  BY DEF DisconnectBlock, DB

(* The pointers after a reorganization are pointers.                       *)
LEMMA SwitchPnextType ==
  ASSUME TypeOK
  PROVE  SwitchPnext \in [Block -> Block \cup {None}]
<1> DEFINE C == Chain[pindexIntermediate] \ Chain[pindexBest]
<1>1. C \subseteq Block
  BY BlockTreeAssumption DEF TypeOK
<1>2. \A x \in Block : (\E c \in C : hashPrevBlock[c] = x) =>
         (CHOOSE c \in C : hashPrevBlock[c] = x) \in Block
  BY <1>1
<1>3. QED
  BY <1>2 DEF SwitchPnext, TypeOK

(* The bounded events keep their types.                                    *)
LEMMA EventType ==
  ASSUME TypeOK, NoEvent \/ IOError
  PROVE  calm' \in BOOLEAN /\ crashes' \in Nat /\ ioErrors' \in Nat
<1>1. CASE NoEvent
  BY <1>1 DEF TypeOK, NoEvent
<1>2. CASE IOError
  <2>1. calm' \in BOOLEAN
    BY <1>2, Zenon DEF IOError
  <2>2. crashes' \in Nat /\ ioErrors' \in Nat
    BY <1>2 DEF TypeOK, IOError
  <2>3. QED
    BY <2>1, <2>2
<1>3. QED
  BY <1>1, <1>2

(* A failed SetBestChain keeps the types.                                  *)
LEMMA SetBestChainFailedType ==
  ASSUME TypeOK, SetBestChainFailed, UNCHANGED <<orphanVars, queueVars, broken>>,
         NoEvent \/ IOError
  PROVE  TypeOK'
<1>1. /\ pc' \in Pc
      /\ hashInvalidCheckpoint' \in Block \cup {None}
  BY DEF TypeOK, SetBestChainFailed, Pc
<1>2. calm' \in BOOLEAN /\ crashes' \in Nat /\ ioErrors' \in Nat
  BY EventType
<1>3. QED
  BY <1>1, <1>2 DEF TypeOK, SetBestChainFailed

(* AcceptBlock keeps the types.                                            *)
LEMMA AcceptBlockType ==
  ASSUME TypeOK, NEW b \in Block, AcceptBlock(b)
  PROVE  TypeOK'
<1>1. calm' \in BOOLEAN /\ crashes' \in Nat /\ ioErrors' \in Nat
  BY EventType DEF AcceptBlock, AddToBlockIndex
<1>2. /\ pblock' \in Block
      /\ mapBlockIndex' \in SUBSET Block
      /\ pc' \in Pc /\ pc' # "orphans"
      /\ pindexNew' \in Block
      /\ pindexIntermediate' \in Block
      /\ pindexWalk' \in Block
      /\ caller' \in {"AcceptBlock", "pending", "message"}
  BY DEF TypeOK, AcceptBlock, AddToBlockIndex, CallSetBestChain, Pc
<1>3. db' \in DB
  <2>1. [db EXCEPT !.index = @ \cup {b},
                   !.next = [@ EXCEPT ![b] = pnext[b]]] \in DB
    BY DEF TypeOK, DB
  <2>2. QED
    BY <2>1 DEF TypeOK, AcceptBlock, AddToBlockIndex
<1>4. QED
  BY <1>1, <1>2, <1>3 DEF TypeOK, AcceptBlock

(* Every step keeps the types.                                             *)
LEMMA TypeStep ==
  ASSUME TypeOK, [Next]_vars
  PROVE  TypeOK'
<1>1. CASE UNCHANGED vars
  BY <1>1 DEF vars, TypeOK
<1>2. ASSUME NEW b \in Block, ProcessBlock(b) PROVE TypeOK'
  <2>1. CASE UNCHANGED vars
    BY <2>1 DEF vars, TypeOK
  <2>2. CASE AddOrphanBlock(b)
    BY <2>2 DEF TypeOK, AddOrphanBlock, NoEvent
  <2>3. CASE AcceptBlock(b)
    BY <2>3, AcceptBlockType
  <2>4. QED
    BY <1>2, <2>1, <2>2, <2>3 DEF ProcessBlock
<1>3. ASSUME NEW h \in CheckpointMsg, ProcessSyncCheckpoint(h) PROVE TypeOK'
  <2>1. h \in Block
    BY ChainStateAssumption
  <2>2. QED
    BY <1>3, <2>1 DEF TypeOK, ProcessSyncCheckpoint, NoEvent, RefuseCheckpoint,
                      SwitchToCheckpoint, CallSetBestChain, Pc
<1>4. CASE ExtendBestChain
  <2>1. ASSUME SetBestChainInner(pindexNew), pc' = "newBest", NoEvent,
               UNCHANGED <<mapBlockIndex, pindexBest, syncVars, batch, walkVars>>
        PROVE  TypeOK'
    <3>1. hashPrevBlock[pindexNew] \in Block
      BY <1>4 DEF ExtendBestChain, TypeOK
    <3>2. db' \in DB
      BY <2>1, <3>1, ConnectBlockType DEF SetBestChainInner, TypeOK
    <3>3. pnext' \in [Block -> Block \cup {None}]
      BY <2>1, <3>1 DEF SetBestChainInner, TypeOK
    <3>4. QED
      BY <1>4, <2>1, <3>2, <3>3 DEF TypeOK, ExtendBestChain, NoEvent, Pc
  <2>2. QED
    BY <1>4, <2>1, SetBestChainFailedType DEF ExtendBestChain
<1>5. CASE BeginReorganize
  <2>1. pindexIntermediate' \in Block
    BY <1>5, BlockTreeAssumption DEF BeginReorganize, TypeOK
  <2>2. QED
    BY <1>5, <2>1 DEF TypeOK, BeginReorganize, NoEvent, Pc
<1>6. CASE ReorganizeDisconnect
  <2>1. hashPrevBlock[pindexWalk] \in Block
    BY <1>6, ChainFacts, BlockTreeAssumption DEF ReorganizeDisconnect, TypeOK
  <2>2. DisconnectBlock(batch, pindexWalk) \in DB
    BY <2>1, DisconnectBlockType DEF TypeOK
  <2>3. QED
    BY <1>6, <2>1, <2>2, SetBestChainFailedType
       DEF TypeOK, ReorganizeDisconnect, NoEvent
<1>7. CASE ReorganizeConnect
  <2>1. PICK c \in Chain[pindexIntermediate] :
          /\ hashPrevBlock[c] = pindexWalk
          /\ \/ /\ batch' = ConnectBlock(batch, c)
                /\ pindexWalk' = c
                /\ NoEvent
                /\ UNCHANGED <<pc, chainVars, syncVars, db, pindexNew,
                               pindexIntermediate, caller>>
             \/ SetBestChainFailed /\ (NoEvent \/ IOError)
    BY <1>7 DEF ReorganizeConnect
  <2>2. c \in Block
    BY BlockTreeAssumption DEF TypeOK
  <2>3. ConnectBlock(batch, c) \in DB
    BY <2>1, <2>2, ConnectBlockType DEF TypeOK
  <2>4. QED
    BY <1>7, <2>1, <2>2, <2>3, SetBestChainFailedType
       DEF TypeOK, ReorganizeConnect, NoEvent
<1>8. CASE ReorganizeCommit
  <2>1. [batch EXCEPT !.best = pindexIntermediate] \in DB
    BY DEF TypeOK, DB
  <2>2. SwitchPnext \in [Block -> Block \cup {None}]
    BY SwitchPnextType
  <2>3. QED
    BY <1>8, <2>1, <2>2, SetBestChainFailedType
       DEF TypeOK, ReorganizeCommit, NoEvent, Pc
<1>9. CASE ConnectSecondary
  <2>1. PICK c \in Chain[pindexNew] :
          /\ hashPrevBlock[c] = pindexWalk
          /\ \/ /\ SetBestChainInner(c)
                /\ pindexWalk' = c
                /\ NoEvent
                /\ UNCHANGED <<pc, broken>>
             \/ /\ pc' = "newBest"
                /\ broken' = TRUE
                /\ NoEvent \/ IOError
                /\ UNCHANGED <<db, pnext, pindexWalk>>
    BY <1>9 DEF ConnectSecondary
  <2>2. c \in Block /\ hashPrevBlock[c] \in Block
    BY <2>1, BlockTreeAssumption DEF TypeOK
  <2>3. SetBestChainInner(c) => /\ db' \in DB
                                /\ pnext' \in [Block -> Block \cup {None}]
    BY <2>2, ConnectBlockType DEF SetBestChainInner, TypeOK
  <2>4. calm' \in BOOLEAN /\ crashes' \in Nat /\ ioErrors' \in Nat
    BY <2>1, EventType
  <2>5. db' \in DB /\ pnext' \in [Block -> Block \cup {None}] /\ pindexWalk' \in Block
    BY <2>1, <2>2, <2>3 DEF TypeOK
  <2>6. pc' \in Pc /\ broken' \in BOOLEAN
    BY <2>1 DEF TypeOK, Pc
  <2>7. QED
    BY <1>9, <2>4, <2>5, <2>6 DEF TypeOK, ConnectSecondary
<1>10. CASE SecondaryDone
  BY <1>10 DEF TypeOK, SecondaryDone, NoEvent, Pc
<1>11. CASE NewBest
  BY <1>11 DEF TypeOK, NewBest, NoEvent, Pc
<1>12. CASE WriteSyncCheckpoint
  <2>1. calm' \in BOOLEAN /\ crashes' \in Nat /\ ioErrors' \in Nat
    BY <1>12, EventType DEF WriteSyncCheckpoint
  <2>2. db' \in DB
    BY <1>12 DEF TypeOK, WriteSyncCheckpoint, DB
  <2>3. QED
    BY <1>12, <2>1, <2>2 DEF TypeOK, WriteSyncCheckpoint, Pc
<1>13. CASE AcceptPendingSyncCheckpoint
  <2>1. calm' \in BOOLEAN /\ crashes' \in Nat /\ ioErrors' \in Nat
    <3>1. CASE NoEvent \/ IOError
      BY <3>1, EventType
    <3>2. CASE calm' = FALSE /\ UNCHANGED <<crashes, ioErrors>>
      <4>1. calm' \in BOOLEAN
        BY <3>2, Zenon
      <4>2. QED
        BY <3>2, <4>1 DEF TypeOK
    <3>3. QED
      BY <1>13, <3>1, <3>2 DEF AcceptPendingSyncCheckpoint, RefuseCheckpoint,
                               SwitchToCheckpoint
  <2>2. QED
    BY <1>13, <2>1 DEF TypeOK, AcceptPendingSyncCheckpoint, RefuseCheckpoint,
                       SwitchToCheckpoint, CallSetBestChain, Pc
<1>14. CASE AcceptBlockReturns
  <2>1. vWorkQueue' \in Seq(Block) /\ (pc' = "orphans" => vWorkQueue' # << >>)
    <3>1. Append(vWorkQueue, pblock) \in Seq(Block)
          /\ Append(vWorkQueue, pblock) # << >>
      BY DEF TypeOK
    <3>2. QED
      BY <1>14, <3>1 DEF TypeOK, AcceptBlockReturns
  <2>2. pc' \in Pc /\ mapOrphanBlocks' \in SUBSET Block
        /\ setStakeSeenOrphan' \subseteq {prevoutStake[b] : b \in Block}
    BY <1>14 DEF TypeOK, AcceptBlockReturns, EraseOrphan, Pc
  <2>3. QED
    BY <1>14, <2>1, <2>2 DEF TypeOK, AcceptBlockReturns, NoEvent
<1>15. CASE NextOrphan
  BY <1>15, AcceptBlockType DEF NextOrphan, TypeOK
<1>16. CASE OrphansDone
  <2>1. Tail(vWorkQueue) \in Seq(Block)
    BY <1>16 DEF TypeOK, OrphansDone
  <2>2. QED
    BY <1>16, <2>1 DEF TypeOK, OrphansDone, NoEvent, Pc
<1>17. CASE CrashAndRestart
  <2>1. calm' \in BOOLEAN
    BY <1>17, Zenon DEF CrashAndRestart
  <2>2. << >> \in Seq(Block)
    OBVIOUS
  <2>3. QED
    BY <1>17, <2>1, <2>2, ChainStateAssumption
       DEF TypeOK, CrashAndRestart, DB, Pc
<1>18. QED
  BY <1>1, <1>2, <1>3, <1>4, <1>5, <1>6, <1>7, <1>8, <1>9, <1>10, <1>11,
     <1>12, <1>13, <1>14, <1>15, <1>16, <1>17 DEF Next, ThreadStep

-----------------------------------------------------------------------------
(* SetBestChain and Reorganize.                                            *)


(* Links: the forward pointers of a chain, in memory and on disk.          *)

(* ConnectBlock: the pointers of a chain extend to its next block.         *)
LEMMA LinksConnect ==
  ASSUME NEW c \in Block, c # Genesis,
         NEW n \in [Block -> Block \cup {None}],
         LinksMainChain(n, hashPrevBlock[c])
  PROVE  LinksMainChain([n EXCEPT ![c] = None, ![hashPrevBlock[c]] = c], c)
<1> DEFINE p == hashPrevBlock[c]
           m == [n EXCEPT ![c] = None, ![p] = c]
<1>1. /\ p \in Block /\ p # c
      /\ Chain[c] = Chain[p] \cup {c}
      /\ c \notin Chain[p]
      /\ p \in Chain[p]
  BY ChainFacts, BlockTreeAssumption
<1>2. SUFFICES ASSUME NEW x \in Block, NEW y \in Block
               PROVE  m[x] = y <=> hashPrevBlock[y] = x /\ y \in Chain[c]
  BY DEF LinksMainChain
<1>3. n[x] = y <=> hashPrevBlock[y] = x /\ y \in Chain[p]
  BY <1>1 DEF LinksMainChain
<1>4. CASE x = p
  <2>1. m[x] = c
    BY <1>1, <1>4
  <2>2. hashPrevBlock[y] = p /\ y \in Chain[c] => y = c
    BY <1>1, OneChild, ChainFacts
  <2>3. QED
    BY <1>1, <1>4, <2>1, <2>2
<1>5. CASE x = c
  <2>1. m[x] = None
    BY <1>1, <1>5
  <2>2. ASSUME hashPrevBlock[y] = c, y \in Chain[c] PROVE FALSE
    <3>1. y # Genesis
      BY <2>2, BlockTreeAssumption
    <3>2. c \in Chain[y] /\ c # y
      BY <2>2, <3>1, ChainFacts
    <3>3. QED
      BY <2>2, <3>2, StrictTrust
  <2>3. QED
    BY <1>5, <2>1, <2>2, BlockTreeAssumption
<1>6. CASE x # p /\ x # c
  BY <1>1, <1>3, <1>6
<1>7. QED
  BY <1>4, <1>5, <1>6

(* DisconnectBlock: clearing the parent's pointer gives the parent's links. *)
LEMMA LinksDisconnect ==
  ASSUME NEW b \in Block, b # Genesis,
         NEW n \in [Block -> Block \cup {None}],
         LinksMainChain(n, b)
  PROVE  LinksMainChain([n EXCEPT ![hashPrevBlock[b]] = None], hashPrevBlock[b])
<1> DEFINE p == hashPrevBlock[b]
           m == [n EXCEPT ![p] = None]
<1>1. /\ p \in Block
      /\ Chain[b] = Chain[p] \cup {b}
      /\ b \notin Chain[p]
  BY ChainFacts, BlockTreeAssumption
<1>2. SUFFICES ASSUME NEW x \in Block, NEW y \in Block
               PROVE  m[x] = y <=> hashPrevBlock[y] = x /\ y \in Chain[p]
  BY DEF LinksMainChain
<1>3. n[x] = y <=> hashPrevBlock[y] = x /\ y \in Chain[b]
  BY DEF LinksMainChain
<1>4. CASE x = p
  <2>1. m[x] = None
    BY <1>1, <1>4
  <2>2. hashPrevBlock[y] = p /\ y \in Chain[b] => y = b
    BY <1>1, OneChild, ChainFacts
  <2>3. QED
    BY <1>1, <1>4, <2>1, <2>2, BlockTreeAssumption
<1>5. CASE x # p
  BY <1>1, <1>3, <1>5
<1>6. QED
  BY <1>4, <1>5

(* There is one function of forward pointers for a chain.                  *)
LEMMA LinksUnique ==
  ASSUME NEW b \in Block,
         NEW m \in [Block -> Block \cup {None}],
         NEW n \in [Block -> Block \cup {None}],
         LinksMainChain(m, b), LinksMainChain(n, b)
  PROVE  m = n
<1>1. ASSUME NEW x \in Block PROVE m[x] = n[x]
  <2>1. m[x] \in Block => n[x] = m[x]
    BY DEF LinksMainChain
  <2>2. n[x] \in Block => m[x] = n[x]
    BY DEF LinksMainChain
  <2>3. QED
    BY <2>1, <2>2
<1>2. QED
  BY <1>1

(* What the end of Reorganize does to pnext moves it from the old chain to *)
(* the new one.                                                            *)
LEMMA LinksSwitch ==
  ASSUME TypeOK, LinksMainChain(pnext, pindexBest)
  PROVE  LinksMainChain(SwitchPnext, pindexIntermediate)
<1> DEFINE B == Chain[pindexBest]
           M == Chain[pindexIntermediate]
<1>1. pindexBest \in Block /\ pindexIntermediate \in Block
  BY DEF TypeOK
<1>2. B \subseteq Block /\ M \subseteq Block
  BY <1>1, BlockTreeAssumption
<1>3. SUFFICES ASSUME NEW x \in Block, NEW y \in Block
               PROVE  SwitchPnext[x] = y <=> hashPrevBlock[y] = x /\ y \in M
  BY DEF LinksMainChain
<1>4. pnext[x] = y <=> hashPrevBlock[y] = x /\ y \in B
  BY DEF LinksMainChain
<1>5. CASE \E c \in M \ B : hashPrevBlock[c] = x
  <2>1. SwitchPnext[x] = CHOOSE c \in M \ B : hashPrevBlock[c] = x
    BY <1>5 DEF SwitchPnext
  <2>2. SwitchPnext[x] \in M \ B /\ hashPrevBlock[SwitchPnext[x]] = x
    BY <1>5, <2>1
  <2>3. hashPrevBlock[y] = x /\ y \in M => y = SwitchPnext[x]
    BY <1>1, <1>2, <2>2, OneChild
  <2>4. QED
    BY <2>2, <2>3
<1>6. CASE /\ ~\E c \in M \ B : hashPrevBlock[c] = x
           /\ \E d \in B \ M : hashPrevBlock[d] = x
  <2>1. SwitchPnext[x] = None
    BY <1>6 DEF SwitchPnext
  <2>2. PICK d \in B \ M : hashPrevBlock[d] = x
    BY <1>6
  <2>3. ASSUME hashPrevBlock[y] = x, y \in M PROVE FALSE
    <3>1. y \in B
      BY <1>6, <2>3
    <3>2. y = d
      BY <1>1, <2>2, <2>3, <3>1, OneChild
    <3>3. QED
      BY <2>2, <2>3, <3>2
  <2>4. QED
    BY <2>1, <2>3, BlockTreeAssumption
<1>7. CASE /\ ~\E c \in M \ B : hashPrevBlock[c] = x
           /\ ~\E d \in B \ M : hashPrevBlock[d] = x
  <2>1. SwitchPnext[x] = pnext[x]
    BY <1>7 DEF SwitchPnext
  <2>2. QED
    BY <1>4, <1>7, <2>1
<1>8. QED
  BY <1>5, <1>6, <1>7

-----------------------------------------------------------------------------
(* Views: a database that stands exactly for a chain, and how ConnectBlock *)
(* and DisconnectBlock move it.                                            *)

(* ConnectBlock turns the view of a chain into that of the longer chain.   *)
LEMMA ConnectView ==
  ASSUME NEW v \in DB, NEW c \in Block, c # Genesis,
         ViewOf(v, hashPrevBlock[c]), CanConnect(v.tx, v.spent, c),
         pnext[c] = None
  PROVE  /\ ViewOf(ConnectBlock(v, c), c)
         /\ ViewOf([ConnectBlock(v, c) EXCEPT !.best = c], c)
<1> DEFINE p == hashPrevBlock[c]
           w == ConnectBlock(v, c)
<1>1. ValidChain(c)
  BY ValidExtend DEF ViewOf
<1>2. /\ w.tx = v.tx \cup Txs(c)
      /\ w.spent = (v.spent \ OutPoints(Txs(c))) \cup Spends(c)
      /\ w.next = [v.next EXCEPT ![c] = None, ![p] = c]
      /\ w.index = v.index \cup {c, p}
  BY DEF ConnectBlock, DB
<1>3. w.tx = TxsOf(Chain[c]) /\ w.spent = SpendsOf(Chain[c])
  BY <1>1, <1>2, ConnectExact DEF ViewOf
<1>4. v.next \in [Block -> Block \cup {None}]
  BY DEF DB
<1>5. LinksMainChain(w.next, c)
  <2> DEFINE n == v.next
  <2>1. n \in [Block -> Block \cup {None}] /\ LinksMainChain(n, p) /\ c # Genesis
    BY <1>4 DEF ViewOf
  <2>2. w.next = [n EXCEPT ![c] = None, ![p] = c]
    BY <1>2
  <2> HIDE DEF n, w
  <2>3. LinksMainChain([n EXCEPT ![c] = None, ![p] = c], c)
    BY <2>1, LinksConnect
  <2> QED BY <2>2, <2>3
<1>6. /\ [w EXCEPT !.best = c].tx = w.tx
      /\ [w EXCEPT !.best = c].spent = w.spent
      /\ [w EXCEPT !.best = c].next = w.next
      /\ [w EXCEPT !.best = c].index = w.index
  BY DEF ConnectBlock, DB
<1>7. Chain[c] \subseteq w.index
  <2>1. Chain[c] = Chain[p] \cup {c}
    BY BlockTreeAssumption
  <2>2. QED
    BY <1>2, <2>1 DEF ViewOf
<1>8. QED
  BY <1>1, <1>3, <1>5, <1>6, <1>7 DEF ViewOf

(* DisconnectBlock turns the view of a chain into that of the parent.      *)
LEMMA DisconnectView ==
  ASSUME NEW v \in DB, NEW b \in Block, b # Genesis, ViewOf(v, b)
  PROVE  /\ CanDisconnect(v.tx, b)
         /\ ViewOf(DisconnectBlock(v, b), hashPrevBlock[b])
<1> DEFINE p == hashPrevBlock[b]
           w == DisconnectBlock(v, b)
<1>1. /\ w.tx = v.tx \ Txs(b)
      /\ w.spent = (v.spent \ Spends(b)) \ OutPoints(Txs(b))
      /\ w.next = [v.next EXCEPT ![p] = None]
      /\ w.index = v.index \cup {p}
  BY DEF DisconnectBlock, DB
<1>2. /\ CanDisconnect(v.tx, b)
      /\ w.tx = TxsOf(Chain[p])
      /\ w.spent = SpendsOf(Chain[p])
  BY <1>1, DisconnectExact DEF ViewOf
<1>3. ValidChain(p)
  BY ValidPrefix, ChainFacts DEF ViewOf
<1>4. v.next \in [Block -> Block \cup {None}]
  BY DEF DB
<1>5. LinksMainChain(w.next, p)
  <2> DEFINE n == v.next
  <2>1. n \in [Block -> Block \cup {None}] /\ LinksMainChain(n, b) /\ b # Genesis
    BY <1>4 DEF ViewOf
  <2>2. w.next = [n EXCEPT ![p] = None]
    BY <1>1
  <2> HIDE DEF n, w
  <2>3. LinksMainChain([n EXCEPT ![p] = None], p)
    BY <2>1, LinksDisconnect
  <2> QED BY <2>2, <2>3
<1>6. Chain[p] \subseteq w.index
  <2>1. Chain[p] \subseteq Chain[b]
    BY ChainFacts
  <2>2. Chain[b] \subseteq v.index
    BY DEF ViewOf
  <2>3. v.index \subseteq w.index
    BY <1>1
  <2> HIDE DEF w
  <2> QED BY <2>1, <2>2, <2>3
<1>7. QED
  BY <1>2, <1>3, <1>5, <1>6 DEF ViewOf

-----------------------------------------------------------------------------
(* The invariant.                                                          *)

(* A block of the index that is not in the main chain has no pnext.        *)
LEMMA PnextNull ==
  ASSUME TypeOK, NEW b \in Block, LinksMainChain(pnext, b),
         NEW c \in Block, c \notin Chain[b]
  PROVE  pnext[c] = None
<1>1. SUFFICES ASSUME pnext[c] # None PROVE FALSE
  OBVIOUS
<1>2. pnext[c] \in Block
  BY <1>1 DEF TypeOK
<1>3. hashPrevBlock[pnext[c]] = c /\ pnext[c] \in Chain[b]
  BY <1>2 DEF LinksMainChain
<1>4. pnext[c] # Genesis
  BY <1>3, BlockTreeAssumption
<1>5. c \in Chain[pnext[c]]
  <2> DEFINE d == pnext[c]
  <2>1. d \in Block /\ d # Genesis /\ hashPrevBlock[d] = c
    BY <1>2, <1>3, <1>4
  <2> HIDE DEF d
  <2>2. hashPrevBlock[d] \in Chain[d]
    BY <2>1, ChainFacts
  <2> QED BY <2>1, <2>2 DEF d
<1>6. QED
  BY <1>3, <1>5, BlockTreeAssumption

(* IsInMainChain: the blocks it accepts are those of the best chain.       *)
LEMMA MainChainMember ==
  ASSUME TypeOK, NEW b \in Block, LinksMainChain(pnext, b),
         NEW c \in Block, pnext[c] # None \/ c = b
  PROVE  c \in Chain[b]
  BY PnextNull, ChainFacts

(* The state after the first start satisfies the invariant.                *)
LEMMA InvInit == Init => Inv
<1> SUFFICES ASSUME Init PROVE Inv
  OBVIOUS
<1>1. << >> \in Seq(Block) /\ Genesis \in Block
  BY BlockTreeAssumption
<1>2. TypeOK
  BY <1>1, ChainStateAssumption DEF Init, TypeOK, DB, Pc
<1>3. Chain[Genesis] = {Genesis} /\ hashPrevBlock[Genesis] = None
  BY BlockTreeAssumption
<1>4. ViewOf(db, db.best)
  <2>1. Txs(Genesis) = {}
    <3>1. vtx[Genesis] = << >>
      BY TransactionAssumption
    <3>2. DOMAIN vtx[Genesis] = {}
      BY <3>1
    <3>3. QED
      BY <3>2 DEF Txs
  <2>2. TxsOf(Chain[Genesis]) = {} /\ SpendsOf(Chain[Genesis]) = {}
    BY <1>3, <2>1 DEF TxsOf, SpendsOf, Spends
  <2>3. ValidChain(Genesis)
    BY <1>3 DEF ValidChain
  <2>4. LinksMainChain(db.next, Genesis)
    BY <1>3, BlockTreeAssumption DEF Init, LinksMainChain
  <2>5. QED
    BY <1>3, <2>2, <2>3, <2>4 DEF Init, ViewOf
<1>5. SyncInv
  BY DEF Init, SyncInv, InSetBestChain
<1>6. DiskInv
  BY <1>3, <1>4 DEF Init, DiskInv
<1>7. ThreadInv
  BY DEF Init, ThreadInv
<1>8. CalmInv
  BY <1>1, <1>3, BlockTreeAssumption DEF Init, CalmInv, InSetBestChain
<1>9. QED
  BY <1>2, <1>5, <1>6, <1>7, <1>8 DEF Inv

(* SetBestChain gives up.  In a calm run it does so only for a block whose *)
(* chain is not valid.                                                     *)
LEMMA SetBestChainFailedInv ==
  ASSUME Inv, TypeOK', pc \in {"setBest", "reorganize"}, SetBestChainFailed,
         UNCHANGED <<orphanVars, queueVars, broken>>,
         \/ IOError
         \/ NoEvent /\ (calm => ~ValidChain(pindexNew))
  PROVE  Inv'
<1>1. pc' \in {"rejected", "acceptDone", "idle"}
  BY DEF SetBestChainFailed
<1>2. SyncInv'
  BY <1>1 DEF Inv, SyncInv, SetBestChainFailed, InSetBestChain
<1>3. DiskInv'
  BY DEF Inv, DiskInv, SetBestChainFailed, ViewOf, LinksMainChain
<1>4. ThreadInv'
  BY <1>1 DEF Inv, ThreadInv, SetBestChainFailed
<1>5. CalmInv'
  <2>1. CASE IOError
    BY <2>1 DEF IOError, CalmInv
  <2>2. CASE NoEvent /\ (calm => ~ValidChain(pindexNew))
    BY <1>1, <2>2 DEF Inv, CalmInv, NoEvent, SetBestChainFailed, InSetBestChain
  <2>3. QED
    BY <2>1, <2>2
<1>6. QED
  BY <1>2, <1>3, <1>4, <1>5 DEF Inv

(* SetBestChainInner moves disk and memory from a block to its child.      *)
LEMMA InnerStep ==
  ASSUME Inv, ~broken, NEW c \in Block, hashPrevBlock[c] = db.best,
         SetBestChainInner(c)
  PROVE  /\ ViewOf(db, c)'
         /\ db'.best = c
         /\ db'.sync = db.sync
         /\ pnext' = db'.next
         /\ db.sync \in Chain[c]
<1>1. TypeOK /\ db \in DB /\ db.best \in Block
  BY DEF Inv, TypeOK, DB
<1>2. /\ ViewOf(db, hashPrevBlock[c])
      /\ pnext = db.next
      /\ db.sync \in Chain[hashPrevBlock[c]]
  BY DEF Inv, DiskInv
<1>3. c # Genesis /\ c \notin Chain[db.best]
  BY <1>1, ChainFacts, BlockTreeAssumption
<1>4. pnext[c] = None
  BY <1>1, <1>2, <1>3, PnextNull DEF ViewOf
<1>5. ViewOf([ConnectBlock(db, c) EXCEPT !.best = c], c)
  BY <1>1, <1>2, <1>3, <1>4, ConnectView DEF SetBestChainInner
<1>6. db' = [ConnectBlock(db, c) EXCEPT !.best = c]
  BY DEF SetBestChainInner
<1>7. db'.best = c /\ db'.sync = db.sync
  BY <1>1, <1>6 DEF ConnectBlock, DB
<1>8. db'.next = [pnext EXCEPT ![c] = pnext[c], ![hashPrevBlock[c]] = c]
  BY <1>1, <1>2, <1>6 DEF ConnectBlock, DB
<1>9. pnext' = db'.next
  BY <1>1, <1>8 DEF SetBestChainInner, TypeOK
<1>10. db.sync \in Chain[c]
  BY <1>2, <1>3, ChainFacts
<1>11. ViewOf(db', c)
  BY <1>5, <1>6
<1>12. QED
  BY <1>7, <1>9, <1>10, <1>11 DEF ViewOf, LinksMainChain

(* SetBestChain for a child of the best block keeps the invariant.         *)
LEMMA ExtendBestChainInv ==
  ASSUME Inv, TypeOK', ExtendBestChain
  PROVE  Inv'
<1>1. TypeOK /\ pindexNew \in Block /\ pindexBest \in Block
  BY DEF Inv, TypeOK
<1>2. ~broken => pindexBest = db.best
  BY DEF Inv, ThreadInv, ExtendBestChain
<1>3. ASSUME SetBestChainInner(pindexNew), pc' = "newBest", NoEvent,
             UNCHANGED <<mapBlockIndex, pindexBest, syncVars, batch, walkVars>>
      PROVE  Inv'
  <2>1. ASSUME ~broken
        PROVE  /\ ViewOf(db, pindexNew)'
               /\ db'.best = pindexNew
               /\ db'.sync = db.sync
               /\ pnext' = db'.next
               /\ db.sync \in Chain[pindexNew]
    BY <1>1, <1>2, <1>3, <2>1, InnerStep DEF ExtendBestChain
  <2>2. db'.sync = db.sync
    BY <1>1, <1>3 DEF SetBestChainInner, ConnectBlock, TypeOK, DB
  <2>3. SyncInv'
    BY <1>3, <2>2 DEF Inv, SyncInv, ExtendBestChain, InSetBestChain
  <2>4. DiskInv'
    BY <1>3, <2>1 DEF DiskInv, ExtendBestChain, ViewOf, LinksMainChain
  <2>5. ThreadInv'
    BY <1>3, <2>1 DEF ThreadInv, ExtendBestChain
  <2>6. CalmInv'
    BY <1>3 DEF Inv, CalmInv, ExtendBestChain, InSetBestChain, NoEvent
  <2>7. QED
    BY <2>3, <2>4, <2>5, <2>6 DEF Inv
<1>4. ASSUME ~CanConnect(db.tx, db.spent, pindexNew), calm
      PROVE  ~ValidChain(pindexNew)
  <2>1. ~broken /\ ViewOf(db, db.best)
    BY <1>4 DEF Inv, CalmInv, DiskInv
  <2>2. pindexNew # Genesis
    BY <1>1, BlockTreeAssumption DEF ExtendBestChain
  <2>3. ~CanConnect(TxsOf(Chain[hashPrevBlock[pindexNew]]),
                    SpendsOf(Chain[hashPrevBlock[pindexNew]]), pindexNew)
    BY <1>2, <1>4, <2>1 DEF ViewOf, ExtendBestChain
  <2>4. QED
    BY <1>1, <2>2, <2>3, ValidPrefix, ChainFacts
<1>5. QED
  BY <1>3, <1>4, SetBestChainFailedInv DEF ExtendBestChain

(* The start of Reorganize keeps the invariant.                            *)
LEMMA BeginReorganizeInv ==
  ASSUME Inv, TypeOK', BeginReorganize
  PROVE  Inv'
<1>1. PICK x \in Chain[pindexNew] : FirstHeavier(x) /\ pindexIntermediate' = x
  BY DEF BeginReorganize
<1>2. SyncInv'
  BY <1>1 DEF Inv, SyncInv, BeginReorganize, FirstHeavier, InSetBestChain
<1>3. DiskInv'
  BY DEF Inv, DiskInv, BeginReorganize, ViewOf, LinksMainChain
<1>4. ThreadInv'
  <2>1. SUFFICES ASSUME ~broken PROVE ThreadInv'
    BY DEF ThreadInv, BeginReorganize
  <2>2. pindexBest = db.best /\ ViewOf(db, db.best)
    BY <2>1 DEF Inv, ThreadInv, DiskInv, BeginReorganize
  <2>3. ViewOf(batch, pindexWalk)'
    BY <2>2 DEF BeginReorganize, ViewOf, LinksMainChain
  <2>4. QED
    BY <2>2, <2>3 DEF ThreadInv, BeginReorganize
<1>5. CalmInv'
  BY DEF Inv, CalmInv, BeginReorganize, InSetBestChain, NoEvent
<1>6. QED
  BY <1>2, <1>3, <1>4, <1>5 DEF Inv

(* A block undone in the batch keeps the invariant.                        *)
LEMMA ReorganizeDisconnectInv ==
  ASSUME Inv, TypeOK', ReorganizeDisconnect
  PROVE  Inv'
<1>1. /\ TypeOK /\ pindexWalk \in Block /\ pindexIntermediate \in Block
      /\ batch \in DB /\ pindexWalk # Genesis
  BY BlockTreeAssumption DEF Inv, TypeOK, ReorganizeDisconnect
<1>2. ~broken => /\ CanDisconnect(batch.tx, pindexWalk)
                 /\ ViewOf(DisconnectBlock(batch, pindexWalk),
                           hashPrevBlock[pindexWalk])
  BY <1>1, DisconnectView DEF Inv, ThreadInv, ReorganizeDisconnect
<1>3. ASSUME batch' = DisconnectBlock(batch, pindexWalk),
             pindexWalk' = hashPrevBlock[pindexWalk], NoEvent,
             UNCHANGED <<pc, chainVars, syncVars, db, pindexNew,
                         pindexIntermediate, caller>>
      PROVE  Inv'
  <2>1. batch'.sync = batch.sync
    BY <1>1, <1>3 DEF DisconnectBlock, DB
  <2>2. SyncInv'
    BY <1>3, <2>1 DEF Inv, SyncInv, InSetBestChain
  <2>3. DiskInv'
    BY <1>3 DEF Inv, DiskInv, ReorganizeDisconnect, ViewOf, LinksMainChain
  <2>4. ThreadInv'
    <3>1. SUFFICES ASSUME ~broken PROVE ThreadInv'
      BY DEF ThreadInv, ReorganizeDisconnect
    <3>2. ViewOf(batch, pindexWalk)'
      BY <1>2, <1>3, <3>1 DEF ViewOf, LinksMainChain
    <3>3. Chain[hashPrevBlock[pindexWalk]] = Chain[pindexWalk] \ {pindexWalk}
      BY <1>1, ChainFacts
    <3>4. Chain[pindexBest] \cap Chain[pindexIntermediate]
            \subseteq Chain[hashPrevBlock[pindexWalk]]
      BY <3>1, <3>3 DEF Inv, ThreadInv, ReorganizeDisconnect
    <3>5. QED
      BY <1>3, <3>1, <3>2, <3>4 DEF Inv, ThreadInv, ReorganizeDisconnect
  <2>5. CalmInv'
    BY <1>3 DEF Inv, CalmInv, ReorganizeDisconnect, InSetBestChain, NoEvent
  <2>6. QED
    BY <2>2, <2>3, <2>4, <2>5 DEF Inv
<1>4. calm => CanDisconnect(batch.tx, pindexWalk)
  BY <1>2 DEF Inv, CalmInv
<1>5. QED
  BY <1>3, <1>4, SetBestChainFailedInv DEF ReorganizeDisconnect

(* A block connected in the batch keeps the invariant.                     *)
LEMMA ReorganizeConnectInv ==
  ASSUME Inv, TypeOK', ReorganizeConnect
  PROVE  Inv'
<1>1. /\ TypeOK /\ pindexWalk \in Block /\ pindexIntermediate \in Block
      /\ pindexNew \in Block /\ pindexBest \in Block /\ batch \in DB
  BY DEF Inv, TypeOK
<1>2. PICK c \in Chain[pindexIntermediate] :
        /\ hashPrevBlock[c] = pindexWalk
        /\ \/ /\ CanConnect(batch.tx, batch.spent, c)
              /\ batch' = ConnectBlock(batch, c)
              /\ pindexWalk' = c
              /\ NoEvent
              /\ UNCHANGED <<pc, chainVars, syncVars, db, pindexNew,
                             pindexIntermediate, caller>>
           \/ /\ ~CanConnect(batch.tx, batch.spent, c)
              /\ SetBestChainFailed
              /\ NoEvent
           \/ SetBestChainFailed /\ IOError
  BY DEF ReorganizeConnect
<1>3. /\ c \in Block /\ c # Genesis /\ c \in Chain[pindexNew]
      /\ Chain[c] = Chain[pindexWalk] \cup {c} /\ c \notin Chain[pindexWalk]
  <2>1. c \in Block /\ c # Genesis
    BY <1>1, <1>2, BlockTreeAssumption
  <2>2. pindexIntermediate \in Chain[pindexNew]
    BY DEF Inv, SyncInv, ReorganizeConnect
  <2>3. c \in Chain[pindexNew]
    BY <1>1, <1>2, <2>2, BlockTreeAssumption
  <2>4. QED
    BY <1>2, <2>1, <2>3, BlockTreeAssumption
<1>4. ASSUME ~broken
      PROVE  ViewOf(batch, hashPrevBlock[c]) /\ pnext[c] = None
  <2>1. /\ ViewOf(batch, pindexWalk)
        /\ Chain[pindexBest] \cap Chain[pindexIntermediate] \subseteq Chain[pindexWalk]
        /\ LinksMainChain(pnext, pindexBest)
    BY <1>4 DEF Inv, ThreadInv, DiskInv, ViewOf, ReorganizeConnect
  <2>2. c \notin Chain[pindexBest]
    BY <1>2, <1>3, <2>1
  <2>3. QED
    BY <1>1, <1>2, <1>3, <2>1, <2>2, PnextNull
<1>5. ASSUME CanConnect(batch.tx, batch.spent, c),
             batch' = ConnectBlock(batch, c), pindexWalk' = c, NoEvent,
             UNCHANGED <<pc, chainVars, syncVars, db, pindexNew,
                         pindexIntermediate, caller>>
      PROVE  Inv'
  <2>1. batch'.sync = batch.sync
    BY <1>1, <1>5 DEF ConnectBlock, DB
  <2>2. SyncInv'
    BY <1>5, <2>1 DEF Inv, SyncInv, InSetBestChain
  <2>3. DiskInv'
    BY <1>5 DEF Inv, DiskInv, ReorganizeConnect, ViewOf, LinksMainChain
  <2>4. ThreadInv'
    <3>1. SUFFICES ASSUME ~broken PROVE ThreadInv'
      BY DEF ThreadInv, ReorganizeConnect
    <3>2. ViewOf(ConnectBlock(batch, c), c)
      BY <1>1, <1>3, <1>4, <1>5, <3>1, ConnectView
    <3>3. ViewOf(batch, pindexWalk)'
      BY <1>5, <3>2 DEF ViewOf, LinksMainChain
    <3>4. QED
      BY <1>3, <1>5, <3>1, <3>3 DEF Inv, ThreadInv, ReorganizeConnect
  <2>5. CalmInv'
    BY <1>5 DEF Inv, CalmInv, ReorganizeConnect, InSetBestChain, NoEvent
  <2>6. QED
    BY <2>2, <2>3, <2>4, <2>5 DEF Inv
<1>6. ASSUME ~CanConnect(batch.tx, batch.spent, c), calm
      PROVE  ~ValidChain(pindexNew)
  <2>1. ViewOf(batch, hashPrevBlock[c])
    BY <1>4, <1>6 DEF Inv, CalmInv
  <2>2. ~CanConnect(TxsOf(Chain[hashPrevBlock[c]]),
                    SpendsOf(Chain[hashPrevBlock[c]]), c)
    BY <1>6, <2>1 DEF ViewOf
  <2>3. QED
    BY <1>1, <1>3, <2>2, ValidPrefix
<1>7. pc = "reorganize" /\ UNCHANGED <<orphanVars, queueVars, broken>>
  BY DEF ReorganizeConnect
<1>8. QED
  BY <1>2, <1>5, <1>6, <1>7, SetBestChainFailedInv

(* The commit of Reorganize keeps the synchronized checkpoint on the best  *)
(* chain, and in a calm run there is nothing left to connect after it.     *)
LEMMA ReorganizeCommitInv ==
  ASSUME Inv, TypeOK', ReorganizeCommit
  PROVE  Inv'
<1>1. /\ TypeOK /\ pindexWalk \in Block /\ pindexIntermediate \in Block
      /\ pindexNew \in Block /\ pindexBest \in Block /\ batch \in DB
      /\ pc = "reorganize" /\ pindexWalk = pindexIntermediate
      /\ UNCHANGED <<orphanVars, queueVars, broken>>
  BY DEF Inv, TypeOK, ReorganizeCommit
<1>2. /\ batch.sync = db.sync /\ hashSyncCheckpoint = db.sync
      /\ hashSyncCheckpoint \in Chain[pindexNew]
      /\ pindexIntermediate \in Chain[pindexNew]
      /\ \/ pindexIntermediate = pindexNew
         \/ nChainTrust[pindexIntermediate] > nChainTrust[pindexBest]
  BY <1>1 DEF Inv, SyncInv, InSetBestChain
<1>3. ASSUME db' = [batch EXCEPT !.best = pindexIntermediate],
             pnext' = SwitchPnext, pc' = "secondary", NoEvent,
             UNCHANGED <<mapBlockIndex, pindexBest, syncVars, batch, walkVars>>
      PROVE  Inv'
  <2>1. /\ db'.best = pindexIntermediate /\ db'.sync = db.sync
        /\ db'.tx = batch.tx /\ db'.spent = batch.spent
        /\ db'.next = batch.next /\ db'.index = batch.index
    BY <1>1, <1>2, <1>3 DEF DB
  <2>2. SyncInv'
    BY <1>2, <1>3, <2>1 DEF SyncInv, InSetBestChain
  <2>3. ASSUME ~broken
        PROVE  /\ ViewOf(batch, pindexIntermediate)
               /\ LinksMainChain(pnext, pindexBest)
               /\ db.sync \in Chain[pindexBest]
    BY <1>1, <2>3 DEF Inv, ThreadInv, DiskInv, ViewOf
  <2>4. ASSUME ~broken PROVE db.sync \in Chain[pindexIntermediate]
    <3>1. CASE pindexIntermediate = pindexNew
      BY <1>2, <3>1
    <3>2. CASE nChainTrust[pindexIntermediate] > nChainTrust[pindexBest]
      <4>1. db.sync \in Block /\ nChainTrust[db.sync] <= nChainTrust[pindexBest]
        BY <1>1, <2>3, <2>4, BlockTreeAssumption
      <4>2. \/ db.sync \in Chain[pindexIntermediate]
            \/ pindexIntermediate \in Chain[db.sync]
        BY <1>1, <1>2, BlockTreeAssumption
      <4>3. pindexIntermediate \in Chain[db.sync] =>
              nChainTrust[pindexIntermediate] <= nChainTrust[db.sync]
        BY <4>1, BlockTreeAssumption
      <4>4. /\ nChainTrust[pindexIntermediate] \in Nat
            /\ nChainTrust[pindexBest] \in Nat /\ nChainTrust[db.sync] \in Nat
        BY <1>1, <4>1, BlockTreeAssumption
      <4>5. QED
        BY <3>2, <4>1, <4>2, <4>3, <4>4
    <3>3. QED
      BY <1>2, <3>1, <3>2
  <2>5. DiskInv'
    <3>1. SUFFICES ASSUME ~broken PROVE DiskInv'
      BY <1>1 DEF DiskInv
    <3>2. ViewOf(db, db.best)'
      BY <2>1, <2>3, <3>1 DEF ViewOf, LinksMainChain
    <3>3. LinksMainChain(SwitchPnext, pindexIntermediate)
      BY <1>1, <2>3, <3>1, LinksSwitch
    <3>4. LinksMainChain(pnext', pindexIntermediate)
      BY <1>3, <3>3
    <3>5. LinksMainChain(batch.next, pindexIntermediate)
      BY <2>3, <3>1 DEF ViewOf
    <3>6. /\ pnext' \in [Block -> Block \cup {None}]
          /\ batch.next \in [Block -> Block \cup {None}]
      BY <1>1 DEF TypeOK, DB
    <3>7. pnext' = batch.next
      BY <1>1, <3>4, <3>5, <3>6, LinksUnique
    <3>8. QED
      BY <2>1, <2>4, <3>1, <3>2, <3>7 DEF DiskInv
  <2>6. ThreadInv'
    BY <1>1, <1>2, <1>3, <2>1 DEF ThreadInv
  <2>7. CalmInv'
    <3>1. SUFFICES ASSUME calm PROVE CalmInv'
      BY <1>3 DEF CalmInv, NoEvent
    <3>2. /\ ~broken /\ pindexNew \in mapBlockIndex
          /\ Chain[pindexNew] \subseteq mapBlockIndex
          /\ \A b \in mapBlockIndex :
               ValidChain(b) => \/ nChainTrust[b] <= nChainTrust[pindexBest]
                                \/ b = pindexNew
      BY <1>1, <3>1 DEF Inv, CalmInv, InSetBestChain
    <3>3. ValidChain(pindexIntermediate)
      BY <2>3, <3>2 DEF ViewOf
    <3>4. pindexIntermediate = pindexNew
      <4>1. /\ nChainTrust[pindexIntermediate] \in Nat
            /\ nChainTrust[pindexBest] \in Nat
        BY <1>1, BlockTreeAssumption
      <4>2. QED
        BY <1>2, <3>2, <3>3, <4>1
    <3>5. QED
      BY <1>1, <1>3, <3>1, <3>4 DEF Inv, CalmInv, InSetBestChain, NoEvent
  <2>8. QED
    BY <2>2, <2>5, <2>6, <2>7 DEF Inv
<1>4. QED
  BY <1>1, <1>3, SetBestChainFailedInv DEF ReorganizeCommit
=============================================================================
