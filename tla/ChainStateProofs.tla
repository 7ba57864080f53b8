-------------------------- MODULE ChainStateProofs --------------------------
(***************************************************************************)
(* ChainState for every tree of blocks, every set of transactions and any  *)
(* number of crashes, I/O errors and checkpoint messages.  Then ChainState *)
(* implements ChainLedger: every step of the node maps to a step of the    *)
(* ledger or to none.  Two invariants support it: Inv, and CallerInv,      *)
(* which says for which blocks SetBestChain is ever called.                *)
(***************************************************************************)
EXTENDS ChainReorgProofs

USE DEF chainVars, orphanVars, syncVars, walkVars, queueVars, eventVars

(* A postponed block, connected or failed, keeps the invariant.            *)
LEMMA ConnectSecondaryInv ==
  ASSUME Inv, TypeOK', ConnectSecondary
  PROVE  Inv'
<1>1. /\ TypeOK /\ pindexWalk \in Block /\ pindexNew \in Block
      /\ pc = "secondary" /\ db \in DB
      /\ UNCHANGED <<mapBlockIndex, pindexBest, orphanVars, syncVars, batch,
                     pindexNew, pindexIntermediate, caller, queueVars>>
  BY DEF Inv, TypeOK, ConnectSecondary
<1>2. PICK c \in Chain[pindexNew] :
        /\ hashPrevBlock[c] = pindexWalk
        /\ \/ /\ SetBestChainInner(c)
              /\ pindexWalk' = c
              /\ NoEvent
              /\ UNCHANGED <<pc, broken>>
           \/ /\ pc' = "newBest"
              /\ broken' = TRUE
              /\ NoEvent \/ IOError
              /\ UNCHANGED <<db, pnext, pindexWalk>>
  BY DEF ConnectSecondary
<1>3. c \in Block /\ c # Genesis /\ pindexWalk \in Chain[c]
  BY <1>1, <1>2, ChainFacts, BlockTreeAssumption
<1>4. ~calm
  <2>1. c # pindexWalk
    BY <1>2, <1>3, ChainFacts
  <2>2. pindexWalk # pindexNew
    BY <1>1, <1>2, <1>3, <2>1, StrictTrust
  <2>3. QED
    BY <1>1, <2>2 DEF Inv, CalmInv
<1>5. CASE /\ SetBestChainInner(c) /\ pindexWalk' = c /\ NoEvent
           /\ UNCHANGED <<pc, broken>>
  <2>1. ASSUME ~broken
        PROVE  /\ ViewOf(db, c)' /\ db'.best = c /\ db'.sync = db.sync
               /\ pnext' = db'.next /\ db.sync \in Chain[c]
    <3>1. db.best = pindexWalk
      BY <1>1, <2>1 DEF Inv, ThreadInv
    <3>2. QED
      BY <1>2, <1>3, <1>5, <2>1, <3>1, InnerStep
  <2>2. db'.sync = db.sync
    BY <1>1, <1>5 DEF SetBestChainInner, ConnectBlock, DB
  <2>3. SyncInv'
    BY <1>1, <1>5, <2>2 DEF Inv, SyncInv, InSetBestChain
  <2>4. DiskInv'
    BY <1>5, <2>1 DEF DiskInv, ViewOf, LinksMainChain
  <2>5. ThreadInv'
    BY <1>1, <1>2, <1>5, <2>1 DEF ThreadInv
  <2>6. CalmInv'
    BY <1>4, <1>5 DEF CalmInv, NoEvent
  <2>7. QED
    BY <2>3, <2>4, <2>5, <2>6 DEF Inv
<1>6. CASE /\ pc' = "newBest"
           /\ broken' = TRUE
           /\ NoEvent \/ IOError
           /\ UNCHANGED <<db, pnext, pindexWalk>>
  <2>1. SyncInv'
    BY <1>1, <1>6 DEF Inv, SyncInv, InSetBestChain
  <2>2. DiskInv' /\ ThreadInv'
    BY <1>6 DEF DiskInv, ThreadInv
  <2>3. CalmInv'
    BY <1>4, <1>6 DEF CalmInv, NoEvent, IOError
  <2>4. QED
    BY <2>1, <2>2, <2>3 DEF Inv
<1>7. QED
  BY <1>2, <1>5, <1>6

(* The end of the loop over postponed blocks keeps the invariant.          *)
LEMMA SecondaryDoneInv ==
  ASSUME Inv, TypeOK', SecondaryDone
  PROVE  Inv'
<1>1. SyncInv'
  BY DEF Inv, SyncInv, SecondaryDone, InSetBestChain
<1>2. DiskInv'
  BY DEF Inv, DiskInv, SecondaryDone, ViewOf, LinksMainChain
<1>3. ThreadInv'
  BY DEF Inv, ThreadInv, SecondaryDone
<1>4. CalmInv'
  BY DEF Inv, CalmInv, SecondaryDone, InSetBestChain, NoEvent
<1>5. QED
  BY <1>1, <1>2, <1>3, <1>4 DEF Inv

(* The change of pindexBest keeps the invariant.                           *)
LEMMA NewBestInv ==
  ASSUME Inv, TypeOK', NewBest
  PROVE  Inv'
<1>1. pindexNew \in Block /\ pindexBest \in Block /\ mapBlockIndex \subseteq Block
  BY DEF Inv, TypeOK
<1>2. pc' \in {"accepted", "writeSync"}
  BY DEF NewBest
<1>3. SyncInv'
  BY <1>2 DEF Inv, SyncInv, NewBest, InSetBestChain
<1>4. DiskInv'
  BY DEF Inv, DiskInv, NewBest, ViewOf, LinksMainChain
<1>5. ThreadInv'
  BY <1>1, <1>2, ChainFacts DEF Inv, ThreadInv, NewBest
<1>6. CalmInv'
  <2>1. SUFFICES ASSUME calm PROVE CalmInv'
    BY DEF CalmInv, NewBest, NoEvent
  <2>2. /\ ~broken /\ \A b \in mapBlockIndex : Chain[b] \subseteq mapBlockIndex
        /\ nChainTrust[pindexNew] > nChainTrust[pindexBest]
        /\ \A b \in mapBlockIndex :
             ValidChain(b) => nChainTrust[b] <= nChainTrust[pindexBest] \/ b = pindexNew
    BY <2>1 DEF Inv, CalmInv, NewBest, InSetBestChain
  <2>3. \A b \in mapBlockIndex :
          ValidChain(b) => nChainTrust[b] <= nChainTrust[pindexNew]
    <3>1. \A b \in Block : nChainTrust[b] \in Nat
      BY BlockTreeAssumption
    <3>2. QED
      BY <1>1, <2>2, <3>1
  <2>4. QED
    BY <1>2, <2>2, <2>3 DEF CalmInv, NewBest, InSetBestChain
<1>7. QED
  BY <1>3, <1>4, <1>5, <1>6 DEF Inv

(* The write of the checkpoint, done or failed, keeps the invariant.       *)
LEMMA WriteSyncCheckpointInv ==
  ASSUME Inv, TypeOK', WriteSyncCheckpoint
  PROVE  Inv'
<1>1. db \in DB /\ pc' \in {"acceptDone", "idle"} /\ pc = "writeSync"
  BY DEF Inv, TypeOK, WriteSyncCheckpoint
<1>2. \/ db' = [db EXCEPT !.sync = pindexNew] /\ hashSyncCheckpoint' = pindexNew
      \/ UNCHANGED <<db, hashSyncCheckpoint>>
  BY DEF WriteSyncCheckpoint
<1>3. /\ db'.best = db.best /\ db'.tx = db.tx /\ db'.spent = db.spent
      /\ db'.next = db.next /\ db'.index = db.index
      /\ db'.sync = hashSyncCheckpoint'
      /\ db'.sync \in {db.sync, pindexNew}
  BY <1>1, <1>2 DEF Inv, SyncInv, DB
<1>4. SyncInv'
  BY <1>1, <1>3 DEF SyncInv, InSetBestChain
<1>5. DiskInv'
  <2>1. SUFFICES ASSUME ~broken PROVE DiskInv'
    BY DEF DiskInv, WriteSyncCheckpoint
  <2>2. /\ ViewOf(db, db.best) /\ pnext = db.next
        /\ db.sync \in Chain[db.best] /\ pindexNew \in Chain[db.best]
    BY <1>1, <2>1 DEF Inv, DiskInv, ThreadInv
  <2>3. ViewOf(db, db.best)'
    BY <1>3, <2>2 DEF ViewOf, LinksMainChain
  <2>4. QED
    BY <1>3, <2>2, <2>3 DEF DiskInv, WriteSyncCheckpoint
<1>6. ThreadInv'
  BY <1>1, <1>3 DEF Inv, ThreadInv, WriteSyncCheckpoint
<1>7. CalmInv'
  BY <1>1 DEF Inv, CalmInv, WriteSyncCheckpoint, InSetBestChain, NoEvent, IOError
<1>8. QED
  BY <1>4, <1>5, <1>6, <1>7 DEF Inv

(* A step that leaves the chain, the checkpoint and the disk alone.        *)
LEMMA QuietInv ==
  ASSUME Inv, TypeOK',
         ~InSetBestChain, pc' \in Pc, ~InSetBestChain', pc' # "writeSync",
         NoEvent \/ IOError,
         UNCHANGED <<chainVars, hashSyncCheckpoint, db, broken>>
  PROVE  Inv'
<1>1. SyncInv'
  BY DEF Inv, SyncInv, InSetBestChain
<1>2. DiskInv'
  BY DEF Inv, DiskInv, ViewOf, LinksMainChain
<1>3. ThreadInv'
  BY DEF Inv, ThreadInv, InSetBestChain
<1>4. CalmInv'
  <2>1. CASE NoEvent
    BY <2>1 DEF Inv, CalmInv, NoEvent, InSetBestChain
  <2>2. CASE IOError
    BY <2>2 DEF CalmInv, IOError
  <2>3. QED
    BY <2>1, <2>2
<1>5. QED
  BY <1>1, <1>2, <1>3, <1>4 DEF Inv

(* The decision to follow a valid checkpoint keeps the invariant.          *)
LEMMA SwitchToCheckpointInv ==
  ASSUME Inv, TypeOK', NEW h \in Block, NEW from, pc \in {"idle", "accepted"},
         ValidateSyncCheckpoint(h), SwitchToCheckpoint(h, from),
         UNCHANGED <<chainVars, syncVars, db, batch, broken>>
  PROVE  Inv'
<1>1. TypeOK /\ pindexBest \in Block
  BY DEF Inv, TypeOK
<1>2. pindexNew' = h /\ pc' \in {"writeSync", "setBest"}
  BY DEF SwitchToCheckpoint, CallSetBestChain
<1>3. SyncInv'
  BY <1>2 DEF Inv, SyncInv, InSetBestChain, ValidateSyncCheckpoint
<1>4. DiskInv'
  BY DEF Inv, DiskInv, ViewOf, LinksMainChain
<1>5. ThreadInv'
  <2>1. SUFFICES ASSUME ~broken PROVE ThreadInv'
    BY DEF ThreadInv
  <2>2. pindexBest = db.best /\ LinksMainChain(pnext, pindexBest)
    BY <2>1 DEF Inv, ThreadInv, DiskInv, ViewOf
  <2>3. pc' = "writeSync" => h \in Chain[pindexBest]
    BY <1>1, <2>2, MainChainMember
    DEF SwitchToCheckpoint, CallSetBestChain, IsInMainChain
  <2>4. QED
    BY <1>2, <2>2, <2>3 DEF ThreadInv
<1>6. CalmInv'
  <2>1. SUFFICES ASSUME calm' PROVE CalmInv'
    BY DEF CalmInv
  <2>2. pc' = "writeSync" /\ calm
    BY <2>1 DEF SwitchToCheckpoint, NoEvent
  <2>3. QED
    BY <2>2 DEF Inv, CalmInv, InSetBestChain
<1>7. QED
  BY <1>3, <1>4, <1>5, <1>6 DEF Inv

(* AcceptBlock with AddToBlockIndex keeps the invariant.                   *)
LEMMA AcceptBlockInv ==
  ASSUME Inv, TypeOK', NEW b \in Block, pc \in {"idle", "orphans"}, AcceptBlock(b)
  PROVE  Inv'
<1>1. /\ TypeOK /\ db \in DB /\ pindexBest \in Block /\ mapBlockIndex \subseteq Block
      /\ hashSyncCheckpoint \in Block
      /\ UNCHANGED <<pnext, pindexBest, orphanVars, syncVars, batch, broken>>
  BY DEF Inv, TypeOK, AcceptBlock
<1>2. CASE /\ pc' = "rejected"
           /\ NoEvent \/ IOError
           /\ UNCHANGED <<mapBlockIndex, db, walkVars>>
  BY <1>1, <1>2, QuietInv DEF InSetBestChain, Pc
<1>3. CASE AcceptChecks(b) /\ AddToBlockIndex(b)
  <2>1. /\ b # Genesis /\ hashPrevBlock[b] \in Block
        /\ hashPrevBlock[b] \in mapBlockIndex
        /\ Chain[b] = Chain[hashPrevBlock[b]] \cup {b}
    BY <1>1, <1>3, BlockTreeAssumption DEF AcceptChecks
  <2>2. hashSyncCheckpoint \in Chain[b]
    <3>1. nHeight[b] \in Nat /\ nHeight[hashSyncCheckpoint] \in Nat
      BY <1>1, BlockTreeAssumption
    <3>2. QED
      BY <1>3, <2>1, <3>1 DEF AcceptChecks, CheckSync
  <2>3. CASE IOError /\ pc' = "rejected" /\ UNCHANGED <<db, walkVars>>
    <3>1. SyncInv'
      BY <1>1, <2>3 DEF Inv, SyncInv, InSetBestChain
    <3>2. DiskInv'
      BY <1>1, <2>3 DEF Inv, DiskInv, ViewOf, LinksMainChain
    <3>3. ThreadInv'
      BY <1>1, <2>3 DEF Inv, ThreadInv
    <3>4. CalmInv'
      BY <2>3 DEF CalmInv, IOError
    <3>5. QED
      BY <3>1, <3>2, <3>3, <3>4 DEF Inv
  <2>4. CASE /\ db' = [db EXCEPT !.index = @ \cup {b},
                                 !.next = [@ EXCEPT ![b] = pnext[b]]]
             /\ IF nChainTrust[b] > nChainTrust[pindexBest]
                THEN CallSetBestChain(b, "AcceptBlock")
                ELSE pc' = "accepted" /\ UNCHANGED walkVars
             /\ NoEvent
    <3>1. /\ db'.best = db.best /\ db'.tx = db.tx /\ db'.spent = db.spent
          /\ db'.sync = db.sync /\ db.index \subseteq db'.index
          /\ db'.next = [db.next EXCEPT ![b] = pnext[b]]
          /\ db.next \in [Block -> Block \cup {None}]
      BY <1>1, <2>4 DEF DB
    <3>2. \/ /\ pc' = "setBest" /\ pindexNew' = b /\ caller' = "AcceptBlock"
             /\ nChainTrust[b] > nChainTrust[pindexBest]
          \/ /\ pc' = "accepted"
             /\ ~(nChainTrust[b] > nChainTrust[pindexBest])
      BY <2>4 DEF CallSetBestChain
    <3>3. SyncInv'
      BY <1>1, <2>2, <3>1, <3>2 DEF Inv, SyncInv, InSetBestChain
    <3>4. DiskInv'
      <4>1. SUFFICES ASSUME ~broken PROVE DiskInv'
        BY <1>1 DEF DiskInv
      <4>2. ViewOf(db, db.best) /\ pnext = db.next /\ db.sync \in Chain[db.best]
        BY <4>1 DEF Inv, DiskInv
      <4>3. db'.next = db.next
        BY <3>1, <4>2
      <4>4. ViewOf(db, db.best)'
        BY <3>1, <4>2, <4>3 DEF ViewOf, LinksMainChain
      <4>5. QED
        BY <1>1, <3>1, <4>2, <4>3, <4>4 DEF DiskInv
    <3>5. ThreadInv'
      BY <1>1, <3>1, <3>2 DEF Inv, ThreadInv
    <3>6. CalmInv'
      <4>1. SUFFICES ASSUME calm PROVE CalmInv'
        BY <2>4 DEF CalmInv, NoEvent
      <4>2. /\ ~broken
            /\ \A x \in mapBlockIndex : Chain[x] \subseteq mapBlockIndex
            /\ \A x \in mapBlockIndex :
                 ValidChain(x) => nChainTrust[x] <= nChainTrust[pindexBest]
        BY <4>1 DEF Inv, CalmInv, InSetBestChain
      <4>3. mapBlockIndex' = mapBlockIndex \cup {b}
        BY <1>3 DEF AddToBlockIndex
      <4>4. \A x \in mapBlockIndex' : Chain[x] \subseteq mapBlockIndex'
        BY <2>1, <4>2, <4>3
      <4>5. nChainTrust[b] \in Nat /\ nChainTrust[pindexBest] \in Nat
        BY <1>1, BlockTreeAssumption
      <4>6. \A x \in mapBlockIndex' :
              ValidChain(x) => \/ nChainTrust[x] <= nChainTrust[pindexBest]
                               \/ pc' = "setBest" /\ x = pindexNew'
        BY <3>2, <4>2, <4>3, <4>5
      <4>7. QED
        BY <1>1, <3>2, <4>2, <4>3, <4>4, <4>6 DEF CalmInv, InSetBestChain
    <3>7. QED
      BY <3>3, <3>4, <3>5, <3>6 DEF Inv
  <2>5. QED
    BY <1>3, <2>3, <2>4 DEF AddToBlockIndex
<1>4. QED
  BY <1>2, <1>3 DEF AcceptBlock

(* A checkpoint, from a message or pending, keeps the invariant.           *)
LEMMA CheckpointInv ==
  ASSUME Inv, TypeOK',
         \/ AcceptPendingSyncCheckpoint
         \/ \E h \in CheckpointMsg : ProcessSyncCheckpoint(h)
  PROVE  Inv'
<1>1. TypeOK /\ mapBlockIndex \subseteq Block
  BY DEF Inv, TypeOK
<1>2. CASE AcceptPendingSyncCheckpoint
  <2>1. CASE /\ hashPendingCheckpoint \in mapBlockIndex
             /\ ValidateSyncCheckpoint(hashPendingCheckpoint)
             /\ SwitchToCheckpoint(hashPendingCheckpoint, "pending")
             /\ UNCHANGED syncVars
    BY <1>1, <1>2, <2>1, SwitchToCheckpointInv DEF AcceptPendingSyncCheckpoint
  <2>2. CASE pc' = "acceptDone" /\ (NoEvent \/ IOError)
             /\ UNCHANGED hashSyncCheckpoint
    BY <1>2, <2>2, QuietInv DEF AcceptPendingSyncCheckpoint, InSetBestChain, Pc
  <2>3. QED
    BY <1>2, <2>1, <2>2 DEF AcceptPendingSyncCheckpoint, RefuseCheckpoint
<1>3. ASSUME NEW h \in CheckpointMsg, ProcessSyncCheckpoint(h) PROVE Inv'
  <2>1. CASE /\ h \in mapBlockIndex
             /\ ValidateSyncCheckpoint(h)
             /\ SwitchToCheckpoint(h, "message")
             /\ UNCHANGED syncVars
    BY <1>1, <1>3, <2>1, SwitchToCheckpointInv DEF ProcessSyncCheckpoint
  <2>2. CASE pc' = pc /\ NoEvent /\ UNCHANGED hashSyncCheckpoint
    BY <1>3, <2>2, QuietInv DEF ProcessSyncCheckpoint, InSetBestChain, Pc
  <2>3. QED
    BY <1>3, <2>1, <2>2 DEF ProcessSyncCheckpoint, RefuseCheckpoint
<1>4. QED
  BY <1>2, <1>3

(* A stop at any step and the restart from disk keep the invariant.        *)
LEMMA CrashAndRestartInv ==
  ASSUME Inv, TypeOK', CrashAndRestart
  PROVE  Inv'
<1>1. pc' \in {"idle", "aborted"} /\ calm' = FALSE
  BY DEF CrashAndRestart
<1>2. SyncInv'
  BY <1>1 DEF SyncInv, CrashAndRestart, InSetBestChain
<1>3. DiskInv'
  BY DEF Inv, DiskInv, CrashAndRestart, ViewOf, LinksMainChain
<1>4. ThreadInv'
  BY <1>1 DEF ThreadInv, CrashAndRestart
<1>5. CalmInv'
  BY <1>1 DEF CalmInv
<1>6. QED
  BY <1>2, <1>3, <1>4, <1>5 DEF Inv

(* The invariant only depends on the variables of the specification.       *)
LEMMA StutterInv ==
  ASSUME Inv, UNCHANGED vars
  PROVE  Inv'
<1>1. TypeOK'
  BY DEF Inv, TypeOK, vars, DB, Pc
<1>2. SyncInv' /\ ThreadInv'
  BY DEF Inv, SyncInv, ThreadInv, vars, InSetBestChain, ViewOf, LinksMainChain
<1>3. DiskInv'
  BY DEF Inv, DiskInv, vars, ViewOf, LinksMainChain
<1>4. CalmInv'
  BY DEF Inv, CalmInv, vars, InSetBestChain
<1>5. QED
  BY <1>1, <1>2, <1>3, <1>4 DEF Inv

(* Every step keeps the invariant.                                         *)
LEMMA InvStep == Inv /\ [Next]_vars => Inv'
<1> SUFFICES ASSUME Inv, [Next]_vars PROVE Inv'
  OBVIOUS
<1>1. TypeOK'
  BY TypeStep DEF Inv
<1>2. ASSUME NEW b \in Block, ProcessBlock(b) PROVE Inv'
  <2>1. CASE UNCHANGED vars
    BY <2>1, StutterInv
  <2>2. CASE AddOrphanBlock(b)
    BY <1>1, <1>2, <2>2, QuietInv DEF AddOrphanBlock, ProcessBlock, InSetBestChain, Pc
  <2>3. CASE AcceptBlock(b)
    BY <1>1, <1>2, <2>3, AcceptBlockInv DEF ProcessBlock
  <2>4. QED
    BY <1>2, <2>1, <2>2, <2>3 DEF ProcessBlock
<1>3. ASSUME NextOrphan PROVE Inv'
  <2>1. PICK o \in mapOrphanBlocks : AcceptBlock(o)
    BY <1>3 DEF NextOrphan
  <2>2. o \in Block /\ pc = "orphans"
    BY <1>3 DEF Inv, TypeOK, NextOrphan
  <2>3. QED
    BY <1>1, <2>1, <2>2, AcceptBlockInv
<1>4. CASE AcceptBlockReturns
  BY <1>1, <1>4, QuietInv DEF AcceptBlockReturns, InSetBestChain, Pc
<1>5. CASE OrphansDone
  BY <1>1, <1>5, QuietInv DEF OrphansDone, InSetBestChain, Pc
<1>6. CASE ThreadStep
  BY <1>1, <1>3, <1>4, <1>5, <1>6, ExtendBestChainInv, BeginReorganizeInv,
     ReorganizeDisconnectInv, ReorganizeConnectInv, ReorganizeCommitInv,
     ConnectSecondaryInv, SecondaryDoneInv, NewBestInv, WriteSyncCheckpointInv,
     CheckpointInv DEF ThreadStep
<1>7. CASE UNCHANGED vars
  BY <1>7, StutterInv
<1>8. QED
  BY <1>1, <1>2, <1>6, <1>7, CheckpointInv, CrashAndRestartInv DEF Next

(* Every step keeps the synchronized checkpoint or moves it to a           *)
(* descendant.                                                             *)
LEMMA CheckpointNext == Inv /\ [Next]_vars => [CheckpointStep]_vars
<1> SUFFICES ASSUME Inv, Next PROVE CheckpointStep
  OBVIOUS
<1>1. TypeOK /\ hashSyncCheckpoint \in Block
  BY DEF Inv, TypeOK
<1>2. CASE hashSyncCheckpoint' = hashSyncCheckpoint
  BY <1>1, <1>2, ChainFacts DEF CheckpointStep
<1>3. CASE WriteSyncCheckpoint
  BY <1>2, <1>3 DEF Inv, SyncInv, WriteSyncCheckpoint, CheckpointStep
<1>4. CASE CrashAndRestart
  BY <1>2, <1>4 DEF Inv, SyncInv, CrashAndRestart
<1>5. ASSUME NEW b \in Block, ProcessBlock(b)
      PROVE  hashSyncCheckpoint' = hashSyncCheckpoint
  BY <1>5 DEF ProcessBlock, AddOrphanBlock, AcceptBlock, vars
<1>6. ASSUME NEW h \in CheckpointMsg, ProcessSyncCheckpoint(h)
      PROVE  hashSyncCheckpoint' = hashSyncCheckpoint
  BY <1>6 DEF ProcessSyncCheckpoint, RefuseCheckpoint
<1>7. CASE ThreadStep /\ ~WriteSyncCheckpoint
  BY <1>2, <1>7
  DEF ThreadStep, ExtendBestChain, BeginReorganize, ReorganizeDisconnect,
      ReorganizeConnect, ReorganizeCommit, ConnectSecondary, SecondaryDone,
      NewBest, AcceptPendingSyncCheckpoint, RefuseCheckpoint,
      AcceptBlockReturns, NextOrphan, AcceptBlock, OrphansDone,
      SetBestChainFailed
<1>8. QED
  BY <1>2, <1>3, <1>4, <1>5, <1>6, <1>7 DEF Next

-----------------------------------------------------------------------------
(* The variables of a node's chain state keep their types.                 *)
THEOREM TypeCorrect == Spec => []TypeOK
<1>1. Init => TypeOK
  BY InvInit DEF Inv
<1>2. QED
  BY <1>1, TypeStep, PTL DEF Spec

(* The inductive invariant holds in every reachable state.                 *)
THEOREM Invariance == Spec => []Inv
  BY InvInit, InvStep, PTL DEF Spec

(* Through every Reorganize, crash and failed commit the transaction index *)
(* on disk is exactly that of the committed best chain.                    *)
THEOREM TxIndexTheorem == Spec => []TxIndexExact
<1>1. Inv => TxIndexExact
  BY DEF Inv, DiskInv, ViewOf, TxIndexExact
<1>2. QED
  BY <1>1, Invariance, PTL

(* SetBestChain commits only chains every block of which is valid.         *)
THEOREM CommittedChainTheorem == Spec => []CommittedChainValid
<1>1. Inv => CommittedChainValid
  BY DEF Inv, DiskInv, ViewOf, CommittedChainValid
<1>2. QED
  BY <1>1, Invariance, PTL

(* When cs_main is released, memory and disk name the same best block and  *)
(* the same synchronized checkpoint.                                       *)
THEOREM MemoryTheorem == Spec => []MemoryFollowsDisk
<1>1. Inv => MemoryFollowsDisk
  BY DEF Inv, ThreadInv, SyncInv, MemoryFollowsDisk
<1>2. QED
  BY <1>1, Invariance, PTL

(* pnext in memory and hashNext on disk link exactly the best chain.       *)
THEOREM PnextTheorem == Spec => []PnextIsMainChain
<1>1. Inv => PnextIsMainChain
  BY DEF Inv, ThreadInv, DiskInv, ViewOf, PnextIsMainChain
<1>2. QED
  BY <1>1, Invariance, PTL

(* Without crashes, I/O errors and forced checkpoints, AddToBlockIndex and *)
(* SetBestChain leave the best block at least as heavy as every known      *)
(* block of a valid chain.                                                 *)
THEOREM HeaviestTheorem == Spec => []HeaviestValidChainWins
<1>1. Inv => HeaviestValidChainWins
  BY DEF Inv, CalmInv, InSetBestChain, HeaviestValidChainWins
<1>2. QED
  BY <1>1, Invariance, PTL

(* ... and SetBestChain then never postpones a block.                      *)
THEOREM NothingPostponedTheorem == Spec => []NothingPostponed
<1>1. Inv => NothingPostponed
  BY DEF Inv, CalmInv, NothingPostponed
<1>2. QED
  BY <1>1, Invariance, PTL

(* LoadBlockIndex finds the best chain on disk after a stop at any moment. *)
THEOREM BestChainIndexedTheorem == Spec => []BestChainIndexed
<1>1. Inv => BestChainIndexed
  BY DEF Inv, DiskInv, ViewOf, BestChainIndexed
<1>2. QED
  BY <1>1, Invariance, PTL

(* Whatever fails or stops, the indexes and links on disk are exactly      *)
(* those of one valid chain.                                               *)
THEOREM DiskExactTheorem == Spec => []DiskExact
  BY TxIndexTheorem, CommittedChainTheorem, BestChainIndexedTheorem,
     PnextTheorem, PTL DEF DiskExact

(* No reorganisation leaves the committed synchronized checkpoint behind.  *)
THEOREM CheckpointTheorem == Spec => []CheckpointInMainChain
<1>1. Inv => CheckpointInMainChain
  BY DEF Inv, DiskInv, CheckpointInMainChain
<1>2. QED
  BY <1>1, Invariance, PTL

(* WriteSyncCheckpoint and a restart only move the checkpoint forward on   *)
(* its own chain.                                                          *)
THEOREM CheckpointAdvancesTheorem == Spec => CheckpointAdvances
  BY Invariance, CheckpointNext, PTL DEF Spec, CheckpointAdvances

-----------------------------------------------------------------------------
(* The refinement of the ledger.                                           *)

(* SetBestChain is not running at first, and only a signed block pends.    *)
LEMMA CallerInit == Init => CallerInv
  BY ChainStateAssumption DEF Init, CallerInv, Signed, InSetBestChain

(* A failed SetBestChain leaves no caller whose reason could be wrong.     *)
LEMMA CallerFailed ==
  ASSUME CallerInv, SetBestChainFailed
  PROVE  CallerInv'
  BY DEF CallerInv, SetBestChainFailed, InSetBestChain, Signed

(* AcceptBlock calls SetBestChain only for a heavier block.                *)
LEMMA CallerAccept ==
  ASSUME CallerInv, NEW b \in Block, AcceptBlock(b)
  PROVE  CallerInv'
  BY DEF CallerInv, AcceptBlock, AddToBlockIndex, CallSetBestChain,
         InSetBestChain, Signed

(* A checkpoint calls SetBestChain only for a signed block.                *)
LEMMA CallerSwitch ==
  ASSUME CallerInv, NEW h \in Signed, NEW from, from # "AcceptBlock",
         SwitchToCheckpoint(h, from), UNCHANGED <<chainVars, syncVars>>
  PROVE  CallerInv'
  BY DEF CallerInv, SwitchToCheckpoint, CallSetBestChain, InSetBestChain, Signed

(* Every step keeps the reason for which SetBestChain runs.                *)
LEMMA CallerStep == TypeOK /\ CallerInv /\ [Next]_vars => CallerInv'
<1> SUFFICES ASSUME TypeOK, CallerInv, [Next]_vars PROVE CallerInv'
  OBVIOUS
<1>1. CASE UNCHANGED vars
  BY <1>1 DEF CallerInv, vars, InSetBestChain, Signed
<1>2. ASSUME NEW b \in Block, ProcessBlock(b) PROVE CallerInv'
  <2>1. CASE AcceptBlock(b)
    BY <2>1, CallerAccept
  <2>2. CASE AddOrphanBlock(b)
    BY <2>2 DEF CallerInv, AddOrphanBlock, InSetBestChain, Signed
  <2>3. QED
    BY <1>1, <1>2, <2>1, <2>2 DEF ProcessBlock
<1>3. ASSUME NEW h \in CheckpointMsg, ProcessSyncCheckpoint(h) PROVE CallerInv'
  <2>1. h \in Signed
    BY DEF Signed
  <2>2. CASE SwitchToCheckpoint(h, "message") /\ UNCHANGED syncVars
    BY <1>3, <2>1, <2>2, CallerSwitch DEF ProcessSyncCheckpoint
  <2>3. CASE /\ pc' = "idle" /\ UNCHANGED walkVars
             /\ hashPendingCheckpoint' \in {h, hashPendingCheckpoint}
    BY <2>1, <2>3 DEF CallerInv, InSetBestChain, Signed
  <2>4. QED
    BY <1>3, <2>2, <2>3 DEF ProcessSyncCheckpoint, RefuseCheckpoint
<1>4. CASE CrashAndRestart
  BY <1>4, ChainStateAssumption
  DEF CallerInv, CrashAndRestart, InSetBestChain, Signed
<1>5. CASE ExtendBestChain
  BY <1>5, CallerFailed DEF CallerInv, ExtendBestChain, InSetBestChain, Signed
<1>6. CASE BeginReorganize
  BY <1>6 DEF CallerInv, BeginReorganize, InSetBestChain, Signed
<1>7. CASE ReorganizeDisconnect
  BY <1>7, CallerFailed DEF CallerInv, ReorganizeDisconnect, InSetBestChain, Signed
<1>8. CASE ReorganizeConnect
  BY <1>8, CallerFailed DEF CallerInv, ReorganizeConnect, InSetBestChain, Signed
<1>9. CASE ReorganizeCommit
  BY <1>9, CallerFailed DEF CallerInv, ReorganizeCommit, InSetBestChain, Signed
<1>10. CASE ConnectSecondary
  BY <1>10 DEF CallerInv, ConnectSecondary, InSetBestChain, Signed
<1>11. CASE SecondaryDone \/ NewBest
  BY <1>11 DEF CallerInv, SecondaryDone, NewBest, InSetBestChain, Signed
<1>12. CASE WriteSyncCheckpoint
  BY <1>12 DEF CallerInv, WriteSyncCheckpoint, InSetBestChain, Signed
<1>13. CASE AcceptPendingSyncCheckpoint
  <2>1. CASE /\ hashPendingCheckpoint \in mapBlockIndex
             /\ SwitchToCheckpoint(hashPendingCheckpoint, "pending")
             /\ UNCHANGED syncVars
    <3>1. hashPendingCheckpoint \in Signed
      BY <2>1, BlockTreeAssumption DEF CallerInv, TypeOK
    <3>2. QED
      BY <1>13, <2>1, <3>1, CallerSwitch DEF AcceptPendingSyncCheckpoint
  <2>2. CASE /\ pc' = "acceptDone"
             /\ hashPendingCheckpoint' \in {None, hashPendingCheckpoint}
    BY <2>2 DEF CallerInv, InSetBestChain, Signed
  <2>3. QED
    BY <1>13, <2>1, <2>2 DEF AcceptPendingSyncCheckpoint
<1>14. CASE AcceptBlockReturns \/ OrphansDone
  BY <1>14 DEF CallerInv, AcceptBlockReturns, OrphansDone, InSetBestChain, Signed
<1>15. CASE NextOrphan
  BY <1>15, CallerAccept DEF NextOrphan, TypeOK
<1>16. QED
  BY <1>1, <1>2, <1>3, <1>4, <1>5, <1>6, <1>7, <1>8, <1>9, <1>10, <1>11,
     <1>12, <1>13, <1>14, <1>15 DEF Next, ThreadStep

-----------------------------------------------------------------------------

(* The initial states are initial states of the ledger.                    *)
LEMMA LedgerInit == Init => Ledger!Init
  BY DEF Init, Ledger!Init

(* A commit that moves the best chain is a move of the ledger's tip.       *)
LEMMA TipStep ==
  ASSUME Inv, Inv', db'.sync = db.sync, broken' = broken,
         ~broken => \/ nChainTrust[db'.best] > nChainTrust[db.best]
                    \/ \E c \in Signed : db'.best \in Chain[c]
  PROVE  Ledger!Next
<1>1. db'.best \in Block
  BY DEF Inv, TypeOK, DB
<1>2. CASE broken
  BY <1>1, <1>2 DEF Ledger!Next, Ledger!Anything
<1>3. CASE ~broken
  <2>1. ValidChain(db'.best) /\ db.sync \in Chain[db'.best]
    BY <1>3 DEF Inv, DiskInv, ViewOf
  <2>2. Ledger!MoveTip(db'.best)
    BY <1>3, <2>1 DEF Ledger!MoveTip, Ledger!ValidChain, Ledger!ValidBlock,
       ValidChain, ValidBlock, Ledger!CanConnect, CanConnect, Ledger!TxsOf,
       TxsOf, Ledger!SpendsOf, SpendsOf, Ledger!Txs, Txs, Ledger!Spends, Spends,
       Ledger!OutPoints, OutPoints, Ledger!EarlierTxs, EarlierTxs
  <2>3. QED
    BY <1>1, <2>2 DEF Ledger!Next
<1>4. QED
  BY <1>2, <1>3

(* Every step of the code is a step of the ledger or leaves it alone.      *)
LEMMA LedgerStep ==
  Inv /\ CallerInv /\ [Next]_vars => [Ledger!Next]_(Ledger!ledgerVars)
<1> SUFFICES ASSUME Inv, CallerInv, [Next]_vars
             PROVE  Ledger!Next \/ UNCHANGED Ledger!ledgerVars
  OBVIOUS
<1>1. Inv'
  BY InvStep
<1>2. /\ TypeOK /\ db \in DB /\ pindexNew \in Block /\ pindexBest \in Block
      /\ pindexWalk \in Block
  BY DEF Inv, TypeOK
<1>3. ASSUME db'.best = db.best, db'.sync = db.sync, broken' = broken
      PROVE  UNCHANGED Ledger!ledgerVars
  BY <1>3 DEF Ledger!ledgerVars
<1>4. CASE UNCHANGED <<db, broken>>
  BY <1>3, <1>4
<1>5. ASSUME NEW b \in Block, AcceptBlock(b)
      PROVE  UNCHANGED Ledger!ledgerVars
  <2>1. db'.best = db.best /\ db'.sync = db.sync
    BY <1>2, <1>5 DEF AcceptBlock, AddToBlockIndex, DB
  <2>2. QED
    BY <1>3, <1>5, <2>1 DEF AcceptBlock
<1>6. ASSUME NEW b \in Block, ProcessBlock(b)
      PROVE  UNCHANGED Ledger!ledgerVars
  BY <1>3, <1>5, <1>6 DEF ProcessBlock, AddOrphanBlock, vars
<1>7. CASE ExtendBestChain
  <2>1. CASE SetBestChainInner(pindexNew)
    <3>1. /\ db'.best = pindexNew /\ db'.sync = db.sync
          /\ broken' = broken /\ pc = "setBest"
      BY <1>2, <1>7, <2>1 DEF ExtendBestChain, SetBestChainInner, ConnectBlock, DB
    <3>2. ~broken => pindexBest = db.best
      BY <3>1 DEF Inv, ThreadInv
    <3>3. \/ nChainTrust[pindexNew] > nChainTrust[pindexBest]
          \/ pindexNew \in Signed
      BY <3>1 DEF CallerInv, InSetBestChain
    <3>4. pindexNew \in Chain[pindexNew]
      BY <1>2, ChainFacts
    <3>5. QED
      BY <1>1, <3>1, <3>2, <3>3, <3>4, TipStep
  <2>2. CASE SetBestChainFailed
    BY <1>4, <1>7, <2>2 DEF ExtendBestChain, SetBestChainFailed
  <2>3. QED
    BY <1>7, <2>1, <2>2 DEF ExtendBestChain
<1>8. CASE ReorganizeCommit
  <2>1. CASE db' = [batch EXCEPT !.best = pindexIntermediate]
    <3>1. /\ batch \in DB /\ pc = "reorganize" /\ broken' = broken
          /\ batch.sync = db.sync
          /\ pindexIntermediate \in Chain[pindexNew]
          /\ \/ pindexIntermediate = pindexNew
             \/ nChainTrust[pindexIntermediate] > nChainTrust[pindexBest]
      BY <1>8 DEF Inv, TypeOK, SyncInv, ReorganizeCommit
    <3>2. db'.best = pindexIntermediate /\ db'.sync = db.sync
      BY <2>1, <3>1 DEF DB
    <3>3. ~broken => pindexBest = db.best
      BY <3>1 DEF Inv, ThreadInv
    <3>4. \/ nChainTrust[pindexNew] > nChainTrust[pindexBest]
          \/ pindexNew \in Signed
      BY <3>1 DEF CallerInv, InSetBestChain
    <3>5. QED
      BY <1>1, <3>1, <3>2, <3>3, <3>4, TipStep
  <2>2. CASE SetBestChainFailed
    BY <1>4, <1>8, <2>2 DEF ReorganizeCommit, SetBestChainFailed
  <2>3. QED
    BY <1>8, <2>1, <2>2 DEF ReorganizeCommit
<1>9. CASE ConnectSecondary
  <2>1. PICK c \in Chain[pindexNew] :
          /\ hashPrevBlock[c] = pindexWalk
          /\ \/ SetBestChainInner(c) /\ broken' = broken
             \/ broken' = TRUE /\ UNCHANGED db
    BY <1>9 DEF ConnectSecondary
  <2>2. CASE SetBestChainInner(c) /\ broken' = broken
    <3>1. db'.best = c /\ db'.sync = db.sync
      BY <1>2, <2>2 DEF SetBestChainInner, ConnectBlock, DB
    <3>2. nChainTrust[c] > nChainTrust[pindexWalk]
      <4>1. c \in Block /\ c # Genesis
        BY <1>2, <2>1, BlockTreeAssumption
      <4>2. nChainTrust[pindexWalk] < nChainTrust[c]
        BY <2>1, <4>1, BlockTreeAssumption
      <4>3. nChainTrust[c] \in Nat /\ nChainTrust[pindexWalk] \in Nat
        BY <1>2, <4>1, BlockTreeAssumption
      <4>4. QED
        BY <4>2, <4>3
    <3>3. ~broken => db.best = pindexWalk
      BY <1>9 DEF Inv, ThreadInv, ConnectSecondary
    <3>4. QED
      BY <1>1, <2>2, <3>1, <3>2, <3>3, TipStep
  <2>3. CASE broken' = TRUE /\ UNCHANGED db
    BY <2>3 DEF Ledger!Next, Ledger!BecomeVoid
  <2>4. QED
    BY <2>1, <2>2, <2>3
<1>10. CASE WriteSyncCheckpoint
  <2>1. CASE db' = [db EXCEPT !.sync = pindexNew]
    <3>1. db'.best = db.best /\ db'.sync = pindexNew /\ broken' = broken
      BY <1>2, <1>10, <2>1 DEF DB, WriteSyncCheckpoint
    <3>2. /\ pindexNew \in Signed /\ db.sync \in Chain[pindexNew]
          /\ pindexNew \in Chain[db.best] \/ broken
      BY <1>10 DEF Inv, SyncInv, ThreadInv, CallerInv, WriteSyncCheckpoint
    <3>3. Ledger!MoveCheckpoint(pindexNew)
      BY <3>1, <3>2 DEF Ledger!MoveCheckpoint
    <3>4. QED
      BY <1>2, <3>3 DEF Ledger!Next
  <2>2. CASE UNCHANGED db
    BY <1>4, <1>10, <2>2 DEF WriteSyncCheckpoint
  <2>3. QED
    BY <1>10, <2>1, <2>2 DEF WriteSyncCheckpoint
<1>11. CASE ReorganizeDisconnect \/ ReorganizeConnect
  BY <1>4, <1>11
  DEF ReorganizeDisconnect, ReorganizeConnect, SetBestChainFailed
<1>12. CASE NextOrphan
  BY <1>2, <1>5, <1>12 DEF NextOrphan, TypeOK
<1>13. CASE \/ BeginReorganize \/ SecondaryDone \/ NewBest
            \/ AcceptPendingSyncCheckpoint \/ AcceptBlockReturns
            \/ OrphansDone \/ CrashAndRestart
            \/ \E h \in CheckpointMsg : ProcessSyncCheckpoint(h)
            \/ UNCHANGED vars
  BY <1>4, <1>13
  DEF BeginReorganize, SecondaryDone, NewBest, AcceptPendingSyncCheckpoint,
      AcceptBlockReturns, OrphansDone, CrashAndRestart, ProcessSyncCheckpoint,
      vars
<1>14. QED
  BY <1>6, <1>7, <1>8, <1>9, <1>10, <1>11, <1>12, <1>13 DEF Next, ThreadStep

(* What a node commits to disk follows the ledger: whole switches between  *)
(* valid chains that hold the checkpoint, through every crash and failed   *)
(* write of main.cpp, checkpoints.cpp and txdb-leveldb.cpp.                *)
THEOREM Refinement == Spec => ImplementsLedger
<1>1. Init => CallerInv /\ Ledger!Init
  BY CallerInit, LedgerInit
<1>2. Inv => TypeOK
  BY DEF Inv
<1>3. QED
  BY <1>1, <1>2, Invariance, CallerStep, LedgerStep, PTL
  DEF Spec, ImplementsLedger, Ledger!Spec

-----------------------------------------------------------------------------
(* ProcessBlock never keeps the stake of a block it no longer holds.       *)
THEOREM StakeReleasedTheorem == Spec => []StakeReleased
<1>1. Init => StakeReleased
  BY DEF Init, StakeReleased
<1>2. ASSUME StakeReleased, UNCHANGED orphanVars PROVE StakeReleased'
  BY <1>2 DEF StakeReleased
<1>3. ASSUME StakeReleased, NEW b \in Block, AddOrphanBlock(b)
      PROVE  StakeReleased'
  BY <1>3 DEF StakeReleased, AddOrphanBlock
<1>4. ASSUME StakeReleased, EraseOrphan PROVE StakeReleased'
  BY <1>4 DEF StakeReleased, EraseOrphan
<1>5. ASSUME StakeReleased, [Next]_vars PROVE StakeReleased'
  <2>1. ASSUME NEW b \in Block, ProcessBlock(b) PROVE StakeReleased'
    BY <1>2, <1>3, <1>5, <2>1 DEF ProcessBlock, AcceptBlock, vars
  <2>2. CASE CrashAndRestart
    BY <2>2 DEF StakeReleased, CrashAndRestart
  <2>3. CASE AcceptBlockReturns
    BY <1>2, <1>4, <1>5, <2>3 DEF AcceptBlockReturns
  <2>4. CASE ThreadStep /\ ~AcceptBlockReturns
    BY <1>2, <1>5, <2>4
    DEF ThreadStep, ExtendBestChain, BeginReorganize, ReorganizeDisconnect,
        ReorganizeConnect, ReorganizeCommit, ConnectSecondary, SecondaryDone,
        NewBest, WriteSyncCheckpoint, AcceptPendingSyncCheckpoint, NextOrphan,
        AcceptBlock, OrphansDone
  <2>5. CASE \/ \E h \in CheckpointMsg : ProcessSyncCheckpoint(h)
             \/ UNCHANGED vars
    BY <1>2, <1>5, <2>5 DEF ProcessSyncCheckpoint, vars
  <2>6. QED
    BY <1>5, <2>1, <2>2, <2>3, <2>4, <2>5 DEF Next
<1>6. QED
  BY <1>1, <1>5, PTL DEF Spec
=============================================================================
