----------------------------- MODULE ChainState -----------------------------
(***************************************************************************)
(* The block chain of one ChessCoin node: main.cpp (ProcessBlock,          *)
(* AcceptBlock, AddToBlockIndex, SetBestChain, Reorganize), checkpoints.cpp*)
(* (synchronized checkpoints) and the part of txdb-leveldb.cpp under them. *)
(*                                                                         *)
(* One thread at a time holds cs_main and works through a received block   *)
(* or checkpoint.  Its calls are cut into the steps between which the      *)
(* database is written, because the process may stop between any two of    *)
(* them: then memory is lost and LoadBlockIndex starts again from disk.    *)
(* The loops of Reorganize and of the orphan queue take one block a step.  *)
(*                                                                         *)
(* Left out: relaying and asking peers (no chain state), the wallet and    *)
(* the memory pool, nBestInvalidTrust (only logged), and the memory fields *)
(* nMint and nMoneySupply of a block.                                      *)
(***************************************************************************)
EXTENDS BlockTree

CONSTANTS
  PendingAtStart,   \* the compiled-in value of hashPendingCheckpoint
  CheckpointMsg,    \* blocks the checkpoint master signs a message for
  MaxCrashes,       \* bound on the number of times the process stops
  MaxIOErrors       \* bound on the number of failed reads and commits

ASSUME ChainStateAssumption ==
  /\ PendingAtStart \in Block \cup {None}
  /\ CheckpointMsg \subseteq Block
  /\ MaxCrashes \in Nat
  /\ MaxIOErrors \in Nat

VARIABLES
  \* memory
  mapBlockIndex, pnext, pindexBest,
  mapOrphanBlocks, setStakeSeenOrphan,
  hashSyncCheckpoint, hashPendingCheckpoint, hashInvalidCheckpoint,
  \* disk, and the active batch of a database transaction as the view it gives
  db, batch,
  \* the thread that holds cs_main
  pc, pblock, pindexNew, pindexIntermediate, pindexWalk, caller, vWorkQueue,
  \* history: a postponed block failed to connect; nothing but blocks and
  \* valid disk accesses happened so far; the bounded events that happened
  broken, calm, crashes, ioErrors

chainVars  == <<mapBlockIndex, pnext, pindexBest>>
orphanVars == <<mapOrphanBlocks, setStakeSeenOrphan>>
syncVars   == <<hashSyncCheckpoint, hashPendingCheckpoint, hashInvalidCheckpoint>>
walkVars   == <<pindexNew, pindexIntermediate, pindexWalk, caller>>
queueVars  == <<pblock, vWorkQueue>>
eventVars  == <<calm, crashes, ioErrors>>
vars == <<chainVars, orphanVars, syncVars, db, batch, pc, walkVars, queueVars,
          broken, eventVars>>

(* What the LevelDB database holds: the block index with the hashNext      *)
(* pointers, hashBestChain, the transaction index, hashSyncCheckpoint.     *)
DB == [index : SUBSET Block, next : [Block -> Block \cup {None}], best : Block,
       tx : SUBSET Tx, spent : SUBSET (Tx \X Nat), sync : Block]

(* Where the thread is.  "aborted" is a process whose start-up failed.     *)
Pc == {"idle", "setBest", "reorganize", "secondary", "newBest", "writeSync",
       "accepted", "rejected", "acceptDone", "orphans", "aborted"}

TypeOK ==
  /\ mapBlockIndex \in SUBSET Block
  /\ pnext \in [Block -> Block \cup {None}]
  /\ pindexBest \in Block
  /\ mapOrphanBlocks \in SUBSET Block
  /\ setStakeSeenOrphan \subseteq {prevoutStake[b] : b \in Block}
  /\ hashSyncCheckpoint \in Block
  /\ hashPendingCheckpoint \in Block \cup {None}
  /\ hashInvalidCheckpoint \in Block \cup {None}
  /\ db \in DB
  /\ batch \in DB
  /\ pc \in Pc
  /\ pblock \in Block
  /\ pindexNew \in Block
  /\ pindexIntermediate \in Block
  /\ pindexWalk \in Block
  /\ caller \in {"AcceptBlock", "pending", "message"}
  /\ vWorkQueue \in Seq(Block)
  /\ pc = "orphans" => vWorkQueue # << >>
  /\ broken \in BOOLEAN
  /\ calm \in BOOLEAN
  /\ crashes \in Nat
  /\ ioErrors \in Nat

(* The state LoadBlockIndex leaves after the first start: the genesis block*)
(* is indexed, best, and the synchronized checkpoint.                      *)
Init ==
  /\ mapBlockIndex = {Genesis}
  /\ pnext = [b \in Block |-> None]
  /\ pindexBest = Genesis
  /\ mapOrphanBlocks = {}
  /\ setStakeSeenOrphan = {}
  /\ hashSyncCheckpoint = Genesis
  /\ hashPendingCheckpoint = PendingAtStart
  /\ hashInvalidCheckpoint = None
  /\ db = [index |-> {Genesis}, next |-> [b \in Block |-> None],
           best |-> Genesis, tx |-> {}, spent |-> {}, sync |-> Genesis]
  /\ batch = db
  /\ pc = "idle"
  /\ pblock = Genesis
  /\ pindexNew = Genesis
  /\ pindexIntermediate = Genesis
  /\ pindexWalk = Genesis
  /\ caller = "AcceptBlock"
  /\ vWorkQueue = << >>
  /\ broken = FALSE
  /\ calm = TRUE
  /\ crashes = 0
  /\ ioErrors = 0

-----------------------------------------------------------------------------
(* Events that leave the calm course, each within its bound.               *)
IOError ==
  /\ ioErrors < MaxIOErrors
  /\ ioErrors' = ioErrors + 1
  /\ calm' = FALSE
  /\ UNCHANGED crashes

NoEvent == UNCHANGED eventVars

-----------------------------------------------------------------------------
(* ConnectBlock and DisconnectBlock on the view v of a transaction that     *)
(* has begun.  The entry of a block is written with its pnext in memory,   *)
(* the one of its parent with the new hashNext.                            *)
ConnectBlock(v, b) ==
  [v EXCEPT !.index = @ \cup {b, hashPrevBlock[b]},
            !.next = [@ EXCEPT ![b] = pnext[b], ![hashPrevBlock[b]] = b],
            !.tx = @ \cup Txs(b),
            !.spent = (@ \ OutPoints(Txs(b))) \cup Spends(b)]

(* Mutant: the transactions of the block stay in the transaction index.    *)
DisconnectBlockKeepTx(v, b) ==
  [v EXCEPT !.index = @ \cup {hashPrevBlock[b]},
            !.next = [@ EXCEPT ![hashPrevBlock[b]] = None],
            !.spent = (@ \ Spends(b)) \ OutPoints(Txs(b))]

DisconnectBlock(v, b) ==
  [v EXCEPT !.index = @ \cup {hashPrevBlock[b]},
            !.next = [@ EXCEPT ![hashPrevBlock[b]] = None],
            !.tx = @ \ Txs(b),
            !.spent = (@ \ Spends(b)) \ OutPoints(Txs(b))]

(* Mutant: the result of ConnectBlock is ignored.                          *)
SetBestChainInnerUnchecked(b) ==
  /\ db' = [ConnectBlock(db, b) EXCEPT !.best = b]
  /\ pnext' = [pnext EXCEPT ![hashPrevBlock[b]] = b]

(* SetBestChainInner: connect b in a transaction of its own.               *)
SetBestChainInner(b) ==
  /\ CanConnect(db.tx, db.spent, b)
  /\ db' = [ConnectBlock(db, b) EXCEPT !.best = b]
  /\ pnext' = [pnext EXCEPT ![hashPrevBlock[b]] = b]

(* SetBestChain(b) is called; it returns to AcceptBlock, to                *)
(* AcceptPendingSyncCheckpoint or to ProcessSyncCheckpoint.                *)
CallSetBestChain(b, from) ==
  /\ pc' = "setBest"
  /\ pindexNew' = b
  /\ caller' = from
  /\ UNCHANGED <<pindexIntermediate, pindexWalk>>

(* SetBestChain returns false: the batch is dropped.                       *)
SetBestChainFailed ==
  /\ pc' = IF caller = "AcceptBlock" THEN "rejected"
           ELSE IF caller = "pending" THEN "acceptDone" ELSE "idle"
  /\ hashInvalidCheckpoint' =
       IF caller = "AcceptBlock" THEN hashInvalidCheckpoint ELSE pindexNew
  /\ UNCHANGED <<chainVars, hashSyncCheckpoint, hashPendingCheckpoint, db,
                 batch, walkVars>>

(* SetBestChain, a block on top of the best one.                           *)
ExtendBestChain ==
  /\ pc = "setBest"
  /\ hashPrevBlock[pindexNew] = pindexBest
  /\ \/ /\ SetBestChainInner(pindexNew)
        /\ pc' = "newBest"
        /\ NoEvent
        /\ UNCHANGED <<mapBlockIndex, pindexBest, syncVars, batch, walkVars>>
     \/ /\ ~CanConnect(db.tx, db.spent, pindexNew)
        /\ SetBestChainFailed
        /\ NoEvent
     \/ SetBestChainFailed /\ IOError
  /\ UNCHANGED <<orphanVars, queueVars, broken>>

(* SetBestChain, any other block: the part of the branch above the first   *)
(* block that outweighs the best chain is postponed, the rest is for       *)
(* Reorganize, which begins at the best block in memory.                   *)
FirstHeavier(x) ==
  /\ x # Genesis
  /\ nChainTrust[hashPrevBlock[x]] <= nChainTrust[pindexBest]
  /\ x = pindexNew \/ nChainTrust[x] > nChainTrust[pindexBest]

BeginReorganize ==
  /\ pc = "setBest"
  /\ hashPrevBlock[pindexNew] # pindexBest
  /\ \E x \in Chain[pindexNew] : FirstHeavier(x) /\ pindexIntermediate' = x
  /\ batch' = db
  /\ pindexWalk' = pindexBest
  /\ pc' = "reorganize"
  /\ NoEvent
  /\ UNCHANGED <<chainVars, orphanVars, syncVars, db, pindexNew, caller,
                 queueVars, broken>>

(* Reorganize, first loop: undo the blocks of the best chain down to the   *)
(* fork, newest first.                                                     *)
ReorganizeDisconnect ==
  /\ pc = "reorganize"
  /\ pindexWalk \notin Chain[pindexIntermediate]
  /\ \/ /\ CanDisconnect(batch.tx, pindexWalk)
        /\ batch' = DisconnectBlock(batch, pindexWalk)
        /\ pindexWalk' = hashPrevBlock[pindexWalk]
        /\ NoEvent
        /\ UNCHANGED <<pc, chainVars, syncVars, db, pindexNew,
                       pindexIntermediate, caller>>
     \/ /\ ~CanDisconnect(batch.tx, pindexWalk)
        /\ SetBestChainFailed
        /\ NoEvent
     \/ SetBestChainFailed /\ IOError
  /\ UNCHANGED <<orphanVars, queueVars, broken>>

(* Reorganize, second loop: connect the new branch from the fork up.       *)
ReorganizeConnect ==
  /\ pc = "reorganize"
  /\ \E c \in Chain[pindexIntermediate] :
       /\ hashPrevBlock[c] = pindexWalk
       /\ \/ /\ CanConnect(batch.tx, batch.spent, c)
             /\ batch' = ConnectBlock(batch, c)
             /\ pindexWalk' = c
             /\ NoEvent
             /\ UNCHANGED <<pc, chainVars, syncVars, db, pindexNew,
                            pindexIntermediate, caller>>
          \/ /\ ~CanConnect(batch.tx, batch.spent, c)
             /\ SetBestChainFailed
             /\ NoEvent
          \/ SetBestChainFailed /\ IOError
  /\ UNCHANGED <<orphanVars, queueVars, broken>>

(* Reorganize, end: the whole switch is committed, then the memory index   *)
(* follows the disk: pnext is cleared along the old branch and set along   *)
(* the new one.                                                            *)
SwitchPnext ==
  LET vConnect    == Chain[pindexIntermediate] \ Chain[pindexBest]
      vDisconnect == Chain[pindexBest] \ Chain[pindexIntermediate]
  IN  [x \in Block |->
         IF \E c \in vConnect : hashPrevBlock[c] = x
         THEN CHOOSE c \in vConnect : hashPrevBlock[c] = x
         ELSE IF \E d \in vDisconnect : hashPrevBlock[d] = x
         THEN None ELSE pnext[x]]

(* Mutant: the result of TxnCommit is ignored.                             *)
ReorganizeCommitUnchecked ==
  /\ pc = "reorganize"
  /\ pindexWalk = pindexIntermediate
  /\ \/ db' = [batch EXCEPT !.best = pindexIntermediate] /\ NoEvent
     \/ UNCHANGED db /\ IOError
  /\ pnext' = SwitchPnext
  /\ pc' = "secondary"
  /\ UNCHANGED <<mapBlockIndex, pindexBest, orphanVars, syncVars, batch,
                 walkVars, queueVars, broken>>

ReorganizeCommit ==
  /\ pc = "reorganize"
  /\ pindexWalk = pindexIntermediate
  /\ \/ /\ db' = [batch EXCEPT !.best = pindexIntermediate]
        /\ pnext' = SwitchPnext
        /\ pc' = "secondary"
        /\ NoEvent
        /\ UNCHANGED <<mapBlockIndex, pindexBest, syncVars, batch, walkVars>>
     \/ SetBestChainFailed /\ IOError
  /\ UNCHANGED <<orphanVars, queueVars, broken>>

(* SetBestChain: the postponed blocks are connected one by one; the loop   *)
(* breaks at the first that fails, and SetBestChain goes on.               *)
ConnectSecondary ==
  /\ pc = "secondary"
  /\ \E c \in Chain[pindexNew] :
       /\ hashPrevBlock[c] = pindexWalk
       /\ \/ /\ SetBestChainInner(c)
             /\ pindexWalk' = c
             /\ NoEvent
             /\ UNCHANGED <<pc, broken>>
          \/ /\ ~CanConnect(db.tx, db.spent, c)
             /\ pc' = "newBest"
             /\ broken' = TRUE
             /\ NoEvent
             /\ UNCHANGED <<db, pnext, pindexWalk>>
          \/ /\ IOError
             /\ pc' = "newBest"
             /\ broken' = TRUE
             /\ UNCHANGED <<db, pnext, pindexWalk>>
  /\ UNCHANGED <<mapBlockIndex, pindexBest, orphanVars, syncVars, batch,
                 pindexNew, pindexIntermediate, caller, queueVars>>

SecondaryDone ==
  /\ pc = "secondary"
  /\ pindexWalk = pindexNew
  /\ pc' = "newBest"
  /\ NoEvent
  /\ UNCHANGED <<chainVars, orphanVars, syncVars, db, batch, walkVars,
                 queueVars, broken>>

(* SetBestChain, end: memory now names the new block as the best one.      *)
NewBest ==
  /\ pc = "newBest"
  /\ pindexBest' = pindexNew
  /\ pc' = IF caller = "AcceptBlock" THEN "accepted" ELSE "writeSync"
  /\ NoEvent
  /\ UNCHANGED <<mapBlockIndex, pnext, orphanVars, syncVars, db, batch,
                 walkVars, queueVars, broken>>

-----------------------------------------------------------------------------
(* Synchronized checkpoints.                                               *)
IsInMainChain(b) == pnext[b] # None \/ b = pindexBest

(* Mutant: height alone decides.                                           *)
ValidateSyncCheckpointHeight(h) == nHeight[h] > nHeight[hashSyncCheckpoint]

(* ValidateSyncCheckpoint: only a descendant of the current checkpoint     *)
(* passes; one that is neither descendant nor ancestor is a conflict.      *)
ValidateSyncCheckpoint(h) ==
  nHeight[h] > nHeight[hashSyncCheckpoint] /\ hashSyncCheckpoint \in Chain[h]

ConflictingSyncCheckpoint(h) ==
  h \notin Chain[hashSyncCheckpoint] /\ hashSyncCheckpoint \notin Chain[h]

(* Mutant: the best chain does not follow the checkpoint.                  *)
StayOnChain(h, from) ==
  /\ pc' = "writeSync"
  /\ pindexNew' = h
  /\ caller' = from
  /\ NoEvent
  /\ UNCHANGED <<pindexIntermediate, pindexWalk>>

(* A valid checkpoint block outside the main chain becomes the best block  *)
(* whatever its trust; then it is written as the checkpoint.               *)
SwitchToCheckpoint(h, from) ==
  \/ /\ IsInMainChain(h)
     /\ pc' = "writeSync"
     /\ pindexNew' = h
     /\ caller' = from
     /\ NoEvent
     /\ UNCHANGED <<pindexIntermediate, pindexWalk>>
  \/ /\ ~IsInMainChain(h)
     /\ CallSetBestChain(h, from)
     /\ calm' = FALSE
     /\ UNCHANGED <<crashes, ioErrors>>

RefuseCheckpoint(h) ==
  /\ ~ValidateSyncCheckpoint(h)
  /\ hashInvalidCheckpoint' =
       IF ConflictingSyncCheckpoint(h) THEN h ELSE hashInvalidCheckpoint
  /\ NoEvent
  /\ UNCHANGED <<hashSyncCheckpoint, walkVars>>

WriteSyncCheckpoint ==
  /\ pc = "writeSync"
  /\ pc' = IF caller = "pending" THEN "acceptDone" ELSE "idle"
  /\ \/ /\ db' = [db EXCEPT !.sync = pindexNew]
        /\ hashSyncCheckpoint' = pindexNew
        /\ hashPendingCheckpoint' = None
        /\ NoEvent
     \/ IOError /\ UNCHANGED <<db, hashSyncCheckpoint, hashPendingCheckpoint>>
  /\ UNCHANGED <<chainVars, orphanVars, hashInvalidCheckpoint, batch, walkVars,
                 queueVars, broken>>

(* AcceptBlock, end: a block was accepted, the pending checkpoint may now  *)
(* be known.                                                               *)
AcceptPendingSyncCheckpoint ==
  /\ pc = "accepted"
  /\ LET h == hashPendingCheckpoint IN
     \/ /\ h = None \/ h \notin mapBlockIndex
        /\ pc' = "acceptDone"
        /\ NoEvent
        /\ UNCHANGED <<syncVars, walkVars>>
     \/ /\ h \in mapBlockIndex
        /\ RefuseCheckpoint(h)
        /\ hashPendingCheckpoint' = None
        /\ pc' = "acceptDone"
     \/ /\ h \in mapBlockIndex
        /\ ValidateSyncCheckpoint(h)
        /\ SwitchToCheckpoint(h, "pending")
        /\ UNCHANGED syncVars
     \/ /\ h \in mapBlockIndex
        /\ ValidateSyncCheckpoint(h)
        /\ ~IsInMainChain(h)
        /\ IOError
        /\ pc' = "acceptDone"
        /\ UNCHANGED <<syncVars, walkVars>>
  /\ UNCHANGED <<chainVars, orphanVars, db, batch, queueVars, broken>>

(* A checkpoint message with the master's signature arrives.               *)
ProcessSyncCheckpoint(h) ==
  /\ pc = "idle"
  /\ \/ /\ h \notin mapBlockIndex
        /\ hashPendingCheckpoint' = h
        /\ NoEvent
        /\ UNCHANGED <<pc, hashSyncCheckpoint, hashInvalidCheckpoint, walkVars>>
     \/ /\ h \in mapBlockIndex
        /\ RefuseCheckpoint(h)
        /\ UNCHANGED <<pc, hashPendingCheckpoint>>
     \/ /\ h \in mapBlockIndex
        /\ ValidateSyncCheckpoint(h)
        /\ SwitchToCheckpoint(h, "message")
        /\ UNCHANGED syncVars
  /\ UNCHANGED <<chainVars, orphanVars, db, batch, queueVars, broken>>

(* CheckSync: once a checkpoint is set, only its descendants are accepted. *)
CheckSync(b) ==
  LET h == nHeight[hashSyncCheckpoint] IN
  /\ nHeight[b] > h => hashSyncCheckpoint \in Chain[hashPrevBlock[b]]
  /\ nHeight[b] = h => b = hashSyncCheckpoint
  /\ nHeight[b] < h => b \in mapBlockIndex

-----------------------------------------------------------------------------
(* Mutant: only a child of the best block may become the best block.       *)
AddToBlockIndexNoFork(b) ==
  /\ mapBlockIndex' = mapBlockIndex \cup {b}
  /\ \/ /\ db' = [db EXCEPT !.index = @ \cup {b},
                         !.next = [@ EXCEPT ![b] = pnext[b]]]
        /\ IF hashPrevBlock[b] = pindexBest
           THEN CallSetBestChain(b, "AcceptBlock")
           ELSE pc' = "accepted" /\ UNCHANGED walkVars
        /\ NoEvent
     \/ IOError /\ pc' = "rejected" /\ UNCHANGED <<db, walkVars>>

(* AddToBlockIndex: the block enters the memory index, then the disk index *)
(* in a transaction of its own, then may become the best block.            *)
AddToBlockIndex(b) ==
  /\ mapBlockIndex' = mapBlockIndex \cup {b}
  /\ \/ /\ db' = [db EXCEPT !.index = @ \cup {b},
                         !.next = [@ EXCEPT ![b] = pnext[b]]]
        /\ IF nChainTrust[b] > nChainTrust[pindexBest]
           THEN CallSetBestChain(b, "AcceptBlock")
           ELSE pc' = "accepted" /\ UNCHANGED walkVars
        /\ NoEvent
     \/ IOError /\ pc' = "rejected" /\ UNCHANGED <<db, walkVars>>

(* AcceptBlock.  The kernel check of a proof-of-stake block depends on the *)
(* transaction index and the stake modifiers: it may fail for any of them. *)
(* The block may also fail to reach the block file.                        *)
AcceptChecks(b) ==
  /\ b \notin Unacceptable
  /\ b \notin mapBlockIndex
  /\ hashPrevBlock[b] \in mapBlockIndex
  /\ CheckSync(b)

AcceptBlock(b) ==
  /\ pblock' = b
  /\ \/ /\ ~AcceptChecks(b) \/ prevoutStake[b] # None
        /\ pc' = "rejected"
        /\ NoEvent
        /\ UNCHANGED <<mapBlockIndex, db, walkVars>>
     \/ /\ AcceptChecks(b)
        /\ pc' = "rejected"
        /\ IOError
        /\ UNCHANGED <<mapBlockIndex, db, walkVars>>
     \/ AcceptChecks(b) /\ AddToBlockIndex(b)
  /\ UNCHANGED <<pnext, pindexBest, orphanVars, syncVars, batch, vWorkQueue,
                 broken>>

(* setStakeSeen holds the stake of every block of the memory index:        *)
(* AddToBlockIndex and LoadBlockIndex insert both together.                *)
setStakeSeen == {prevoutStake[b] : b \in mapBlockIndex}

(* The block an orphan chain waits for.                                    *)
WantedByOrphan(o) ==
  CHOOSE c \in Chain[o] \ mapOrphanBlocks :
    \A d \in Chain[o] : nHeight[d] > nHeight[c] => d \in mapOrphanBlocks

WantedByPendingSyncCheckpoint(b) ==
  \/ b = hashPendingCheckpoint
  \/ /\ hashPendingCheckpoint \in mapOrphanBlocks
     /\ b = WantedByOrphan(hashPendingCheckpoint)

HasOrphanChild(b) == \E o \in mapOrphanBlocks : hashPrevBlock[o] = b

(* A second block with the same proof of stake is refused, unless an orphan*)
(* or the pending checkpoint waits for it.                                 *)
DuplicateStake(b, seen) ==
  /\ prevoutStake[b] # None
  /\ prevoutStake[b] \in seen
  /\ ~HasOrphanChild(b)
  /\ ~WantedByPendingSyncCheckpoint(b)

AddOrphanBlock(b) ==
  /\ mapOrphanBlocks' = mapOrphanBlocks \cup {b}
  /\ setStakeSeenOrphan' =
       setStakeSeenOrphan \cup ({prevoutStake[b]} \ {None})
  /\ NoEvent
  /\ UNCHANGED <<pc, chainVars, syncVars, db, batch, walkVars, queueVars, broken>>

(* A block that passes CheckBlock arrives.  Away from the best chain its   *)
(* target may be too easy for its distance from the synchronized           *)
(* checkpoint, and it is refused.                                          *)
ProcessBlock(b) ==
  /\ pc = "idle"
  /\ \/ /\ \/ b \in mapBlockIndex \cup mapOrphanBlocks
           \/ DuplicateStake(b, setStakeSeen)
           \/ /\ hashPrevBlock[b] \notin mapBlockIndex
              /\ DuplicateStake(b, setStakeSeenOrphan)
           \/ hashPrevBlock[b] # pindexBest /\ ~WantedByPendingSyncCheckpoint(b)
        /\ UNCHANGED vars
     \/ /\ b \notin mapBlockIndex \cup mapOrphanBlocks
        /\ ~DuplicateStake(b, setStakeSeen)
        /\ hashPrevBlock[b] \notin mapBlockIndex
        /\ ~DuplicateStake(b, setStakeSeenOrphan)
        /\ AddOrphanBlock(b)
     \/ /\ b \notin mapBlockIndex \cup mapOrphanBlocks
        /\ ~DuplicateStake(b, setStakeSeen)
        /\ hashPrevBlock[b] \in mapBlockIndex
        /\ AcceptBlock(b)

(* Mutant: the stake is not released.                                      *)
EraseOrphanKeepStake ==
  /\ mapOrphanBlocks' = mapOrphanBlocks \ {pblock}
  /\ UNCHANGED setStakeSeenOrphan

(* Mutant: only an accepted orphan leaves the holding area.                *)
EraseAccepted ==
  IF pc = "acceptDone"
  THEN /\ mapOrphanBlocks' = mapOrphanBlocks \ {pblock}
       /\ setStakeSeenOrphan' = setStakeSeenOrphan \ {prevoutStake[pblock]}
  ELSE UNCHANGED orphanVars

(* ProcessBlock after AcceptBlock: the queue of accepted blocks whose      *)
(* waiting children are tried next, siblings in any order.  A tried orphan *)
(* leaves the holding area whether it was accepted or not.                 *)
EraseOrphan ==
  /\ mapOrphanBlocks' = mapOrphanBlocks \ {pblock}
  /\ setStakeSeenOrphan' = setStakeSeenOrphan \ {prevoutStake[pblock]}

AcceptBlockReturns ==
  /\ \/ /\ pc = "acceptDone"
        /\ vWorkQueue' = Append(vWorkQueue, pblock)
        /\ pc' = "orphans"
     \/ /\ pc = "rejected"
        /\ vWorkQueue' = vWorkQueue
        /\ pc' = IF vWorkQueue = << >> THEN "idle" ELSE "orphans"
  /\ IF vWorkQueue = << >> THEN UNCHANGED orphanVars ELSE EraseOrphan
  /\ NoEvent
  /\ UNCHANGED <<chainVars, syncVars, db, batch, walkVars, pblock, broken>>

NextOrphan ==
  /\ pc = "orphans"
  /\ \E o \in mapOrphanBlocks : hashPrevBlock[o] = Head(vWorkQueue) /\ AcceptBlock(o)

OrphansDone ==
  /\ pc = "orphans"
  /\ ~HasOrphanChild(Head(vWorkQueue))
  /\ vWorkQueue' = Tail(vWorkQueue)
  /\ pc' = IF Tail(vWorkQueue) = << >> THEN "idle" ELSE "orphans"
  /\ NoEvent
  /\ UNCHANGED <<chainVars, orphanVars, syncVars, db, batch, walkVars, pblock,
                 broken>>

-----------------------------------------------------------------------------
(* The process stops and starts again: LoadBlockIndex rebuilds the memory  *)
(* from disk.  InsertBlockIndex makes up an entry for a parent or a        *)
(* hashNext that was not stored, and GetStakeModifierChecksum asserts that *)
(* every entry but the genesis block has a parent.                         *)
IndexClosed ==
  \A b \in db.index :
     /\ b # Genesis => hashPrevBlock[b] \in db.index
     /\ db.next[b] \in db.index \cup {None}

CrashAndRestart ==
  /\ pc # "aborted"
  /\ crashes < MaxCrashes
  /\ crashes' = crashes + 1
  /\ calm' = FALSE
  /\ pc' = IF IndexClosed THEN "idle" ELSE "aborted"
  /\ mapBlockIndex' = db.index
  /\ pnext' = db.next
  /\ pindexBest' = db.best
  /\ hashSyncCheckpoint' = db.sync
  /\ hashPendingCheckpoint' = PendingAtStart
  /\ hashInvalidCheckpoint' = None
  /\ mapOrphanBlocks' = {}
  /\ setStakeSeenOrphan' = {}
  /\ vWorkQueue' = << >>
  /\ UNCHANGED <<db, batch, walkVars, pblock, broken, ioErrors>>

-----------------------------------------------------------------------------
ThreadStep ==
  \/ ExtendBestChain
  \/ BeginReorganize
  \/ ReorganizeDisconnect
  \/ ReorganizeConnect
  \/ ReorganizeCommit
  \/ ConnectSecondary
  \/ SecondaryDone
  \/ NewBest
  \/ WriteSyncCheckpoint
  \/ AcceptPendingSyncCheckpoint
  \/ AcceptBlockReturns
  \/ NextOrphan
  \/ OrphansDone

Next ==
  \/ \E b \in Block : ProcessBlock(b)
  \/ \E h \in CheckpointMsg : ProcessSyncCheckpoint(h)
  \/ ThreadStep
  \/ CrashAndRestart

Spec == Init /\ [][Next]_vars

(* A thread that holds cs_main runs until it releases it.                  *)
FairSpec == Spec /\ WF_vars(ThreadStep)

-----------------------------------------------------------------------------
(***************************************************************************)
(* Properties.  "broken" excuses the ones that SetBestChain gives up when  *)
(* a postponed block fails to connect (see NotFatal).                      *)
(***************************************************************************)

(* The transaction index on disk is at every moment, in the middle of any  *)
(* call and after any crash, exactly what the committed best chain adds    *)
(* and spends: nothing of an abandoned or half-connected branch stays.     *)
TxIndexExact ==
  ~broken => /\ db.tx = TxsOf(Chain[db.best])
             /\ db.spent = SpendsOf(Chain[db.best])

(* Every block of the committed best chain connects after its ancestors:   *)
(* no outpoint is spent twice, missing or immature along it.               *)
CommittedChainValid == ~broken => ValidChain(db.best)

(* Between two calls, memory and disk agree on the best block and on the   *)
(* synchronized checkpoint.                                                *)
MemoryFollowsDisk ==
  pc = "idle" /\ ~broken =>
    pindexBest = db.best /\ hashSyncCheckpoint = db.sync

(* "pnext will only point forward to the longest branch, or will be null   *)
(* if the block is not part of the longest chain" (CBlockIndex): in memory *)
(* between two calls, and on disk (hashNext) at every moment.              *)
LinksMainChain(next, best) ==
  \A b, c \in Block :
     next[b] = c <=> hashPrevBlock[c] = b /\ c \in Chain[best]

PnextIsMainChain ==
  ~broken => /\ LinksMainChain(db.next, db.best)
             /\ pc = "idle" => LinksMainChain(pnext, pindexBest)

(* As long as no crash, I/O error or checkpoint switch has happened, the   *)
(* best block outweighs every known block whose chain is valid.            *)
HeaviestValidChainWins ==
  pc = "idle" /\ calm =>
    \A b \in mapBlockIndex :
       ValidChain(b) => nChainTrust[b] <= nChainTrust[pindexBest]

(* ... and SetBestChain never has a block to postpone.                     *)
NothingPostponed ==
  calm /\ pc = "secondary" => pindexWalk = pindexNew

(* The disk index holds the whole committed best chain, so a restart at    *)
(* any moment finds hashBestChain, every block below it, and the           *)
(* checkpoint.                                                             *)
BestChainIndexed == ~broken => Chain[db.best] \subseteq db.index

(* What is on disk at any moment is one valid chain and nothing else: the  *)
(* transaction index, the block index and the links all describe it.       *)
DiskExact ==
  TxIndexExact /\ CommittedChainValid /\ BestChainIndexed /\ PnextIsMainChain

(* The committed best chain holds the committed synchronized checkpoint.   *)
CheckpointInMainChain == ~broken => db.sync \in Chain[db.best]

(* The synchronized checkpoint only moves to its descendants, across       *)
(* restarts too.                                                           *)
CheckpointStep == hashSyncCheckpoint \in Chain[hashSyncCheckpoint']

CheckpointAdvances == [][CheckpointStep]_vars

(* No entry of setStakeSeenOrphan outlives the held blocks it stands for:  *)
(* one that did would make ProcessBlock refuse that stake for ever.        *)
StakeReleased ==
  setStakeSeenOrphan \subseteq {prevoutStake[o] : o \in mapOrphanBlocks}

(* A call that holds cs_main ends: the loops of Reorganize, of the         *)
(* postponed blocks and of the orphan queue terminate.                     *)
ProcessingEnds == pc # "idle" ~> pc \in {"idle", "aborted"}

(* What is committed to disk, through every step, crash and failure, moves *)
(* as the ledger of ChainLedger does: only by whole switches between valid *)
(* chains that hold the checkpoint.                                        *)
Signed == CheckpointMsg \cup ({PendingAtStart} \ {None})

Ledger == INSTANCE ChainLedger WITH tip <- db.best, sync <- db.sync,
                                    void <- broken

ImplementsLedger == Ledger!Spec

(***************************************************************************)
(* The inductive invariant behind these properties.                        *)
(***************************************************************************)
InSetBestChain == pc \in {"setBest", "reorganize", "secondary", "newBest"}

(* A view of the database that stands exactly for the chain that ends in b.*)
ViewOf(v, b) ==
  /\ v.tx = TxsOf(Chain[b])
  /\ v.spent = SpendsOf(Chain[b])
  /\ ValidChain(b)
  /\ Chain[b] \subseteq v.index
  /\ LinksMainChain(v.next, b)

SyncInv ==
  /\ hashSyncCheckpoint = db.sync
  /\ InSetBestChain \/ pc = "writeSync" =>
       hashSyncCheckpoint \in Chain[pindexNew]
  /\ pc = "reorganize" =>
       /\ batch.sync = db.sync
       /\ pindexIntermediate \in Chain[pindexNew]
       /\ \/ pindexIntermediate = pindexNew
          \/ nChainTrust[pindexIntermediate] > nChainTrust[pindexBest]

DiskInv ==
  ~broken => /\ ViewOf(db, db.best)
             /\ pnext = db.next
             /\ db.sync \in Chain[db.best]

(* Where the thread stands between the disk and the best block in memory.  *)
ThreadInv ==
  ~broken =>
    /\ pc \notin {"secondary", "newBest"} => pindexBest = db.best
    /\ pc = "reorganize" =>
         /\ ViewOf(batch, pindexWalk)
         /\ Chain[pindexBest] \cap Chain[pindexIntermediate]
              \subseteq Chain[pindexWalk]
    /\ pc = "secondary" =>
         db.best = pindexWalk /\ pindexWalk \in Chain[pindexNew]
    /\ pc = "newBest" => db.best = pindexNew
    /\ pc = "writeSync" => pindexNew \in Chain[db.best]

CalmInv ==
  calm =>
    /\ ~broken
    /\ \A b \in mapBlockIndex : Chain[b] \subseteq mapBlockIndex
    /\ InSetBestChain =>
         /\ caller = "AcceptBlock"
         /\ pindexNew \in mapBlockIndex
         /\ nChainTrust[pindexNew] > nChainTrust[pindexBest]
    /\ pc = "secondary" => pindexWalk = pindexNew
    /\ \A b \in mapBlockIndex :
         ValidChain(b) => \/ nChainTrust[b] <= nChainTrust[pindexBest]
                          \/ InSetBestChain /\ b = pindexNew

(* SetBestChain runs for a heavier block or for a signed checkpoint.       *)
CallerInv ==
  /\ hashPendingCheckpoint \in Signed \cup {None}
  /\ pc = "writeSync" => pindexNew \in Signed
  /\ InSetBestChain /\ caller # "AcceptBlock" => pindexNew \in Signed
  /\ pc \in {"setBest", "reorganize"} /\ caller = "AcceptBlock" =>
       nChainTrust[pindexNew] > nChainTrust[pindexBest]

Inv == TypeOK /\ SyncInv /\ DiskInv /\ ThreadInv /\ CalmInv

(* What the code says of itself, and does not hold.                        *)

(* "errors now are not fatal, we still did a reorganisation to a new chain *)
(* in a valid way" (SetBestChain): the chain memory calls the best one     *)
(* would be the one that was committed.                                    *)
NotFatal == pc = "idle" => pindexBest = db.best

(* "If don't already have its previous block, shunt it off to holding area *)
(* until we get it" (ProcessBlock): a held block would wait for a block    *)
(* that is not there.                                                      *)
HeldUntilParent ==
  pc = "idle" => \A o \in mapOrphanBlocks : hashPrevBlock[o] \notin mapBlockIndex

(* "Duplicate stake allowed only when there is orphan child block"         *)
(* (ProcessBlock): of two held blocks with one proof of stake, one would   *)
(* have a held child (or be the pending checkpoint's).                     *)
LimitedDuplicity ==
  pc = "idle" =>
    \A o, p \in mapOrphanBlocks :
      o # p /\ prevoutStake[o] = prevoutStake[p] /\ prevoutStake[o] # None =>
        \/ HasOrphanChild(o) \/ HasOrphanChild(p)
        \/ WantedByPendingSyncCheckpoint(o) \/ WantedByPendingSyncCheckpoint(p)

(* "assert (pindex->pprev || pindex->GetBlockHash() == ...)"               *)
(* (GetStakeModifierChecksum, at start-up): the disk index would hold the  *)
(* parent of each of its blocks.                                           *)
StartupAssertion == pc = "idle" => IndexClosed
=============================================================================
