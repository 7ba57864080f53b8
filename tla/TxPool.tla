------------------------------- MODULE TxPool -------------------------------
(***************************************************************************)
(* Loose transactions: the memory pool, the orphan transactions that wait  *)
(* for a parent, what a new block and a reorganization do to the pool      *)
(* (main.cpp), and the collection of pool transactions into a new block by *)
(* the staking thread (miner.cpp).  Every handler runs in one cs_main      *)
(* section; CreateNewBlock reads pindexBest before it takes cs_main.       *)
(* Scripts, amounts, fees, sizes and times only decide whether a           *)
(* transaction is refused or skipped, which is a choice here.              *)
(***************************************************************************)
EXTENDS Naturals, Sequences, FiniteSets, Functions

CONSTANTS
  Tx,           \* loose transactions
  Coinbase,     \* the transaction of old, buried outputs
  Ins,          \* the inputs of each: a sequence of outpoints <<hash, n>>
  MaxBlockTx,   \* bound: transactions in a block
  Settings      \* Loose: the transactions that circulate; NonStandard: those
                \* refused by IsStandardTx, which blocks may have; MaxOrphans:
                \* MAX_ORPHAN_TRANSACTIONS; MaxBlocks, a bound: blocks ever
                \* connected

ASSUME TxPoolAssumption ==
  /\ IsFiniteSet(Tx) /\ Coinbase \notin Tx
  /\ \A t \in Tx : \A i \in DOMAIN Ins[t] : Ins[t][i][1] \in Tx \cup {Coinbase}
  /\ MaxBlockTx \in Nat
  /\ Settings \subseteq [Loose : SUBSET Tx, NonStandard : SUBSET Tx,
                          MaxOrphans : Nat, MaxBlocks : Nat]

VARIABLES
  setting,      \* the setting of this behaviour
  chain,        \* the best chain: a sequence of blocks [id, vtx]
  nBlocks,      \* blocks connected so far, which numbers them
  pool,         \* mempool: mapTx and mapNextTx
  orphans,      \* mapOrphanTransactions
  byPrev,       \* mapOrphanTransactionsByPrev: hash -> set of orphans
  untold,       \* history: those of the pool whose arrival wallets were not told
  minerPc,      \* where CreateNewBlock is
  block,        \* the block it builds: pindexPrev and vtx
  vecPriority,  \* transactions ready to be added
  dependsOn,    \* vOrphan: transaction -> setDependsOn
  mapDependers, \* hash -> the transactions that wait for it
  freed         \* history: a COrphan was used after vOrphan.pop_back()

chainVars == <<setting, chain, nBlocks>>
orphanVars == <<orphans, byPrev>>
collectVars == <<block, vecPriority, dependsOn, mapDependers, freed>>
minerVars == <<minerPc, collectVars>>
vars == <<chainVars, pool, orphanVars, untold, minerVars>>

InSet(t) == Range(Ins[t])
Prevs(t) == {o[1] : o \in InSet(t)}
Spends(S) == UNION {InSet(t) : t \in S}
OutPoint == Spends(Tx)
NoFcn == [x \in {} |-> {}]

Blocks == {s \in UNION {[1..n -> Tx] : n \in 0..MaxBlockTx} : IsInjective(s)}

TypeOK ==
  /\ \A i \in DOMAIN chain : chain[i].id \in 1..nBlocks /\ chain[i].vtx \in Blocks
  /\ setting \in Settings
  /\ nBlocks \in 0..setting.MaxBlocks
  /\ pool.tx \subseteq Tx /\ DOMAIN pool.next \subseteq OutPoint
  /\ orphans \subseteq Tx /\ Cardinality(orphans) <= setting.MaxOrphans
  /\ DOMAIN byPrev \subseteq Tx \cup {Coinbase}
  /\ untold \subseteq pool.tx
  /\ minerPc \in {"idle", "read", "collect", "found"}
  /\ block.prev \in 0..nBlocks
  /\ Range(block.vtx) \subseteq Tx /\ vecPriority \subseteq Tx
  /\ DOMAIN dependsOn \subseteq Tx /\ DOMAIN mapDependers \subseteq Tx
  /\ freed \in BOOLEAN

Init ==
  /\ setting \in Settings
  /\ chain = << >> /\ nBlocks = 0
  /\ pool = [tx |-> {}, next |-> NoFcn]
  /\ orphans = {} /\ byPrev = NoFcn
  /\ untold = {}
  /\ minerPc = "idle" /\ block = [prev |-> 0, vtx |-> << >>]
  /\ vecPriority = {} /\ dependsOn = NoFcn /\ mapDependers = NoFcn
  /\ freed = FALSE

-----------------------------------------------------------------------------
(* The transaction index of a chain.                                       *)

Txs(c) == UNION {Range(c[i].vtx) : i \in DOMAIN c}
ContainsTx(c, h) == h = Coinbase \/ h \in Txs(c)
Spent(c) == Spends(Txs(c))
Tip(c) == IF c = << >> THEN 0 ELSE c[Len(c)].id

(* FetchInputs and ConnectInputs of t after the transactions of s were     *)
(* added to chain c: every previous transaction is there, no input is      *)
(* spent.                                                                  *)
Connects(c, s, t) ==
  /\ \A h \in Prevs(t) : ContainsTx(c, h) \/ h \in Range(s)
  /\ InSet(t) \cap (Spent(c) \cup Spends(Range(s))) = {}
  /\ ~ContainsTx(c, t) /\ t \notin Range(s)

(* ConnectBlock succeeds for a block of s on top of c.                     *)
ConnectBlock(c, s) == \A i \in DOMAIN s : Connects(c, SubSeq(s, 1, i - 1), s[i])

Connectable(c) == {s \in Blocks : Range(s) \subseteq setting.Loose /\ ConnectBlock(c, s)}

-----------------------------------------------------------------------------
(* CTxMemPool.                                                             *)

addUnchecked(p, t) ==
  [tx   |-> p.tx \cup {t},
   next |-> [o \in DOMAIN p.next \cup InSet(t) |->
               IF o \in InSet(t) THEN t ELSE p.next[o]]]

(* Mutant: the spent outputs stay registered.                              *)
EraseKeepsNext(p, S) == [tx |-> p.tx \ S, next |-> p.next]

(* The transactions of S leave the pool.                                   *)
Erase(p, S) ==
  [tx   |-> p.tx \ S,
   next |-> [o \in DOMAIN p.next \ Spends(p.tx \cap S) |-> p.next[o]]]

remove(p, t) == Erase(p, {t})

(* remove with fRecursive: those of S and what spends them, and so on.     *)
Spenders(p, S) == {p.next[o] : o \in {q \in DOMAIN p.next : q[1] \in S}}
Descendants(p, S) ==
  {u \in p.tx : \A D \in SUBSET p.tx : S \subseteq D /\ Spenders(p, D) \subseteq D => u \in D}
removeRecursive(p, S) == Erase(p, Descendants(p, S))

removeConflicts(p, t) ==
  removeRecursive(p, {p.next[o] : o \in InSet(t) \cap DOMAIN p.next} \ {t})

(* AcceptToMemoryPool: refused as not standard, known, in conflict with    *)
(* the pool, or already in the chain; else an orphan when a previous       *)
(* transaction is nowhere; else checked against the spent outputs.         *)
Refused(c, p, t) ==
  \/ t \in setting.NonStandard \cup p.tx
  \/ InSet(t) \cap DOMAIN p.next # {}
  \/ ContainsTx(c, t)

MissingInputs(c, p, t) == \E h \in Prevs(t) : ~ContainsTx(c, h) /\ h \notin p.tx

Accepts(c, p, t) ==
  /\ ~Refused(c, p, t) /\ ~MissingInputs(c, p, t)
  /\ InSet(t) \cap Spent(c) = {}

AcceptToMemoryPool(c, p, t) == IF Accepts(c, p, t) THEN addUnchecked(p, t) ELSE p

(* The loops of Reorganize: the transactions of s in turn are put back     *)
(* (vResurrect), or removed with what conflicts with them (vDelete).       *)
Resurrect(c, p, s) ==
  LET after[i \in 0..Len(s)] ==
        IF i = 0 THEN p ELSE AcceptToMemoryPool(c, after[i - 1], s[i])
  IN after[Len(s)]

Delete(p, s) ==
  LET after[i \in 0..Len(s)] ==
        IF i = 0 THEN p ELSE removeConflicts(remove(after[i - 1], s[i]), s[i])
  IN after[Len(s)]

-----------------------------------------------------------------------------
(* The message "tx" and the orphans.                                       *)

(* The set of the orphans that wait for h; operator[] makes an empty one.  *)
Waiting(b, h) == IF h \in DOMAIN b THEN b[h] ELSE {}

(* A set in some order, as the code's loop over it.                        *)
Listed(S) == CHOOSE s \in [1..Cardinality(S) -> S] : IsInjective(s)

AddOrphanTx(o, b, t) ==
  IF t \in o THEN [o |-> o, b |-> b]
  ELSE [o |-> o \cup {t},
        b |-> [h \in DOMAIN b \cup Prevs(t) |->
                 IF h \in Prevs(t) THEN Waiting(b, h) \cup {t} ELSE b[h]]]

(* The orphans of E are erased, and the entries that this empties.         *)
EraseOrphanTx(s, E) ==
  LET gone == E \cap s.o
      hit == UNION {Prevs(t) : t \in gone}
  IN [o |-> s.o \ gone,
      b |-> [h \in {g \in DOMAIN s.b : g \in hit => s.b[g] \ gone # {}} |->
               IF h \in hit THEN s.b[h] \ gone ELSE s.b[h]]]

(* Mutant: the orphans that wait for an accepted orphan are not tried.     *)
TryOrphanOnce(w) ==
  LET t == Head(w.todo) IN
  IF Accepts(chain, w.p, t)
  THEN [w EXCEPT !.todo = Tail(w.todo), !.p = addUnchecked(w.p, t), !.erase = w.erase \cup {t}]
  ELSE IF ~Refused(chain, w.p, t) /\ MissingInputs(chain, w.p, t)
  THEN [w EXCEPT !.todo = Tail(w.todo)]
  ELSE [w EXCEPT !.todo = Tail(w.todo), !.erase = w.erase \cup {t}]

(* The loops over vWorkQueue and the orphans that wait for each of its     *)
(* hashes: w has the orphans still to try, the pool, the orphans to erase  *)
(* and the hashes looked up in the index.                                  *)
TryOrphan(w) ==
  LET t == Head(w.todo) IN
  IF Accepts(chain, w.p, t)
  THEN [todo   |-> Tail(w.todo) \o Listed(Waiting(byPrev, t)),
        p      |-> addUnchecked(w.p, t),
        erase  |-> w.erase \cup {t},
        looked |-> w.looked \cup {t}]
  ELSE IF ~Refused(chain, w.p, t) /\ MissingInputs(chain, w.p, t)
  THEN [w EXCEPT !.todo = Tail(w.todo)]
  ELSE [w EXCEPT !.todo = Tail(w.todo), !.erase = w.erase \cup {t}]

(* Each hash is accepted once, so that there are at most this many tries.  *)
MaxTries == Cardinality(Tx) * Cardinality(Tx)

WorkQueue(t) ==
  LET work[i \in 0..MaxTries] ==
        IF i = 0
        THEN [todo |-> Listed(Waiting(byPrev, t)), p |-> addUnchecked(pool, t),
              erase |-> {t}, looked |-> {t}]
        ELSE LET w == work[i - 1] IN IF w.todo = << >> THEN w ELSE TryOrphan(w)
  IN work[MaxTries]

(* Not while CreateNewBlock holds cs_main.                                 *)
MainFree == minerPc # "collect"

TxAccepted(t) ==
  /\ MainFree /\ Accepts(chain, pool, t)
  /\ LET w == WorkQueue(t)
         s == EraseOrphanTx([o |-> orphans,
                             b |-> [h \in DOMAIN byPrev \cup w.looked |-> Waiting(byPrev, h)]],
                            w.erase)
     IN /\ pool' = w.p
        /\ orphans' = s.o /\ byPrev' = s.b
        /\ untold' = untold \cup (w.p.tx \ (pool.tx \cup {t}))
  /\ UNCHANGED <<chainVars, minerVars>>

(* LimitOrphanTxSize evicts an arbitrary orphan, the new one included.     *)
TxOrphan(t) ==
  /\ MainFree /\ ~Refused(chain, pool, t) /\ MissingInputs(chain, pool, t)
  /\ LET s == AddOrphanTx(orphans, byPrev, t) IN
     \/ /\ Cardinality(s.o) <= setting.MaxOrphans
        /\ orphans' = s.o /\ byPrev' = s.b
     \/ /\ Cardinality(s.o) > setting.MaxOrphans
        /\ \E u \in s.o : LET e == EraseOrphanTx(s, {u}) IN
                          orphans' = e.o /\ byPrev' = e.b
  /\ UNCHANGED <<chainVars, pool, untold, minerVars>>

(* CommitTransaction and sendrawtransaction: the wallet knows it first.    *)
OwnTransaction(t) ==
  /\ MainFree
  /\ pool' = AcceptToMemoryPool(chain, pool, t)
  /\ untold' = untold \ {t}
  /\ UNCHANGED <<chainVars, orphanVars, minerVars>>

-----------------------------------------------------------------------------
(* New blocks.                                                             *)

NewBlock(c, n, s) == Append(c, [id |-> n, vtx |-> s])

(* SetBestChainInner: a block on top of the best one.                      *)
ConnectTip(s) ==
  /\ nBlocks < setting.MaxBlocks
  /\ chain' = NewBlock(chain, nBlocks + 1, s)
  /\ nBlocks' = nBlocks + 1 /\ UNCHANGED setting
  /\ pool' = Erase(pool, Range(s))
  /\ untold' = untold \cap pool'.tx

SetBestChainInner(s) ==
  /\ MainFree
  /\ ConnectTip(s)
  /\ UNCHANGED <<orphanVars, minerVars>>

(* The transactions of the blocks above height f, oldest first.            *)
vResurrect(f) ==
  LET v[i \in f..Len(chain)] == IF i = f THEN << >> ELSE v[i - 1] \o chain[i].vtx
  IN v[Len(chain)]

(* Disconnects the blocks above height f, connects two there, tries to put *)
(* the disconnected transactions back into the pool, oldest first, and     *)
(* removes what the new blocks have and what conflicts with it.            *)
Reorganize(f) ==
  LET base == SubSeq(chain, 1, f)
  IN /\ MainFree /\ nBlocks + 2 <= setting.MaxBlocks
     /\ \E s1 \in Connectable(base) :
        \E s2 \in Connectable(NewBlock(base, nBlocks + 1, s1)) :
          LET new == NewBlock(NewBlock(base, nBlocks + 1, s1), nBlocks + 2, s2)
          IN /\ chain' = new
             /\ pool' = Delete(Resurrect(new, pool, vResurrect(f)), s1 \o s2)
     /\ nBlocks' = nBlocks + 2 /\ UNCHANGED setting
     /\ untold' = untold \cap pool'.tx
     /\ UNCHANGED <<orphanVars, minerVars>>

-----------------------------------------------------------------------------
(* CreateNewBlock and CheckStake, in the staking thread.                   *)

ReadBest ==
  /\ minerPc = "idle"
  /\ minerPc' = "read"
  /\ block' = [prev |-> Tip(chain), vtx |-> << >>]
  /\ UNCHANGED <<chainVars, pool, orphanVars, untold, vecPriority, dependsOn,
                 mapDependers, freed>>

(* The inputs of t are looked at in order up to the first that is nowhere. *)
Nowhere(o) == ~ContainsTx(chain, o[1]) /\ o[1] \notin pool.tx
Looked(t) ==
  LET bad == {i \in DOMAIN Ins[t] : Nowhere(Ins[t][i])} IN
  {Ins[t][i][1] : i \in {j \in DOMAIN Ins[t] : \A k \in bad : j < k}}
fMissingInputs(t) == \E o \in InSet(t) : Nowhere(o)
PoolParents(t) == {h \in Looked(t) : ~ContainsTx(chain, h)}

(* LOCK2(cs_main, mempool.cs) and the first loop.  A transaction with an   *)
(* input that is nowhere loses its COrphan, but mapDependers keeps it.     *)
Collect ==
  /\ minerPc = "read"
  /\ minerPc' = "collect"
  /\ dependsOn' = [t \in {u \in pool.tx : PoolParents(u) # {} /\ ~fMissingInputs(u)} |->
                     PoolParents(t)]
  /\ mapDependers' = [h \in pool.tx |-> {t \in pool.tx : h \in PoolParents(t)}]
  /\ vecPriority' = {t \in pool.tx : PoolParents(t) = {} /\ ~fMissingInputs(t)}
  /\ freed' = FALSE
  /\ UNCHANGED <<chainVars, pool, orphanVars, untold, block>>

Skip(t) ==
  /\ minerPc = "collect" /\ t \in vecPriority
  /\ vecPriority' = vecPriority \ {t}
  /\ UNCHANGED <<chainVars, pool, orphanVars, untold, minerPc, block, dependsOn,
                 mapDependers, freed>>

Released(t) == {u \in mapDependers[t] \cap DOMAIN dependsOn : dependsOn[u] = {t}}

(* Mutant: ConnectInputs is not called.                                    *)
CanAddAny(t) ==
  /\ Len(block.vtx) < MaxBlockTx
  /\ \A h \in Prevs(t) : ContainsTx(chain, h) \/ h \in Range(block.vtx)

(* The size limit of the block, FetchInputs and ConnectInputs.             *)
CanAdd(t) == Len(block.vtx) < MaxBlockTx /\ Connects(chain, block.vtx, t)

AddToBlock(t) ==
  /\ minerPc = "collect" /\ t \in vecPriority
  /\ CanAdd(t)
  /\ block' = [block EXCEPT !.vtx = Append(block.vtx, t)]
  /\ dependsOn' = [u \in DOMAIN dependsOn |-> dependsOn[u] \ {t}]
  /\ vecPriority' = (vecPriority \ {t}) \cup Released(t)
  /\ freed' = (freed \/ mapDependers[t] \ DOMAIN dependsOn # {})
  /\ UNCHANGED <<chainVars, pool, orphanVars, untold, minerPc, mapDependers>>

Collected ==
  /\ minerPc = "collect" /\ vecPriority = {}
  /\ minerPc' = "found"
  /\ dependsOn' = NoFcn /\ mapDependers' = NoFcn
  /\ UNCHANGED <<chainVars, pool, orphanVars, untold, block, vecPriority, freed>>

(* The block is signed and still fits on the best block, or is dropped.    *)
CheckStake ==
  /\ minerPc = "found"
  /\ minerPc' = "idle"
  /\ block' = [prev |-> 0, vtx |-> << >>]
  /\ \/ block.prev = Tip(chain) /\ ConnectTip(block.vtx)
     \/ UNCHANGED <<chainVars, pool, untold>>
  /\ UNCHANGED <<orphanVars, vecPriority, dependsOn, mapDependers, freed>>

Next ==
  \/ \E t \in setting.Loose : TxAccepted(t) \/ TxOrphan(t) \/ OwnTransaction(t)
  \/ \E s \in Connectable(chain) : SetBestChainInner(s)
  \/ \E f \in 0..Len(chain) - 1 : Reorganize(f)
  \/ ReadBest \/ Collect \/ Collected \/ CheckStake
  \/ \E t \in setting.Loose : Skip(t) \/ AddToBlock(t)

Spec == Init /\ [][Next]_vars

-----------------------------------------------------------------------------
(* mapNextTx is exactly the spends of the pool: no two transactions of the *)
(* pool spend one output, whatever was resurrected, confirmed, removed     *)
(* with its descendants or accepted from an orphan.                        *)
NextTxExact ==
  /\ DOMAIN pool.next = Spends(pool.tx)
  /\ \A t \in pool.tx : \A o \in InSet(t) : pool.next[o] = t

(* No transaction of the pool is also in the chain: new blocks and         *)
(* reorganizations "Delete redundant memory transactions".                 *)
NoneConfirmed == pool.tx \cap Txs(chain) = {}

(* mapOrphanTransactionsByPrev finds each orphan under each of its         *)
(* parents, and nothing that is not an orphan.                             *)
OrphansIndexed ==
  /\ \A t \in orphans : \A h \in Prevs(t) : t \in Waiting(byPrev, h)
  /\ \A h \in DOMAIN byPrev : byPrev[h] \subseteq orphans

(* The pool and the orphan index are exact together: through blocks,       *)
(* reorganizations and accepted orphans neither has anything it should not.*)
PoolExact == TypeOK /\ NextTxExact /\ NoneConfirmed /\ OrphansIndexed

(* An orphan of the chain's and pool's descendants does not stay behind:   *)
(* when a transaction is accepted from a peer, no orphan that spends it is *)
(* left that could be accepted now.                                        *)
OrphansFollow ==
  [][\A t \in setting.Loose : TxAccepted(t) =>
       \A u \in orphans' : ~Accepts(chain', pool', u) \/ Accepts(chain, pool, u)]_vars

(* What CreateNewBlock collected connects on the best chain, whenever the  *)
(* block is not stale, although it read pindexBest before it took cs_main. *)
BlockConnects ==
  minerPc = "found" /\ block.prev = Tip(chain) => ConnectBlock(chain, block.vtx)

(* "all transactions in the memory pool should connect to either           *)
(* transactions in the chain or other transactions in the memory pool".    *)
NoMissingInput == \A t \in pool.tx : ~MissingInputs(chain, pool, t)

(* SyncWithWallets: "make sure all wallets know about the given            *)
(* transaction": the wallets were told of every transaction of the pool.   *)
WalletsKnow == untold = {}

(* A COrphan that mapDependers has is in the list vOrphan, whose "memory   *)
(* doesn't move", when it is used.                                         *)
OrphanAlive == ~freed

(* The index of the orphans is bounded by the orphans: an entry is erased  *)
(* once no orphan waits for it.                                            *)
IndexBounded == \A h \in DOMAIN byPrev : byPrev[h] # {}
=============================================================================
