----------------------------- MODULE WalletCoins -----------------------------
(***************************************************************************)
(* Which coins of the wallet are spent.  mapWallet has a record for every    *)
(* transaction that concerns the wallet, with the block that contains it     *)
(* and a flag for each output that is spent.  The records follow the block   *)
(* chain (SyncWithWallets, called for every transaction of a block that is   *)
(* connected or disconnected), the memory pool, and the wallet's own         *)
(* payments; nothing rolls them back when a reorganization is given up.      *)
(*                                                                         *)
(* A coin is an output, <<transaction, index>>.  Blocks and transactions are *)
(* given: which blocks exist, what they contain, what a transaction spends.  *)
(***************************************************************************)
EXTENDS Naturals, Sequences, SequencesExt, FiniteSets

CONSTANTS
    Tx, Inputs,       \* transactions, and the set of the coins that one spends
    Coinstake,        \* the coinstakes among them
    Mine,             \* the coins that belong to the wallet
    Blocks, Genesis,
    Parent, Content,  \* the parent of a block, the transactions in it in order
    None

CoinsConstants ==
    /\ Inputs \in [Tx -> SUBSET (Tx \X Nat)]
    /\ Coinstake \subseteq Tx /\ Mine \subseteq Tx \X Nat
    /\ Genesis \in Blocks /\ Parent \in [Blocks \ {Genesis} -> Blocks]
    /\ Content \in [Blocks -> Seq(Tx)]
    /\ None \notin Blocks

VARIABLES
    damage,    \* history: what a reorganization given up on its way may have left
               \* wrong since it was last repaired, "flags" and "blocks"
    best,      \* pindexBest
    wallet,    \* mapWallet: Tx -> [known, sent, spent, block]; sent: made here;
               \* spent: the indexes of the outputs marked in vfSpent
    mempool,
    work,      \* the calls of SyncWithWallets that a change of the best chain still makes
    target,    \* the block that is to become the best one, or None
    refused    \* payments that the memory pool refused after they were recorded

vars == <<damage, best, wallet, mempool, work, target, refused>>

Unknown == [known |-> FALSE, sent |-> FALSE, spent |-> {}, block |-> None]
NewRecord(block) == [Unknown EXCEPT !.known = TRUE, !.block = block]

(* The blocks up to b. *)
RECURSIVE Chain(_)
Chain(b) == IF b = Genesis THEN <<b>> ELSE Append(Chain(Parent[b]), b)

ChainOf == [b \in Blocks |-> Chain(b)]
TxsOf(b) == {t \in Tx : \E i \in DOMAIN Content[b] : Content[b][i] = t}
InChain(b) == UNION {TxsOf(ChainOf[b][i]) : i \in DOMAIN ChainOf[b]}

(* The transaction index: what the best chain contains. *)
Indexed == InChain(best)
IndexSpent(c) == \E t \in Indexed : c \in Inputs[t]

(* The indexes of t's outputs that belong to the wallet. *)
Own(t) == {c[2] : c \in {m \in Mine : m[1] = t}}

TypeOK ==
    /\ damage \subseteq {"flags", "blocks"}
    /\ best \in Blocks
    /\ \A t \in Tx : wallet[t] \in [known : BOOLEAN, sent : BOOLEAN, spent : SUBSET Own(t),
                                    block : Blocks \cup {None}]
    /\ mempool \subseteq Tx \ Coinstake
    /\ \A i \in DOMAIN work : work[i] \in [connect : BOOLEAN, tx : Tx, block : Blocks]
    /\ target \in Blocks \cup {None}
    /\ refused \subseteq Tx

Init ==
    /\ damage = {}
    /\ best = Genesis
    /\ wallet = [t \in Tx |-> IF t \in TxsOf(Genesis) /\ Own(t) # {}
                              THEN NewRecord(Genesis) ELSE Unknown]
    /\ mempool = {}
    /\ work = <<>>
    /\ target = None
    /\ refused = {}

Idle == target = None

-----------------------------------------------------------------------------
(* The wallet's operations on its records w. *)

(* The coins of the wallet, as its records show them. *)
Coins(w) == {c \in Mine : w[c[1]].known}

IsFromMe(w, t) == Inputs[t] \cap Coins(w) # {}

(* MarkSpent, MarkUnspent for the coins in C. *)
MarkSpent(w, C) ==
    [u \in Tx |-> [w[u] EXCEPT !.spent = w[u].spent \cup {n \in Own(u) : <<u, n>> \in C}]]
MarkUnspent(w, C) ==
    [u \in Tx |-> [w[u] EXCEPT !.spent = {n \in w[u].spent : <<u, n>> \notin C}]]

(* The outputs of t, if it is in a block. *)
Outputs(t, fBlock) == IF fBlock THEN {c \in Mine : c[1] = t} ELSE {}

(* Mutant: the spent coins are not looked for. *)
WalletUpdateSpentNot(w, t, fBlock) == MarkUnspent(w, Outputs(t, fBlock))

(* What t spends is spent; if t is in a block, its own outputs are not. *)
WalletUpdateSpent(w, t, fBlock) ==
    MarkUnspent(MarkSpent(w, Inputs[t] \cap Coins(w)), Outputs(t, fBlock))

(* Mutant: the block of a known transaction is not changed. *)
AddToWalletOnce(w, t, block) ==
    LET r == IF w[t].known THEN w[t] ELSE NewRecord(block)
    IN WalletUpdateSpent([w EXCEPT ![t] = r], t, block # None)

(* A new record, or the merge of the block into the old one. *)
AddToWallet(w, t, block) ==
    LET r == IF ~w[t].known THEN NewRecord(block)
             ELSE IF block = None THEN w[t] ELSE [w[t] EXCEPT !.block = block]
    IN WalletUpdateSpent([w EXCEPT ![t] = r], t, block # None)

AddToWalletIfInvolvingMe(w, t, block) ==
    IF w[t].known \/ Own(t) # {} \/ IsFromMe(w, t) THEN AddToWallet(w, t, block)
    ELSE WalletUpdateSpent(w, t, FALSE)

(* The inputs of a disconnected coinstake of ours are unspent again. *)
DisableTransaction(w, t) ==
    IF t \in Coinstake THEN MarkUnspent(w, Inputs[t] \cap Coins(w)) ELSE w

SyncWithWallets(w, c) ==
    IF c.connect THEN AddToWalletIfInvolvingMe(w, c.tx, c.block) ELSE DisableTransaction(w, c.tx)

-----------------------------------------------------------------------------
(* The block chain changes.  The calls are made one by one, with cs_main held. *)

Calls(connect, b) ==
    [i \in DOMAIN Content[b] |-> [connect |-> connect, tx |-> Content[b][i], block |-> b]]

RECURSIVE Disconnects(_, _)
Disconnects(b, fork) ==
    IF b = fork THEN <<>> ELSE Calls(FALSE, b) \o Disconnects(Parent[b], fork)

RECURSIVE Connects(_, _)
Connects(fork, b) ==
    IF b = fork THEN <<>> ELSE Connects(fork, Parent[b]) \o Calls(TRUE, b)

Fork(a, b) ==
    LET common == {n \in DOMAIN ChainOf[a] \cap DOMAIN ChainOf[b] : ChainOf[a][n] = ChainOf[b][n]}
    IN ChainOf[a][CHOOSE n \in common : \A m \in common : m <= n]

(* SetBestChain: a block that follows the best one, or one of another branch. *)
BeginSetBestChain(b) ==
    /\ Idle
    /\ Fork(best, b) # b
    /\ Fork(best, b) = best => Parent[b] = best
    /\ target' = b
    /\ work' = Disconnects(best, Fork(best, b)) \o Connects(Fork(best, b), b)
    /\ UNCHANGED <<damage, best, wallet, mempool, refused>>

(* ScanForWalletTransactions with fUpdate from the start of the chain (-rescan,
   importprivkey): the same calls, and no change of the chain. *)
Rescan ==
    /\ Idle
    /\ target' = best
    /\ work' = Calls(TRUE, Genesis) \o Connects(Genesis, best)
    /\ UNCHANGED <<damage, best, wallet, mempool, refused>>

Sync ==
    /\ work # <<>>
    /\ wallet' = SyncWithWallets(wallet, Head(work))
    /\ work' = Tail(work)
    /\ UNCHANGED <<damage, best, mempool, target, refused>>

(* AcceptToMemoryPool takes t with the pool P and the chain up to b. *)
Acceptable(t, P, b) ==
    /\ t \notin Coinstake \cup P \cup InChain(b)
    /\ \A c \in Inputs[t] : c[1] \in P \cup InChain(b)
    /\ \A u \in P \cup InChain(b) : Inputs[t] \cap Inputs[u] = {}

(* What Reorganize takes back of the disconnected transactions, oldest first. *)
Resurrected(b) ==
    UNION {R \in SUBSET (Indexed \ InChain(b)) :
             \A t \in R : \E Q \in SUBSET (R \ {t}) : Acceptable(t, mempool \cup Q, b)}

(* CTxMemPool::remove with the transactions that depend on t. *)
RECURSIVE Dependents(_, _)
Dependents(t, P) ==
    {t} \cup UNION {Dependents(u, P) : u \in {v \in P : \E c \in Inputs[v] : c[1] = t}}

RemoveConflicts(P, t) ==
    P \ UNION {Dependents(u, P) : u \in {v \in P \ {t} : Inputs[v] \cap Inputs[t] # {}}}

PoolAfterReorganize(b) ==
    LET connected == InChain(b) \ InChain(Fork(best, b))
        P == (mempool \cup Resurrected(b)) \ connected
    IN P \ UNION {P \ RemoveConflicts(P, t) : t \in connected}

(* The new chain is committed.  Only Reorganize takes transactions back and
   removes those that conflict; a rescan leaves chain and pool as they are. *)
EndSetBestChain ==
    /\ target # None /\ work = <<>>
    /\ damage' = IF target = best THEN {} ELSE damage
    /\ best' = target /\ target' = None
    /\ mempool' = IF target = best THEN mempool
                  ELSE IF Parent[target] = best THEN mempool \ TxsOf(target)
                  ELSE PoolAfterReorganize(target)
    /\ UNCHANGED <<wallet, work, refused>>

(* A block of the new branch cannot be connected: the index is rolled back. *)
Abort ==
    /\ target \notin {None, best}
    /\ work # <<>> => Head(work).connect /\ Head(work).tx = Content[Head(work).block][1]
    /\ target' = None /\ work' = <<>>
    /\ damage' = {"flags", "blocks"}
    /\ UNCHANGED <<best, wallet, mempool, refused>>

-----------------------------------------------------------------------------
(* Payments. *)

InBestChain(t) == \E n \in DOMAIN ChainOf[best] : ChainOf[best][n] = wallet[t].block

(* IsTrusted: in a block of the best chain, or a payment of ours in the pool that
   rests on such transactions (those it came with, vtxPrev). *)
RECURSIVE IsTrusted(_)
IsTrusted(t) ==
    \/ InBestChain(t)
    \/ t \in mempool /\ wallet[t].sent /\ \A c \in Inputs[t] : IsTrusted(c[1])

(* AvailableCoins *)
Available(c) == c \in Coins(wallet) /\ c[2] \notin wallet[c[1]].spent /\ IsTrusted(c[1])

(* CreateTransaction and CommitTransaction, under cs_main and cs_wallet: the
   transaction is recorded, its coins marked, then the pool is asked. *)
SendMoney(t) ==
    /\ Idle
    /\ t \notin Coinstake /\ ~wallet[t].known /\ Inputs[t] # {}
    /\ \A c \in Inputs[t] : Available(c)
    /\ wallet' = [AddToWallet(wallet, t, None) EXCEPT ![t].sent = TRUE]
    /\ IF Acceptable(t, mempool, best)
       THEN mempool' = mempool \cup {t} /\ UNCHANGED refused
       ELSE refused' = refused \cup {t} /\ UNCHANGED mempool
    /\ UNCHANGED <<damage, best, work, target>>

(* A transaction arrives from another node, one of a copy of the wallet even. *)
ReceiveTx(t) ==
    /\ Idle
    /\ Acceptable(t, mempool, best)
    /\ mempool' = mempool \cup {t}
    /\ wallet' = AddToWalletIfInvolvingMe(wallet, t, None)
    /\ UNCHANGED <<damage, best, work, target, refused>>

(* The coins of the wallet that are in the index, spent there or not. *)
InIndex(w, spent) == {c \in Coins(w) : c[1] \in Indexed /\ IndexSpent(c) = spent}

(* FixSpentCoins (repairwallet): the flags of the transactions in the index follow
   the index. *)
FixSpentCoins ==
    /\ Idle
    /\ wallet' = MarkUnspent(MarkSpent(wallet, InIndex(wallet, TRUE)), InIndex(wallet, FALSE))
    /\ damage' = damage \ {"flags"}
    /\ UNCHANGED <<best, mempool, work, target, refused>>

(* ReacceptWalletTransactions passes over a coinbase whose first output and a
   coinstake whose second output, the first that is not empty, is marked. *)
PassedOver(w, t) ==
    (Inputs[t] = {} /\ 0 \in w[t].spent) \/ (t \in Coinstake /\ 1 \in w[t].spent)

(* ... and marks what the index shows as spent of the others. *)
MarkReaccepted(w) == MarkSpent(w, {c \in InIndex(w, TRUE) : ~PassedOver(w, c[1])})

(* ScanForWalletTransactions without fUpdate: transactions of the chain that the
   wallet does not know. *)
ScanMissing(w) ==
    FoldLeft(LAMBDA v, c : IF v[c.tx].known THEN v ELSE SyncWithWallets(v, c),
             w, Calls(TRUE, Genesis) \o Connects(Genesis, best))

(* A restart between two blocks: ReacceptWalletTransactions, which scans the chain
   and goes round again when it has marked a coin, and which gives the pool what is
   in no block. *)
Restart ==
    /\ Idle
    /\ LET w == MarkReaccepted(wallet)
       IN wallet' = IF w = wallet THEN w ELSE MarkReaccepted(ScanMissing(w))
    /\ LET own == {t \in Tx \ Coinstake : wallet'[t].known /\ t \notin Indexed}
       IN mempool' \in {P \in SUBSET own :
                          /\ \A t \in P : \E Q \in SUBSET (P \ {t}) : Acceptable(t, Q, best)
                          /\ \A t, u \in P : t # u => Inputs[t] \cap Inputs[u] = {}
                          /\ \A t \in own \ P : ~Acceptable(t, P, best)}
    /\ UNCHANGED <<damage, best, work, target, refused>>

Next ==
    \/ \E b \in Blocks : BeginSetBestChain(b)
    \/ Rescan \/ Sync \/ EndSetBestChain \/ Abort
    \/ \E t \in Tx : SendMoney(t) \/ ReceiveTx(t)
    \/ FixSpentCoins
    \/ Restart

Spec == Init /\ [][Next]_vars

-----------------------------------------------------------------------------
(* Properties *)

(* A coin that the best chain spends is marked as spent. *)
SpentMarked == \A c \in Coins(wallet) : IndexSpent(c) => c[2] \in wallet[c[1]].spent

(* It is so after any sequence of reorganizations, rescans, payments and restarts,
   unless a reorganization was given up on its way, when nothing takes back what the
   wallets were told of it; and again once repairwallet or a rescan is through. *)
ChainSpent == Idle /\ "flags" \notin damage => SpentMarked

(* In the same case no coin is lost: one of the best chain that is marked as spent
   is spent by a transaction of the wallet, and not only by a coinstake of an
   abandoned branch. *)
NoLostCoin ==
    Idle /\ "flags" \notin damage =>
        \A c \in Coins(wallet) : c[1] \in Indexed /\ c[2] \in wallet[c[1]].spent =>
            \E t \in Tx : wallet[t].known /\ c \in Inputs[t] /\ (t \in Coinstake => t \in Indexed)

(* The flags are exact in both directions after any such sequence. *)
SpentExact == TypeOK /\ ChainSpent /\ NoLostCoin

(* ... and the wallet knows every transaction of the best chain that concerns it, in
   the block of the best chain that contains it; after a reorganization that was
   given up, once a rescan is through. *)
BlockKnown ==
    Idle /\ "blocks" \notin damage =>
        \A t \in Indexed : Own(t) # {} \/ IsFromMe(wallet, t) =>
            InBestChain(t) /\ t \in TxsOf(wallet[t].block)

(* A coin that is marked as spent is spent by a transaction that the wallet has,
   even when reorganizations are given up. *)
SpenderKnown ==
    \A u \in Tx : \A n \in wallet[u].spent : \E t \in Tx : wallet[t].known /\ <<u, n>> \in Inputs[t]

(* The records that the flags rest on are there. *)
RecordsFollow == BlockKnown /\ SpenderKnown

(* A restart marks what the best chain spends, too.  It does not always: the
   outputs of a split stake are passed over when the first is marked. *)
RestartMends == [][Restart => SpentMarked']_vars

(* "This must not fail": a payment that the wallet has signed and recorded is
   accepted by the memory pool. *)
CommitAccepted == refused = {}
=============================================================================
