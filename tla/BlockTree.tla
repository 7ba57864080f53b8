----------------------------- MODULE BlockTree -----------------------------
(***************************************************************************)
(* The data that ChessCoin nodes exchange and that never changes once it   *)
(* exists: blocks, their place in the tree of blocks, and the transactions *)
(* they carry; and the pure part of validation, what connecting a block to *)
(* a transaction index requires and does.                                  *)
(*                                                                         *)
(* A block or a transaction stands for its hash.  A set of blocks is fixed *)
(* in advance as a constant: the nodes discover it in any order.           *)
(***************************************************************************)
EXTENDS Naturals, Sequences, FiniteSets

CONSTANTS
  Block,          \* every block that exists, the genesis block included
  Genesis,        \* hashGenesisBlock
  None,           \* the null hash and the null pointer
  hashPrevBlock,  \* the parent of each block
  Chain,          \* Chain[b]: the blocks from Genesis to b, both included
  nHeight,        \* CBlockIndex::nHeight
  nChainTrust,    \* CBlockIndex::nChainTrust
  prevoutStake,   \* the proof of stake of a block, None for proof of work
  Tx,             \* every transaction
  vtx,            \* the transactions a block adds to the transaction index
  vin,            \* the outpoints <<tx, n>> a transaction spends
  vout,           \* the output numbers of a transaction
  Generated,      \* coinbase and coinstake transactions
  nCoinbaseMaturity,
  BadBlock,       \* blocks that fail a check of ConnectBlock on values,
                  \* signatures, fees, rewards, coin age or size
  Unacceptable    \* blocks that fail a check of AcceptBlock that looks at
                  \* the block and its ancestors only

(* The outpoints of a set of transactions: CTxIndex::vSpent has one slot   *)
(* for each.                                                               *)
OutPoints(T) == UNION {{t} \X vout[t] : t \in T}

Txs(b) == {vtx[b][i] : i \in DOMAIN vtx[b]}

(* The transactions of block b that ConnectBlock handles before t.         *)
EarlierTxs(b, t) ==
  {u \in Txs(b) : \E i, j \in DOMAIN vtx[b] :
                     i < j /\ vtx[b][i] = u /\ vtx[b][j] = t}

LaterTxs(b, t) == {u \in Txs(b) : t \in EarlierTxs(b, u)}

(* The outpoints that the transactions of block b spend.                   *)
Spends(b) == UNION {vin[t] : t \in Txs(b)}

(* What a set of blocks, together, adds to the transaction index and marks *)
(* as spent there.                                                         *)
TxsOf(S)    == UNION {Txs(c) : c \in S}
SpendsOf(S) == UNION {Spends(c) : c \in S}

ASSUME BlockTreeAssumption ==
  /\ Genesis \in Block
  /\ None \notin Block
  /\ hashPrevBlock \in [Block -> Block \cup {None}]
  /\ Chain \in [Block -> SUBSET Block]
  /\ nHeight \in [Block -> Nat]
  /\ nChainTrust \in [Block -> Nat]
  /\ hashPrevBlock[Genesis] = None
  /\ Chain[Genesis] = {Genesis}
  /\ \A b \in Block \ {Genesis} :
        LET p == hashPrevBlock[b] IN
        /\ p \in Block
        /\ Chain[b] = Chain[p] \cup {b}
        /\ nHeight[b] = nHeight[p] + 1
        /\ nChainTrust[p] < nChainTrust[b]
        /\ b \notin Chain[p]
  \* A chain holds the genesis block and the chain of each of its members,
  \* and has no branches.
  /\ \A b \in Block :
        /\ Genesis \in Chain[b]
        /\ \A c \in Chain[b] :
              /\ Chain[c] \subseteq Chain[b]
              /\ nHeight[c] <= nHeight[b]
              /\ nChainTrust[c] <= nChainTrust[b]
        /\ \A c, d \in Chain[b] : c \in Chain[d] \/ d \in Chain[c]

ASSUME TransactionAssumption ==
  /\ vtx \in [Block -> Seq(Tx)]
  /\ vout \in [Tx -> SUBSET Nat]
  /\ vin \in [Tx -> SUBSET (Tx \X Nat)]
  /\ nCoinbaseMaturity \in Nat
  \* LoadBlockIndex never connects the genesis block: its coinbase is not in
  \* the transaction index.
  /\ vtx[Genesis] = << >>
  \* CheckBlock refuses a block that holds a transaction twice.
  /\ \A b \in Block : \A i, j \in DOMAIN vtx[b] : vtx[b][i] = vtx[b][j] => i = j
  \* CheckTransaction refuses a transaction that creates no output.
  /\ \A t \in Tx : vout[t] # {}
  \* The coinbase starts with the height of its block (AcceptBlock), so a
  \* chain never holds the same one twice; every other transaction has inputs.
  /\ \A b \in Block : \A c \in Chain[b] : \A t \in Txs(b) \cap Txs(c) :
        vin[t] = {} => b = c

-----------------------------------------------------------------------------
(* ConnectBlock(b) succeeds on a transaction index holding the             *)
(* transactions txs, of whose outputs the outpoints in spent are spent.    *)
(* An input may come from the index or from a transaction earlier in the   *)
(* block (mapQueuedChanges), whose entry shadows the one of the index.     *)
CanConnect(txs, spent, b) ==
  /\ b \notin BadBlock
  \* BIP30: a transaction may replace only a completely spent one.
  /\ \A t \in Txs(b) \cap txs : OutPoints({t}) \subseteq spent
  /\ \A t \in Txs(b) : \A o \in vin[t] :
       /\ o[2] \in vout[o[1]]
       /\ o[1] \in EarlierTxs(b, t) \/ (o[1] \in txs /\ o \notin spent)
       /\ \A u \in EarlierTxs(b, t) : o \notin vin[u]
       \* A coinbase or coinstake is not spent before it is mature.
       /\ o[1] \in Generated =>
            o[1] \notin TxsOf({c \in Chain[b] :
                                 nHeight[b] < nHeight[c] + nCoinbaseMaturity})

(* DisconnectBlock(b) succeeds: the transactions are undone in reverse     *)
(* order, and each must find the index entries of its inputs.              *)
CanDisconnect(txs, b) ==
  \A t \in Txs(b) : \A o \in vin[t] :
     o[1] \in txs \ LaterTxs(b, t) /\ o[2] \in vout[o[1]]

(* Block b is valid after its ancestors: the node that has exactly those   *)
(* connected connects it.                                                  *)
ValidBlock(b) ==
  LET A == Chain[b] \ {b} IN CanConnect(TxsOf(A), SpendsOf(A), b)

(* Every block from the genesis block to b is valid after its ancestors.   *)
ValidChain(b) == \A c \in Chain[b] \ {Genesis} : ValidBlock(c)
=============================================================================
