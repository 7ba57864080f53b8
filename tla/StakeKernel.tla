---------------------------- MODULE StakeKernel ----------------------------
(***************************************************************************)
(* The stake modifier and the kernel check (kernel.cpp) in a node that     *)
(* receives the blocks of two branches in any order (AcceptBlock and       *)
(* AddToBlockIndex of main.cpp).  The modifier of a block is computed from *)
(* the block's own chain; the kernel of a proof-of-stake block is checked  *)
(* with the modifier that pnext leads to, on the node's best chain.        *)
(*                                                                         *)
(* Block numbers stand for hashes.  Every block is valid: its kernel met   *)
(* its target with the modifier its minter saw; that of an easy one does   *)
(* with any modifier, that of another with no other.  Chain trust is the   *)
(* height, and pnext runs along the best chain.                            *)
(***************************************************************************)
EXTENDS Integers, Sequences, FiniteSets, TLC, FiniteSetsExt, SequencesExt

CONSTANTS N,                 \* blocks 0 .. N, 0 is the genesis block
          Prev, Time,        \* the parent and the time of each block
          Stake,             \* the proof-of-stake blocks
          Entropies,         \* possible entropy bits of the blocks
          Kernels,           \* possible coins: the block each stake block's is from
          Easy,              \* possible sets of blocks with an easy target
          Rounds,            \* blocks selected for a modifier (64)
          Ratio,             \* MODIFIER_INTERVAL_RATIO
          nModifierInterval,
          nStakeMinAge

Block == 0 .. N

\* A block and its ancestors.
Chain[b \in Block] == IF b = 0 THEN {0} ELSE {b} \cup Chain[Prev[b]]

KernelConstants ==
  /\ Prev \in [Block \ {0} -> Block] /\ Time \in [Block -> Nat]
  /\ \A b \in Block \ {0} : Prev[b] < b
  /\ Stake \subseteq Block \ {0}
  /\ Entropies \subseteq [Block -> 0 .. 1]
  /\ Kernels \subseteq [Block -> Block]
  /\ Easy \subseteq SUBSET Stake
  /\ \A k \in Kernels, b \in Stake : k[b] \in Chain[Prev[b]]
  /\ {Rounds, Ratio, nModifierInterval} \subseteq Nat \ {0} /\ Rounds > 1
  /\ nStakeMinAge \in Nat

VARIABLES
  entropy,     \* GetStakeEntropyBit of each block
  kernel,      \* the block of the coin that each block stakes
  easy,        \* the blocks whose proof meets the target with any modifier
  index,       \* mapBlockIndex: nStakeModifier, fGenerated and hashProof
  pindexBest,
  own,         \* by definition: what the index holds for a block's own chain
  strays,      \* history: blocks accepted while what their proof rests on was not
               \* in the main chain
  refused      \* history: valid blocks that were refused, and the best block then

kernelVars == <<entropy, kernel, easy, index, pindexBest, own, strays, refused>>

----------------------------------------------------------------------------
(* Chains.                                                                 *)

Height(b) == Cardinality(Chain[b]) - 1

\* A block has a larger number than its ancestors.
Latest(blocks) == CHOOSE b \in blocks : \A c \in blocks : c <= b
Earliest(blocks) == CHOOSE b \in blocks : \A c \in blocks : b <= c

----------------------------------------------------------------------------
(* The modifier.                                                           *)

GetStakeModifierSelectionIntervalSection(nSection) ==
  (nModifierInterval * (Rounds - 1))
    \div ((Rounds - 1) + ((Rounds - 1) - nSection) * (Ratio - 1))

GetStakeModifierSelectionInterval ==
  MapThenSumSet(GetStakeModifierSelectionIntervalSection, 0 .. Rounds - 1)

Genesis == [nStakeModifier |-> 0, fGenerated |-> TRUE, hashProof |-> 0]

\* Stands for the hash of a kernel with a modifier.
HashProof(nStakeModifier) == nStakeModifier + 1

\* A stand-in for the hash of hashProof and the previous modifier; "divided by
\* 2**32 so that proof-of-stake block is always favored".
SelectionHash(idx, b, nStakeModifierPrev) ==
  ((5 * b + 3 * idx[b].hashProof + 7 * nStakeModifierPrev) % 13)
    + (IF b \in Stake THEN 0 ELSE 13)

\* GetLastStakeModifier: the block of the current modifier.
LastGenerated(idx, b) == Latest({a \in Chain[b] : idx[a].fGenerated})

\* The candidates of a modifier after block p: back to the first block before
\* the selection interval, sorted by time.
Candidates(p, nSelectionIntervalStart) ==
  LET old == {a \in Chain[p] : Time[a] < nSelectionIntervalStart}
  IN  SetToSortSeq({a \in Chain[p] : \A o \in old : o < a},
                   LAMBDA a, b : Time[a] < Time[b] \/ (Time[a] = Time[b] /\ a < b))

\* SelectBlockFromCandidates: the loop over the sorted candidates.
SelectBlockFromCandidates(idx, vSortedByTimestamp, selected, stop, prev) ==
  LET hash(b) == SelectionHash(idx, b, prev)
      step(s, b) ==
        IF s.done \/ (s.best # {} /\ Time[b] > stop) THEN [s EXCEPT !.done = TRUE]
        ELSE IF b \in selected \/ \E c \in s.best : hash(c) <= hash(b) THEN s
        ELSE [s EXCEPT !.best = {b}]
      end == FoldLeft(step, [best |-> {}, done |-> FALSE], vSortedByTimestamp)
  IN  CHOOSE b \in end.best : TRUE

\* ComputeNextStakeModifier, for a block whose parent is p.
ComputeNextStakeModifier(idx, p) ==
  LET last  == LastGenerated(idx, p)
      nStakeModifier == idx[last].nStakeModifier
      span(b) == Time[b] \div nModifierInterval
      start == span(p) * nModifierInterval - GetStakeModifierSelectionInterval
      cands == Candidates(p, start)
      size  == Min({Rounds, Len(cands)})
      round(s, i) ==
        LET stop == s.stop + GetStakeModifierSelectionIntervalSection(i - 1)
            b    == SelectBlockFromCandidates(idx, cands, s.selected, stop, nStakeModifier)
        IN  [stop |-> stop, selected |-> s.selected \cup {b},
             new |-> s.new + entropy[b] * 2 ^ (i - 1)]
      all == FoldLeft(round, [stop |-> start, selected |-> {}, new |-> 0],
                      [i \in 1 .. size |-> i])
  IN  IF span(last) >= span(p) THEN [nStakeModifier |-> nStakeModifier, fGenerated |-> FALSE]
      ELSE [nStakeModifier |-> all.new, fGenerated |-> TRUE]

----------------------------------------------------------------------------
(* The kernel.                                                             *)

\* GetKernelStakeModifier walks along pnext from the coin's block to the first
\* modifier a selection interval later; none if it reaches the best block.
KernelModifierBlocks(idx, best, from) ==
  LET later == {a \in Chain[best] : a > from /\ idx[a].fGenerated
                  /\ Time[a] >= Time[from] + GetStakeModifierSelectionInterval}
  IN  IF later = {} THEN {} ELSE {Earliest(later)}

\* The proofs that CheckProofOfStake finds for block b (none, or one): the
\* coin's transaction is in the main chain, and it is old enough.
ProofsOf(b) ==
  {HashProof(index[m].nStakeModifier) :
     m \in {x \in KernelModifierBlocks(index, pindexBest, kernel[b]) :
              /\ kernel[b] \in Chain[pindexBest]
              /\ Time[kernel[b]] + nStakeMinAge <= Time[b]}}

\* CheckProofOfStake: the proof meets the target, be it the minter's or not.
CheckProofOfStake(b) == \E h \in ProofsOf(b) : h = own[b].hashProof \/ b \in easy

----------------------------------------------------------------------------
(* The same by definition, for a block's own chain.                        *)

\* The block that a round selects: the smallest hash among the unselected up to
\* the end of the section, or the earliest one if there is none.
Pick(idx, unselected, stop, prev) ==
  LET before(a, b) == Time[a] < Time[b] \/ (Time[a] = Time[b] /\ a < b)
      early == {b \in unselected : Time[b] <= stop}
      hash(b) == SelectionHash(idx, b, prev)
  IN  IF early = {} THEN CHOOSE a \in unselected : \A b \in unselected \ {a} : before(a, b)
      ELSE CHOOSE a \in early : \A b \in early \ {a} :
             hash(a) < hash(b) \/ (hash(a) = hash(b) /\ before(a, b))

\* The modifier of a block whose parent is p.
ModifierAfter(idx, p) ==
  LET last   == LastGenerated(idx, p)
      prev   == idx[last].nStakeModifier
      span   == Time[p] \div nModifierInterval
      start  == span * nModifierInterval - GetStakeModifierSelectionInterval
      recent == {a \in Chain[p] : \A c \in Chain[p] : c >= a => Time[c] >= start}
      stop[i \in 0 .. Rounds] ==
        IF i = 0 THEN start ELSE stop[i - 1] + GetStakeModifierSelectionIntervalSection(i - 1)
      chosen[i \in 0 .. Rounds] ==
        IF i = 0 THEN <<>>
        ELSE LET c == chosen[i - 1] IN
             IF Len(c) = Cardinality(recent) THEN c
             ELSE Append(c, Pick(idx, recent \ Range(c), stop[i], prev))
      bits == chosen[Rounds]
  IN  IF Time[last] \div nModifierInterval >= span
      THEN [nStakeModifier |-> prev, fGenerated |-> FALSE]
      ELSE [nStakeModifier |-> MapThenSumSet(LAMBDA i : entropy[bits[i]] * 2 ^ (i - 1), DOMAIN bits),
            fGenerated |-> TRUE]

\* What is recorded for block b, if all its chain is checked on that chain; the
\* proof is NoProof if b cannot stake the coin of its kernel there.
NoProof == -1
OwnRecord(idx, b) ==
  LET mods == KernelModifierBlocks(idx, Prev[b], kernel[b])
      next == ModifierAfter(idx, Prev[b])
  IN  [nStakeModifier |-> next.nStakeModifier,
       fGenerated |-> next.fGenerated,
       hashProof |-> IF b \notin Stake THEN 0
                     ELSE IF mods = {} \/ Time[kernel[b]] + nStakeMinAge > Time[b] THEN NoProof
                     ELSE HashProof(idx[CHOOSE m \in mods : TRUE].nStakeModifier)]

OwnIndex ==
  FoldLeft(LAMBDA idx, b : idx @@ (b :> OwnRecord(idx, b)), 0 :> Genesis,
           [i \in 1 .. N |-> i])

----------------------------------------------------------------------------

KernelInit ==
  /\ entropy \in Entropies
  /\ kernel \in Kernels
  /\ easy \in Easy
  /\ own = OwnIndex
  /\ \A b \in Block : own[b].hashProof # NoProof
  /\ index = 0 :> Genesis
  /\ pindexBest = 0
  /\ strays = {}
  /\ refused = {}

\* Mutant: the modifier follows the best block.
AddToBlockIndexBest(b) ==
  LET next == ComputeNextStakeModifier(index, pindexBest)
  IN  [nStakeModifier |-> next.nStakeModifier, fGenerated |-> next.fGenerated,
       hashProof |-> IF b \in Stake THEN CHOOSE h \in ProofsOf(b) : TRUE ELSE 0]

\* AddToBlockIndex: what is recorded for a block that passed its checks.
AddToBlockIndex(b) ==
  LET next == ComputeNextStakeModifier(index, Prev[b])
  IN  [nStakeModifier |-> next.nStakeModifier, fGenerated |-> next.fGenerated,
       hashProof |-> IF b \in Stake THEN CHOOSE h \in ProofsOf(b) : TRUE ELSE 0]

\* The coin that the proof of b rests on, and the block with the modifier that
\* its minter used.
RestsOn(b) == {kernel[b]} \cup KernelModifierBlocks(own, Prev[b], kernel[b])

\* A block arrives whose parent is indexed, and AcceptBlock takes it.
AcceptBlock(b) ==
  /\ b \notin DOMAIN index /\ Prev[b] \in DOMAIN index
  /\ b \in Stake => CheckProofOfStake(b)
  /\ index' = index @@ (b :> AddToBlockIndex(b))
  /\ pindexBest' = IF Height(b) > Height(pindexBest) THEN b ELSE pindexBest
  /\ strays' = IF b \in Stake /\ ~(RestsOn(b) \subseteq Chain[pindexBest])
                THEN strays \cup {b} ELSE strays
  /\ UNCHANGED <<entropy, kernel, easy, own, refused>>

\* "do not error here as we expect this during initial block download"
RefuseBlock(b) ==
  /\ b \notin DOMAIN index /\ Prev[b] \in DOMAIN index
  /\ b \in Stake /\ ~CheckProofOfStake(b)
  /\ refused' = refused \cup {<<b, pindexBest>>}
  /\ UNCHANGED <<entropy, kernel, easy, index, pindexBest, own, strays>>

KernelNext == \E b \in Block \ {0} : AcceptBlock(b) \/ RefuseBlock(b)

KernelSpec == KernelInit /\ [][KernelNext]_kernelVars

----------------------------------------------------------------------------
(* Properties.                                                             *)

\* In whatever order the blocks of two branches arrive, what the node records
\* for a block (modifier, flag and proof) is what the rules give for the block's
\* own chain, and a valid block is refused only while the modifier of its kernel,
\* or its coin, is not in the node's main chain: unless it follows a block that
\* was accepted in that state, with a proof that was not its minter's.
KernelAgrees ==
  /\ \A b \in DOMAIN index : Chain[b] \cap strays = {} => index[b] = own[b]
  /\ \A r \in refused : Chain[Prev[r[1]]] \cap strays = {} => ~(RestsOn(r[1]) \subseteq Chain[r[2]])

\* The record does not depend on what the main chain was when the block came.  It
\* does: a block of a side branch whose proof meets the target with the main
\* chain's modifier too is accepted with that proof, and keeps it.
ProofsAgree == \A b \in DOMAIN index : index[b] = own[b]

\* A block whose coin and modifier are in the main chain is never refused.  It is,
\* after such a block.
MainAccepted == \A r \in refused : ~(RestsOn(r[1]) \subseteq Chain[r[2]])

=============================================================================
