-------------------------- MODULE WalletKeysProofs --------------------------
(***************************************************************************)
(* Proofs about the keys of the wallet.  The key pool never hands out a    *)
(* key twice, never fails to read a record, forgets none, and forgets      *)
(* every old key on encryption, for every pool size and number of keys,    *)
(* if no write fails unnoticed (KeyPool).  The wallet stays unlocked as    *)
(* long as walletpassphrase was asked for, for all timeouts and numbers of *)
(* timers, a change of the passphrase included (WalletLock).               *)
(***************************************************************************)
EXTENDS KeyPool, WalletLock, WellFoundedInduction, TLAPS

(* The records are of different keys of the wallet file, none given out;   *)
(* a key on its way into the pool is in no record; each record is in the   *)
(* set or in reserve; after encryption no record is of an old key.         *)
Pooled ==
  /\ \A i \in DOMAIN pool : pool[i] \in keys /\ pool[i] \notin used
  /\ \A i, j \in DOMAIN pool : pool[i] = pool[j] => i = j

Fresh ==
  /\ newKey # NoKey => newKey \in keys /\ newKey \notin used
  /\ newKey # NoKey => pc \in {"topup", "renew"}
  /\ newKey # NoKey => \A i \in DOMAIN pool : pool[i] # newKey
  /\ newKey # NoKey /\ fUseCrypto => newKey \notin oldKeys
  /\ keys \subseteq 1..nGenerated
  /\ used \subseteq keys
  /\ oldKeys \subseteq 1..nGenerated

Placed ==
  /\ NothingForgotten
  /\ pc = "flush" => DOMAIN pool \subseteq setKeyPool
  /\ nIndex \notin setKeyPool
  /\ pc = "hold" => vchPubKey = pool[nIndex]
  /\ \E b \in Nat : \A i \in setKeyPool \cup DOMAIN pool : i <= b

Flushed ==
  fUseCrypto /\ ~torn /\ pc # "flush" => \A i \in DOMAIN pool : pool[i] \notin oldKeys

PoolIInv == TypeOK /\ Pooled /\ Fresh /\ Placed /\ Flushed

-----------------------------------------------------------------------------
(* A set of naturals that is not empty has a least element: what           *)
(* setKeyPool.begin() returns is in the set.                               *)
LEMMA MinInSet ==
  ASSUME NEW S \in SUBSET Nat, S # {}
  PROVE  Min(S) \in S /\ \A y \in S : Min(S) <= y
<1>. DEFINE R == {ss \in Nat \X Nat : ss[1] < ss[2]}
<1>1. IsWellFoundedOn(R, Nat)
  BY NatLessThanWellFounded DEF OpToRel
<1>. HIDE DEF R
<1>2. PICK x \in S : \A y \in S : ~ (<<y, x>> \in R)
  BY <1>1, WFMin
<1>3. ASSUME NEW y \in S PROVE x <= y
  <2>1. x \in Nat /\ y \in Nat
    OBVIOUS
  <2>2. y < x => <<y, x>> \in R
    BY <2>1 DEF R
  <2>. QED
    BY <2>1, <2>2, <1>2
<1>. QED
  BY <1>3 DEF Min

(* A bounded set of naturals that is not empty has a greatest element, so  *)
(* the index TopUpKeyPool writes to is above every index of the set.       *)
LEMMA MaxInSet ==
  ASSUME NEW S \in SUBSET Nat, S # {}, NEW b \in Nat, \A i \in S : i <= b
  PROVE  Max(S) \in S /\ \A y \in S : Max(S) >= y
<1>. DEFINE U == {n \in Nat : \A i \in S : i <= n}
<1>1. U \in SUBSET Nat /\ b \in U
  OBVIOUS
<1>2. PICK m \in U : \A u \in U : m <= u
  BY <1>1, MinInSet
<1>3. m \in S
  <2>. SUFFICES ASSUME m \notin S PROVE FALSE
    OBVIOUS
  <2>1. \A i \in S : i < m
    BY <1>2
  <2>2. m - 1 \in Nat
    <3>1. PICK i \in S : i < m
      BY <2>1
    <3>2. i \in Nat /\ m \in Nat
      OBVIOUS
    <3>. QED
      BY <3>1, <3>2
  <2>3. m - 1 \in U
    BY <2>1, <2>2
  <2>. QED
    BY <2>3, <1>2
<1>. QED
  BY <1>2, <1>3 DEF Max

-----------------------------------------------------------------------------
(* A new wallet has an empty pool.                                         *)
LEMMA PoolIInvInit == Init => PoolIInv
<1>. SUFFICES ASSUME Init PROVE PoolIInv
  OBVIOUS
<1>. USE KeyPoolAssumption DEF Init
<1>1. pool \in [DOMAIN pool -> Key] /\ DOMAIN pool = {}
  BY DEF Key
<1>2. fUseCrypto \in BOOLEAN /\ locked \in BOOLEAN /\ torn \in BOOLEAN
  BY Zenon
<1>3. TypeOK
  BY <1>1, <1>2 DEF TypeOK, Key, NoKey, Purpose
<1>. QED
  BY <1>1, <1>3 DEF PoolIInv, Pooled, Fresh, Placed, Flushed, NothingForgotten,
     NoKey

(* Every step of an operation, Lock at any moment and a restart at any     *)
(* moment keep the invariant: one case per action.                         *)
LEMMA PoolIInvNext ==
  ASSUME Failures \subseteq Heeded
  PROVE  PoolIInv /\ [Next]_vars => PoolIInv'
<1>. SUFFICES ASSUME PoolIInv, [Next]_vars PROVE PoolIInv'
  OBVIOUS
<1>. USE KeyPoolAssumption
<1>f. "renew" \notin Failures /\ "flush" \notin Failures /\ "keep" \notin Failures
  BY DEF Heeded
<1>1. ASSUME NEW n \in RefillSizes, TopUpKeyPool(n) PROVE PoolIInv'
  <2>1. TypeOK'
    BY <1>1 DEF TopUpKeyPool, PoolIInv, TypeOK, Key, NoKey, Purpose, IsLocked,
       cryptVars, reserveVars, minerVars
  <2>2. Pooled'
    BY <1>1 DEF TopUpKeyPool, PoolIInv, Pooled, TypeOK, Fresh, NoKey, cryptVars,
       reserveVars, minerVars
  <2>3. Fresh'
    BY <1>1 DEF TopUpKeyPool, PoolIInv, Fresh, TypeOK, Pooled, Placed,
       NothingForgotten, NoKey, Key, cryptVars, reserveVars, minerVars
  <2>4. Placed'
    BY <1>1 DEF TopUpKeyPool, PoolIInv, Placed, NothingForgotten, TypeOK,
       cryptVars, reserveVars, minerVars
  <2>5. Flushed'
    BY <1>1 DEF TopUpKeyPool, PoolIInv, Flushed, TypeOK, Fresh, Placed,
       NothingForgotten, IsLocked, cryptVars, reserveVars, minerVars
  <2>. QED
    BY <2>1, <2>2, <2>3, <2>4, <2>5 DEF PoolIInv
<1>2. CASE GenerateNewKey
  <2>1. TypeOK'
    BY <1>2 DEF GenerateNewKey, PoolIInv, TypeOK, Key, NoKey, Purpose, IsLocked,
       cryptVars, reserveVars, minerVars
  <2>2. Pooled'
    BY <1>2 DEF GenerateNewKey, PoolIInv, Pooled, TypeOK, Fresh, NoKey, cryptVars,
       reserveVars, minerVars
  <2>3. Fresh'
    BY <1>2 DEF GenerateNewKey, PoolIInv, Fresh, TypeOK, Pooled, Placed,
       NothingForgotten, NoKey, Key, cryptVars, reserveVars, minerVars
  <2>4. Placed'
    BY <1>2 DEF GenerateNewKey, PoolIInv, Placed, NothingForgotten, TypeOK,
       cryptVars, reserveVars, minerVars
  <2>5. Flushed'
    BY <1>2 DEF GenerateNewKey, PoolIInv, Flushed, TypeOK, Fresh, Placed,
       NothingForgotten, IsLocked, cryptVars, reserveVars, minerVars
  <2>. QED
    BY <2>1, <2>2, <2>3, <2>4, <2>5 DEF PoolIInv
<1>3. CASE AddToPool
  <2>0. End \in Nat /\ \A i \in setKeyPool : i < End
    <3>1. PICK b \in Nat : \A i \in setKeyPool : i <= b
      BY DEF PoolIInv, Placed
    <3>2. setKeyPool \in SUBSET Nat
      BY DEF PoolIInv, TypeOK
    <3>3. CASE setKeyPool = {}
      BY <3>3 DEF End
    <3>4. CASE setKeyPool # {}
      <4>1. Max(setKeyPool) \in setKeyPool /\ \A y \in setKeyPool : Max(setKeyPool) >= y
        BY <3>1, <3>2, <3>4, MaxInSet
      <4>. QED
        <5>1. \A i \in setKeyPool : i \in Nat
          BY <3>2
        <5>2. End = Max(setKeyPool) + 1
          BY <3>4 DEF End
        <5>. HIDE DEF End
        <5>. QED
          BY <4>1, <5>1, <5>2
    <3>. QED
      BY <3>3, <3>4
  <2>9. End \notin DOMAIN pool
    BY <2>0, <1>3 DEF AddToPool, PoolIInv, TypeOK, Placed, NothingForgotten
  <2>a. /\ pc \in {"topup", "renew"} /\ newKey # NoKey /\ newKey' = NoKey
        /\ UNCHANGED <<keys, nGenerated, what, nTargetSize, used, torn,
                       cryptVars, reserveVars, minerVars>>
    BY <1>3 DEF AddToPool
  <2>b. \/ /\ WritePool(End, newKey) /\ pc' = pc
           /\ setKeyPool' = setKeyPool \cup {End}
        \/ pc' = "idle" /\ UNCHANGED <<pool, setKeyPool>>
    BY <1>3, <1>f DEF AddToPool
  <2>c. CASE pc' = "idle" /\ UNCHANGED <<pool, setKeyPool>>
    BY <2>a, <2>c DEF PoolIInv, TypeOK, Pooled, Fresh, Placed, NothingForgotten,
       Flushed, NoKey, cryptVars, reserveVars, minerVars
  <2>d. CASE WritePool(End, newKey) /\ pc' = pc /\ setKeyPool' = setKeyPool \cup {End}
    <3>1. TypeOK'
      BY <2>0, <2>9, <2>a, <2>d DEF PoolIInv, TypeOK, Key, NoKey, Purpose,
         WritePool, cryptVars, reserveVars, minerVars
    <3>2. Pooled'
      BY <2>0, <2>9, <2>a, <2>d DEF PoolIInv, Pooled, TypeOK, Fresh, NoKey,
         WritePool, cryptVars, reserveVars, minerVars
    <3>3. Fresh'
      BY <2>a DEF PoolIInv, Fresh, NoKey, cryptVars
    <3>4. Placed'
      BY <2>0, <2>9, <2>a, <2>d DEF PoolIInv, Placed, NothingForgotten, TypeOK,
         WritePool, cryptVars, reserveVars, minerVars
    <3>5. Flushed'
      BY <2>0, <2>9, <2>a, <2>d DEF PoolIInv, Flushed, TypeOK, Fresh, WritePool,
         cryptVars, reserveVars, minerVars
    <3>. QED
      BY <3>1, <3>2, <3>3, <3>4, <3>5 DEF PoolIInv
  <2>. QED
    BY <2>b, <2>c, <2>d
<1>4. CASE ToppedUp
  <2>1. TypeOK'
    BY <1>4 DEF ToppedUp, PoolIInv, TypeOK, Key, NoKey, Purpose, IsLocked,
       cryptVars, reserveVars, minerVars
  <2>2. Pooled'
    BY <1>4 DEF ToppedUp, PoolIInv, Pooled, TypeOK, Fresh, NoKey, cryptVars,
       reserveVars, minerVars
  <2>3. Fresh'
    BY <1>4 DEF ToppedUp, PoolIInv, Fresh, TypeOK, Pooled, Placed,
       NothingForgotten, NoKey, Key, cryptVars, reserveVars, minerVars
  <2>4. Placed'
    BY <1>4 DEF ToppedUp, PoolIInv, Placed, NothingForgotten, TypeOK, cryptVars,
       reserveVars, minerVars
  <2>5. Flushed'
    BY <1>4 DEF ToppedUp, PoolIInv, Flushed, TypeOK, Fresh, Placed,
       NothingForgotten, IsLocked, cryptVars, reserveVars, minerVars
  <2>. QED
    BY <2>1, <2>2, <2>3, <2>4, <2>5 DEF PoolIInv
<1>5. ASSUME NEW p \in Purpose, Reserve(p) PROVE PoolIInv'
  <2>1. TypeOK'
    BY <1>5 DEF Reserve, PoolIInv, TypeOK, Key, NoKey, Purpose, IsLocked,
       cryptVars, reserveVars, minerVars
  <2>2. Pooled'
    BY <1>5 DEF Reserve, PoolIInv, Pooled, TypeOK, Fresh, NoKey, cryptVars,
       reserveVars, minerVars
  <2>3. Fresh'
    BY <1>5 DEF Reserve, PoolIInv, Fresh, TypeOK, Pooled, Placed,
       NothingForgotten, NoKey, Key, cryptVars, reserveVars, minerVars
  <2>4. Placed'
    BY <1>5 DEF Reserve, PoolIInv, Placed, NothingForgotten, TypeOK, cryptVars,
       reserveVars, minerVars
  <2>5. Flushed'
    BY <1>5 DEF Reserve, PoolIInv, Flushed, TypeOK, Fresh, Placed,
       NothingForgotten, IsLocked, cryptVars, reserveVars, minerVars
  <2>. QED
    BY <2>1, <2>2, <2>3, <2>4, <2>5 DEF PoolIInv
<1>6. CASE ReserveKeyFromKeyPool
  <2>0. setKeyPool # {} => Min(setKeyPool) \in setKeyPool
    BY MinInSet DEF PoolIInv, TypeOK
  <2>1. TypeOK'
    BY <2>0, <1>6 DEF ReserveKeyFromKeyPool, PoolIInv, TypeOK, Key, NoKey,
       Purpose, IsLocked, Readable, cryptVars, reserveVars, minerVars
  <2>2. Pooled'
    BY <2>0, <1>6 DEF ReserveKeyFromKeyPool, PoolIInv, Pooled, TypeOK, Fresh,
       NoKey, Readable, cryptVars, reserveVars, minerVars
  <2>3. Fresh'
    BY <2>0, <1>6 DEF ReserveKeyFromKeyPool, PoolIInv, Fresh, TypeOK, Pooled,
       Placed, NothingForgotten, NoKey, Key, Readable, cryptVars, reserveVars,
       minerVars
  <2>4. Placed'
    <3>1. setKeyPool' \cup DOMAIN pool' \subseteq setKeyPool \cup DOMAIN pool
      BY <1>6 DEF ReserveKeyFromKeyPool
    <3>2. \E b \in Nat : \A i \in setKeyPool' \cup DOMAIN pool' : i <= b
      BY <3>1 DEF PoolIInv, Placed
    <3>3. \A i \in setKeyPool : Readable(i)
      BY <1>6 DEF ReserveKeyFromKeyPool, PoolIInv, Placed, NothingForgotten,
         Pooled, Readable
    <3>. QED
      BY <3>2, <3>3, <2>0, <1>6 DEF ReserveKeyFromKeyPool, PoolIInv, Placed,
         NothingForgotten, TypeOK, Readable, cryptVars, reserveVars,
         minerVars
  <2>5. Flushed'
    BY <2>0, <1>6 DEF ReserveKeyFromKeyPool, PoolIInv, Flushed, TypeOK, Fresh,
       Placed, NothingForgotten, IsLocked, Readable, cryptVars, reserveVars,
       minerVars
  <2>. QED
    BY <2>1, <2>2, <2>3, <2>4, <2>5 DEF PoolIInv
<1>7. CASE KeepKey
  <2>0. pool' = Restrict(pool, DOMAIN pool \ {nIndex})
    BY <1>7, <1>f DEF KeepKey, ErasePool
  <2>1. TypeOK'
    BY <2>0, <1>7 DEF KeepKey, PoolIInv, Placed, NothingForgotten, TypeOK, Key, NoKey,
       Purpose, IsLocked, Restrict, cryptVars, reserveVars,
       minerVars
  <2>2. Pooled'
    BY <2>0, <1>7 DEF KeepKey, PoolIInv, Placed, NothingForgotten, Pooled, TypeOK,
       Fresh, NoKey, Restrict, cryptVars, reserveVars, minerVars
  <2>3. Fresh'
    BY <2>0, <1>7 DEF KeepKey, PoolIInv, Fresh, TypeOK, Pooled, Placed,
       NothingForgotten, NoKey, Key, Restrict, cryptVars,
       reserveVars, minerVars
  <2>4. Placed'
    BY <2>0, <1>7 DEF KeepKey, PoolIInv, Placed, NothingForgotten, TypeOK, Restrict, cryptVars, reserveVars, minerVars
  <2>5. Flushed'
    BY <2>0, <1>7 DEF KeepKey, PoolIInv, Flushed, TypeOK, Fresh, Placed,
       NothingForgotten, IsLocked, Restrict, cryptVars,
       reserveVars, minerVars
  <2>. QED
    BY <2>1, <2>2, <2>3, <2>4, <2>5 DEF PoolIInv
<1>8. CASE ReturnKey
  <2>1. TypeOK'
    BY <1>8 DEF ReturnKey, PoolIInv, TypeOK, Key, NoKey, Purpose, IsLocked,
       cryptVars, reserveVars, minerVars
  <2>2. Pooled'
    BY <1>8 DEF ReturnKey, PoolIInv, Pooled, TypeOK, Fresh, NoKey, cryptVars,
       reserveVars, minerVars
  <2>3. Fresh'
    BY <1>8 DEF ReturnKey, PoolIInv, Fresh, TypeOK, Pooled, Placed,
       NothingForgotten, NoKey, Key, cryptVars, reserveVars, minerVars
  <2>4. Placed'
    BY <1>8 DEF ReturnKey, PoolIInv, Placed, NothingForgotten, TypeOK, cryptVars,
       reserveVars, minerVars
  <2>5. Flushed'
    BY <1>8 DEF ReturnKey, PoolIInv, Flushed, TypeOK, Fresh, Placed,
       NothingForgotten, IsLocked, cryptVars, reserveVars, minerVars
  <2>. QED
    BY <2>1, <2>2, <2>3, <2>4, <2>5 DEF PoolIInv
<1>9. CASE CheckWork
  <2>1. TypeOK'
    BY <1>9 DEF CheckWork, PoolIInv, TypeOK, Key, NoKey, Purpose, IsLocked,
       cryptVars, reserveVars, minerVars
  <2>2. Pooled'
    BY <1>9 DEF CheckWork, PoolIInv, Pooled, TypeOK, Fresh, NoKey, cryptVars,
       reserveVars, minerVars
  <2>3. Fresh'
    BY <1>9 DEF CheckWork, PoolIInv, Fresh, TypeOK, Pooled, Placed,
       NothingForgotten, NoKey, Key, cryptVars, reserveVars, minerVars
  <2>4. Placed'
    BY <1>9 DEF CheckWork, PoolIInv, Placed, NothingForgotten, TypeOK, cryptVars,
       reserveVars, minerVars
  <2>5. Flushed'
    BY <1>9 DEF CheckWork, PoolIInv, Flushed, TypeOK, Fresh, Placed,
       NothingForgotten, IsLocked, cryptVars, reserveVars, minerVars
  <2>. QED
    BY <2>1, <2>2, <2>3, <2>4, <2>5 DEF PoolIInv
<1>10. CASE EncryptWallet
  <2>1. TypeOK'
    BY <1>10 DEF EncryptWallet, PoolIInv, TypeOK, Key, NoKey, Purpose, IsLocked,
       cryptVars, reserveVars, minerVars
  <2>2. Pooled'
    BY <1>10 DEF EncryptWallet, PoolIInv, Pooled, TypeOK, Fresh, NoKey, cryptVars,
       reserveVars, minerVars
  <2>3. Fresh'
    BY <1>10 DEF EncryptWallet, PoolIInv, Fresh, TypeOK, Pooled, Placed,
       NothingForgotten, NoKey, Key, cryptVars, reserveVars, minerVars
  <2>4. Placed'
    BY <1>10 DEF EncryptWallet, PoolIInv, Placed, NothingForgotten, TypeOK,
       cryptVars, reserveVars, minerVars
  <2>5. Flushed'
    BY <1>10 DEF EncryptWallet, PoolIInv, Flushed, TypeOK, Fresh, Placed,
       NothingForgotten, IsLocked, cryptVars, reserveVars, minerVars
  <2>. QED
    BY <2>1, <2>2, <2>3, <2>4, <2>5 DEF PoolIInv
<1>11. CASE EraseOldKey
  <2>z. PICK i \in setKeyPool \cap DOMAIN pool : pool' = Restrict(pool, DOMAIN pool \ {i})
    BY <1>11, <1>f DEF EraseOldKey, ErasePool
  <2>0. i \in setKeyPool /\ i \in DOMAIN pool /\ pool' = Restrict(pool, DOMAIN pool \ {i})
    BY <2>z
  <2>1. TypeOK'
    BY <2>0, <1>11 DEF EraseOldKey, PoolIInv, TypeOK, Key, NoKey, Purpose,
       IsLocked, Restrict, cryptVars, reserveVars, minerVars
  <2>2. Pooled'
    BY <2>0, <1>11 DEF EraseOldKey, PoolIInv, Pooled, TypeOK, Fresh, NoKey,
       Restrict, cryptVars, reserveVars, minerVars
  <2>3. Fresh'
    BY <2>0, <1>11 DEF EraseOldKey, PoolIInv, Fresh, TypeOK, Pooled, Placed,
       NothingForgotten, NoKey, Key, Restrict, cryptVars,
       reserveVars, minerVars
  <2>4. Placed'
    BY <2>0, <1>11 DEF EraseOldKey, PoolIInv, Placed, NothingForgotten, TypeOK,
       Restrict, cryptVars, reserveVars, minerVars
  <2>5. Flushed'
    BY <2>0, <1>11 DEF EraseOldKey, PoolIInv, Flushed, TypeOK, Fresh, Placed,
       NothingForgotten, IsLocked, Restrict, cryptVars,
       reserveVars, minerVars
  <2>. QED
    BY <2>1, <2>2, <2>3, <2>4, <2>5 DEF PoolIInv
<1>12. CASE ClearPool
  <2>0. setKeyPool \cap DOMAIN pool = {}
    BY <1>12, <1>f DEF ClearPool
  <2>1. TypeOK'
    BY <2>0, <1>12 DEF ClearPool, PoolIInv, TypeOK, Key, NoKey, Purpose, IsLocked,
       cryptVars, reserveVars, minerVars
  <2>2. Pooled'
    BY <2>0, <1>12 DEF ClearPool, PoolIInv, Pooled, TypeOK, Fresh, NoKey, cryptVars,
       reserveVars, minerVars
  <2>3. Fresh'
    BY <2>0, <1>12 DEF ClearPool, PoolIInv, Fresh, TypeOK, Pooled, Placed,
       NothingForgotten, NoKey, Key, cryptVars, reserveVars, minerVars
  <2>4. Placed'
    BY <2>0, <1>12 DEF ClearPool, PoolIInv, Placed, NothingForgotten, TypeOK, cryptVars,
       reserveVars, minerVars
  <2>5. Flushed'
    BY <2>0, <1>12 DEF ClearPool, PoolIInv, Flushed, TypeOK, Fresh, Placed,
       NothingForgotten, IsLocked, cryptVars, reserveVars, minerVars
  <2>. QED
    BY <2>1, <2>2, <2>3, <2>4, <2>5 DEF PoolIInv
<1>13. CASE Renewed
  <2>1. TypeOK'
    BY <1>13 DEF Renewed, PoolIInv, TypeOK, Key, NoKey, Purpose, IsLocked,
       cryptVars, reserveVars, minerVars
  <2>2. Pooled'
    BY <1>13 DEF Renewed, PoolIInv, Pooled, TypeOK, Fresh, NoKey, cryptVars,
       reserveVars, minerVars
  <2>3. Fresh'
    BY <1>13 DEF Renewed, PoolIInv, Fresh, TypeOK, Pooled, Placed,
       NothingForgotten, NoKey, Key, cryptVars, reserveVars, minerVars
  <2>4. Placed'
    BY <1>13 DEF Renewed, PoolIInv, Placed, NothingForgotten, TypeOK, cryptVars,
       reserveVars, minerVars
  <2>5. Flushed'
    BY <1>13 DEF Renewed, PoolIInv, Flushed, TypeOK, Fresh, Placed,
       NothingForgotten, IsLocked, cryptVars, reserveVars, minerVars
  <2>. QED
    BY <2>1, <2>2, <2>3, <2>4, <2>5 DEF PoolIInv
<1>14. CASE Lock
  <2>1. TypeOK'
    BY <1>14 DEF Lock, PoolIInv, TypeOK, Key, NoKey, Purpose, IsLocked, cryptVars,
       reserveVars, minerVars
  <2>2. Pooled'
    BY <1>14 DEF Lock, PoolIInv, Pooled, TypeOK, Fresh, NoKey, cryptVars,
       reserveVars, minerVars
  <2>3. Fresh'
    BY <1>14 DEF Lock, PoolIInv, Fresh, TypeOK, Pooled, Placed, NothingForgotten,
       NoKey, Key, cryptVars, reserveVars, minerVars
  <2>4. Placed'
    BY <1>14 DEF Lock, PoolIInv, Placed, NothingForgotten, TypeOK, cryptVars,
       reserveVars, minerVars
  <2>5. Flushed'
    BY <1>14 DEF Lock, PoolIInv, Flushed, TypeOK, Fresh, Placed, NothingForgotten,
       IsLocked, cryptVars, reserveVars, minerVars
  <2>. QED
    BY <2>1, <2>2, <2>3, <2>4, <2>5 DEF PoolIInv
<1>15. CASE Unlock
  <2>1. TypeOK'
    BY <1>15 DEF Unlock, PoolIInv, TypeOK, Key, NoKey, Purpose, IsLocked,
       cryptVars, reserveVars, minerVars
  <2>2. Pooled'
    BY <1>15 DEF Unlock, PoolIInv, Pooled, TypeOK, Fresh, NoKey, cryptVars,
       reserveVars, minerVars
  <2>3. Fresh'
    BY <1>15 DEF Unlock, PoolIInv, Fresh, TypeOK, Pooled, Placed,
       NothingForgotten, NoKey, Key, cryptVars, reserveVars, minerVars
  <2>4. Placed'
    BY <1>15 DEF Unlock, PoolIInv, Placed, NothingForgotten, TypeOK, cryptVars,
       reserveVars, minerVars
  <2>5. Flushed'
    BY <1>15 DEF Unlock, PoolIInv, Flushed, TypeOK, Fresh, Placed,
       NothingForgotten, IsLocked, cryptVars, reserveVars, minerVars
  <2>. QED
    BY <2>1, <2>2, <2>3, <2>4, <2>5 DEF PoolIInv
<1>16. CASE Restart
  <2>1. TypeOK'
    BY <1>16 DEF Restart, PoolIInv, TypeOK, Key, NoKey, Purpose, IsLocked,
       cryptVars, reserveVars, minerVars
  <2>2. Pooled'
    BY <1>16 DEF Restart, PoolIInv, Pooled, TypeOK, Fresh, NoKey, cryptVars,
       reserveVars, minerVars
  <2>3. Fresh'
    BY <1>16 DEF Restart, PoolIInv, Fresh, TypeOK, Pooled, Placed,
       NothingForgotten, NoKey, Key, cryptVars, reserveVars, minerVars
  <2>4. Placed'
    BY <1>16 DEF Restart, PoolIInv, Placed, NothingForgotten, TypeOK, cryptVars,
       reserveVars, minerVars
  <2>5. Flushed'
    BY <1>16 DEF Restart, PoolIInv, Flushed, TypeOK, Fresh, Placed,
       NothingForgotten, IsLocked, cryptVars, reserveVars, minerVars
  <2>. QED
    BY <2>1, <2>2, <2>3, <2>4, <2>5 DEF PoolIInv
<1>17. CASE UNCHANGED vars
  BY <1>17 DEF vars, PoolIInv, TypeOK, Pooled, Fresh, Placed, NothingForgotten,
     Flushed, cryptVars, reserveVars, minerVars
<1>. QED
  BY <1>1, <1>2, <1>3, <1>4, <1>5, <1>6, <1>7, <1>8, <1>9, <1>10, <1>11,
     <1>12, <1>13, <1>14, <1>15, <1>16, <1>17 DEF Next

-----------------------------------------------------------------------------
(* The theorems are about writes whose failure the code notices: a key or  *)
(* a record that cannot be written.  With an erasure that fails unnoticed  *)
(* they do not hold.                                                       *)

(* The invariant always holds.                                             *)
LEMMA PoolIInvAlways ==
  ASSUME Failures \subseteq Heeded
  PROVE  Spec => []PoolIInv
  BY PoolIInvInit, PoolIInvNext, PTL DEF Spec

(* Type correctness of the pool's state.                                   *)
THEOREM TypeTheorem ==
  ASSUME Failures \subseteq Heeded
  PROVE  Spec => []TypeOK
<1>1. PoolIInv => TypeOK
  BY DEF PoolIInv
<1>. QED
  BY <1>1, PoolIInvAlways, PTL

(* ReserveKeyFromKeyPool finds a record of a known key for every index.    *)
THEOREM ReserveTheorem ==
  ASSUME Failures \subseteq Heeded
  PROVE  Spec => []ReserveNeverThrows
<1>1. PoolIInv => ReserveNeverThrows
  BY DEF PoolIInv, TypeOK, Pooled, Placed, NothingForgotten, ReserveNeverThrows,
     Readable
<1>. QED
  BY <1>1, PoolIInvAlways, PTL

(* No key that KeepKey gave out comes out of the pool again.               *)
THEOREM GivenOutOnceTheorem ==
  ASSUME Failures \subseteq Heeded
  PROVE  Spec => []GivenOutOnce
<1>1. PoolIInv => GivenOutOnce
  BY DEF PoolIInv, TypeOK, Pooled, Placed, NothingForgotten, GivenOutOnce
<1>. QED
  BY <1>1, PoolIInvAlways, PTL

(* Every record of the pool is in the set or in reserve.                   *)
THEOREM NothingForgottenTheorem ==
  ASSUME Failures \subseteq Heeded
  PROVE  Spec => []NothingForgotten
<1>1. PoolIInv => NothingForgotten
  BY DEF PoolIInv, Placed
<1>. QED
  BY <1>1, PoolIInvAlways, PTL

(* Memory and disk describe one pool of readable keys.                     *)
THEOREM PoolReadableTheorem ==
  ASSUME Failures \subseteq Heeded
  PROVE  Spec => []PoolReadable
  BY TypeTheorem, ReserveTheorem, NothingForgottenTheorem, PTL DEF PoolReadable

(* After EncryptWallet no key that was stored unencrypted comes out of the *)
(* pool, unless the process stopped while the old records were erased.     *)
THEOREM OldKeysFlushedTheorem ==
  ASSUME Failures \subseteq Heeded
  PROVE  Spec => []OldKeysFlushed
<1>1. PoolIInv => OldKeysFlushed
  BY DEF PoolIInv, TypeOK, Placed, NothingForgotten, Flushed, OldKeysFlushed
<1>. QED
  BY <1>1, PoolIInvAlways, PTL

-----------------------------------------------------------------------------
(* The timer. *)

(* A thread that was created and has not yet read the shared time.         *)
Pending(t) == thread[t].at \in {"start", "enter"}

(* The wallet is unlocked, or a change of its passphrase is going to       *)
(* unlock it, and no change is going to lock it.                           *)
Stays ==
  \/ ~fLocked /\ ~(rpc.at = "changed" /\ rpc.fWasLocked)
  \/ Unlocking

(* It is a timer that has to end that.                                     *)
UntilTimer == asked.by = "rpc" /\ ~asked.crossed /\ Stays

(* A timer is on, or on its way.                                           *)
Coming == rpc.at = "spawn" \/ nWalletUnlockTime # 0 \/ \E t \in Threads : Pending(t)

(* Every deadline that is still to be computed lies on the clock, and none *)
(* is 0, which stands for no deadline.                                     *)
Deadlines ==
  /\ now >= 1
  /\ rpc.at = "spawn" => now + rpc.arg <= MaxTime
  /\ \A t \in Threads : /\ thread[t].at = "start" => now + thread[t].arg <= MaxTime
                        /\ thread[t].at = "enter" => thread[t].arg >= 1

(* Some thread wakes no later than the shared time; a wallet that is left  *)
(* to a timer has one; a change finds the wallet as it has left it.        *)
Watched ==
  /\ nWalletUnlockTime # 0 =>
       \E t \in Threads : thread[t].at = "sleep" /\ thread[t].arg <= nWalletUnlockTime
  /\ rpc.at = "change" => fLocked
  /\ UntilTimer => Coming

(* If no timer was alive when walletpassphrase was called, the one         *)
(* deadline under way is the one asked for, wherever it is.                *)
Obeyed ==
  asked.by = "rpc" /\ asked.alone =>
    /\ rpc.at = "spawn" => /\ asked.until = now + rpc.arg /\ nWalletUnlockTime = 0
                           /\ \A t \in Threads : ~Pending(t)
    /\ nWalletUnlockTime # 0 => /\ asked.until = nWalletUnlockTime
                                /\ \A t \in Threads : ~Pending(t)
    /\ \A t \in Threads : /\ thread[t].at = "start" => asked.until = now + thread[t].arg
                          /\ thread[t].at = "enter" => asked.until = thread[t].arg
    /\ \A t, u \in Threads : Pending(t) /\ Pending(u) => t = u

(* ... and it has not passed.                                              *)
InTime == UntilTimer /\ asked.alone => now <= asked.until

LockIInv == LockTypeOK /\ Deadlines /\ Watched /\ Obeyed /\ InTime

(* The timer invariant holds of a wallet that was just started.            *)
LEMMA LockIInvInit == LockInit => LockIInv
  <1> SUFFICES ASSUME LockInit PROVE LockIInv
    OBVIOUS
  <1> USE LockAssumption
  <1>1. LockTypeOK
    <2>1. 0 \in TimeRange /\ 1 \in TimeRange
      BY DEF TimeRange
    <2>2. Idle \in [at : {"idle", "start", "enter", "sleep"}, arg : TimeRange]
      BY <2>1 DEF Idle
    <2>3. thread \in [Threads -> [at : {"idle", "start", "enter", "sleep"}, arg : TimeRange]]
      BY <2>2 DEF LockInit, Threads
    <2>4. rpc \in [at : {"idle", "spawn", "change", "changed"}, arg : TimeRange,
                  fWasLocked : BOOLEAN]
      BY <2>1 DEF LockInit, NoCommand
    <2>5. asked \in [by : {"nobody", "rpc", "gui"}, until : TimeRange,
                    alone : BOOLEAN, crossed : BOOLEAN]
      BY <2>1 DEF LockInit
    <2> QED BY <2>1, <2>3, <2>4, <2>5 DEF LockInit, LockTypeOK
  <1>2. \A t \in Threads : thread[t].at = "idle"
    BY DEF LockInit, Threads, Idle
  <1>3. Deadlines
    BY <1>2 DEF LockInit, Deadlines, NoCommand
  <1>4. nWalletUnlockTime = 0 /\ rpc.at = "idle" /\ asked.by = "nobody"
    BY DEF LockInit, NoCommand
  <1>5. Watched /\ Obeyed /\ InTime
    BY <1>4 DEF Watched, Obeyed, InTime, UntilTimer
  <1> QED BY <1>1, <1>3, <1>5 DEF LockIInv

-----------------------------------------------------------------------------
(* The commands. *)

(* walletpassphrase: the deadline is on its way to a timer.                *)
LEMMA PassphraseKeeps ==
  ASSUME LockIInv, NEW T \in setting.Timeouts, walletpassphrase(T)
  PROVE  LockIInv'
  <1> USE LockAssumption DEF TimeRange
  <1>0. LockTypeOK /\ Deadlines /\ Watched
    BY DEF LockIInv
  <1>1. T \in Nat /\ now \in Nat /\ now >= 1 /\ now + T <= MaxTime
    BY <1>0 DEF LockTypeOK, Deadlines, walletpassphrase
  <1>2. /\ rpc.at = "idle" /\ fLocked' = FALSE
        /\ rpc'.at = "spawn" /\ rpc'.arg = T /\ rpc'.fWasLocked = FALSE
        /\ asked'.by = "rpc" /\ asked'.until = now + T /\ asked'.alone = NoTimer
        /\ UNCHANGED <<setting, now, fWalletUnlockStakingOnly, nWalletUnlockTime, thread, gui>>
    BY DEF walletpassphrase, Command
  <1>3. rpc' \in [at : {"idle", "spawn", "change", "changed"}, arg : 0 .. MaxTime,
                 fWasLocked : BOOLEAN]
    BY <1>1 DEF walletpassphrase
  <1>4. NoTimer \in BOOLEAN
    BY Zenon DEF NoTimer
  <1>5. asked' \in [by : {"nobody", "rpc", "gui"}, until : 0 .. MaxTime,
                   alone : BOOLEAN, crossed : BOOLEAN]
    BY <1>1, <1>4 DEF walletpassphrase
  <1>6. LockTypeOK'
    BY <1>0, <1>2, <1>3, <1>5 DEF LockTypeOK, Threads
  <1>7. Deadlines'
    BY <1>0, <1>1, <1>2 DEF Deadlines, Threads
  <1>8. Watched'
    BY <1>0, <1>2 DEF Watched, Coming, Threads
  <1>9. Obeyed'
    BY <1>2 DEF Obeyed, NoTimer, Pending, Threads
  <1>10. InTime'
    BY <1>1, <1>2 DEF InTime
  <1> QED BY <1>6, <1>7, <1>8, <1>9, <1>10 DEF LockIInv

(* The thread is created: it has the deadline now.                         *)
LEMMA StartTimerKeeps ==
  ASSUME LockIInv, NEW s \in BOOLEAN, StartTimer(s)
  PROVE  LockIInv'
  <1> USE LockAssumption DEF TimeRange, Threads
  <1>0. LockTypeOK /\ Deadlines /\ Watched /\ Obeyed /\ InTime
    BY DEF LockIInv
  <1>1. PICK t \in Threads :
          /\ thread[t].at = "idle"
          /\ thread' = [thread EXCEPT ![t] = [at |-> "start", arg |-> rpc.arg]]
    BY DEF StartTimer
  <1>2. /\ rpc.at = "spawn" /\ rpc' = NoCommand /\ fWalletUnlockStakingOnly' = s
        /\ UNCHANGED <<setting, now, fLocked, nWalletUnlockTime, gui, asked>>
    BY DEF StartTimer
  <1>3. rpc'.at = "idle" /\ 0 \in 0 .. MaxTime
    BY <1>2 DEF NoCommand
  <1>4. /\ thread'[t].at = "start" /\ thread'[t].arg = rpc.arg
        /\ \A u \in Threads : u # t => thread'[u] = thread[u]
    BY <1>0, <1>1 DEF LockTypeOK
  <1>5. LockTypeOK'
    BY <1>0, <1>1, <1>2, <1>3 DEF LockTypeOK, NoCommand
  <1>6. Deadlines'
    BY <1>0, <1>2, <1>3, <1>4 DEF Deadlines
  <1>7. Watched'
    <2>1. \A u \in Threads : thread[u].at = "sleep" => thread'[u] = thread[u]
      BY <1>1, <1>4
    <2> QED BY <1>0, <1>2, <1>3, <1>4, <2>1 DEF Watched, Coming, Pending
  <1>8. Obeyed'
    BY <1>0, <1>2, <1>3, <1>4 DEF Obeyed, Pending
  <1>9. InTime'
    BY <1>0, <1>2, <1>3 DEF InTime, UntilTimer, Stays, Unlocking
  <1> QED BY <1>5, <1>6, <1>7, <1>8, <1>9 DEF LockIInv

(* walletlock, and every step of a change of the passphrase: what is left  *)
(* to a timer after it was so before.                                      *)
LEMMA LockingKeeps ==
  ASSUME LockIInv,
         walletlock \/ ChangeWalletPassphrase \/ EndChange
           \/ \E right \in BOOLEAN : TryOldPassphrase(right)
  PROVE  LockIInv'
  <1> USE LockAssumption DEF TimeRange, Threads
  <1>0. LockTypeOK /\ Deadlines /\ Watched /\ Obeyed /\ InTime
    BY DEF LockIInv
  <1>1. /\ rpc.at # "spawn" /\ rpc'.at # "spawn"
        /\ UNCHANGED <<setting, now, fWalletUnlockStakingOnly, thread, gui, asked>>
    BY <1>0 DEF walletlock, ChangeWalletPassphrase, EndChange, TryOldPassphrase, Command,
       NoCommand, LockTypeOK
  <1>2. /\ rpc' \in [at : {"idle", "spawn", "change", "changed"}, arg : 0 .. MaxTime,
                    fWasLocked : BOOLEAN]
        /\ fLocked' \in BOOLEAN
        /\ rpc'.at = "change" => fLocked'
        /\ Stays' => Stays /\ nWalletUnlockTime' = nWalletUnlockTime
        /\ nWalletUnlockTime' \in {0, nWalletUnlockTime}
    <2>1. CASE walletlock
      <3>1. rpc.at = "idle" /\ fLocked' = TRUE /\ nWalletUnlockTime' = 0 /\ rpc' = rpc
        BY <2>1 DEF walletlock, Command
      <3> QED BY <1>0, <3>1 DEF LockTypeOK, Stays, Unlocking
    <2>2. CASE ChangeWalletPassphrase
      <3>1. /\ rpc.at = "idle" /\ fLocked' = TRUE /\ nWalletUnlockTime' = nWalletUnlockTime
            /\ rpc' = [at |-> "change", arg |-> 0, fWasLocked |-> fLocked]
        BY <2>2 DEF ChangeWalletPassphrase, Command
      <3>2. rpc'.at = "change" /\ rpc'.fWasLocked = fLocked
        BY <3>1
      <3>3. rpc' \in [at : {"idle", "spawn", "change", "changed"}, arg : 0 .. MaxTime,
                     fWasLocked : BOOLEAN]
        BY <1>0, <3>1 DEF LockTypeOK
      <3>4. Stays' => Stays
        BY <3>1, <3>2 DEF Stays, Unlocking
      <3> QED BY <3>1, <3>3, <3>4
    <2>3. CASE EndChange
      <3>1. rpc.at = "changed" /\ rpc' = NoCommand /\ nWalletUnlockTime' = nWalletUnlockTime
        BY <2>3 DEF EndChange
      <3>2. fLocked' \in BOOLEAN /\ (~fLocked' => ~fLocked /\ ~rpc.fWasLocked)
        BY <2>3, Zenon DEF EndChange
      <3>3. rpc'.at = "idle"
        BY <3>1 DEF NoCommand
      <3>4. rpc' \in [at : {"idle", "spawn", "change", "changed"}, arg : 0 .. MaxTime,
                     fWasLocked : BOOLEAN]
        BY <3>1 DEF NoCommand
      <3>5. Stays' => Stays
        BY <3>2, <3>3 DEF Stays, Unlocking
      <3> QED BY <3>1, <3>2, <3>3, <3>4, <3>5
    <2>4. ASSUME NEW right \in BOOLEAN, TryOldPassphrase(right)
          PROVE  /\ rpc' \in [at : {"idle", "spawn", "change", "changed"}, arg : 0 .. MaxTime,
                             fWasLocked : BOOLEAN]
                 /\ fLocked' \in BOOLEAN
                 /\ rpc'.at = "change" => fLocked'
                 /\ Stays' => Stays /\ nWalletUnlockTime' = nWalletUnlockTime
                 /\ nWalletUnlockTime' \in {0, nWalletUnlockTime}
      <3>1. /\ rpc.at = "change" /\ nWalletUnlockTime' = nWalletUnlockTime /\ fLocked
            /\ rpc' = IF right THEN [rpc EXCEPT !.at = "changed"] ELSE NoCommand
        BY <1>0, <2>4 DEF TryOldPassphrase, Watched
      <3>2. fLocked' \in BOOLEAN /\ (~right => fLocked')
        BY <2>4, <3>1, Zenon DEF TryOldPassphrase
      <3>3. /\ right => rpc'.at = "changed" /\ rpc'.fWasLocked = rpc.fWasLocked
            /\ ~right => rpc'.at = "idle"
        BY <1>0, <3>1 DEF NoCommand, LockTypeOK
      <3>4. rpc' \in [at : {"idle", "spawn", "change", "changed"}, arg : 0 .. MaxTime,
                     fWasLocked : BOOLEAN]
        BY <1>0, <3>1 DEF NoCommand, LockTypeOK
      <3>5. Stays' => Stays
        BY <3>1, <3>2, <3>3 DEF Stays, Unlocking
      <3>6. rpc'.at # "change"
        BY <3>3
      <3> QED BY <3>1, <3>2, <3>4, <3>5, <3>6
    <2> QED BY <2>1, <2>2, <2>3, <2>4
  <1>3. LockTypeOK'
    BY <1>0, <1>1, <1>2 DEF LockTypeOK
  <1>4. Deadlines'
    BY <1>0, <1>1 DEF Deadlines
  <1>5. UntilTimer' => UntilTimer /\ nWalletUnlockTime' = nWalletUnlockTime
    BY <1>1, <1>2 DEF UntilTimer
  <1>6. Watched'
    BY <1>0, <1>1, <1>2, <1>5 DEF Watched, Coming, Pending
  <1>7. Obeyed'
    BY <1>0, <1>1, <1>2 DEF Obeyed, Pending
  <1>8. InTime'
    BY <1>0, <1>1, <1>5 DEF InTime
  <1> QED BY <1>3, <1>4, <1>6, <1>7, <1>8 DEF LockIInv

-----------------------------------------------------------------------------
(* The threads. *)

(* A thread computes its deadline before the clock moves on.               *)
LEMMA StartThreadKeeps ==
  ASSUME LockIInv, NEW t \in Threads, StartThread(t)
  PROVE  LockIInv'
  <1> USE LockAssumption DEF TimeRange, Threads
  <1>0. LockTypeOK /\ Deadlines /\ Watched /\ Obeyed /\ InTime
    BY DEF LockIInv
  <1>1. /\ thread[t].at = "start"
        /\ thread'[t].at = "enter" /\ thread'[t].arg = now + thread[t].arg
        /\ \A u \in Threads : u # t => thread'[u] = thread[u]
        /\ UNCHANGED <<setting, now, fLocked, fWalletUnlockStakingOnly, nWalletUnlockTime,
                       rpc, gui, asked>>
    BY <1>0 DEF LockTypeOK, StartThread
  <1>2. /\ thread[t].arg \in 0 .. MaxTime /\ now \in 0 .. MaxTime /\ now >= 1
        /\ now + thread[t].arg <= MaxTime
    BY <1>0, <1>1 DEF LockTypeOK, Deadlines
  <1>3. now + thread[t].arg \in 0 .. MaxTime /\ now + thread[t].arg >= 1
    BY <1>2
  <1>4. LockTypeOK'
    BY <1>0, <1>1, <1>3 DEF LockTypeOK, StartThread
  <1>5. Deadlines'
    BY <1>0, <1>1, <1>3 DEF Deadlines
  <1>6. \A u \in Threads : /\ Pending(u)' <=> Pending(u)
                           /\ thread[u].at = "sleep" => thread'[u] = thread[u]
    BY <1>1 DEF Pending
  <1>7. UntilTimer' <=> UntilTimer
    BY <1>1 DEF UntilTimer, Stays, Unlocking
  <1>8. Watched'
    BY <1>0, <1>1, <1>6, <1>7 DEF Watched, Coming
  <1>9. Obeyed'
    BY <1>0, <1>1, <1>6 DEF Obeyed
  <1>10. InTime'
    BY <1>0, <1>1, <1>7 DEF InTime
  <1> QED BY <1>4, <1>5, <1>8, <1>9, <1>10 DEF LockIInv

(* The loop for a deadline u: a thread sleeps until then, or the wallet is *)
(* locked, or there is nothing to do.                                      *)
LEMMA LoopKeeps ==
  ASSUME LockIInv, NEW t \in Threads, NEW u \in TimeRange, Loop(t, u),
         thread[t].at \in {"enter", "sleep"},
         thread[t].at = "enter" => nWalletUnlockTime = 0 /\ u = thread[t].arg,
         thread[t].at = "sleep" => u = nWalletUnlockTime,
         UNCHANGED <<setting, now, fWalletUnlockStakingOnly, rpc, gui>>
  PROVE  LockIInv'
  <1> USE LockAssumption DEF TimeRange, Threads
  <1>0. LockTypeOK /\ Deadlines /\ Watched /\ Obeyed /\ InTime
    BY DEF LockIInv
  <1>1. \A w \in Threads : w # t => thread'[w] = thread[w]
    BY <1>0 DEF LockTypeOK, Loop
  <1>2. /\ u > now => thread'[t].at = "sleep" /\ thread'[t].arg = u /\ nWalletUnlockTime' = u
        /\ ~(u > now) => thread'[t].at = "idle" /\ nWalletUnlockTime' = 0
    BY <1>0 DEF LockTypeOK, Loop, Idle
  <1>3. u \in Nat /\ now \in Nat /\ now >= 1
    BY <1>0 DEF LockTypeOK, Deadlines
  <1>4. Fires(u) \in BOOLEAN /\ Unlocking \in BOOLEAN
    BY Zenon DEF Fires, Unlocking
  <1>5. /\ asked'.by = asked.by /\ asked'.until = asked.until /\ asked'.alone = asked.alone
        /\ asked'.crossed = (asked.crossed \/ (Fires(u) /\ Unlocking))
    BY <1>0 DEF LockTypeOK, Loop
  <1>6. fLocked' \in BOOLEAN /\ asked'.crossed \in BOOLEAN
    BY <1>0, <1>4, <1>5, Zenon DEF LockTypeOK, Loop
  <1>7. asked' \in [by : {"nobody", "rpc", "gui"}, until : 0 .. MaxTime,
                   alone : BOOLEAN, crossed : BOOLEAN]
    <2>1. asked' = [asked EXCEPT !.crossed = asked'.crossed]
      BY <1>0, <1>5 DEF LockTypeOK, Loop
    <2> QED BY <1>0, <1>6, <2>1 DEF LockTypeOK
  <1>8. LockTypeOK'
    <2>1. thread' \in [Threads -> [at : {"idle", "start", "enter", "sleep"}, arg : 0 .. MaxTime]]
      BY <1>0 DEF LockTypeOK, Loop, Idle
    <2>2. nWalletUnlockTime' \in 0 .. MaxTime
      BY <1>2
    <2> QED BY <1>0, <1>6, <1>7, <2>1, <2>2 DEF LockTypeOK
  <1>9. /\ \A w \in Threads : Pending(w)' => w # t /\ Pending(w)
        /\ \A w \in Threads : w # t /\ Pending(w) => Pending(w)'
    BY <1>1, <1>2 DEF Pending
  <1>10. Deadlines'
    BY <1>0, <1>1, <1>2 DEF Deadlines
  <1>11. /\ ~fLocked' => ~fLocked /\ ~Fires(u)
         /\ fLocked => fLocked'
         /\ ~asked'.crossed => ~asked.crossed /\ ~(Fires(u) /\ Unlocking)
    BY <1>0, <1>5, Zenon DEF Loop, LockTypeOK
  <1>12. Unlocking' <=> Unlocking
    BY DEF Unlocking
  <1>13. UntilTimer' => UntilTimer /\ ~Fires(u)
    BY <1>5, <1>11, <1>12 DEF UntilTimer, Stays
  <1>14. Watched'
    <2>1. nWalletUnlockTime' # 0 =>
            \E w \in Threads : thread'[w].at = "sleep" /\ thread'[w].arg <= nWalletUnlockTime'
      BY <1>2, <1>3
    <2>2. rpc'.at = "change" => fLocked'
      BY <1>0, <1>11 DEF Watched
    <2>3. ASSUME UntilTimer' PROVE Coming'
      <3>1. Coming /\ ~Fires(u)
        BY <1>0, <1>13, <2>3 DEF Watched
      <3>2. CASE u > now
        BY <1>2, <1>3, <3>2 DEF Coming
      <3>3. CASE ~(u > now)
        <4>1. u = 0
          BY <1>3, <3>1, <3>3 DEF Fires
        <4>2. thread[t].at = "sleep" /\ nWalletUnlockTime = 0
          BY <1>0, <4>1 DEF Deadlines
        <4> QED BY <1>9, <3>1, <4>2 DEF Coming, Pending
      <3> QED BY <3>2, <3>3
    <2> QED BY <2>1, <2>2, <2>3 DEF Watched
  <1>15. Obeyed'
    <2> SUFFICES ASSUME asked.by = "rpc", asked.alone PROVE Obeyed'
      BY <1>5 DEF Obeyed
    <2>1. u # 0 => asked.until = u /\ rpc.at # "spawn" /\ \A w \in Threads : Pending(w) => w = t
      BY <1>0 DEF Obeyed, Pending
    <2>2. nWalletUnlockTime' # 0 => nWalletUnlockTime' = u /\ u # 0
      BY <1>2
    <2>3. rpc.at = "spawn" => nWalletUnlockTime' = 0 /\ asked.until = now + rpc.arg
                              /\ \A w \in Threads : ~Pending(w)'
      BY <1>0, <1>9, <2>1, <2>2 DEF Obeyed
    <2>4. \A w \in Threads : Pending(w)' => thread'[w] = thread[w] /\ Pending(w)
      BY <1>1, <1>9
    <2>5. \A w \in Threads : /\ thread'[w].at = "start" => asked.until = now + thread'[w].arg
                             /\ thread'[w].at = "enter" => asked.until = thread'[w].arg
      BY <1>0, <2>4 DEF Obeyed, Pending
    <2>6. \A v, w \in Threads : Pending(v)' /\ Pending(w)' => v = w
      BY <1>0, <2>4 DEF Obeyed
    <2>7. nWalletUnlockTime' # 0 => asked.until = nWalletUnlockTime' /\ \A w \in Threads : ~Pending(w)'
      BY <1>9, <2>1, <2>2
    <2> QED BY <1>5, <2>3, <2>5, <2>6, <2>7 DEF Obeyed
  <1>16. InTime'
    BY <1>0, <1>5, <1>13 DEF InTime
  <1> QED BY <1>8, <1>10, <1>14, <1>15, <1>16 DEF LockIInv

(* A thread that finds the time set only extends it.                       *)
LEMMA EnterThreadKeeps ==
  ASSUME LockIInv, NEW t \in Threads, EnterThread(t)
  PROVE  LockIInv'
  <1> USE LockAssumption DEF TimeRange, Threads
  <1>0. LockTypeOK /\ Deadlines /\ Watched /\ Obeyed /\ InTime
    BY DEF LockIInv
  <1>1. thread[t].arg \in 0 .. MaxTime /\ thread[t].at = "enter"
    BY <1>0 DEF LockTypeOK, EnterThread
  <1>2. CASE nWalletUnlockTime = 0
    BY <1>1, <1>2, LoopKeeps DEF EnterThread
  <1>3. CASE nWalletUnlockTime # 0
    <2>1. /\ thread' = [thread EXCEPT ![t] = Idle]
          /\ nWalletUnlockTime' \in {thread[t].arg, nWalletUnlockTime}
          /\ nWalletUnlockTime' >= nWalletUnlockTime /\ nWalletUnlockTime' # 0
          /\ UNCHANGED <<setting, now, fLocked, fWalletUnlockStakingOnly, rpc, gui, asked>>
      BY <1>0, <1>1, <1>3 DEF EnterThread, LockTypeOK
    <2>2. /\ thread'[t].at = "idle"
          /\ \A w \in Threads : w # t => thread'[w] = thread[w]
      BY <1>0, <2>1 DEF LockTypeOK, Idle
    <2>3. LockTypeOK'
      BY <1>0, <1>1, <2>1 DEF LockTypeOK, Idle
    <2>4. Deadlines'
      BY <1>0, <2>1, <2>2 DEF Deadlines
    <2>5. UntilTimer' <=> UntilTimer
      BY <2>1 DEF UntilTimer, Stays, Unlocking
    <2>6. Watched'
      <3>1. PICK w \in Threads : thread[w].at = "sleep" /\ thread[w].arg <= nWalletUnlockTime
        BY <1>0, <1>3 DEF Watched
      <3>2. thread'[w] = thread[w] /\ thread[w].arg <= nWalletUnlockTime'
        <4>1. thread[w].arg \in Nat /\ nWalletUnlockTime \in Nat /\ nWalletUnlockTime' \in Nat
          BY <1>0, <2>3 DEF LockTypeOK
        <4> QED BY <1>1, <2>1, <2>2, <3>1, <4>1
      <3> QED BY <1>0, <2>1, <3>1, <3>2 DEF Watched, Coming
    <2>7. ~(asked.by = "rpc" /\ asked.alone)
      BY <1>0, <1>1, <1>3 DEF Obeyed, Pending
    <2>8. asked' = asked /\ ~(asked'.by = "rpc" /\ asked'.alone)
      BY <2>1, <2>7
    <2>9. Obeyed' /\ InTime'
      BY <2>8 DEF Obeyed, InTime, UntilTimer
    <2> QED BY <2>3, <2>4, <2>6, <2>9 DEF LockIInv
  <1> QED BY <1>2, <1>3

(* A thread that wakes looks at the shared time.                           *)
LEMMA WakeThreadKeeps ==
  ASSUME LockIInv, NEW t \in Threads, WakeThread(t)
  PROVE  LockIInv'
  BY LoopKeeps DEF WakeThread, LockIInv, LockTypeOK

(* The clock: no thread sleeps past the deadline.                          *)
LEMMA TickKeeps ==
  ASSUME LockIInv, Tick
  PROVE  LockIInv'
  <1> USE LockAssumption DEF TimeRange, Threads
  <1>0. LockTypeOK /\ Deadlines /\ Watched /\ Obeyed /\ InTime
    BY DEF LockIInv
  <1>1. /\ now < MaxTime /\ now' = now + 1 /\ rpc.at # "spawn"
        /\ \A t \in Threads : ~Pending(t) /\ (thread[t].at = "sleep" => ~(thread[t].arg <= now))
        /\ UNCHANGED <<setting, fLocked, fWalletUnlockStakingOnly, nWalletUnlockTime, thread,
                       rpc, gui, asked>>
    BY DEF Tick, Runnable, Pending
  <1>2. LockTypeOK'
    BY <1>0, <1>1 DEF LockTypeOK
  <1>3. Deadlines'
    BY <1>0, <1>1 DEF Deadlines, Pending, LockTypeOK
  <1>4. UntilTimer' <=> UntilTimer
    BY <1>1 DEF UntilTimer, Stays, Unlocking
  <1>5. Watched'
    BY <1>0, <1>1, <1>4 DEF Watched, Coming, Pending
  <1>6. Obeyed'
    BY <1>0, <1>1 DEF Obeyed, Pending
  <1>7. InTime'
    <2> SUFFICES ASSUME UntilTimer, asked.alone PROVE now + 1 <= asked.until
      BY <1>1, <1>4 DEF InTime
    <2>1. nWalletUnlockTime # 0 /\ asked.until = nWalletUnlockTime
      BY <1>0, <1>1 DEF Watched, Coming, Obeyed, UntilTimer
    <2>2. PICK t \in Threads : thread[t].at = "sleep" /\ thread[t].arg <= nWalletUnlockTime
      BY <1>0, <2>1 DEF Watched
    <2>3. thread[t].arg \in Nat /\ now \in Nat /\ nWalletUnlockTime \in Nat
      BY <1>0 DEF LockTypeOK
    <2> QED BY <1>1, <2>1, <2>2, <2>3
  <1> QED BY <1>2, <1>3, <1>5, <1>6, <1>7 DEF LockIInv

-----------------------------------------------------------------------------
(* The windows: they lock the wallet, or unlock it for themselves. *)

(* The menu and the sending window lock it.                                *)
LEMMA WindowKeeps ==
  ASSUME LockIInv, GuiLock \/ RequestUnlock \/ CancelDialog \/ EndSend
  PROVE  LockIInv'
  <1> USE LockAssumption DEF TimeRange, Threads
  <1>0. LockTypeOK /\ Deadlines /\ Watched /\ Obeyed /\ InTime
    BY DEF LockIInv
  <1>1. /\ UNCHANGED <<setting, now, fWalletUnlockStakingOnly, nWalletUnlockTime, thread,
                       rpc, asked>>
        /\ fLocked' \in BOOLEAN /\ (fLocked => fLocked')
        /\ gui' \in [at : {"idle", "dialog", "sending"}, relock : BOOLEAN]
    <2>1. CASE GuiLock
      BY <1>0, <2>1 DEF GuiLock, LockTypeOK
    <2>2. CASE RequestUnlock
      BY <1>0, <2>2 DEF RequestUnlock, LockTypeOK
    <2>3. CASE CancelDialog
      <3>1. (~fWalletUnlockStakingOnly) \in BOOLEAN
        OBVIOUS
      <3> QED BY <1>0, <2>3, <3>1 DEF CancelDialog, LockTypeOK
    <2>4. CASE EndSend
      BY <1>0, <2>4 DEF EndSend, LockTypeOK
    <2> QED BY <2>1, <2>2, <2>3, <2>4
  <1>2. LockTypeOK'
    BY <1>0, <1>1 DEF LockTypeOK
  <1>3. UntilTimer' => UntilTimer
    BY <1>1 DEF UntilTimer, Stays, Unlocking
  <1>4. Deadlines' /\ Obeyed'
    BY <1>0, <1>1 DEF Deadlines, Obeyed, Pending
  <1>5. Watched' /\ InTime'
    BY <1>0, <1>1, <1>3 DEF Watched, InTime, Coming, Pending
  <1> QED BY <1>2, <1>4, <1>5 DEF LockIInv

(* The passphrase dialog unlocks it: no timer is meant to lock it then.    *)
LEMMA DialogKeeps ==
  ASSUME LockIInv, NEW s \in BOOLEAN, GuiUnlock(s) \/ UnlockToSend(s)
  PROVE  LockIInv'
  <1> USE LockAssumption DEF TimeRange, Threads
  <1>0. LockTypeOK /\ Deadlines /\ Watched
    BY DEF LockIInv
  <1>1. /\ rpc.at = "idle" /\ fLocked' = FALSE /\ fWalletUnlockStakingOnly' = s
        /\ asked' = [by |-> "gui", until |-> 0, alone |-> FALSE, crossed |-> FALSE]
        /\ gui' = gui \/ gui' = [at |-> "sending", relock |-> ~s]
        /\ UNCHANGED <<setting, now, nWalletUnlockTime, thread, rpc>>
    BY DEF GuiUnlock, UnlockToSend, UnlockDialog
  <1>2. asked' \in [by : {"nobody", "rpc", "gui"}, until : 0 .. MaxTime,
                   alone : BOOLEAN, crossed : BOOLEAN]
    BY <1>1
  <1>3. gui' \in [at : {"idle", "dialog", "sending"}, relock : BOOLEAN]
    <2>1. (~s) \in BOOLEAN
      OBVIOUS
    <2>2. CASE gui' = gui
      BY <1>0, <2>2 DEF LockTypeOK
    <2>3. CASE gui' = [at |-> "sending", relock |-> ~s]
      BY <2>1, <2>3, Zenon
    <2> QED BY <1>1, <2>2, <2>3
  <1>4. LockTypeOK'
    BY <1>0, <1>1, <1>2, <1>3 DEF LockTypeOK
  <1>5. asked'.by = "gui"
    BY <1>1
  <1>6. Deadlines' /\ Watched'
    BY <1>0, <1>1, <1>5 DEF Deadlines, Watched, UntilTimer
  <1>7. Obeyed' /\ InTime'
    BY <1>5 DEF Obeyed, InTime, UntilTimer
  <1> QED BY <1>4, <1>6, <1>7 DEF LockIInv

-----------------------------------------------------------------------------
(* Every step keeps the invariant.                                         *)
LEMMA LockIInvNext == LockIInv /\ [LockNext]_lockVars => LockIInv'
  <1> SUFFICES ASSUME LockIInv, [LockNext]_lockVars PROVE LockIInv'
    OBVIOUS
  <1>1. CASE UNCHANGED lockVars
    <2>0. LockTypeOK /\ Deadlines /\ Watched /\ Obeyed /\ InTime
      BY DEF LockIInv
    <2> USE <1>1, <2>0 DEF lockVars, Threads, Pending, UntilTimer, Stays, Unlocking
    <2>1. LockTypeOK' /\ Deadlines'
      BY DEF LockTypeOK, Deadlines
    <2>2. Watched'
      BY DEF Watched, Coming
    <2>3. Obeyed'
      BY DEF Obeyed
    <2>4. InTime'
      BY DEF InTime
    <2> QED BY <2>1, <2>2, <2>3, <2>4 DEF LockIInv
  <1>2. ASSUME NEW t \in Threads, ThreadStep(t) PROVE LockIInv'
    BY <1>2, StartThreadKeeps, EnterThreadKeeps, WakeThreadKeeps DEF ThreadStep
  <1> QED
    BY <1>1, <1>2, PassphraseKeeps, StartTimerKeeps, LockingKeeps, TickKeeps, WindowKeeps,
       DialogKeeps DEF LockNext

(* A thread that locks the wallet does so at the one deadline under way.   *)
LEMMA FiresInTime == LockIInv => NotShorterStep
  <1> SUFFICES ASSUME LockIInv, NEW t \in Threads, ThreadStep(t), UnlockedByRpc, fLocked',
                      asked.alone
               PROVE  now >= asked.until
    BY DEF NotShorterStep
  <1>0. LockTypeOK /\ Obeyed /\ ~fLocked /\ asked.by = "rpc"
    BY DEF LockIInv, UnlockedByRpc
  <1>1. PICK u \in TimeRange : /\ Loop(t, u)
                               /\ u # 0 => asked.until = u
    <2>1. ~StartThread(t)
      BY <1>0 DEF StartThread
    <2>2. CASE EnterThread(t)
      <3>1. thread[t].at = "enter" /\ thread[t].arg \in TimeRange
        BY <1>0, <2>2 DEF EnterThread, LockTypeOK
      <3>2. Loop(t, thread[t].arg)
        BY <1>0, <2>2 DEF EnterThread
      <3> QED BY <1>0, <3>1, <3>2 DEF Obeyed
    <2>3. CASE WakeThread(t)
      <3>1. Loop(t, nWalletUnlockTime) /\ nWalletUnlockTime \in TimeRange
        BY <1>0, <2>3 DEF WakeThread, LockTypeOK
      <3> QED BY <1>0, <3>1 DEF Obeyed
    <2> QED BY <2>1, <2>2, <2>3 DEF ThreadStep
  <1>2. Fires(u)
    BY <1>0, <1>1, Zenon DEF Loop
  <1> QED BY <1>0, <1>1, <1>2, LockAssumption DEF Fires, TimeRange, LockTypeOK

(* In every behaviour of the commands, a change of the passphrase and its  *)
(* steps among them, of the timer threads and of the windows, for any      *)
(* timeouts and any number of threads, until a timer fires inside a        *)
(* change: a wallet unlocked by walletpassphrase has a thread that is      *)
(* going to lock it; and, if no other timer was alive then, it is unlocked *)
(* until the time asked for and not longer.  No thread locks it before.    *)
THEOREM UnlockedAsAskedTheorem == LockSpec => UnlockedAsAsked
  <1>1. LockIInv => TimerRuns /\ NotLonger
    <2> SUFFICES ASSUME LockIInv, UnlockedByRpc, ~asked.crossed
                 PROVE  TimerRuns /\ NotLonger
      BY DEF TimerRuns, NotLonger
    <2>1. UntilTimer
      BY DEF UntilTimer, UnlockedByRpc, Stays
    <2>2. Coming /\ (asked.alone => now <= asked.until)
      BY <2>1 DEF LockIInv, Watched, InTime
    <2> QED BY <2>2 DEF TimerRuns, NotLonger, LockIInv, Watched, Coming, Pending
  <1>2. LockIInv /\ [LockNext]_lockVars => UnlockedStep
    <2> SUFFICES ASSUME LockIInv, [LockNext]_lockVars PROVE UnlockedStep
      OBVIOUS
    <2>1. LockIInv' /\ NotShorterStep
      BY LockIInvNext, FiresInTime
    <2>2. (TimerRuns /\ NotLonger)'
      BY <1>1, <2>1, PTL
    <2> QED BY <2>1, <2>2 DEF UnlockedStep, LockIInv
  <1> QED BY <1>2, LockIInvInit, LockIInvNext, PTL DEF LockSpec, UnlockedAsAsked
=============================================================================
