------------------------------ MODULE KeyPool ------------------------------
(***************************************************************************)
(* The wallet's pool of keys generated in advance (wallet.cpp): its set of *)
(* indexes in memory, its records and the keys in the wallet file, the     *)
(* CReserveKey in use, encryption of the wallet, which replaces the pool,  *)
(* relocking at any moment, a stop of the process between any two writes,  *)
(* and writes and erasures that fail.  Every operation runs in one         *)
(* cs_wallet section, except for Lock, which takes only cs_KeyStore; so    *)
(* one operation is in progress at a time.                                 *)
(* A key is the number of the call of GenerateNewKey that made it.         *)
(***************************************************************************)
EXTENDS Integers, FiniteSets, FiniteSetsExt, Functions

CONSTANTS
  KeyPoolSize,   \* the option -keypool
  RefillSizes,   \* the arguments of keypoolrefill
  Failures,      \* where a write to the wallet file may fail
  MaxKey         \* bound: the number of keys ever generated

(* A failed write throws: of a key in AddKey, of a record in TopUpKeyPool. *)
(* The result of every other one is ignored: WritePool and ErasePool in    *)
(* NewKeyPool ("renew", "flush"), ErasePool in KeepKey ("keep").           *)
Heeded == {"key", "topup"}
Ignored == {"renew", "flush", "keep"}

ASSUME KeyPoolAssumption ==
  /\ Failures \subseteq Heeded \cup Ignored
  /\ KeyPoolSize \in Nat
  /\ RefillSizes \subseteq Nat
  /\ MaxKey \in Nat

VARIABLES
  setKeyPool,   \* the indexes that can be reserved
  pool,         \* disk: the "pool" records, index -> key
  keys,         \* disk: the keys of the wallet file
  nGenerated,   \* keys generated so far
  fUseCrypto,   \* disk: the wallet is encrypted
  locked,       \* vMasterKey is empty
  pc,           \* where the cs_wallet section in progress is
  what,         \* what it was entered for
  nTargetSize,  \* the size TopUpKeyPool aims at
  newKey,       \* the key generated and not yet written to the pool
  nIndex,       \* the index in reserve, or -1
  vchPubKey,    \* the key in reserve
  template,     \* the key of the block handed to a miner
  used,         \* history: the keys given out for use
  mined,        \* history: the keys of generated blocks found valid
  oldKeys,      \* history: the keys that were stored unencrypted
  torn          \* history: the process stopped before the old pool was erased

cryptVars == <<fUseCrypto, locked, oldKeys>>
reserveVars == <<nIndex, vchPubKey>>
minerVars == <<template, mined>>
vars == <<setKeyPool, pool, keys, nGenerated, pc, what, nTargetSize, newKey,
          used, torn, cryptVars, reserveVars, minerVars>>

Key == 1..MaxKey
NoKey == 0

(* Why a key is reserved: GetKeyFromPool keeps it; GetOldestKeyPoolTime    *)
(* returns it; a payment keeps its change key when the transaction is      *)
(* committed and returns it otherwise; CreateNewBlock returns it, when its *)
(* local CReserveKey is destroyed.                                         *)
Purpose == {"get", "oldest", "send", "mine"}

TypeOK ==
  /\ setKeyPool \subseteq Nat
  /\ DOMAIN pool \subseteq Nat
  /\ pool \in [DOMAIN pool -> Key]
  /\ keys \subseteq Key
  /\ nGenerated \in 0..MaxKey
  /\ fUseCrypto \in BOOLEAN /\ locked \in BOOLEAN /\ torn \in BOOLEAN
  /\ pc \in {"idle", "topup", "take", "hold", "flush", "renew"}
  /\ what \in Purpose \cup {"refill"}
  /\ nTargetSize \in Nat
  /\ newKey \in Key \cup {NoKey}
  /\ nIndex \in Nat \cup {-1} /\ (nIndex # -1 <=> pc = "hold")
  /\ vchPubKey \in Key \cup {NoKey}
  /\ template \in Key \cup {NoKey}
  /\ used \subseteq Key /\ mined \subseteq Key /\ oldKeys \subseteq Key

IsLocked == fUseCrypto /\ locked

(* A new wallet: no key yet, not encrypted.                                *)
Init ==
  /\ setKeyPool = {} /\ pool = << >> /\ keys = {} /\ nGenerated = 0
  /\ fUseCrypto = FALSE /\ locked = FALSE /\ oldKeys = {}
  /\ pc = "idle" /\ what = "refill" /\ nTargetSize = 0 /\ newKey = NoKey
  /\ nIndex = -1 /\ vchPubKey = NoKey /\ template = NoKey
  /\ used = {} /\ mined = {} /\ torn = FALSE

-----------------------------------------------------------------------------
(* TopUpKeyPool and the loop of NewKeyPool.                                *)

WritePool(i, k) ==
  pool' = [j \in DOMAIN pool \cup {i} |-> IF j = i THEN k ELSE pool[j]]

(* The record is erased, or still there where that may fail.               *)
ErasePool(i, where) ==
  pool' \in {Restrict(pool, DOMAIN pool \ {i})}
             \cup (IF where \in Failures THEN {pool} ELSE {})

(* keypoolrefill, walletpassphrase's ThreadTopUpKeyPool (argument 0).      *)
TopUpKeyPool(n) ==
  /\ pc = "idle" /\ ~IsLocked
  /\ nTargetSize' = IF n > 0 THEN n ELSE KeyPoolSize
  /\ pc' = "topup" /\ what' = "refill"
  /\ UNCHANGED <<setKeyPool, pool, keys, nGenerated, newKey, used, torn,
                 cryptVars, reserveVars, minerVars>>

Full ==
  Cardinality(setKeyPool) >= IF pc = "topup" THEN nTargetSize + 1 ELSE KeyPoolSize

(* AddKey fails when the wallet was locked meanwhile or the key cannot be  *)
(* written, and GenerateNewKey throws through every caller; otherwise the  *)
(* key is in the wallet file.                                              *)
GenerateNewKey ==
  /\ pc \in {"topup", "renew"} /\ newKey = NoKey /\ ~Full
  /\ \/ /\ IsLocked \/ "key" \in Failures
        /\ pc' = "idle"
        /\ UNCHANGED <<keys, nGenerated, newKey, oldKeys>>
     \/ /\ ~IsLocked /\ nGenerated < MaxKey
        /\ nGenerated' = nGenerated + 1
        /\ newKey' = nGenerated + 1
        /\ keys' = keys \cup {newKey'}
        /\ oldKeys' = IF fUseCrypto THEN oldKeys ELSE oldKeys \cup {newKey'}
        /\ UNCHANGED pc
  /\ UNCHANGED <<setKeyPool, pool, what, nTargetSize, used, torn, fUseCrypto,
                 locked, reserveVars, minerVars>>

(* The index after the last one, 1 in an empty pool; NewKeyPool counts     *)
(* from 1 in a pool it has emptied.                                        *)
End == IF setKeyPool = {} THEN 1 ELSE Max(setKeyPool) + 1

(* WritePool, which may fail: TopUpKeyPool throws, NewKeyPool goes on.     *)
AddToPool ==
  /\ pc \in {"topup", "renew"} /\ newKey # NoKey
  /\ \E ok \in BOOLEAN :
       /\ ok \/ pc \in Failures
       /\ IF ok THEN WritePool(End, newKey) ELSE UNCHANGED pool
       /\ IF ok \/ pc = "renew"
          THEN setKeyPool' = setKeyPool \cup {End} /\ UNCHANGED pc
          ELSE pc' = "idle" /\ UNCHANGED setKeyPool
  /\ newKey' = NoKey
  /\ UNCHANGED <<keys, nGenerated, what, nTargetSize, used, torn,
                 cryptVars, reserveVars, minerVars>>

ToppedUp ==
  /\ pc = "topup" /\ newKey = NoKey /\ Full
  /\ pc' = IF what = "refill" THEN "idle" ELSE "take"
  /\ UNCHANGED <<setKeyPool, pool, keys, nGenerated, what, nTargetSize, newKey,
                 used, torn, cryptVars, reserveVars, minerVars>>

-----------------------------------------------------------------------------
(* ReserveKeyFromKeyPool, KeepKey, ReturnKey and their callers.            *)

Reserve(p) ==
  /\ pc = "idle"
  /\ what' = p
  /\ pc' = IF IsLocked THEN "take" ELSE "topup"
  /\ nTargetSize' = KeyPoolSize
  /\ UNCHANGED <<setKeyPool, pool, keys, nGenerated, newKey, used, torn,
                 cryptVars, reserveVars, minerVars>>

Readable(i) == i \in DOMAIN pool /\ pool[i] \in keys

(* The lowest index leaves the set, and is lost when its record cannot be  *)
(* read or names a key the wallet does not have.  Of an empty pool, which  *)
(* only a locked wallet can have here, the caller gets the default key or  *)
(* an error.                                                               *)
ReserveKeyFromKeyPool ==
  /\ pc = "take"
  /\ \/ /\ setKeyPool = {}
        /\ pc' = "idle"
        /\ UNCHANGED <<setKeyPool, reserveVars, template>>
     \/ LET i == Min(setKeyPool) IN
        /\ setKeyPool # {}
        /\ setKeyPool' = setKeyPool \ {i}
        /\ nIndex' = IF Readable(i) THEN i ELSE -1
        /\ vchPubKey' = IF Readable(i) THEN pool[i] ELSE NoKey
        /\ template' = IF what = "mine" /\ Readable(i) THEN pool[i] ELSE template
        /\ pc' = IF Readable(i) THEN "hold" ELSE "idle"
  /\ UNCHANGED <<pool, keys, nGenerated, what, nTargetSize, newKey, used, torn,
                 cryptVars, mined>>

(* Mutant: the key goes out and its record stays.                          *)
KeepKeyNoErase ==
  /\ pc = "hold" /\ what \in {"get", "send"}
  /\ used' = used \cup {vchPubKey}
  /\ nIndex' = -1 /\ vchPubKey' = NoKey /\ pc' = "idle"
  /\ UNCHANGED <<setKeyPool, pool, keys, nGenerated, what, nTargetSize, newKey,
                 torn, cryptVars, minerVars>>

(* A record that is not erased is in the pool again after a restart.       *)
KeepKey ==
  /\ pc = "hold" /\ what \in {"get", "send"}
  /\ ErasePool(nIndex, "keep")
  /\ used' = used \cup {vchPubKey}
  /\ nIndex' = -1 /\ vchPubKey' = NoKey /\ pc' = "idle"
  /\ UNCHANGED <<setKeyPool, keys, nGenerated, what, nTargetSize, newKey, torn,
                 cryptVars, minerVars>>

(* Mutant: a payment that fails forgets its reserved key.                  *)
ReturnKeyForgotten ==
  /\ pc = "hold" /\ what # "get"
  /\ setKeyPool' = IF what = "send" THEN setKeyPool ELSE setKeyPool \cup {nIndex}
  /\ nIndex' = -1 /\ vchPubKey' = NoKey /\ pc' = "idle"
  /\ UNCHANGED <<pool, keys, nGenerated, what, nTargetSize, newKey, used, torn,
                 cryptVars, minerVars>>

ReturnKey ==
  /\ pc = "hold" /\ what # "get"
  /\ setKeyPool' = setKeyPool \cup {nIndex}
  /\ nIndex' = -1 /\ vchPubKey' = NoKey /\ pc' = "idle"
  /\ UNCHANGED <<pool, keys, nGenerated, what, nTargetSize, newKey, used, torn,
                 cryptVars, minerVars>>

(* The solved block is accepted: KeepKey on the CReserveKey of the RPC     *)
(* call, which never reserved a key, changes nothing.                      *)
CheckWork ==
  /\ pc = "idle" /\ template # NoKey
  /\ mined' = mined \cup {template}
  /\ template' = NoKey
  /\ UNCHANGED <<setKeyPool, pool, keys, nGenerated, pc, what, nTargetSize,
                 newKey, used, torn, cryptVars, reserveVars>>

-----------------------------------------------------------------------------
(* Encryption, locking and restarts.                                       *)

(* EncryptWallet up to its commit, then Lock and Unlock: NewKeyPool runs   *)
(* on an unlocked wallet, and starts by erasing the old records.           *)
EncryptWallet ==
  /\ pc = "idle" /\ ~fUseCrypto
  /\ fUseCrypto' = TRUE /\ locked' = FALSE
  /\ pc' = "flush"
  /\ UNCHANGED <<setKeyPool, pool, keys, nGenerated, what, nTargetSize, newKey,
                 used, torn, oldKeys, reserveVars, minerVars>>

(* One after the other, in order; where an erasure may fail some are left. *)
EraseOldKey ==
  /\ pc = "flush"
  /\ \E i \in setKeyPool \cap DOMAIN pool :
       /\ i = Min(setKeyPool \cap DOMAIN pool) \/ "flush" \in Failures
       /\ ErasePool(i, "flush")
  /\ UNCHANGED <<setKeyPool, keys, nGenerated, pc, what, nTargetSize, newKey,
                 used, torn, cryptVars, reserveVars, minerVars>>

(* Mutant: the set is cleared before the records are erased.               *)
ClearPoolEarly ==
  /\ pc = "flush"
  /\ setKeyPool' = {}
  /\ pc' = IF IsLocked THEN "idle" ELSE "renew"
  /\ UNCHANGED <<pool, keys, nGenerated, what, nTargetSize, newKey, used, torn,
                 cryptVars, reserveVars, minerVars>>

ClearPool ==
  /\ pc = "flush" /\ (setKeyPool \cap DOMAIN pool = {} \/ "flush" \in Failures)
  /\ setKeyPool' = {}
  /\ pc' = IF IsLocked THEN "idle" ELSE "renew"
  /\ UNCHANGED <<pool, keys, nGenerated, what, nTargetSize, newKey, used, torn,
                 cryptVars, reserveVars, minerVars>>

(* The end of NewKeyPool and of EncryptWallet, which locks the wallet.     *)
Renewed ==
  /\ pc = "renew" /\ newKey = NoKey /\ Full
  /\ locked' = TRUE /\ pc' = "idle"
  /\ UNCHANGED <<setKeyPool, pool, keys, nGenerated, what, nTargetSize, newKey,
                 used, torn, fUseCrypto, oldKeys, reserveVars, minerVars>>

Lock ==
  /\ fUseCrypto /\ ~locked
  /\ locked' = TRUE
  /\ UNCHANGED <<setKeyPool, pool, keys, nGenerated, pc, what, nTargetSize,
                 newKey, used, torn, fUseCrypto, oldKeys, reserveVars, minerVars>>

Unlock ==
  /\ pc = "idle" /\ IsLocked
  /\ locked' = FALSE
  /\ UNCHANGED <<setKeyPool, pool, keys, nGenerated, pc, what, nTargetSize,
                 newKey, used, torn, fUseCrypto, oldKeys, reserveVars, minerVars>>

(* The process stops, anywhere, and LoadWallet reads the pool records.     *)
Restart ==
  /\ setKeyPool' = DOMAIN pool
  /\ torn' = (torn \/ pc = "flush")
  /\ locked' = fUseCrypto
  /\ pc' = "idle" /\ what' = "refill" /\ nTargetSize' = 0 /\ newKey' = NoKey
  /\ nIndex' = -1 /\ vchPubKey' = NoKey /\ template' = NoKey
  /\ UNCHANGED <<pool, keys, nGenerated, fUseCrypto, oldKeys, used, mined>>

Next ==
  \/ \E n \in RefillSizes : TopUpKeyPool(n)
  \/ GenerateNewKey \/ AddToPool \/ ToppedUp
  \/ \E p \in Purpose : Reserve(p)
  \/ ReserveKeyFromKeyPool \/ KeepKey \/ ReturnKey \/ CheckWork
  \/ EncryptWallet \/ EraseOldKey \/ ClearPool \/ Renewed
  \/ Lock \/ Unlock \/ Restart

Spec == Init /\ [][Next]_vars

-----------------------------------------------------------------------------
(* ReserveKeyFromKeyPool never throws: whatever was reserved, kept,        *)
(* returned, renewed or lost in a crash before, every index it can take    *)
(* has a record, of a key whose private key is in the wallet file.         *)
ReserveNeverThrows == pc = "take" => \A i \in setKeyPool : Readable(i)

(* CommitTransaction: "Take key pair from key pool so it won't be used     *)
(* again".  No key comes out of the pool once it was given out, although   *)
(* indexes are used again; unless the erasure of its record failed, which  *)
(* KeepKey does not notice.                                                *)
GivenOutOnce == pc = "hold" => vchPubKey \notin used

(* No record of the pool is out of reach: each is in the set or is the one *)
(* in reserve, so a restart adds nothing that was not there before it.     *)
NothingForgotten ==
  pc # "flush" =>
    DOMAIN pool = setKeyPool \cup (IF nIndex = -1 THEN {} ELSE {nIndex})

(* The set in memory and the records on disk describe one pool of readable *)
(* keys, through every crash, renewal and failed write whose result the    *)
(* code looks at.                                                          *)
PoolReadable == TypeOK /\ ReserveNeverThrows /\ NothingForgotten

(* NewKeyPool: "Mark old keypool keys as used, and generate all new keys". *)
(* Once encryption is through, no key that was ever stored unencrypted     *)
(* comes out of the pool, if the process did not stop while the old        *)
(* records were being erased and no erasure failed.                        *)
OldKeysFlushed ==
  fUseCrypto /\ ~torn /\ pc = "hold" => vchPubKey \notin oldKeys

(* CheckWork: "Remove key from key pool".  The key that a generated block  *)
(* pays to does not come out of the pool again.                            *)
MinedKeyRemoved == pc = "hold" => vchPubKey \notin mined
=============================================================================
