----------------------------- MODULE WalletCrypt -----------------------------
(***************************************************************************)
(* The encryption of the wallet: EncryptWallet replaces the private keys    *)
(* in memory and in the wallet file by encrypted ones, ChangeWalletPass-    *)
(* phrase encrypts the master key anew, Unlock and Lock put the master key  *)
(* into memory and remove it.  The process may stop between any two writes, *)
(* and the writes in the set Failures may fail; SQLite may then take back    *)
(* the whole transaction, after which every write commits by itself.        *)
(*                                                                         *)
(* All of it runs inside cs_wallet, so that the operations do not overlap;  *)
(* what is hard is the file.  A master key is known by its number: it is    *)
(* random, and an attempt to encrypt never uses an earlier one.             *)
(***************************************************************************)
EXTENDS Naturals, FiniteSets

CONSTANTS
    Keys,          \* private keys
    Passphrases,
    MaxAttempts,   \* bound: the attempts to encrypt the wallet
    Failures,      \* which writes may fail: a subset of FailurePoints
    None           \* no passphrase

(* "erase": of the old record of a key that was encrypted; "rollback": a failed
   write inside the transaction may take it back. *)
FailurePoints == {"begin", "mkey", "ckey", "erase", "commit", "key", "change", "rollback"}

(* The failures that the code does not look at. *)
Ignored == {"mkey", "erase", "change"}
Ids == 1 .. MaxAttempts

ASSUME CryptAssumption ==
    /\ MaxAttempts \in Nat
    /\ None \notin Passphrases
    /\ Failures \subseteq FailurePoints

VARIABLES
    mem,       \* the key store and the wallet in memory
    disk,      \* the committed records of the wallet file
    txn,       \* the records the open transaction would leave, or NoTxn
    slack,     \* keys whose erased records are still in the pages of the file
    step,      \* where EncryptWallet is
    nextId,    \* nMasterKeyMaxID + 1
    given,     \* keys that were handed out: coins may have been paid to them
    known      \* the passphrases that may be the wallet's, for its owner

vars == <<mem, disk, txn, slack, step, nextId, given, known>>

NoTxn == [open |-> FALSE]
InTxn == txn # NoTxn

(* The records "key", "ckey" and "mkey". *)
Records ==
    [plain : SUBSET Keys, crypted : [Keys -> 0 .. MaxAttempts],
     master : [Ids -> Passphrases \cup {None}]]

(* mapKeys, mapCryptedKeys, mapMasterKeys; fUseCrypto; the master key (0: locked);
   pwalletdbEncryption # NULL *)
Memory ==
    [up : BOOLEAN, plain : SUBSET Keys, crypted : [Keys -> 0 .. MaxAttempts],
     master : [Ids -> Passphrases \cup {None}], fUseCrypto : BOOLEAN,
     vMasterKey : 0 .. MaxAttempts,
     pwalletdbEncryption : BOOLEAN]

TypeOK ==
    /\ mem \in Memory
    /\ disk \in Records
    /\ txn \in {NoTxn} \cup Records
    /\ slack \subseteq Keys
    /\ step \in [at : {"idle", "mkey", "keys", "pool", "rewrite"},
                 pass : Passphrases \cup {None}, todo : SUBSET Keys]
    /\ nextId \in 1 .. MaxAttempts + 1
    /\ given \subseteq Keys
    /\ known \subseteq Passphrases

Encrypted(r) == {k \in Keys : r.crypted[k] # 0}
Rest == [at |-> "idle", pass |-> None, todo |-> {}]
Fails(f) == IF f \in Failures THEN BOOLEAN ELSE {FALSE}

(* What a failed write leaves of a transaction r. *)
Left(r) == IF "rollback" \in Failures THEN {r, NoTxn} ELSE {r}

(* The wallet as LoadWallet finds it in the file. *)
Loaded(r) ==
    [up |-> TRUE, plain |-> r.plain, crypted |-> r.crypted, master |-> r.master,
     fUseCrypto |-> Encrypted(r) # {}, vMasterKey |-> 0, pwalletdbEncryption |-> FALSE]

Stopped == [mem EXCEPT !.up = FALSE, !.vMasterKey = 0]

Init ==
    /\ \E K \in SUBSET Keys :
          /\ K # {}
          /\ disk = [plain |-> K, crypted |-> [k \in Keys |-> 0], master |-> [i \in Ids |-> None]]
          /\ given = K
    /\ mem = Loaded(disk)
    /\ txn = NoTxn
    /\ slack = {}
    /\ step = Rest
    /\ nextId = 1
    /\ known = {}

Free == mem.up /\ step = Rest

-----------------------------------------------------------------------------
(* EncryptWallet, from write to write. *)

(* The master key is put in the map before the transaction is begun.  If that
   fails, the call returns false and leaves the map, and pwalletdbEncryption. *)
EncryptWallet(p) ==
    /\ Free /\ ~mem.fUseCrypto /\ nextId \in Ids
    /\ nextId' = nextId + 1
    /\ mem' = [mem EXCEPT !.master[nextId] = p, !.pwalletdbEncryption = TRUE]
    /\ \E fail \in Fails("begin") :
          /\ txn' = IF fail THEN NoTxn ELSE disk
          /\ step' = IF fail THEN Rest ELSE [at |-> "mkey", pass |-> p, todo |-> mem.plain]
          /\ known' = IF fail THEN known ELSE known \cup {p}
    /\ UNCHANGED <<disk, slack, given>>

(* The result of WriteMasterKey is not looked at.  EncryptKeys begins. *)
WriteMasterKey ==
    /\ mem.up /\ step.at = "mkey"
    /\ \E fail \in Fails("mkey") :
          IF fail THEN txn' \in Left(txn) ELSE txn' = [txn EXCEPT !.master[nextId - 1] = step.pass]
    /\ step' = [step EXCEPT !.at = "keys"]
    /\ mem' = [mem EXCEPT !.fUseCrypto = TRUE]
    /\ UNCHANGED <<disk, slack, nextId, given, known>>

(* r with key k encrypted: WriteCryptedKey writes "ckey" and erases "key" (and
   "wkey", which no wallet of this kind has).  A new key has no "key" record. *)
WithCrypted(r, k, id) == [r EXCEPT !.plain = r.plain \ {k}, !.crypted[k] = id]

(* ... and the erasure, whose result is not looked at, has failed. *)
WithBoth(r, k, id) == [r EXCEPT !.crypted[k] = id]

(* WriteCryptedKey in the transaction; if it was taken back, each statement
   commits by itself. *)
WriteCryptedKey(k, erased) ==
    IF InTxn
    THEN /\ IF erased THEN txn' = WithCrypted(txn, k, nextId - 1)
            ELSE txn' \in Left(WithBoth(txn, k, nextId - 1))
         /\ UNCHANGED <<disk, slack>>
    ELSE /\ disk' = IF erased THEN WithCrypted(disk, k, nextId - 1)
                    ELSE WithBoth(disk, k, nextId - 1)
         /\ slack' = slack \cup (disk.plain \ disk'.plain)
         /\ UNCHANGED txn

(* One key of EncryptKeys.  A failed write of "ckey" aborts the transaction and
   ends the process. *)
EncryptKey(k) ==
    /\ mem.up /\ step.at = "keys" /\ k \in step.todo
    /\ \E fail \in Fails("ckey"), kept \in Fails("erase") :
          IF fail
          THEN mem' = Stopped /\ txn' = NoTxn /\ step' = Rest /\ UNCHANGED <<disk, slack>>
          ELSE /\ mem' = [mem EXCEPT !.crypted[k] = nextId - 1]
               /\ WriteCryptedKey(k, ~kept)
               /\ step' = [step EXCEPT !.todo = step.todo \ {k}]
    /\ UNCHANGED <<nextId, given, known>>

(* Mutant: a failed commit is treated like a failed write of the version. *)
CommitGoesOn ==
    /\ mem.up /\ step.at = "keys" /\ step.todo = {}
    /\ txn' = NoTxn
    /\ \E fail \in Fails("commit") :
          /\ disk' = IF fail THEN disk ELSE txn
          /\ mem' = [mem EXCEPT !.plain = {}, !.pwalletdbEncryption = FALSE]
          /\ slack' = IF fail THEN slack ELSE slack \cup mem.plain
          /\ step' = [step EXCEPT !.at = "pool"]
    /\ UNCHANGED <<nextId, given, known>>

(* mapKeys is cleared, the version written, the transaction committed.  A failed
   commit ends the process; COMMIT without a transaction fails. *)
Commit ==
    /\ mem.up /\ step.at = "keys" /\ step.todo = {}
    /\ txn' = NoTxn
    /\ \E fail \in Fails("commit") :
          IF fail \/ ~InTxn
          THEN mem' = Stopped /\ step' = Rest /\ UNCHANGED <<disk, slack>>
          ELSE /\ disk' = txn
               /\ slack' = slack \cup (disk.plain \ txn.plain)
               /\ mem' = [mem EXCEPT !.plain = {}, !.pwalletdbEncryption = FALSE]
               /\ step' = [step EXCEPT !.at = "pool"]
    /\ UNCHANGED <<nextId, given, known>>

(* CWallet::Unlock tries the master keys in the order of their numbers and gives
   up at the first one that the passphrase does not decrypt.  One that it decrypts
   is the wallet's if the encrypted keys can be read with it (all of them are
   encrypted under one master key, and the code tries the first). *)
UnlockedBy(m, p) ==
    LET ids   == {i \in Ids : m.master[i] # None}
        right == {i \in ids : m.master[i] = p /\ \A k \in Encrypted(m) : m.crypted[k] = i}
        tried == {i \in right : \A j \in ids : j < i => m.master[j] = p}
    IN IF tried = {} THEN 0 ELSE CHOOSE i \in tried : \A j \in tried : i <= j

(* Lock, Unlock and NewKeyPool.  The pool stands here for one new key; a failed
   write throws, and the wallet stays unlocked. *)
NewKeyPool ==
    /\ mem.up /\ step.at = "pool"
    /\ LET id == UnlockedBy([mem EXCEPT !.vMasterKey = 0], step.pass) IN
       \/ /\ id = 0 \/ \A k \in Keys : k \in mem.plain \/ mem.crypted[k] # 0
          /\ mem' = [mem EXCEPT !.vMasterKey = id]
          /\ step' = [step EXCEPT !.at = "rewrite"]
          /\ UNCHANGED disk
       \/ /\ id # 0
          /\ \E k \in Keys, fail \in Fails("key") :
                /\ mem.crypted[k] = 0 /\ k \notin mem.plain
                /\ mem' = [mem EXCEPT !.vMasterKey = id, !.crypted[k] = id]
                /\ disk' = IF fail THEN disk ELSE WithCrypted(disk, k, id)
                /\ step' = IF fail THEN Rest ELSE [step EXCEPT !.at = "rewrite"]
    /\ UNCHANGED <<txn, slack, nextId, given, known>>

(* Lock, then CDB::Rewrite.  The file is no Berkeley DB file, so that opening it
   throws and EncryptWallet ends there; nothing in the file is rewritten. *)
Rewrite ==
    /\ mem.up /\ step.at = "rewrite"
    /\ mem' = [mem EXCEPT !.vMasterKey = 0]
    /\ step' = Rest
    /\ UNCHANGED <<disk, txn, slack, nextId, given, known>>

-----------------------------------------------------------------------------
(* The other operations. *)

Unlock(p) ==
    /\ Free /\ mem.fUseCrypto /\ mem.vMasterKey = 0
    /\ mem' = [mem EXCEPT !.vMasterKey = UnlockedBy(mem, p)]
    /\ UNCHANGED <<disk, txn, slack, step, nextId, given, known>>

Lock ==
    /\ Free /\ mem.fUseCrypto
    /\ mem' = [mem EXCEPT !.vMasterKey = 0]
    /\ UNCHANGED <<disk, txn, slack, step, nextId, given, known>>

(* Mutant: the new passphrase is only kept in memory. *)
ChangeWalletPassphraseNot(old, new) ==
    /\ Free /\ mem.fUseCrypto
    /\ LET id == UnlockedBy(mem, old) IN
          /\ id # 0
          /\ mem' = [mem EXCEPT !.master[id] = new]
          /\ known' = {new}
    /\ UNCHANGED <<disk, txn, slack, step, nextId, given>>

(* The wallet is locked; the master key that the old passphrase opens is
   encrypted with the new one, and written.  The result of the write is not looked
   at: the call reports success. *)
ChangeWalletPassphrase(old, new) ==
    /\ Free /\ mem.fUseCrypto
    /\ LET id == UnlockedBy(mem, old) IN
          IF id = 0
          THEN mem' = [mem EXCEPT !.vMasterKey = 0] /\ UNCHANGED <<disk, known>>
          ELSE /\ mem' = [mem EXCEPT !.master[id] = new]
               /\ known' = {new}
               /\ \E fail \in Fails("change") :
                     disk' = IF fail THEN disk ELSE [disk EXCEPT !.master[id] = new]
    /\ UNCHANGED <<txn, slack, step, nextId, given>>

(* GenerateNewKey: AddKey puts the key in the memory, then writes it.  A failed
   write throws, so that the key is not handed out, but it stays in memory. *)
GenerateNewKey(k) ==
    /\ Free /\ k \notin mem.plain /\ mem.crypted[k] = 0
    /\ mem.fUseCrypto => mem.vMasterKey # 0
    /\ mem' = IF mem.fUseCrypto THEN [mem EXCEPT !.crypted[k] = mem.vMasterKey]
                                ELSE [mem EXCEPT !.plain = mem.plain \cup {k}]
    /\ \E fail \in Fails("key") :
          /\ given' = IF fail THEN given ELSE given \cup {k}
          /\ disk' = IF fail THEN disk
                     ELSE IF mem.fUseCrypto THEN WithCrypted(disk, k, mem.vMasterKey)
                     ELSE [disk EXCEPT !.plain = disk.plain \cup {k}]
    /\ UNCHANGED <<txn, slack, step, nextId, known>>

(* The process stops: an open transaction is rolled back. *)
Stop ==
    /\ mem.up
    /\ mem' = Stopped /\ txn' = NoTxn /\ step' = Rest
    /\ UNCHANGED <<disk, slack, nextId, given, known>>

(* LoadWallet refuses a file with both kinds of keys: SetCrypted fails. *)
Start ==
    /\ ~mem.up
    /\ disk.plain = {} \/ Encrypted(disk) = {}
    /\ mem' = Loaded(disk)
    /\ UNCHANGED <<disk, txn, slack, step, nextId, given, known>>

Next ==
    \/ \E p \in Passphrases : EncryptWallet(p)
    \/ WriteMasterKey
    \/ \E k \in Keys : EncryptKey(k)
    \/ Commit
    \/ NewKeyPool
    \/ Rewrite
    \/ \E p \in Passphrases : Unlock(p)
    \/ Lock
    \/ \E old, new \in Passphrases : ChangeWalletPassphrase(old, new)
    \/ \E k \in Keys : GenerateNewKey(k)
    \/ Stop
    \/ Start

Spec == Init /\ [][Next]_vars

-----------------------------------------------------------------------------
(* Properties *)

(* Whenever the process stops, every key that was handed out can be read from
   the wallet file: it is there in the clear, or encrypted under a master key that
   is there and that a passphrase of the owner opens. *)
Recoverable ==
    \A k \in given :
        \/ k \in disk.plain
        \/ disk.crypted[k] # 0 /\ disk.master[disk.crypted[k]] \in known

(* The wallet file never has keys of both kinds, which LoadWallet would refuse. *)
OneKind == disk.plain = {} \/ Encrypted(disk) = {}

(* Between two calls, the wallet in memory is encrypted if and only if the file
   is, and then no key is in the clear in memory. *)
Agreed ==
    Free => /\ mem.fUseCrypto <=> Encrypted(disk) # {}
            /\ mem.fUseCrypto => mem.plain = {}

(* No stop of the process and no failed write that the code looks at costs a key:
   the file can be read, by what is in it and by this process. *)
KeysKept == TypeOK /\ Recoverable /\ OneKind /\ Agreed

(* Between two calls, a passphrase of the owner opens an encrypted wallet, unless
   an attempt to encrypt it that could not begin its transaction has left a master
   key in memory which is not in the file. *)
Unlockable ==
    /\ Free /\ mem.fUseCrypto
    /\ \A i \in Ids : mem.master[i] # None => disk.master[i] # None
    => \E p \in known : UnlockedBy(mem, p) # 0

(* When EncryptWallet has encrypted the wallet, the file has been rewritten: no
   key is left in the clear in its unused parts. *)
Rewritten == Free /\ mem.fUseCrypto => slack = {}
=============================================================================
