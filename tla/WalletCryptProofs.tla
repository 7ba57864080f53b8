--------------------------- MODULE WalletCryptProofs ---------------------------
(***************************************************************************)
(* If the three writes whose result the code ignores succeed, no stop of    *)
(* the process and no other failed write costs a key: for every set of keys *)
(* and passphrases and every number of attempts.                            *)
(***************************************************************************)
EXTENDS WalletCrypt, WellFoundedInduction, TLAPS

(* Not encrypted: the file is a part of the memory. *)
Clear ==
    /\ \A k \in Keys : disk.crypted[k] = 0 /\ mem.crypted[k] = 0
    /\ disk.plain \subseteq mem.plain
    /\ mem.vMasterKey = 0

(* Encrypted under master key id, in memory and in the file. *)
Sealed(id) ==
    /\ mem.plain = {} /\ disk.plain = {}
    /\ \A k \in Keys : mem.crypted[k] \in {0, id} /\ disk.crypted[k] \in {0, mem.crypted[k]}
    /\ \E k \in Keys : disk.crypted[k] # 0
    /\ mem.vMasterKey \in {0, id}

(* The keys outside step.todo are encrypted, in memory and in the transaction. *)
HalfWay ==
    /\ mem.fUseCrypto /\ mem.vMasterKey = 0
    /\ step.pass \in known /\ nextId - 1 \in Ids
    /\ \A k \in Keys : disk.crypted[k] = 0
    /\ disk.plain \subseteq mem.plain /\ step.todo \subseteq mem.plain
    /\ txn \in Records /\ txn.master[nextId - 1] = step.pass
    /\ \A k \in Keys : k \in txn.plain <=> k \in disk.plain /\ k \in step.todo
    /\ \A k \in Keys : /\ mem.crypted[k] = txn.crypted[k]
                       /\ k \in mem.plain /\ k \notin step.todo => txn.crypted[k] = nextId - 1
                       /\ ~(k \in mem.plain /\ k \notin step.todo) => txn.crypted[k] = 0

Stage ==
    /\ ~mem.up => step = Rest
    /\ step.at = "idle" => step = Rest /\ txn = NoTxn
    /\ mem.up /\ step.at = "idle" /\ ~mem.fUseCrypto => Clear
    /\ mem.up /\ step.at = "idle" /\ mem.fUseCrypto => \E id \in Ids : Sealed(id)
    /\ step.at = "mkey" => /\ Clear /\ ~mem.fUseCrypto /\ txn = disk
                           /\ step.todo = mem.plain /\ step.pass \in known /\ nextId - 1 \in Ids
    /\ step.at = "keys" => HalfWay
    /\ step.at \in {"pool", "rewrite"} =>
          mem.fUseCrypto /\ txn = NoTxn /\ \E id \in Ids : Sealed(id)

(* The file: keys of one kind, and of one master key. *)
Filed ==
    /\ given # {}
    /\ OneKind
    /\ \A k, l \in Keys : disk.crypted[k] # 0 /\ disk.crypted[l] # 0 => disk.crypted[k] = disk.crypted[l]

IInv == TypeOK /\ Recoverable /\ Filed /\ Stage

-----------------------------------------------------------------------------
(* What CWallet::Unlock finds is a master key under which every encrypted key in
   memory is encrypted. *)
LEMMA UnlockedByIs ==
    ASSUME NEW m, m.crypted \in [Keys -> 0 .. MaxAttempts], NEW p
    PROVE  \/ UnlockedBy(m, p) = 0
           \/ /\ UnlockedBy(m, p) \in Ids
              /\ \A k \in Keys : m.crypted[k] \in {0, UnlockedBy(m, p)}
<1>. DEFINE ids   == {i \in Ids : m.master[i] # None}
            right == {i \in ids : m.master[i] = p /\ \A k \in Encrypted(m) : m.crypted[k] = i}
            tried == {i \in right : \A j \in ids : j < i => m.master[j] = p}
            R == {ss \in Nat \X Nat : ss[1] < ss[2]}
<1>1. UnlockedBy(m, p) = IF tried = {} THEN 0 ELSE CHOOSE i \in tried : \A j \in tried : i <= j
    BY DEF UnlockedBy
<1>2. tried \subseteq Nat
    BY CryptAssumption DEF Ids
<1>3. ASSUME tried # {} PROVE \E i \in tried : \A j \in tried : i <= j
    <2>1. IsWellFoundedOn(R, Nat)
        BY NatLessThanWellFounded DEF OpToRel
    <2>. HIDE DEF R, tried
    <2>2. PICK i \in tried : \A j \in tried : ~ (<<j, i>> \in R)
        BY <2>1, <1>2, <1>3, WFMin
    <2>3. ASSUME NEW j \in tried PROVE i <= j
        <3>1. i \in Nat /\ j \in Nat
            BY <1>2
        <3>2. j < i => <<j, i>> \in R
            BY <3>1 DEF R
        <3>. QED
            BY <3>1, <3>2, <2>2
    <2>. QED
        BY <2>3
<1>4. CASE tried = {}
    BY <1>1, <1>4
<1>5. CASE tried # {}
    <2>1. UnlockedBy(m, p) \in tried
        <3>. HIDE DEF tried
        <3>. QED
            BY <1>1, <1>3, <1>5
    <2>2. UnlockedBy(m, p) \in Ids /\ \A k \in Encrypted(m) : m.crypted[k] = UnlockedBy(m, p)
        BY <2>1
    <2>. QED
        BY <2>2 DEF Encrypted
<1>. QED
    BY <1>4, <1>5

(* The records of a transaction are not the absence of one. *)
LEMMA RecordsInTxn == txn \in Records => InTxn
<1>. SUFFICES ASSUME txn \in Records, txn = NoTxn PROVE FALSE
    BY DEF InTxn
<1>1. DOMAIN txn = {"plain", "crypted", "master"}
    BY DEF Records
<1>2. DOMAIN txn = {"open"}
    BY DEF NoTxn
<1>. QED
    BY <1>1, <1>2

(* While EncryptKeys runs, its transaction is open: the key is encrypted there, or
   the process ends. *)
LEMMA EncryptKeyIs ==
    ASSUME IInv, "erase" \notin Failures, NEW k \in Keys, EncryptKey(k)
    PROVE  /\ mem.up /\ step.at = "keys" /\ k \in step.todo
           /\ UNCHANGED <<disk, slack, nextId, given, known>>
           /\ \/ mem' = Stopped /\ txn' = NoTxn /\ step' = Rest
              \/ /\ mem' = [mem EXCEPT !.crypted[k] = nextId - 1]
                 /\ txn' = WithCrypted(txn, k, nextId - 1)
                 /\ step' = [step EXCEPT !.todo = step.todo \ {k}]
<1>1. mem.up /\ step.at = "keys" /\ k \in step.todo /\ UNCHANGED <<nextId, given, known>>
    BY DEF EncryptKey
<1>2. InTxn
    BY <1>1, RecordsInTxn DEF IInv, Stage, HalfWay
<1>3. WriteCryptedKey(k, TRUE) => txn' = WithCrypted(txn, k, nextId - 1) /\ UNCHANGED <<disk, slack>>
    BY <1>2 DEF WriteCryptedKey
<1>4. Fails("erase") = {FALSE}
    BY DEF Fails
<1>5. PICK fail \in Fails("ckey"), kept \in Fails("erase") :
          IF fail
          THEN mem' = Stopped /\ txn' = NoTxn /\ step' = Rest /\ UNCHANGED <<disk, slack>>
          ELSE /\ mem' = [mem EXCEPT !.crypted[k] = nextId - 1]
               /\ WriteCryptedKey(k, ~kept)
               /\ step' = [step EXCEPT !.todo = step.todo \ {k}]
    BY Zenon DEF EncryptKey
<1>6. kept = FALSE /\ (~kept) = TRUE
    BY <1>4, <1>5
<1>. QED
    BY <1>1, <1>3, <1>5, <1>6

(* A new wallet is not encrypted. *)
LEMMA IInvInit == Init => IInv
<1>. SUFFICES ASSUME Init PROVE IInv
    OBVIOUS
<1>. USE CryptAssumption
<1>1. PICK K \in SUBSET Keys :
          /\ K # {} /\ given = K
          /\ disk = [plain |-> K, crypted |-> [k \in Keys |-> 0], master |-> [i \in Ids |-> None]]
    BY DEF Init
<1>2. Encrypted(disk) = {} /\ disk \in Records
    BY <1>1 DEF Encrypted, Records
<1>3. mem = [up |-> TRUE, plain |-> disk.plain, crypted |-> disk.crypted, master |-> disk.master,
             fUseCrypto |-> FALSE, vMasterKey |-> 0, pwalletdbEncryption |-> FALSE]
    BY <1>2 DEF Init, Loaded
<1>4. mem \in Memory
    BY <1>2, <1>3 DEF Memory, Records
<1>5. TypeOK
    BY <1>1, <1>2, <1>4 DEF TypeOK, Init, Rest, NoTxn
<1>6. Recoverable /\ Filed
    BY <1>1, <1>2 DEF Recoverable, Filed, OneKind
<1>7. Clear
    BY <1>1, <1>3 DEF Clear
<1>8. mem.up /\ ~mem.fUseCrypto
    BY <1>3
<1>9. step = Rest /\ txn = NoTxn /\ step.at = "idle"
    BY DEF Init, Rest
<1>10. Stage
    BY <1>7, <1>8, <1>9 DEF Stage
<1>. QED
    BY <1>5, <1>6, <1>10 DEF IInv

(* Whatever ends the process leaves the file as it is. *)
LEMMA StoppedKeeps ==
    ASSUME IInv, mem' = Stopped, txn' = NoTxn, step' = Rest,
           UNCHANGED <<disk, slack, nextId, given, known>>
    PROVE  IInv'
<1>. USE DEF IInv
<1>1. mem' = [mem EXCEPT !.up = FALSE, !.vMasterKey = 0]
    BY DEF Stopped
<1>2. mem' \in Memory /\ ~mem'.up
    <2>1. 0 \in 0 .. MaxAttempts
        BY CryptAssumption
    <2>2. mem' \in Memory
        BY <1>1, <2>1 DEF TypeOK, Memory
    <2>3. mem'.up = FALSE
        BY <1>1 DEF TypeOK, Memory
    <2>. QED
        BY <2>2, <2>3
<1>3. step'.at = "idle"
    BY DEF Rest
<1>4. TypeOK'
    BY <1>2 DEF TypeOK, Rest
<1>5. Recoverable' /\ Filed'
    BY DEF Recoverable, Filed, OneKind, Encrypted
<1>6. Stage'
    BY <1>2, <1>3 DEF Stage
<1>. QED
    BY <1>4, <1>5, <1>6

(* EncryptWallet up to the beginning of the transaction changes the map of master
   keys only. *)
LEMMA EncryptWalletKeeps ==
    ASSUME IInv, NEW p \in Passphrases, EncryptWallet(p)
    PROVE  IInv'
<1>. USE CryptAssumption DEF IInv
<1>1. mem.up /\ step = Rest /\ ~mem.fUseCrypto /\ nextId \in Ids /\ nextId' = nextId + 1
      /\ mem' = [mem EXCEPT !.master[nextId] = p, !.pwalletdbEncryption = TRUE]
      /\ UNCHANGED <<disk, slack, given>>
    BY DEF EncryptWallet, Free
<1>2. PICK fail \in BOOLEAN :
          /\ txn' = IF fail THEN NoTxn ELSE disk
          /\ step' = IF fail THEN Rest ELSE [at |-> "mkey", pass |-> p, todo |-> mem.plain]
          /\ known' = IF fail THEN known ELSE known \cup {p}
    BY DEF EncryptWallet, Fails
<1>3. Clear
    BY <1>1 DEF Stage, Rest
<1>4. mem' \in Memory
    BY <1>1 DEF TypeOK, Memory, Ids
<1>5. mem'.plain = mem.plain /\ mem'.crypted = mem.crypted /\ mem'.fUseCrypto = mem.fUseCrypto
      /\ mem'.vMasterKey = mem.vMasterKey /\ mem'.up = mem.up
    BY <1>1 DEF TypeOK, Memory
<1>6. nextId' \in 1 .. MaxAttempts + 1 /\ nextId' - 1 \in Ids
    BY <1>1 DEF Ids
<1>7. mem.plain \subseteq Keys /\ disk \in Records
    BY DEF TypeOK, Memory
<1>8. Clear'
    BY <1>1, <1>3, <1>5 DEF Clear
<1>9. Filed'
    BY <1>1 DEF Filed, OneKind, Encrypted
<1>10. CASE fail
    <2>1. txn' = NoTxn /\ step' = Rest /\ known' = known /\ step'.at = "idle"
        BY <1>2, <1>10 DEF Rest
    <2>2. TypeOK'
        BY <1>1, <1>4, <1>6, <2>1 DEF TypeOK, Rest
    <2>3. Recoverable'
        BY <1>1, <2>1 DEF Recoverable
    <2>4. Stage'
        BY <1>1, <1>5, <1>8, <2>1 DEF Stage
    <2>. QED
        BY <1>9, <2>2, <2>3, <2>4
<1>11. CASE ~fail
    <2>1. txn' = disk /\ step' = [at |-> "mkey", pass |-> p, todo |-> mem.plain]
          /\ known' = known \cup {p}
        BY <1>2, <1>11
    <2>2. TypeOK'
        BY <1>1, <1>4, <1>6, <1>7, <2>1 DEF TypeOK
    <2>3. Recoverable'
        BY <1>1, <2>1 DEF Recoverable
    <2>4. Stage'
        BY <1>1, <1>5, <1>6, <1>8, <2>1 DEF Stage
    <2>. QED
        BY <1>9, <2>2, <2>3, <2>4
<1>. QED
    BY <1>10, <1>11

(* The master key is in the transaction before the first encrypted key is. *)
LEMMA WriteMasterKeyKeeps ==
    ASSUME IInv, "mkey" \notin Failures, WriteMasterKey
    PROVE  IInv'
<1>. USE CryptAssumption DEF IInv
<1>1. mem.up /\ step.at = "mkey" /\ txn' = [txn EXCEPT !.master[nextId - 1] = step.pass]
      /\ step' = [step EXCEPT !.at = "keys"] /\ mem' = [mem EXCEPT !.fUseCrypto = TRUE]
      /\ UNCHANGED <<disk, slack, nextId, given, known>>
    BY DEF WriteMasterKey, Fails
<1>2. Clear /\ txn = disk /\ step.todo = mem.plain /\ step.pass \in known /\ nextId - 1 \in Ids
    BY <1>1 DEF Stage
<1>3. mem' \in Memory
    BY <1>1 DEF TypeOK, Memory
<1>4. mem'.plain = mem.plain /\ mem'.crypted = mem.crypted /\ mem'.fUseCrypto
      /\ mem'.vMasterKey = mem.vMasterKey /\ mem'.up = mem.up
    BY <1>1 DEF TypeOK, Memory
<1>5. step'.at = "keys" /\ step'.todo = step.todo /\ step'.pass = step.pass
    BY <1>1 DEF TypeOK
<1>6. txn' \in Records /\ txn'.master[nextId - 1] = step.pass
      /\ txn'.plain = disk.plain /\ txn'.crypted = disk.crypted
    BY <1>1, <1>2 DEF TypeOK, Records
<1>7. TypeOK'
    <2>1. step' \in [at : {"idle", "mkey", "keys", "pool", "rewrite"},
                     pass : Passphrases \cup {None}, todo : SUBSET Keys]
        BY <1>1 DEF TypeOK
    <2>. QED
        BY <1>1, <1>3, <1>6, <2>1 DEF TypeOK
<1>8. Recoverable' /\ Filed'
    BY <1>1 DEF Recoverable, Filed, OneKind, Encrypted
<1>9. HalfWay'
    BY <1>1, <1>2, <1>4, <1>5, <1>6 DEF HalfWay, Clear
<1>10. Stage'
    BY <1>1, <1>4, <1>5, <1>9 DEF Stage
<1>. QED
    BY <1>7, <1>8, <1>10

(* One more key is encrypted, in memory and in the transaction alike. *)
LEMMA EncryptKeyKeeps ==
    ASSUME IInv, "erase" \notin Failures, NEW k \in Keys, EncryptKey(k)
    PROVE  IInv'
<1>. USE CryptAssumption DEF IInv
<1>1. PICK fail \in BOOLEAN :
          IF fail
          THEN mem' = Stopped /\ txn' = NoTxn /\ step' = Rest
          ELSE /\ mem' = [mem EXCEPT !.crypted[k] = nextId - 1]
               /\ txn' = WithCrypted(txn, k, nextId - 1)
               /\ step' = [step EXCEPT !.todo = step.todo \ {k}]
    BY EncryptKeyIs
<1>2. mem.up /\ step.at = "keys" /\ k \in step.todo
      /\ UNCHANGED <<disk, slack, nextId, given, known>>
    BY EncryptKeyIs
<1>3. CASE fail
    BY <1>1, <1>2, <1>3, StoppedKeeps
<1>4. CASE ~fail
    <2>1. HalfWay
        BY <1>2 DEF Stage
    <2>2. nextId - 1 \in 0 .. MaxAttempts /\ nextId - 1 # 0
        BY <2>1 DEF HalfWay, Ids
    <2>3. mem' = [mem EXCEPT !.crypted[k] = nextId - 1]
        BY <1>1, <1>4
    <2>4. mem' \in Memory
        BY <2>2, <2>3 DEF TypeOK, Memory
    <2>5. /\ mem'.plain = mem.plain /\ mem'.fUseCrypto = mem.fUseCrypto
          /\ mem'.vMasterKey = mem.vMasterKey /\ mem'.up = mem.up
          /\ \A l \in Keys : mem'.crypted[l] = IF l = k THEN nextId - 1 ELSE mem.crypted[l]
        BY <2>3 DEF TypeOK, Memory
    <2>6. txn' = [txn EXCEPT !.plain = txn.plain \ {k}, !.crypted[k] = nextId - 1]
        BY <1>1, <1>4 DEF WithCrypted
    <2>7. txn' \in Records
        BY <2>1, <2>2, <2>6 DEF HalfWay, Records
    <2>8. /\ txn'.plain = txn.plain \ {k} /\ txn'.master = txn.master
          /\ \A l \in Keys : txn'.crypted[l] = IF l = k THEN nextId - 1 ELSE txn.crypted[l]
        BY <2>1, <2>6 DEF HalfWay, Records
    <2>9. step' = [step EXCEPT !.todo = step.todo \ {k}]
        BY <1>1, <1>4
    <2>10. /\ step'.at = "keys" /\ step'.todo = step.todo \ {k} /\ step'.pass = step.pass
           /\ step' \in [at : {"idle", "mkey", "keys", "pool", "rewrite"},
                         pass : Passphrases \cup {None}, todo : SUBSET Keys]
        BY <1>2, <2>9 DEF TypeOK
    <2>11. TypeOK'
        BY <1>2, <2>4, <2>7, <2>10 DEF TypeOK
    <2>12. Recoverable' /\ Filed'
        BY <1>2 DEF Recoverable, Filed, OneKind, Encrypted
    <2>13. HalfWay'
        BY <1>2, <2>1, <2>5, <2>7, <2>8, <2>10 DEF HalfWay
    <2>14. Stage'
        BY <1>2, <2>5, <2>10, <2>13 DEF Stage
    <2>. QED
        BY <2>11, <2>12, <2>14
<1>. QED
    BY <1>3, <1>4

(* The commit: every key that was handed out was in the file in the clear, hence
   in memory, and is now encrypted under the master key of this attempt. *)
LEMMA CommitKeeps ==
    ASSUME IInv, Commit
    PROVE  IInv'
<1>. USE CryptAssumption DEF IInv
<1>1. mem.up /\ step.at = "keys" /\ step.todo = {} /\ txn' = NoTxn
      /\ UNCHANGED <<nextId, given, known>>
    BY DEF Commit
<1>0. InTxn
    BY <1>1, RecordsInTxn DEF Stage, HalfWay
<1>2. PICK fail \in BOOLEAN :
          IF fail
          THEN mem' = Stopped /\ step' = Rest /\ UNCHANGED <<disk, slack>>
          ELSE /\ disk' = txn
               /\ slack' = slack \cup (disk.plain \ txn.plain)
               /\ mem' = [mem EXCEPT !.plain = {}, !.pwalletdbEncryption = FALSE]
               /\ step' = [step EXCEPT !.at = "pool"]
    BY <1>0 DEF Commit, Fails
<1>3. CASE fail
    BY <1>1, <1>2, <1>3, StoppedKeeps
<1>4. CASE ~fail
    <2>1. HalfWay
        BY <1>1 DEF Stage
    <2>2. disk' = txn /\ disk' \in Records /\ disk.plain \subseteq Keys
        BY <1>2, <1>4, <2>1 DEF HalfWay, TypeOK, Records
    <2>3. disk'.plain = {}
        BY <1>1, <2>1, <2>2 DEF HalfWay, Records
    <2>4. mem' = [mem EXCEPT !.plain = {}, !.pwalletdbEncryption = FALSE]
        BY <1>2, <1>4
    <2>5. mem' \in Memory
        BY <2>4 DEF TypeOK, Memory
    <2>6. mem'.plain = {} /\ mem'.crypted = mem.crypted /\ mem'.fUseCrypto = mem.fUseCrypto
          /\ mem'.vMasterKey = mem.vMasterKey /\ mem'.up = mem.up
        BY <2>4 DEF TypeOK, Memory
    <2>7. step' = [step EXCEPT !.at = "pool"]
        BY <1>2, <1>4
    <2>8. step'.at = "pool" /\ step' \in [at : {"idle", "mkey", "keys", "pool", "rewrite"},
                                          pass : Passphrases \cup {None}, todo : SUBSET Keys]
        BY <2>7 DEF TypeOK
    <2>9. TypeOK'
        BY <1>1, <1>2, <1>4, <2>2, <2>5, <2>8 DEF TypeOK
    <2>10. \A k \in given : k \in Keys /\ k \in disk.plain
        BY <2>1 DEF Recoverable, TypeOK, HalfWay
    <2>11. nextId - 1 \in Ids /\ nextId - 1 # 0
        BY <2>1 DEF HalfWay, Ids
    <2>12. \A k \in given : disk'.crypted[k] = nextId - 1
        BY <1>1, <2>1, <2>2, <2>10 DEF HalfWay
    <2>13. Recoverable'
        BY <1>1, <2>1, <2>2, <2>11, <2>12 DEF Recoverable, HalfWay
    <2>14. \A k \in Keys : disk'.crypted[k] \in {0, nextId - 1}
        BY <1>1, <2>1, <2>2 DEF HalfWay
    <2>15. Filed'
        BY <1>1, <2>3, <2>14 DEF Filed, OneKind
    <2>16. \E k \in Keys : disk'.crypted[k] # 0
        BY <2>10, <2>11, <2>12 DEF Filed
    <2>17. Sealed(nextId - 1)'
        <3>1. \A k \in Keys : mem'.crypted[k] = disk'.crypted[k]
            BY <2>1, <2>2, <2>6 DEF HalfWay
        <3>2. mem'.vMasterKey = 0
            BY <2>1, <2>6 DEF HalfWay
        <3>. QED
            BY <1>1, <2>3, <2>6, <2>14, <2>16, <3>1, <3>2 DEF Sealed
    <2>18. \E id \in Ids : Sealed(id)'
        BY <1>1, <2>11, <2>17
    <2>19. Stage'
        BY <1>1, <2>1, <2>6, <2>8, <2>18 DEF Stage, HalfWay
    <2>. QED
        BY <2>9, <2>13, <2>15, <2>19
<1>. QED
    BY <1>3, <1>4

(* Encrypted stays encrypted under the same master key: what the operations on an
   encrypted wallet have in common. *)
LEMMA SealedKeeps ==
    ASSUME IInv, NEW id \in Ids, Sealed(id), mem.fUseCrypto,
           mem' \in Memory, disk' \in Records, step' \in [at : {"idle", "pool", "rewrite"},
                                pass : Passphrases \cup {None}, todo : SUBSET Keys],
           Sealed(id)', mem'.fUseCrypto, mem'.up, step'.at = "idle" => step' = Rest,
           txn = NoTxn, UNCHANGED <<txn, slack, nextId>>,
           known' \subseteq Passphrases, given' \subseteq Keys, given \subseteq given', Recoverable'
    PROVE  IInv'
<1>. USE CryptAssumption DEF IInv
<1>1. TypeOK'
    BY DEF TypeOK
<1>2. \A k, l \in Keys : disk'.crypted[k] # 0 /\ disk'.crypted[l] # 0 => disk'.crypted[k] = disk'.crypted[l]
    BY DEF Sealed
<1>3. Filed'
    BY <1>2 DEF Filed, OneKind, Sealed
<1>4. \E i \in Ids : Sealed(i)'
    OBVIOUS
<1>5. Stage'
    BY <1>4 DEF Stage
<1>. QED
    BY <1>1, <1>3, <1>5

(* The master key that Unlock finds is the one that the file is encrypted under. *)
LEMMA SealedUnlock ==
    ASSUME IInv, NEW id \in Ids, Sealed(id), NEW p, UnlockedBy(mem, p) # 0
    PROVE  UnlockedBy(mem, p) = id
<1>1. mem.crypted \in [Keys -> 0 .. MaxAttempts]
    BY DEF IInv, TypeOK, Memory
<1>2. PICK k \in Keys : disk.crypted[k] # 0
    BY DEF Sealed
<1>3. mem.crypted[k] = id /\ id # 0
    BY <1>2, CryptAssumption DEF Sealed, Ids
<1>4. mem.crypted[k] \in {0, UnlockedBy(mem, p)}
    BY <1>1, UnlockedByIs
<1>. QED
    BY <1>3, <1>4

(* The new key of the pool is encrypted under the same master key. *)
LEMMA NewKeyPoolKeeps ==
    ASSUME IInv, NewKeyPool
    PROVE  IInv'
<1>. USE CryptAssumption DEF IInv
<1>1. mem.up /\ step.at = "pool" /\ UNCHANGED <<txn, slack, nextId, given, known>>
    BY DEF NewKeyPool
<1>2. mem.fUseCrypto /\ txn = NoTxn
    BY <1>1 DEF Stage
<1>3. PICK id \in Ids : Sealed(id)
    BY <1>1 DEF Stage
<1>4. [mem EXCEPT !.vMasterKey = 0].crypted = mem.crypted
      /\ [mem EXCEPT !.vMasterKey = 0].master = mem.master
    BY DEF TypeOK, Memory
<1>. DEFINE u == UnlockedBy([mem EXCEPT !.vMasterKey = 0], step.pass)
<1>5. u = UnlockedBy(mem, step.pass)
    BY <1>4 DEF UnlockedBy, Encrypted
<1>6. u \in {0, id} /\ id \in 0 .. MaxAttempts /\ id # 0 /\ u \in 0 .. MaxAttempts
    BY <1>3, <1>5, SealedUnlock DEF Ids
<1>. HIDE DEF u
<1>7. CASE /\ mem' = [mem EXCEPT !.vMasterKey = u]
           /\ step' = [step EXCEPT !.at = "rewrite"]
           /\ UNCHANGED disk
    <2>1. mem' \in Memory
        BY <1>6, <1>7 DEF TypeOK, Memory
    <2>2. mem'.plain = mem.plain /\ mem'.crypted = mem.crypted /\ mem'.vMasterKey = u
        BY <1>7 DEF TypeOK, Memory
    <2>3. mem'.fUseCrypto = mem.fUseCrypto /\ mem'.up = mem.up
        BY <1>7 DEF TypeOK, Memory
    <2>4. step'.at = "rewrite" /\ step' \in [at : {"idle", "pool", "rewrite"},
                                             pass : Passphrases \cup {None}, todo : SUBSET Keys]
        BY <1>7 DEF TypeOK
    <2>5. Sealed(id)'
        BY <1>3, <1>6, <1>7, <2>2 DEF Sealed
    <2>6. Recoverable'
        BY <1>1, <1>7 DEF Recoverable
    <2>7. disk' \in Records /\ known' \subseteq Passphrases /\ given' \subseteq Keys
        BY <1>1, <1>7 DEF TypeOK
    <2>. QED
        BY <1>1, <1>2, <1>3, <2>1, <2>3, <2>4, <2>5, <2>6, <2>7, SealedKeeps
<1>8. ASSUME u # 0, NEW k \in Keys, NEW fail \in BOOLEAN,
             mem.crypted[k] = 0 /\ k \notin mem.plain,
             mem' = [mem EXCEPT !.vMasterKey = u, !.crypted[k] = u],
             disk' = IF fail THEN disk ELSE WithCrypted(disk, k, u),
             step' = IF fail THEN Rest ELSE [step EXCEPT !.at = "rewrite"]
      PROVE  IInv'
    <2>0. u = id
        BY <1>6, <1>8
    <2>1. mem' \in Memory
        BY <1>6, <1>8 DEF TypeOK, Memory
    <2>2. /\ mem'.plain = mem.plain /\ mem'.vMasterKey = u
          /\ \A l \in Keys : mem'.crypted[l] = IF l = k THEN u ELSE mem.crypted[l]
        BY <1>8 DEF TypeOK, Memory
    <2>3. mem'.fUseCrypto = mem.fUseCrypto /\ mem'.up = mem.up
        BY <1>8 DEF TypeOK, Memory
    <2>4. step' \in [at : {"idle", "pool", "rewrite"},
                     pass : Passphrases \cup {None}, todo : SUBSET Keys]
        BY <1>8 DEF TypeOK, Rest
    <2>5. step'.at = "idle" => step' = Rest
        BY <1>8 DEF TypeOK
    <2>6. disk.crypted[k] = 0 /\ k \notin given
        <3>1. disk.crypted[k] = 0
            BY <1>3, <1>8 DEF Sealed
        <3>. QED
            BY <3>1, <1>3 DEF Sealed, Recoverable
    <2>7. /\ disk' \in Records /\ disk'.plain = {} /\ disk'.master = disk.master
          /\ \A l \in Keys : l # k => disk'.crypted[l] = disk.crypted[l]
          /\ disk'.crypted[k] \in {0, u}
        <3>1. CASE fail
            BY <3>1, <1>3, <1>8, <2>6 DEF Sealed, TypeOK
        <3>2. CASE ~fail
            <4>1. disk' = [disk EXCEPT !.plain = disk.plain \ {k}, !.crypted[k] = u]
                BY <3>2, <1>8 DEF WithCrypted
            <4>. QED
                BY <4>1, <1>3, <1>6 DEF Sealed, TypeOK, Records
        <3>. QED
            BY <3>1, <3>2
    <2>8. Sealed(id)'
        BY <1>3, <2>0, <2>2, <2>6, <2>7 DEF Sealed
    <2>9. Recoverable'
        BY <1>1, <1>3, <2>6, <2>7 DEF Recoverable, Sealed, TypeOK
    <2>10. known' \subseteq Passphrases /\ given' \subseteq Keys
        BY <1>1 DEF TypeOK
    <2>. QED
        BY <1>1, <1>2, <1>3, <2>1, <2>3, <2>4, <2>5, <2>7, <2>8, <2>9, <2>10, SealedKeeps
<1>. QED
    BY <1>7, <1>8 DEF NewKeyPool, u, Fails

(* Rewrite, Lock and Unlock change the master key in memory only. *)
LEMMA UnlockKeeps ==
    ASSUME IInv, Rewrite \/ Lock \/ \E p \in Passphrases : Unlock(p)
    PROVE  IInv'
<1>. USE CryptAssumption DEF IInv
<1>1. mem.up /\ UNCHANGED <<disk, txn, slack, nextId, given, known>>
    BY DEF Rewrite, Lock, Unlock, Free
<1>2. mem.fUseCrypto /\ txn = NoTxn /\ step' = Rest /\ \E id \in Ids : Sealed(id)
    BY DEF Rewrite, Lock, Unlock, Free, Stage, Rest
<1>3. PICK id \in Ids : Sealed(id)
    BY <1>2
<1>4. PICK v : (v = 0 \/ \E p \in Passphrases : v = UnlockedBy(mem, p))
               /\ mem' = [mem EXCEPT !.vMasterKey = v]
    BY DEF Rewrite, Lock, Unlock
<1>5. v \in {0, id} /\ v \in 0 .. MaxAttempts
    BY <1>3, <1>4, SealedUnlock DEF Ids
<1>6. mem' \in Memory
    BY <1>4, <1>5 DEF TypeOK, Memory
<1>7. mem'.plain = mem.plain /\ mem'.crypted = mem.crypted /\ mem'.vMasterKey = v
    BY <1>4 DEF TypeOK, Memory
<1>8. mem'.fUseCrypto = mem.fUseCrypto /\ mem'.up = mem.up
    BY <1>4 DEF TypeOK, Memory
<1>9. step' \in [at : {"idle", "pool", "rewrite"},
                 pass : Passphrases \cup {None}, todo : SUBSET Keys]
    BY <1>2 DEF Rest
<1>10. Sealed(id)'
    BY <1>1, <1>3, <1>5, <1>7 DEF Sealed
<1>11. Recoverable'
    BY <1>1 DEF Recoverable
<1>12. disk' \in Records /\ known' \subseteq Passphrases /\ given' \subseteq Keys
    BY <1>1 DEF TypeOK
<1>. QED
    BY <1>1, <1>2, <1>3, <1>6, <1>8, <1>9, <1>10, <1>11, <1>12, SealedKeeps

(* The master key that the old passphrase opens is the one that every key in the
   file is encrypted under; with the new passphrase it opens them all. *)
LEMMA ChangeKeeps ==
    ASSUME IInv, "change" \notin Failures, NEW old \in Passphrases, NEW new \in Passphrases,
           ChangeWalletPassphrase(old, new)
    PROVE  IInv'
<1>. USE CryptAssumption DEF IInv
<1>1. mem.up /\ mem.fUseCrypto /\ step = Rest /\ UNCHANGED <<txn, slack, step, nextId, given>>
    BY DEF ChangeWalletPassphrase, Free
<1>2. txn = NoTxn /\ step'.at = "idle" /\ \E id \in Ids : Sealed(id)
    BY <1>1 DEF Stage, Rest
<1>3. PICK id \in Ids : Sealed(id)
    BY <1>2
<1>4. step' \in [at : {"idle", "pool", "rewrite"},
                 pass : Passphrases \cup {None}, todo : SUBSET Keys]
    BY <1>1 DEF Rest
<1>5. CASE UnlockedBy(mem, old) = 0
    <2>1. mem' = [mem EXCEPT !.vMasterKey = 0] /\ UNCHANGED <<disk, known>>
        BY <1>5 DEF ChangeWalletPassphrase
    <2>2. mem' \in Memory
        BY <2>1 DEF TypeOK, Memory
    <2>3. mem'.plain = mem.plain /\ mem'.crypted = mem.crypted /\ mem'.vMasterKey = 0
        BY <2>1 DEF TypeOK, Memory
    <2>4. mem'.fUseCrypto = mem.fUseCrypto /\ mem'.up = mem.up
        BY <2>1 DEF TypeOK, Memory
    <2>5. Sealed(id)' /\ Recoverable'
        BY <1>1, <1>3, <2>1, <2>3 DEF Sealed, Recoverable
    <2>6. disk' \in Records /\ known' \subseteq Passphrases /\ given' \subseteq Keys
        BY <1>1, <2>1 DEF TypeOK
    <2>. QED
        BY <1>1, <1>2, <1>3, <1>4, <2>2, <2>4, <2>5, <2>6, SealedKeeps
<1>6. CASE UnlockedBy(mem, old) # 0
    <2>1. UnlockedBy(mem, old) = id
        BY <1>3, <1>6, SealedUnlock
    <2>2. mem' = [mem EXCEPT !.master[id] = new] /\ known' = {new}
          /\ disk' = [disk EXCEPT !.master[id] = new]
        BY <1>6, <2>1 DEF ChangeWalletPassphrase, Fails
    <2>3. mem' \in Memory
        BY <2>2 DEF TypeOK, Memory
    <2>4. mem'.plain = mem.plain /\ mem'.crypted = mem.crypted /\ mem'.vMasterKey = mem.vMasterKey
        BY <2>2 DEF TypeOK, Memory
    <2>5. mem'.fUseCrypto = mem.fUseCrypto /\ mem'.up = mem.up
        BY <2>2 DEF TypeOK, Memory
    <2>6. disk' \in Records /\ disk'.plain = disk.plain /\ disk'.crypted = disk.crypted
          /\ disk'.master[id] = new
        BY <2>2 DEF TypeOK, Records
    <2>7. Sealed(id)'
        BY <1>3, <2>4, <2>6 DEF Sealed
    <2>8. \A k \in given : k \in Keys /\ disk.crypted[k] = id /\ id # 0
        BY <1>3 DEF Recoverable, Sealed, TypeOK, Ids
    <2>9. Recoverable'
        BY <1>1, <2>2, <2>6, <2>8 DEF Recoverable
    <2>10. known' \subseteq Passphrases /\ given' \subseteq Keys
        BY <1>1, <2>2 DEF TypeOK
    <2>. QED
        BY <1>1, <1>2, <1>3, <1>4, <2>3, <2>5, <2>6, <2>7, <2>9, <2>10, SealedKeeps
<1>. QED
    BY <1>5, <1>6

(* A new key is handed out only when the file has it. *)
LEMMA GenerateNewKeyKeeps ==
    ASSUME IInv, NEW k \in Keys, GenerateNewKey(k)
    PROVE  IInv'
<1>. USE CryptAssumption DEF IInv
<1>1. mem.up /\ step = Rest /\ k \notin mem.plain /\ mem.crypted[k] = 0
      /\ UNCHANGED <<txn, slack, step, nextId, known>>
    BY DEF GenerateNewKey, Free
<1>2. txn = NoTxn /\ step.at = "idle"
    BY <1>1 DEF Stage, Rest
<1>3. PICK fail \in BOOLEAN :
          /\ given' = IF fail THEN given ELSE given \cup {k}
          /\ disk' = IF fail THEN disk
                     ELSE IF mem.fUseCrypto THEN WithCrypted(disk, k, mem.vMasterKey)
                     ELSE [disk EXCEPT !.plain = disk.plain \cup {k}]
    BY DEF GenerateNewKey, Fails
<1>4. CASE mem.fUseCrypto
    <2>1. PICK id \in Ids : Sealed(id)
        BY <1>1, <1>2, <1>4 DEF Stage
    <2>2. mem.vMasterKey = id /\ id # 0 /\ id \in 0 .. MaxAttempts
        BY <1>4, <2>1 DEF GenerateNewKey, Sealed, Ids
    <2>3. mem' = [mem EXCEPT !.crypted[k] = id]
        BY <1>4, <2>2 DEF GenerateNewKey
    <2>4. mem' \in Memory
        BY <2>2, <2>3 DEF TypeOK, Memory
    <2>5. /\ mem'.plain = mem.plain /\ mem'.vMasterKey = mem.vMasterKey
          /\ \A l \in Keys : mem'.crypted[l] = IF l = k THEN id ELSE mem.crypted[l]
        BY <2>3 DEF TypeOK, Memory
    <2>6. mem'.fUseCrypto = mem.fUseCrypto /\ mem'.up = mem.up
        BY <2>3 DEF TypeOK, Memory
    <2>7. disk.crypted[k] = 0
        BY <1>1, <2>1 DEF Sealed
    <2>8. /\ disk' \in Records /\ disk'.plain = {} /\ disk'.master = disk.master
          /\ \A l \in Keys : l # k => disk'.crypted[l] = disk.crypted[l]
          /\ disk'.crypted[k] = IF fail THEN 0 ELSE id
        <3>1. CASE fail
            BY <3>1, <1>3, <2>1, <2>7 DEF Sealed, TypeOK
        <3>2. CASE ~fail
            <4>1. disk' = [disk EXCEPT !.plain = disk.plain \ {k}, !.crypted[k] = id]
                BY <3>2, <1>3, <1>4, <2>2 DEF WithCrypted
            <4>. QED
                BY <4>1, <3>2, <2>1, <2>2 DEF Sealed, TypeOK, Records
        <3>. QED
            BY <3>1, <3>2
    <2>9. Sealed(id)'
        BY <2>1, <2>2, <2>5, <2>7, <2>8 DEF Sealed
    <2>10. PICK l \in given : l \in Keys /\ disk.crypted[l] = id /\ disk.master[id] \in known
        BY <2>1 DEF Filed, Recoverable, Sealed, TypeOK
    <2>11. Recoverable'
        <3>1. ASSUME NEW j \in given' PROVE disk'.crypted[j] # 0 /\ disk'.master[disk'.crypted[j]] \in known'
            <4>1. CASE j \in given
                BY <4>1, <1>1, <2>1, <2>7, <2>8 DEF Recoverable, Sealed, TypeOK
            <4>2. CASE j \notin given
                <5>1. ~fail /\ j = k
                    BY <4>2, <1>3
                <5>. QED
                    BY <5>1, <1>1, <2>2, <2>8, <2>10
            <4>. QED
                BY <4>1, <4>2
        <3>. QED
            BY <3>1 DEF Recoverable
    <2>12. known' \subseteq Passphrases /\ given' \subseteq Keys /\ given \subseteq given'
        BY <1>1, <1>3 DEF TypeOK
    <2>13. step' = Rest /\ step' \in [at : {"idle", "pool", "rewrite"},
                        pass : Passphrases \cup {None}, todo : SUBSET Keys]
        BY <1>1 DEF Rest
    <2>. QED
        BY <1>1, <1>2, <1>4, <2>1, <2>4, <2>6, <2>8, <2>9, <2>11, <2>12, <2>13, SealedKeeps
<1>5. CASE ~mem.fUseCrypto
    <2>1. Clear
        BY <1>1, <1>2, <1>5 DEF Stage
    <2>2. mem' = [mem EXCEPT !.plain = mem.plain \cup {k}]
        BY <1>5 DEF GenerateNewKey
    <2>3. mem' \in Memory
        BY <2>2 DEF TypeOK, Memory
    <2>4. mem'.plain = mem.plain \cup {k} /\ mem'.crypted = mem.crypted
          /\ mem'.vMasterKey = mem.vMasterKey
        BY <2>2 DEF TypeOK, Memory
    <2>5. mem'.fUseCrypto = mem.fUseCrypto /\ mem'.up = mem.up
        BY <2>2 DEF TypeOK, Memory
    <2>6. /\ disk' \in Records /\ disk'.crypted = disk.crypted
          /\ disk'.plain = IF fail THEN disk.plain ELSE disk.plain \cup {k}
        BY <1>3, <1>5 DEF TypeOK, Records
    <2>7. TypeOK'
        BY <1>1, <1>3, <2>3, <2>6 DEF TypeOK
    <2>8. \A l \in given : l \in disk.plain
        BY <2>1 DEF Recoverable, Clear, TypeOK
    <2>9. Recoverable'
        BY <1>3, <2>6, <2>8 DEF Recoverable
    <2>10. Encrypted(disk)' = {}
        BY <2>1, <2>6 DEF Clear, Encrypted
    <2>11. Filed'
        BY <1>3, <2>1, <2>6, <2>10 DEF Filed, OneKind, Clear
    <2>12. Clear'
        <3>1. \A l \in Keys : disk'.crypted[l] = 0 /\ mem'.crypted[l] = 0
            BY <2>1, <2>4, <2>6 DEF Clear
        <3>2. disk.plain \subseteq mem.plain /\ mem'.vMasterKey = 0
            BY <2>1, <2>4 DEF Clear
        <3>3. disk'.plain \subseteq mem'.plain
            BY <2>4, <2>6, <3>2
        <3>. QED
            BY <3>1, <3>2, <3>3 DEF Clear
    <2>13. Stage'
        BY <1>1, <1>2, <1>5, <2>5, <2>12 DEF Stage
    <2>. QED
        BY <2>7, <2>9, <2>11, <2>13
<1>. QED
    BY <1>4, <1>5

(* LoadWallet finds a file with keys of one kind. *)
LEMMA StartKeeps ==
    ASSUME IInv, Start
    PROVE  IInv'
<1>. USE CryptAssumption DEF IInv
<1>1. UNCHANGED <<disk, txn, slack, step, nextId, given, known>> /\ mem' = Loaded(disk)
    BY DEF Start
<1>2. step = Rest /\ txn = NoTxn /\ step.at = "idle"
    BY DEF Start, Stage, Rest
<1>3. mem' = [up |-> TRUE, plain |-> disk.plain, crypted |-> disk.crypted, master |-> disk.master,
              fUseCrypto |-> Encrypted(disk) # {}, vMasterKey |-> 0, pwalletdbEncryption |-> FALSE]
    BY <1>1 DEF Loaded
<1>4. mem'.plain = disk.plain /\ mem'.crypted = disk.crypted /\ mem'.vMasterKey = 0
    BY <1>3
<1>5. mem'.up /\ (mem'.fUseCrypto <=> Encrypted(disk) # {})
    BY <1>3, Zenon
<1>6. mem' \in Memory
    <2>1. (Encrypted(disk) # {}) \in BOOLEAN
        BY Zenon
    <2>. DEFINE c == Encrypted(disk) # {}
    <2>2. c \in BOOLEAN /\ mem' = [up |-> TRUE, plain |-> disk.plain, crypted |-> disk.crypted,
              master |-> disk.master, fUseCrypto |-> c, vMasterKey |-> 0, pwalletdbEncryption |-> FALSE]
        BY <1>3, <2>1
    <2>. HIDE DEF c
    <2>. QED
        BY <2>2 DEF TypeOK, Records, Memory
<1>7. TypeOK' /\ Recoverable' /\ Filed'
    BY <1>1, <1>6 DEF TypeOK, Recoverable, Filed, OneKind, Encrypted
<1>8. CASE Encrypted(disk) = {}
    <2>1. Clear'
        BY <1>1, <1>4, <1>8 DEF Clear, Encrypted
    <2>. QED
        BY <1>1, <1>2, <1>5, <1>7, <1>8, <2>1 DEF Stage
<1>9. CASE Encrypted(disk) # {}
    <2>1. PICK k \in Keys : disk.crypted[k] # 0
        BY <1>9 DEF Encrypted
    <2>2. disk.crypted[k] \in Ids
        BY <2>1 DEF TypeOK, Records, Ids
    <2>3. disk.plain = {}
        BY <1>9 DEF Filed, OneKind
    <2>4. Sealed(disk.crypted[k])'
        BY <1>1, <1>4, <2>1, <2>3 DEF Sealed, Filed
    <2>5. \E id \in Ids : Sealed(id)'
        BY <1>1, <2>2, <2>4
    <2>. QED
        BY <1>1, <1>2, <1>5, <1>7, <1>9, <2>5 DEF Stage
<1>. QED
    BY <1>8, <1>9

(* Every step keeps the invariant, if the writes that are not looked at succeed. *)
LEMMA IInvNext ==
    ASSUME Failures \cap Ignored = {}
    PROVE  IInv /\ [Next]_vars => IInv'
<1>. SUFFICES ASSUME IInv, [Next]_vars PROVE IInv'
    OBVIOUS
<1>1. "mkey" \notin Failures /\ "change" \notin Failures /\ "erase" \notin Failures
    BY DEF Ignored
<1>2. CASE Stop
    BY <1>2, StoppedKeeps DEF Stop
<1>3. CASE UNCHANGED vars
    BY <1>3 DEF IInv, TypeOK, Recoverable, Filed, OneKind, Encrypted, Stage, Clear, Sealed,
       HalfWay, vars
<1>. QED
    BY <1>1, <1>2, <1>3, EncryptWalletKeeps, WriteMasterKeyKeeps, EncryptKeyKeeps, CommitKeeps,
       NewKeyPoolKeeps, UnlockKeeps, ChangeKeeps, GenerateNewKeyKeeps, StartKeeps DEF Next

(* The wallet in memory and the file agree between two calls. *)
LEMMA AgreedFollows == IInv => Agreed
<1>. SUFFICES ASSUME IInv, Free PROVE (mem.fUseCrypto <=> Encrypted(disk) # {})
                                      /\ (mem.fUseCrypto => mem.plain = {})
    BY DEF Agreed
<1>1. mem.up /\ step.at = "idle"
    BY DEF Free, Rest
<1>2. CASE mem.fUseCrypto
    <2>1. PICK id \in Ids : Sealed(id)
        BY <1>1, <1>2 DEF IInv, Stage
    <2>. QED
        BY <1>2, <2>1 DEF Sealed, Encrypted
<1>3. CASE ~mem.fUseCrypto
    <2>1. Clear
        BY <1>1, <1>3 DEF IInv, Stage
    <2>. QED
        BY <1>3, <2>1 DEF Clear, Encrypted
<1>. QED
    BY <1>2, <1>3

(* For every set of keys and passphrases: a stop of the process between any two
   writes of EncryptWallet, ChangeWalletPassphrase and GenerateNewKey, and the
   failure of every write whose result they look at, leave each key that was handed
   out readable in the wallet file, the file with keys of one kind, and the memory
   in agreement with it.  (The failures of the other three writes can lose keys.) *)
THEOREM KeysRecoverable ==
    ASSUME Failures \cap Ignored = {}
    PROVE  Spec => []KeysKept
<1>1. IInv => KeysKept
    BY AgreedFollows DEF IInv, Filed, KeysKept
<1>. QED
    BY <1>1, IInvInit, IInvNext, PTL DEF Spec
-----------------------------------------------------------------------------
(* The master keys of the file are in memory, under a passphrase of the owner,
   and each of them encrypts a key of the file. *)
Mastered ==
    /\ \A i \in Ids : disk.master[i] # None =>
          /\ disk.master[i] \in known
          /\ mem.up => mem.master[i] = disk.master[i]
          /\ \E k \in Keys : disk.crypted[k] = i
    /\ step.at \in {"mkey", "keys"} => mem.master[nextId - 1] = step.pass
    /\ step.at = "keys" => \A i \in Ids : txn.master[i] # None => i = nextId - 1

(* A file without an encrypted key has no master key. *)
LEMMA NoMaster ==
    ASSUME IInv, Mastered, \A k \in Keys : disk.crypted[k] = 0
    PROVE  \A i \in Ids : disk.master[i] = None
BY CryptAssumption DEF Mastered, Ids

(* The steps of EncryptWallet put the master key they made into the file, together
   with the keys it encrypts. *)
LEMMA EncryptKeepsMastered ==
    ASSUME IInv, Mastered, IInv', "mkey" \notin Failures, "erase" \notin Failures,
           \/ \E p \in Passphrases : EncryptWallet(p)
           \/ WriteMasterKey
           \/ \E k \in Keys : EncryptKey(k)
           \/ Commit
    PROVE  Mastered'
<1>. USE CryptAssumption DEF IInv
<1>0. mem \in Memory /\ disk \in Records /\ txn \in {NoTxn} \cup Records /\ nextId \in Nat
    BY DEF TypeOK
<1>1. ASSUME NEW p \in Passphrases, EncryptWallet(p)
      PROVE  Mastered'
    <2>1. \A i \in Ids : disk.master[i] = None
        BY <1>1, NoMaster DEF EncryptWallet, Free, Rest, Stage, Clear
    <2>2. nextId \in Ids /\ nextId' - 1 = nextId /\ disk' = disk
        <3>1. nextId \in Ids /\ nextId' = nextId + 1 /\ disk' = disk
            BY <1>1 DEF EncryptWallet
        <3>. QED
            BY <1>0, <3>1
    <2>3. mem'.master[nextId] = p
        BY <1>0, <1>1, <2>2 DEF EncryptWallet, Memory
    <2>4. step'.at \in {"idle", "mkey"} /\ (step'.at = "mkey" => step'.pass = p)
        <3>1. step' = Rest \/ step' = [at |-> "mkey", pass |-> p, todo |-> mem.plain]
            BY <1>1, Zenon DEF EncryptWallet
        <3>. QED
            BY <3>1 DEF Rest
    <2>. QED
        BY <2>1, <2>2, <2>3, <2>4 DEF Mastered
<1>2. CASE WriteMasterKey
    <2>1. Clear /\ txn = disk /\ nextId - 1 \in Ids
        BY <1>2 DEF WriteMasterKey, Stage
    <2>2. \A i \in Ids : disk.master[i] = None
        BY <2>1, NoMaster DEF Clear
    <2>3. txn' = [txn EXCEPT !.master[nextId - 1] = step.pass]
        BY <1>2 DEF WriteMasterKey, Fails
    <2>4. \A i \in Ids : txn'.master[i] # None => i = nextId - 1
        BY <1>0, <2>1, <2>2, <2>3 DEF Records
    <2>5. UNCHANGED <<disk, nextId, known>> /\ mem'.master = mem.master
        BY <1>0, <1>2 DEF WriteMasterKey, Memory
    <2>6. step'.pass = step.pass
        BY <1>2 DEF WriteMasterKey, TypeOK
    <2>. QED
        BY <1>2, <2>2, <2>4, <2>5, <2>6 DEF Mastered, WriteMasterKey
<1>3. ASSUME NEW k \in Keys, EncryptKey(k)
      PROVE  Mastered'
    <2>1. HalfWay
        BY <1>3 DEF EncryptKey, Stage
    <2>2. \A i \in Ids : disk.master[i] = None
        BY <2>1, NoMaster DEF HalfWay
    <2>3. UNCHANGED <<disk, nextId, known>> /\ mem'.master = mem.master
        BY <1>0, <1>3, EncryptKeyIs DEF Memory, Stopped
    <2>4. CASE step' = Rest
        BY <2>2, <2>3, <2>4 DEF Mastered, Rest
    <2>5. CASE step' = [step EXCEPT !.todo = step.todo \ {k}] /\ txn' = WithCrypted(txn, k, nextId - 1)
        <3>1. txn'.master = txn.master
            BY <2>1, <2>5 DEF WithCrypted, HalfWay, Records
        <3>2. step'.at = "keys" /\ step.at = "keys" /\ step'.pass = step.pass
            BY <1>3, <2>5 DEF EncryptKey, TypeOK
        <3>. QED
            BY <2>2, <2>3, <3>1, <3>2 DEF Mastered
    <2>. QED
        BY <1>3, <2>4, <2>5, EncryptKeyIs
<1>4. CASE Commit
    <2>1. HalfWay
        BY <1>4 DEF Commit, Stage
    <2>2. \A i \in Ids : disk.master[i] = None
        BY <2>1, NoMaster DEF HalfWay
    <2>3. UNCHANGED <<nextId, known>> /\ mem'.master = mem.master
        BY <1>0, <1>4 DEF Commit, Memory, Stopped
    <2>4. CASE step' = Rest /\ UNCHANGED disk
        BY <2>2, <2>3, <2>4 DEF Mastered, Rest
    <2>5. CASE disk' = txn /\ step' = [step EXCEPT !.at = "pool"]
        <3>1. step'.at = "pool"
            BY <2>5 DEF TypeOK
        <3>2. PICK k \in Keys : disk'.crypted[k] # 0
            BY <3>1 DEF Stage, Sealed
        <3>3. disk'.crypted[k] = nextId - 1
            BY <2>1, <2>5, <3>2 DEF HalfWay
        <3>4. \A i \in Ids : disk'.master[i] # None => i = nextId - 1
            BY <1>4, <2>5 DEF Mastered, Commit
        <3>5. disk'.master[nextId - 1] = step.pass /\ step.pass \in known
            BY <2>1, <2>5 DEF HalfWay
        <3>6. mem.master[nextId - 1] = step.pass
            BY <1>4 DEF Mastered, Commit
        <3>. QED
            BY <2>3, <3>1, <3>3, <3>4, <3>5, <3>6 DEF Mastered
    <2>. QED
        BY <1>4, <2>4, <2>5 DEF Commit
<1>. QED
    BY <1>1, <1>2, <1>3, <1>4

(* A new key in the file leaves the others as they are. *)
LEMMA AddedKeepsMastered ==
    ASSUME IInv, Mastered, NewKeyPool \/ \E k \in Keys : GenerateNewKey(k)
    PROVE  Mastered'
<1>. USE CryptAssumption DEF IInv
<1>0. mem \in Memory /\ disk \in Records
    BY DEF TypeOK
<1>1. UNCHANGED <<nextId, known, txn>> /\ mem'.master = mem.master /\ mem'.up = mem.up
    BY <1>0 DEF NewKeyPool, GenerateNewKey, Memory
<1>2. step'.at \in {"idle", "rewrite"}
    <2>1. step' = Rest \/ step' = [step EXCEPT !.at = "rewrite"]
        BY Zenon DEF NewKeyPool, GenerateNewKey, Free
    <2>. QED
        BY <2>1 DEF Rest, TypeOK
<1>3. \A k \in Keys : mem.up /\ step.at \in {"idle", "pool"} /\ mem.crypted[k] = 0 => disk.crypted[k] = 0
    BY DEF Stage, Clear, Sealed
<1>4. \/ disk' = disk
      \/ \E k \in Keys : \E id : mem.crypted[k] = 0 /\ disk' = WithCrypted(disk, k, id)
      \/ \E k \in Keys : disk' = [disk EXCEPT !.plain = disk.plain \cup {k}]
    BY DEF NewKeyPool, GenerateNewKey
<1>5. mem.up /\ step.at \in {"idle", "pool"}
    <2>1. mem.up /\ (step = Rest \/ step.at = "pool")
        BY Zenon DEF NewKeyPool, GenerateNewKey, Free
    <2>. QED
        BY <2>1 DEF Rest
<1>6. disk'.master = disk.master /\ \A k \in Keys : disk.crypted[k] # 0 => disk'.crypted[k] = disk.crypted[k]
    <2>1. CASE disk' = disk
        BY <2>1
    <2>2. ASSUME NEW k \in Keys, NEW id, mem.crypted[k] = 0, disk' = WithCrypted(disk, k, id)
          PROVE  disk'.master = disk.master /\ \A x \in Keys : disk.crypted[x] # 0 => disk'.crypted[x] = disk.crypted[x]
        <3>1. disk.crypted[k] = 0
            BY <1>3, <1>5, <2>2
        <3>2. disk'.master = disk.master
            BY <1>0, <2>2 DEF WithCrypted, Records
        <3>3. disk'.crypted = [disk.crypted EXCEPT ![k] = id]
            BY <1>0, <2>2 DEF WithCrypted, Records
        <3>4. disk.crypted \in [Keys -> 0 .. MaxAttempts]
            BY <1>0 DEF Records
        <3>. QED
            BY <3>1, <3>2, <3>3, <3>4
    <2>3. ASSUME NEW k \in Keys, disk' = [disk EXCEPT !.plain = disk.plain \cup {k}]
          PROVE  disk'.master = disk.master /\ disk'.crypted = disk.crypted
        BY <1>0, <2>3 DEF Records
    <2>. QED
        BY <1>4, <2>1, <2>2, <2>3
<1>7. \A i \in Ids : disk.master[i] # None => \E k \in Keys : disk'.crypted[k] = i
    BY <1>6 DEF Mastered, Ids
<1>. QED
    BY <1>1, <1>2, <1>6, <1>7 DEF Mastered

(* The other operations change no master key of the file, but for the passphrase
   under which the wallet's is kept. *)
LEMMA OthersKeepMastered ==
    ASSUME IInv, Mastered, "change" \notin Failures,
           \/ Rewrite \/ Lock \/ Stop \/ Start
           \/ \E p \in Passphrases : Unlock(p)
           \/ \E old, new \in Passphrases : ChangeWalletPassphrase(old, new)
    PROVE  Mastered'
<1>. USE CryptAssumption DEF IInv
<1>0. mem \in Memory /\ disk \in Records
    BY DEF TypeOK
<1>1. CASE Rewrite \/ Lock \/ \E p \in Passphrases : Unlock(p)
    <2>1. UNCHANGED <<disk, nextId, known>> /\ mem'.master = mem.master /\ mem'.up = mem.up
        BY <1>0, <1>1 DEF Rewrite, Lock, Unlock, Memory
    <2>2. step'.at = "idle"
        BY <1>1 DEF Rewrite, Lock, Unlock, Free, Rest
    <2>. QED
        BY <2>1, <2>2 DEF Mastered
<1>2. CASE Stop
    <2>1. ~mem'.up /\ step'.at = "idle" /\ UNCHANGED <<disk, known>>
        BY <1>0, <1>2 DEF Stop, Stopped, Rest, Memory
    <2>. QED
        BY <2>1 DEF Mastered
<1>3. CASE Start
    <2>1. mem'.master = disk.master /\ step'.at = "idle" /\ UNCHANGED <<disk, known>>
        BY <1>3 DEF Start, Loaded, Stage, Rest
    <2>. QED
        BY <2>1 DEF Mastered
<1>4. ASSUME NEW old \in Passphrases, NEW new \in Passphrases, ChangeWalletPassphrase(old, new)
      PROVE  Mastered'
    <2>1. mem.up /\ mem.fUseCrypto /\ step'.at = "idle" /\ step.at = "idle"
        BY <1>4 DEF ChangeWalletPassphrase, Free, Rest
    <2>2. CASE UnlockedBy(mem, old) = 0
        <3>1. UNCHANGED <<disk, known>> /\ mem'.master = mem.master /\ mem'.up = mem.up
            BY <1>0, <1>4, <2>2 DEF ChangeWalletPassphrase, Memory
        <3>. QED
            BY <2>1, <3>1 DEF Mastered
    <2>3. CASE UnlockedBy(mem, old) # 0
        <3>1. PICK id \in Ids : Sealed(id)
            BY <2>1 DEF Stage
        <3>2. UnlockedBy(mem, old) = id
            BY <2>3, <3>1, SealedUnlock
        <3>3. mem' = [mem EXCEPT !.master[id] = new] /\ known' = {new}
              /\ disk' = [disk EXCEPT !.master[id] = new]
            BY <1>4, <2>3, <3>2 DEF ChangeWalletPassphrase, Fails
        <3>4. \A i \in Ids : disk.master[i] # None => i = id
            BY <3>1 DEF Mastered, Sealed, Ids
        <3>5. \E k \in Keys : disk.crypted[k] = id
            BY <3>1 DEF Sealed
        <3>6. disk'.crypted = disk.crypted /\ disk'.master[id] = new /\ mem'.master[id] = new
              /\ \A i \in Ids : i # id => disk'.master[i] = disk.master[i]
            BY <1>0, <3>3 DEF Memory, Records
        <3>. QED
            BY <2>1, <3>3, <3>4, <3>5, <3>6 DEF Mastered
    <2>. QED
        BY <2>2, <2>3
<1>. QED
    BY <1>1, <1>2, <1>3, <1>4

(* If the memory has no master key that the file lacks, the passphrase under which
   the file has the wallet's opens the wallet. *)
LEMMA UnlockableFollows == IInv /\ Mastered => Unlockable
<1>. SUFFICES ASSUME IInv, Mastered, Free, mem.fUseCrypto,
                     \A i \in Ids : mem.master[i] # None => disk.master[i] # None
              PROVE  \E p \in known : UnlockedBy(mem, p) # 0
    BY DEF Unlockable
<1>. USE CryptAssumption DEF IInv
<1>1. PICK id \in Ids : Sealed(id)
    BY DEF Free, Rest, Stage
<1>2. disk.master[id] \in known /\ disk.master[id] # None
    BY <1>1 DEF Filed, Recoverable, Sealed, TypeOK, Ids
<1>3. \A i \in Ids : disk.master[i] # None => i = id
    BY <1>1 DEF Mastered, Sealed, Ids
<1>4. mem.master[id] = disk.master[id] /\ \A i \in Ids : mem.master[i] # None => i = id
    BY <1>2, <1>3 DEF Mastered, Free
<1>5. \A k \in Encrypted(mem) : mem.crypted[k] = id
    BY <1>1 DEF Sealed, Encrypted
<1>. DEFINE p     == disk.master[id]
            ids   == {i \in Ids : mem.master[i] # None}
            right == {i \in ids : mem.master[i] = p /\ \A k \in Encrypted(mem) : mem.crypted[k] = i}
            tried == {i \in right : \A j \in ids : j < i => mem.master[j] = p}
<1>6. UnlockedBy(mem, p) = IF tried = {} THEN 0 ELSE CHOOSE i \in tried : \A j \in tried : i <= j
    BY DEF UnlockedBy
<1>7. tried = {id}
    BY <1>2, <1>4, <1>5
<1>8. \E i \in tried : \A j \in tried : i <= j
    BY <1>7 DEF Ids
<1>9. UnlockedBy(mem, p) \in tried
    <2>. HIDE DEF tried
    <2>. QED
        BY <1>6, <1>7, <1>8
<1>10. UnlockedBy(mem, p) # 0
    BY <1>7, <1>9 DEF Ids
<1>. QED
    BY <1>2, <1>10

(* For every set of keys and passphrases, if the three writes whose result the code
   ignores succeed: between two calls a passphrase of the owner opens the encrypted
   wallet, unless an attempt to encrypt it that could not begin its transaction has
   left a master key in memory only, at which CWallet::Unlock then stops. *)
THEOREM UnlockableTheorem ==
    ASSUME Failures \cap Ignored = {}
    PROVE  Spec => []Unlockable
<1>1. "mkey" \notin Failures /\ "change" \notin Failures /\ "erase" \notin Failures
    BY DEF Ignored
<1>2. Init => Mastered
    BY DEF Init, Mastered, Rest
<1>3. IInv /\ IInv' /\ Mastered /\ [Next]_vars => Mastered'
    <2>. SUFFICES ASSUME IInv, IInv', Mastered, [Next]_vars PROVE Mastered'
        OBVIOUS
    <2>1. CASE UNCHANGED vars
        BY <2>1 DEF Mastered, vars
    <2>. QED
        BY <1>1, <2>1, EncryptKeepsMastered, AddedKeepsMastered, OthersKeepMastered DEF Next
<1>. QED
    BY <1>2, <1>3, IInvInit, IInvNext, UnlockableFollows, PTL DEF Spec
=============================================================================
