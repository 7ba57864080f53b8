-------------------------- MODULE WalletFileProofs --------------------------
(***************************************************************************)
(* Proofs about the wallet file: its conversion to SQLite, for every set   *)
(* of records (WalletMigrate), and the connection that all objects share,  *)
(* for every number of objects, pages and writes (WalletStore).            *)
(***************************************************************************)
EXTENDS WalletMigrate, WalletStore, FiniteSetTheorems, TLAPS

(* The conversion.  What makes its properties inductive is where the       *)
(* records are at each stage: in a Berkeley DB wallet.dat without a backup, *)
(* in the backup and the temporary file between the renames, in an SQLite  *)
(* wallet.dat after.                                                       *)

Bdb == wallet # NoFile /\ wallet.fmt = "bdb"

Converting == {"read", "clear", "create", "insert", "verify", "backup"}

Swapping == {"swap", "rollback"}

(* The inductive invariant.                                                *)
MigrateIInv ==
  /\ MigrateTypeOK
  /\ tmp # NoFile => tmp.fmt = "sqlite"
  /\ pc \in Converting => Bdb
  /\ pc \in {"load", "running"} => ~Bdb
  /\ Bdb => bak = NoFile /\ owned \subseteq wallet.recs
  /\ pc \in Converting \ {"read"} => vRecords = wallet.recs
  /\ pc \in {"verify", "backup"} => Recs(tmp) = wallet.recs
  /\ pc \in Swapping => /\ wallet = NoFile
                        /\ tmp # NoFile /\ owned \subseteq tmp.recs
                        /\ bak # NoFile /\ bak.fmt = "bdb"
                        /\ owned \subseteq bak.recs
  /\ pc \notin Swapping /\ ~torn => owned \subseteq Recs(wallet)
  /\ NothingLost

(* No file is not a file.                                                  *)
LEMMA NoFileIsNone == NoFile \notin File
BY DEF NoFile, File

(* The invariant holds before the first start-up: one wallet file that    *)
(* holds what the user stored, and no temporary file or backup.            *)
LEMMA MigrateIInvInit == MigrateInit => MigrateIInv
<1>. SUFFICES ASSUME MigrateInit PROVE MigrateIInv
  OBVIOUS
<1>. USE NoFileIsNone DEF MigrateInit, File, Recs, Converting, Swapping, Migrating
<1>1. MigrateTypeOK
  BY DEF MigrateTypeOK
<1>2. Bdb => bak = NoFile /\ owned \subseteq wallet.recs
  BY DEF Bdb
<1>3. NothingLost /\ owned \subseteq Recs(wallet)
  BY DEF NothingLost
<1>. QED
  BY <1>1, <1>2, <1>3 DEF MigrateIInv

(* Every step of a start-up, every failure and every crash keeps the       *)
(* invariant: one case per step of MigrateWalletToSQLite.                  *)
LEMMA MigrateIInvNext == MigrateIInv /\ [MigrateNext]_migrateVars => MigrateIInv'
<1>. SUFFICES ASSUME MigrateIInv, [MigrateNext]_migrateVars PROVE MigrateIInv'
  OBVIOUS
<1>. USE NoFileIsNone DEF MigrateIInv, MigrateTypeOK, File, Recs, Bdb, Converting,
         Swapping, Migrating, NothingLost, SQLite
<1>1. CASE BeginMigration
  BY <1>1 DEF BeginMigration
<1>2. CASE ReadAllBdbRecords
  BY <1>2 DEF ReadAllBdbRecords, MigrationFails
<1>3. CASE ClearTmp
  BY <1>3 DEF ClearTmp
<1>4. CASE CreateTable
  BY <1>4 DEF CreateTable, MigrationFailsWithTmp, MigrationFails
<1>5. CASE WriteSQLite
  BY <1>5 DEF WriteSQLite, MigrationFailsWithTmp, MigrationFails
<1>6. CASE VerifySQLite
  BY <1>6 DEF VerifySQLite, MigrationFailsWithTmp, MigrationFails
<1>7. CASE BackupOriginal
  BY <1>7 DEF BackupOriginal, MigrationFailsWithTmp, MigrationFails
<1>8. CASE SwapIn
  BY <1>8 DEF SwapIn
<1>9. CASE RollBack
  BY <1>9 DEF RollBack
<1>10. CASE LoadWallet
  BY <1>10 DEF LoadWallet
<1>11. CASE \E r \in Record : WriteRecord(r)
  BY <1>11 DEF WriteRecord
<1>12. CASE StopMigration
  BY <1>12 DEF StopMigration
<1>13. CASE UNCHANGED migrateVars
  BY <1>13 DEF migrateVars
<1>. QED
  BY <1>1, <1>2, <1>3, <1>4, <1>5, <1>6, <1>7, <1>8, <1>9, <1>10, <1>11,
     <1>12, <1>13 DEF MigrateNext, MigrateWalletToSQLite

(* Whatever fails and wherever the process stops, every record the user    *)
(* ever stored is in wallet.dat or in the kept original.                   *)
THEOREM NothingLostTheorem == MigrateSpec => []NothingLost
<1>1. MigrateIInv => NothingLost
  BY DEF MigrateIInv
<1>. QED
  BY <1>1, MigrateIInvInit, MigrateIInvNext, PTL DEF MigrateSpec

(* A running node has the whole wallet, unless a start-up ended between    *)
(* the two renames of MigrateWalletToSQLite.                               *)
THEOREM WholeWalletTheorem == MigrateSpec => []WholeWallet
<1>1. MigrateIInv => WholeWallet
  BY DEF MigrateIInv, WholeWallet, Swapping
<1>. QED
  BY <1>1, MigrateIInvInit, MigrateIInvNext, PTL DEF MigrateSpec

(* No failed file operation and no stop of the process loses a record, and *)
(* a node runs with all of them unless it ended between the renames.       *)
THEOREM RecordsKeptTheorem == MigrateSpec => []RecordsKept
BY NothingLostTheorem, WholeWalletTheorem, PTL DEF RecordsKept

(* A Berkeley DB wallet.dat is never overwritten in place: it only moves   *)
(* to the backup, once the temporary file holds all of its records.        *)
THEOREM OriginalKeptTheorem == MigrateSpec => OriginalKept
<1> DEFINE Kept == wallet # NoFile /\ wallet.fmt = "bdb" /\ wallet' # wallet =>
                     wallet' = NoFile /\ bak' = wallet /\ Recs(tmp) = wallet.recs
<1>1. MigrateIInv /\ [MigrateNext]_migrateVars => [Kept]_migrateVars
  <2>. SUFFICES ASSUME MigrateIInv, MigrateNext, Bdb, wallet' # wallet
                PROVE  Kept
    BY DEF Bdb
  <2>1. BackupOriginal
    BY DEF MigrateIInv, Bdb, Swapping, MigrateNext, MigrateWalletToSQLite, BeginMigration,
           ReadAllBdbRecords, ClearTmp, CreateTable, WriteSQLite, VerifySQLite,
           SwapIn, RollBack, LoadWallet, WriteRecord, StopMigration, MigrationFails,
           MigrationFailsWithTmp
  <2>. QED
    BY <2>1 DEF MigrateIInv, BackupOriginal, MigrationFailsWithTmp, MigrationFails
<1>. QED
  BY <1>1, MigrateIInvInit, MigrateIInvNext, PTL DEF MigrateSpec, OriginalKept

-----------------------------------------------------------------------------
(* The shared connection.  The writes are numbered: what makes its          *)
(* properties inductive is how the numbers in the transaction, in the file *)
(* and in the backup compare.                                              *)

Opened == {h \in Handles : handle[h].open}

(* What a transaction changed is later than everything in the file. *)
Ordered ==
    /\ \A k \in Pages : committed[k] <= nWrites
    /\ \A w \in failed : w <= nWrites
    /\ InSqlTxn => \A k \in Pages :
                  /\ sqlTxn[k] <= nWrites
                  /\ sqlTxn[k] = committed[k] \/ \A j \in Pages : committed[j] < sqlTxn[k]

(* An object that takes the transaction for its own is open; it is alone, the
   transaction is there and has nothing of a failed one. *)
Owned ==
    /\ \A h \in Handles : handle[h].fInTxn => handle[h].open
    /\ ~rolledBack =>
         /\ FailedStaysOut
         /\ \A g, h \in Handles : handle[g].fInTxn /\ handle[h].fInTxn => g = h
         /\ \A h \in Handles : handle[h].fInTxn =>
               InSqlTxn /\ \A k \in Pages : sqlTxn[k] \notin failed

(* A backup whose checkpoint was complete, while nothing has been committed since. *)
Undisturbed == backup.at # "idle" /\ backup.flushed /\ committed = backup.start

(* The file is whole while it is closed; it does not fall behind the beginning of
   a backup; an undisturbed one copies what was committed then. *)
Backed ==
    /\ refcount = 0 => dat = committed
    /\ backup.at # "idle" => \A k \in Pages : backup.start[k] <= committed[k]
    /\ backup.at = "done" => backup.todo = {}
    /\ backup.at = "copy" /\ Undisturbed => dat = backup.start
    /\ Undisturbed => \A k \in Pages \ backup.todo : backup.copy[k] = backup.start[k]

(* The inductive invariant. *)
StoreIInv == StoreTypeOK /\ Counted /\ Ordered /\ Owned /\ Backed

-----------------------------------------------------------------------------
(* "No transaction" is not a transaction: there are pages. *)
LEMMA NoTxnApart ==
    NoSqlTxn \notin Contents
<1>1. DOMAIN NoSqlTxn = {}
    BY DEF NoSqlTxn
<1>2. \A r \in Contents : DOMAIN r = Pages
    BY DEF Contents
<1>. QED
    BY StoreAssumption, <1>1, <1>2

(* The objects that are open can be counted. *)
LEMMA OpenedFinite ==
    ASSUME NEW S \in SUBSET Handles
    PROVE  /\ IsFiniteSet(S)
           /\ Cardinality(S) \in 0 .. Cardinality(Handles)
           /\ Cardinality(Handles) \in Nat
<1>1. IsFiniteSet(Handles)
    BY StoreAssumption
<1>2. IsFiniteSet(S) /\ Cardinality(S) <= Cardinality(Handles)
    BY <1>1, FS_Subset
<1>3. Cardinality(S) \in Nat /\ Cardinality(Handles) \in Nat
    BY <1>1, <1>2, FS_CardinalityType
<1>. QED
    BY <1>2, <1>3

(* While an object is open, so is the connection. *)
LEMMA OpenCounts ==
    ASSUME StoreIInv, NEW h \in Handles, handle[h].open
    PROVE  refcount # 0
<1>1. h \in Opened
    BY DEF Opened
<1>. QED
    BY <1>1, OpenedFinite, FS_EmptySet DEF Opened, StoreIInv, Counted

(* The numbers on the pages are natural numbers. *)
LEMMA PagesNat ==
    ASSUME StoreTypeOK
    PROVE  /\ nWrites \in Nat /\ failed \subseteq Nat
           /\ \A k \in Pages : committed[k] \in Nat /\ backup.start[k] \in Nat
           /\ InSqlTxn => sqlTxn \in Contents /\ \A k \in Pages : sqlTxn[k] \in Nat
<1>1. InSqlTxn => sqlTxn \in Contents
    BY DEF StoreTypeOK, InSqlTxn
<1>2. \A r \in Contents : \A k \in Pages : r[k] \in Nat
    BY DEF Contents, Values
<1>3. committed \in Contents /\ backup.start \in Contents
    BY DEF StoreTypeOK
<1>4. nWrites \in Nat /\ failed \subseteq Nat
    BY DEF StoreTypeOK, Values
<1>. QED
    BY <1>1, <1>2, <1>3, <1>4

(* In the initial state nothing is open, written or copied. *)
LEMMA StoreIInvInit ==
    StoreInit => StoreIInv
<1>. SUFFICES ASSUME StoreInit PROVE StoreIInv
    OBVIOUS
<1>. USE DEF StoreInit
<1>1. Empty \in Contents
    BY StoreAssumption DEF Empty, Contents, Values
<1>2. Opened = {}
    BY DEF Opened, Closed
<1>3. Counted
    BY <1>2, FS_EmptySet DEF Counted, Opened
<1>4. StoreTypeOK
    <2>1. backup \in [at : {"idle", "copy", "done"}, todo : SUBSET Pages, copy : Contents,
                      start : Contents, flushed : BOOLEAN]
        BY <1>1 DEF NoBackup
    <2>2. refcount \in 0 .. Cardinality(Handles) /\ nWrites \in 0 .. MaxWrites
        BY StoreAssumption, OpenedFinite
    <2>3. handle \in [Handles -> [open : BOOLEAN, fInTxn : BOOLEAN]]
        BY DEF Closed
    <2>. QED
        BY <1>1, <2>1, <2>2, <2>3 DEF StoreTypeOK
<1>5. Ordered /\ Owned
    BY StoreAssumption DEF Ordered, Owned, FailedStaysOut, InSqlTxn, Closed, Empty
<1>6. Backed
    BY DEF Backed, Undisturbed, NoBackup
<1>. QED
    BY <1>3, <1>4, <1>5, <1>6 DEF StoreIInv

-----------------------------------------------------------------------------
(* CSQLiteEnv::Open: one more reference. *)
LEMMA OpenKeeps ==
    ASSUME StoreIInv, NEW h \in Handles, Open(h)
    PROVE  StoreIInv'
<1>. USE DEF StoreIInv, Open
<1>1. Opened' = Opened \cup {h} /\ h \notin Opened
    BY DEF Opened, StoreTypeOK
<1>2. Counted'
    <2>1. Cardinality(Opened') = Cardinality(Opened) + 1
        BY <1>1, OpenedFinite, FS_AddElement DEF Opened
    <2>. QED
        BY <2>1 DEF Counted, Opened
<1>3. StoreTypeOK'
    <2>1. refcount' \in 0 .. Cardinality(Handles)
        BY <1>2, OpenedFinite DEF Counted
    <2>. QED
        BY <2>1 DEF StoreTypeOK
<1>4. refcount' # 0
    BY DEF StoreTypeOK
<1>5. \A g \in Handles : handle'[g].fInTxn => handle[g].fInTxn /\ handle'[g].open
    BY DEF StoreTypeOK, Owned
<1>6. Owned'
    BY <1>5 DEF Owned, InSqlTxn, FailedStaysOut
<1>7. Ordered'
    BY DEF Ordered, InSqlTxn
<1>8. Backed'
    BY <1>4 DEF Backed, Undisturbed
<1>. QED
    BY <1>2, <1>3, <1>6, <1>7, <1>8

(* CSQLiteEnv::Close: an object that closes the connection with the last reference
   is the only one open, so that no other loses its transaction. *)
LEMMA CloseKeeps ==
    ASSUME StoreIInv, NEW h \in Handles, Close(h)
    PROVE  StoreIInv'
<1>. USE DEF StoreIInv, Close
<1>1. Opened' = Opened \ {h} /\ h \in Opened
    BY DEF Opened, StoreTypeOK, Closed
<1>2. Cardinality(Opened') = Cardinality(Opened) - 1
    BY <1>1, OpenedFinite, FS_RemoveElement DEF Opened
<1>3. Counted'
    BY <1>2 DEF Counted, Opened
<1>4. refcount = 1 => Opened = {h}
    <2>1. SUFFICES ASSUME refcount = 1 PROVE Opened' = {}
        BY <1>1
    <2>2. IsFiniteSet(Opened') /\ Cardinality(Opened') = 0
        BY <2>1, <1>2, OpenedFinite DEF Counted, Opened
    <2>. QED
        BY <2>2, FS_EmptySet
<1>5. \A g \in Handles : handle'[g].fInTxn => g # h /\ handle[g].fInTxn /\ handle'[g].open
    BY DEF StoreTypeOK, Owned, Closed
<1>6. ~rolledBack => \A g \in Handles : handle'[g].fInTxn => sqlTxn' = sqlTxn
    BY <1>4, <1>5 DEF Owned, Opened
<1>7. Owned'
    BY <1>5, <1>6 DEF Owned, InSqlTxn, FailedStaysOut
<1>8. StoreTypeOK'
    <2>1. refcount' \in 0 .. Cardinality(Handles)
        BY <1>3, OpenedFinite DEF Counted
    <2>2. handle' \in [Handles -> [open : BOOLEAN, fInTxn : BOOLEAN]]
        BY DEF StoreTypeOK, Closed
    <2>3. sqlTxn' \in Contents \cup {NoSqlTxn} /\ dat' \in Contents
        BY DEF StoreTypeOK
    <2>. QED
        BY <2>1, <2>2, <2>3 DEF StoreTypeOK
<1>9. Ordered'
    BY DEF Ordered, InSqlTxn
<1>10. Backed'
    <2>1. refcount' = 0 => refcount = 1
        BY DEF StoreTypeOK
    <2>. QED
        BY <2>1 DEF Backed, Undisturbed
<1>. QED
    BY <1>3, <1>7, <1>8, <1>9, <1>10

(* What is committed only grows: what a backup has lost sight of does not come
   back. *)
LEMMA CommitDisturbs ==
    ASSUME StoreIInv, UNCHANGED <<refcount, dat, backup>>, refcount # 0,
           \A k \in Pages : committed'[k] \in Nat /\ committed[k] <= committed'[k],
           committed' \in Contents
    PROVE  Backed'
<1>. USE DEF StoreIInv
<1>1. committed \in Contents /\ backup.start \in Contents
    BY DEF StoreTypeOK
<1>2. \A k \in Pages : committed[k] \in Nat /\ backup.start[k] \in Nat
    BY PagesNat
<1>3. backup.at # "idle" => \A k \in Pages : backup.start[k] <= committed'[k]
    BY <1>2 DEF Backed
<1>4. Undisturbed' => Undisturbed
    <2>. SUFFICES ASSUME backup.at # "idle", committed' = backup.start PROVE committed = backup.start
        BY DEF Undisturbed
    <2>1. \A k \in Pages : committed[k] = backup.start[k]
        BY <1>2 DEF Backed
    <2>. QED
        BY <1>1, <2>1 DEF Contents
<1>. QED
    BY <1>3, <1>4 DEF Backed

(* WriteBlob: the new write is later than every one before it. *)
LEMMA WriteKeeps ==
    ASSUME StoreIInv, NEW h \in Handles, NEW P \in SUBSET Pages, P # {}, Write(h, P)
    PROVE  StoreIInv'
<1>. USE DEF StoreIInv
<1>0. /\ handle[h].open /\ nWrites < MaxWrites /\ nWrites' = nWrites + 1
      /\ UNCHANGED <<refcount, handle, dat, backup, failed, rolledBack>>
    BY DEF Write
<1>1. /\ nWrites \in Nat /\ nWrites + 1 \in Values /\ MaxWrites \in Nat
      /\ InSqlTxn => sqlTxn \in Contents
    BY <1>0, StoreAssumption DEF StoreTypeOK, Values, InSqlTxn
<1>2. Counted'
    BY <1>0 DEF Counted
<1>3. \A r \in Contents : Changed(r, P) \in Contents
    BY <1>1 DEF Contents, Changed
<1>4. \A r \in Contents : \A j \in Pages : Changed(r, P)[j] = IF j \in P THEN nWrites + 1 ELSE r[j]
    BY DEF Changed
<1>5. \A w \in failed : w \in Nat /\ w < nWrites + 1
    BY <1>1, PagesNat DEF Ordered
<1>6. \A j \in Pages : committed[j] \in Nat /\ committed[j] < nWrites + 1
    BY <1>1, PagesNat DEF Ordered
<1>7. nWrites' \in 0 .. MaxWrites
    BY <1>0, <1>1 DEF Values
<1>8. CASE InSqlTxn
    <2>1. sqlTxn' = Changed(sqlTxn, P) /\ committed' = committed
        BY <1>8 DEF Write
    <2>2. sqlTxn' \in Contents /\ InSqlTxn'
        BY <1>1, <1>3, <1>8, <2>1, NoTxnApart DEF InSqlTxn
    <2>3. \A j \in Pages : sqlTxn[j] \in Nat /\ sqlTxn'[j] = IF j \in P THEN nWrites + 1 ELSE sqlTxn[j]
        BY <1>1, <1>4, <1>8, <2>1, PagesNat
    <2>4. StoreTypeOK'
        BY <1>0, <1>7, <2>1, <2>2 DEF StoreTypeOK
    <2>5. Ordered'
        <3>1. \A j \in Pages : /\ sqlTxn'[j] <= nWrites + 1
                               /\ sqlTxn'[j] = committed[j] \/ \A i \in Pages : committed[i] < sqlTxn'[j]
            BY <1>1, <1>6, <1>8, <2>3 DEF Ordered
        <3>. QED
            BY <1>0, <1>1, <1>5, <1>6, <2>1, <3>1 DEF Ordered
    <2>6. Owned'
        BY <1>0, <1>5, <2>1, <2>2, <2>3 DEF Owned, FailedStaysOut
    <2>7. Backed'
        BY <1>0, <2>1 DEF Backed, Undisturbed
    <2>. QED
        BY <1>2, <2>4, <2>5, <2>6, <2>7
<1>9. CASE ~InSqlTxn
    <2>1. committed' = Changed(committed, P) /\ sqlTxn' = sqlTxn
        BY <1>9 DEF Write
    <2>2. committed' \in Contents /\ ~InSqlTxn'
        BY <1>3, <1>9, <2>1 DEF InSqlTxn, StoreTypeOK
    <2>3. \A j \in Pages : committed'[j] = IF j \in P THEN nWrites + 1 ELSE committed[j]
        BY <1>4, <2>1 DEF StoreTypeOK
    <2>4. StoreTypeOK'
        BY <1>0, <1>7, <2>1, <2>2 DEF StoreTypeOK
    <2>5. Ordered'
        BY <1>0, <1>1, <1>5, <1>6, <2>2, <2>3 DEF Ordered
    <2>6. Owned'
        BY <1>0, <1>5, <1>9, <2>3 DEF Owned, FailedStaysOut
    <2>7. Backed'
        BY <1>0, <1>1, <1>6, <2>2, <2>3, OpenCounts, CommitDisturbs
    <2>. QED
        BY <1>2, <2>4, <2>5, <2>6, <2>7
<1>. QED
    BY <1>8, <1>9

(* A write that takes the transaction back, and TxnAbort: only what was in the
   transaction is lost. *)
LEMMA RollbackKeeps ==
    ASSUME StoreIInv, NEW h \in Handles, WriteFails(h) \/ TxnAbort(h)
    PROVE  StoreIInv'
<1>. USE DEF StoreIInv
<1>1. sqlTxn' = NoSqlTxn /\ UNCHANGED <<refcount, committed, dat, backup, nWrites, failed>>
    BY DEF WriteFails, TxnAbort
<1>2. /\ handle' \in [Handles -> [open : BOOLEAN, fInTxn : BOOLEAN]] /\ rolledBack' \in BOOLEAN
      /\ \A g \in Handles : handle'[g].open = handle[g].open /\ (handle'[g].fInTxn => handle[g].fInTxn)
    BY DEF WriteFails, TxnAbort, StoreTypeOK
<1>3. StoreTypeOK'
    BY <1>1, <1>2 DEF StoreTypeOK
<1>4. Opened' = Opened
    BY <1>2 DEF Opened
<1>5. Counted'
    BY <1>1, <1>4 DEF Counted, Opened
<1>6. Ordered'
    BY <1>1 DEF Ordered, InSqlTxn
<1>7. rolledBack' \/ (~rolledBack /\ \A g \in Handles : ~handle'[g].fInTxn)
    <2>1. CASE WriteFails(h)
        BY <2>1 DEF WriteFails
    <2>2. CASE TxnAbort(h)
        <3>1. rolledBack' = rolledBack /\ handle[h].fInTxn /\ handle' = [handle EXCEPT ![h].fInTxn = FALSE]
            BY <2>2 DEF TxnAbort
        <3>2. CASE ~rolledBack
            BY <3>1, <3>2 DEF Owned, StoreTypeOK
        <3>. QED
            BY <3>1, <3>2
    <2>. QED
        BY <2>1, <2>2
<1>8. Owned'
    BY <1>1, <1>2, <1>7 DEF Owned, FailedStaysOut
<1>9. Backed'
    BY <1>1 DEF Backed, Undisturbed
<1>. QED
    BY <1>3, <1>5, <1>6, <1>8, <1>9

(* TxnBegin: the transaction begins as the file is. *)
LEMMA TxnBeginKeeps ==
    ASSUME StoreIInv, NEW h \in Handles, TxnBegin(h)
    PROVE  StoreIInv'
<1>. USE DEF StoreIInv, TxnBegin
<1>1. Opened' = Opened
    BY DEF Opened, StoreTypeOK
<1>2. Counted'
    BY <1>1 DEF Counted, Opened
<1>3. StoreTypeOK' /\ InSqlTxn'
    BY NoTxnApart DEF StoreTypeOK, InSqlTxn
<1>4. /\ \A g \in Handles : handle'[g].fInTxn => handle'[g].open
      /\ ~rolledBack => \A g \in Handles : handle'[g].fInTxn => g = h
    BY DEF Owned, StoreTypeOK
<1>5. Owned'
    BY <1>3, <1>4 DEF Owned, FailedStaysOut
<1>6. Ordered'
    BY DEF Ordered
<1>7. Backed'
    BY DEF Backed, Undisturbed
<1>. QED
    BY <1>2, <1>3, <1>5, <1>6, <1>7

(* TxnCommit: what a commit that fails leaves is in no object's hands. *)
LEMMA CommitKeeps ==
    ASSUME StoreIInv, NEW h \in Handles, TxnCommit(h)
    PROVE  StoreIInv'
<1>. USE DEF StoreIInv
<1>0. /\ handle[h].fInTxn /\ handle[h].open
      /\ handle' = [handle EXCEPT ![h].fInTxn = FALSE]
      /\ UNCHANGED <<refcount, dat, backup, nWrites, rolledBack>>
    BY DEF TxnCommit, Owned
<1>1. Opened' = Opened
    BY <1>0 DEF Opened, StoreTypeOK
<1>2. Counted'
    BY <1>0, <1>1 DEF Counted, Opened
<1>3. /\ handle' \in [Handles -> [open : BOOLEAN, fInTxn : BOOLEAN]]
      /\ \A g \in Handles : handle'[g].fInTxn => handle'[g].open
      /\ ~rolledBack => \A g \in Handles : ~handle'[g].fInTxn
    BY <1>0 DEF Owned, StoreTypeOK
<1>4. InSqlTxn => Pending \subseteq Values /\ \A w \in Pending : w <= nWrites
    BY DEF Pending, Contents, Ordered, StoreTypeOK, InSqlTxn
<1>5. refcount # 0
    BY <1>0, OpenCounts
<1>6. CASE InSqlTxn /\ committed' = sqlTxn /\ sqlTxn' = NoSqlTxn /\ UNCHANGED failed
    <2>1. StoreTypeOK'
        BY <1>0, <1>3, <1>6, PagesNat DEF StoreTypeOK
    <2>2. Ordered'
        BY <1>0, <1>6 DEF Ordered, InSqlTxn
    <2>3. Owned'
        BY <1>0, <1>3, <1>6 DEF Owned, FailedStaysOut
    <2>4. \A k \in Pages : committed'[k] \in Nat /\ committed[k] <= committed'[k]
        <3>1. \A k \in Pages : sqlTxn[k] = committed[k] \/ committed[k] < sqlTxn[k]
            BY <1>6 DEF Ordered
        <3>2. \A k \in Pages : sqlTxn[k] \in Nat /\ committed[k] \in Nat
            BY <1>6, PagesNat
        <3>. QED
            BY <1>6, <3>1, <3>2
    <2>5. Backed'
        BY <1>0, <1>5, <1>6, <2>4, CommitDisturbs, PagesNat
    <2>. QED
        BY <1>2, <2>1, <2>2, <2>3, <2>5
<1>7. CASE /\ failed' = IF InSqlTxn THEN failed \cup Pending ELSE failed
           /\ sqlTxn' \in {sqlTxn, NoSqlTxn} /\ UNCHANGED committed
    <2>1. StoreTypeOK'
        BY <1>0, <1>3, <1>4, <1>7 DEF StoreTypeOK
    <2>2. Ordered'
        BY <1>0, <1>4, <1>7 DEF Ordered, InSqlTxn
    <2>3. InSqlTxn => \A j \in Pages : committed[j] \notin Pending
        <3>1. SUFFICES ASSUME InSqlTxn, NEW j \in Pages, NEW k \in Pages, sqlTxn[k] # committed[k],
                              committed[j] = sqlTxn[k]
                       PROVE  FALSE
            BY DEF Pending
        <3>2. committed[j] < sqlTxn[k] /\ committed[j] \in Nat
            BY <3>1, PagesNat DEF Ordered
        <3>. QED
            BY <3>1, <3>2
    <2>4. Owned'
        BY <1>0, <1>3, <1>7, <2>3 DEF Owned, FailedStaysOut
    <2>5. Backed'
        BY <1>0, <1>7 DEF Backed, Undisturbed
    <2>. QED
        BY <1>2, <2>1, <2>2, <2>4, <2>5
<1>. QED
    BY <1>6, <1>7 DEF TxnCommit

(* Flush: a checkpoint. *)
LEMMA FlushKeeps ==
    ASSUME StoreIInv, Flush
    PROVE  StoreIInv'
<1>. USE DEF StoreIInv, Flush
<1>1. Checkpointed \in Contents /\ Checkpointed \in {committed, dat}
    BY DEF Checkpointed, StoreTypeOK
<1>2. StoreTypeOK' /\ Counted' /\ Ordered' /\ Owned'
    BY <1>1 DEF StoreTypeOK, Counted, Ordered, Owned, FailedStaysOut, InSqlTxn
<1>3. Backed'
    BY <1>1 DEF Backed, Undisturbed
<1>. QED
    BY <1>2, <1>3

(* BackupWallet begins: without a transaction its checkpoint moves everything, and
   there is nothing to move if no connection is open. *)
LEMMA BeginBackupKeeps ==
    ASSUME StoreIInv, BeginBackup
    PROVE  StoreIInv'
<1>. USE DEF StoreIInv
<1>1. /\ dat' = Checkpointed
      /\ UNCHANGED <<refcount, handle, sqlTxn, committed, nWrites, failed, rolledBack>>
    BY DEF BeginBackup
<1>2. backup' = [at |-> "copy", todo |-> Pages, copy |-> Empty, start |-> committed,
                 flushed |-> ~InSqlTxn]
    BY DEF BeginBackup, NoBackup
<1>3. Checkpointed \in Contents
    BY DEF Checkpointed, StoreTypeOK
<1>4. ~InSqlTxn => Checkpointed = committed
    BY DEF Checkpointed, Backed, StoreTypeOK
<1>5. Empty \in Contents /\ (~InSqlTxn) \in BOOLEAN
    BY StoreAssumption DEF Empty, Contents, Values
<1>6. StoreTypeOK'
    BY <1>1, <1>2, <1>3, <1>5 DEF StoreTypeOK
<1>7. Counted' /\ Ordered' /\ Owned'
    BY <1>1 DEF Counted, Ordered, Owned, FailedStaysOut, InSqlTxn
<1>8. Backed'
    <2>1. refcount = 0 => Checkpointed = committed
        BY DEF Checkpointed, Backed
    <2>2. \A k \in Pages : committed[k] <= committed[k]
        BY PagesNat
    <2>3. backup'.flushed => Checkpointed = committed
        BY <1>2, <1>4
    <2>4. backup'.at = "copy" /\ backup'.start = committed /\ backup'.todo = Pages
        BY <1>2
    <2>. QED
        BY <1>1, <2>1, <2>2, <2>3, <2>4 DEF Backed, Undisturbed
<1>. QED
    BY <1>6, <1>7, <1>8

(* BackupWallet copies one page. *)
LEMMA CopyPageKeeps ==
    ASSUME StoreIInv, NEW k \in Pages, CopyPage(k)
    PROVE  StoreIInv'
<1>. USE DEF StoreIInv
<1>0. backup.at = "copy" /\ k \in backup.todo /\ UNCHANGED <<fileVars, nWrites, failed, rolledBack>>
    BY DEF CopyPage
<1>1. /\ backup'.at = IF backup.todo = {k} THEN "done" ELSE "copy"
      /\ backup'.todo = backup.todo \ {k}
      /\ backup'.copy = [backup.copy EXCEPT ![k] = dat[k]]
      /\ backup'.start = backup.start /\ backup'.flushed = backup.flushed
    BY DEF CopyPage, StoreTypeOK
<1>2. backup' \in [at : {"idle", "copy", "done"}, todo : SUBSET Pages, copy : Contents,
                   start : Contents, flushed : BOOLEAN]
    <2>1. [backup.copy EXCEPT ![k] = dat[k]] \in Contents
        BY DEF StoreTypeOK, Contents
    <2>2. (IF backup.todo = {k} THEN "done" ELSE "copy") \in {"idle", "copy", "done"}
        OBVIOUS
    <2>. QED
        BY <2>1, <2>2 DEF CopyPage, StoreTypeOK
<1>3. StoreTypeOK'
    BY <1>0, <1>2 DEF StoreTypeOK, fileVars
<1>4. Counted' /\ Ordered' /\ Owned'
    BY <1>0 DEF Counted, Ordered, Owned, FailedStaysOut, InSqlTxn, fileVars
<1>5. \A j \in Pages : backup'.copy[j] = IF j = k THEN dat[k] ELSE backup.copy[j]
    BY <1>1 DEF StoreTypeOK, Contents
<1>6. Undisturbed' => Undisturbed
    BY <1>0, <1>1 DEF Undisturbed, fileVars
<1>7. Undisturbed => dat = backup.start
    BY <1>0 DEF Backed
<1>8. backup'.at # "idle" /\ (backup'.at = "done" => backup'.todo = {})
    BY <1>1
<1>9. Backed'
    BY <1>0, <1>1, <1>5, <1>6, <1>7, <1>8 DEF Backed, fileVars
<1>. QED
    BY <1>3, <1>4, <1>9

(* A stop of the process loses the transaction and no committed write. *)
LEMMA StopKeeps ==
    ASSUME StoreIInv, StopProcess
    PROVE  StoreIInv'
<1>. USE DEF StoreIInv, StopProcess
<1>1. Opened' = {}
    BY DEF Opened, Closed
<1>2. Counted'
    BY <1>1, FS_EmptySet DEF Counted, Opened
<1>3. Empty \in Contents
    BY StoreAssumption DEF Empty, Contents, Values
<1>4. StoreTypeOK'
    BY <1>3, OpenedFinite DEF StoreTypeOK, Closed, NoBackup
<1>5. Owned' /\ Ordered'
    BY DEF Owned, Ordered, FailedStaysOut, InSqlTxn, Closed
<1>6. Backed'
    BY DEF Backed, Undisturbed, NoBackup
<1>. QED
    BY <1>2, <1>4, <1>5, <1>6

(* Every step keeps the invariant. *)
LEMMA StoreIInvNext ==
    StoreIInv /\ [StoreNext]_storeVars => StoreIInv'
<1>. SUFFICES ASSUME StoreIInv, [StoreNext]_storeVars PROVE StoreIInv'
    OBVIOUS
<1>1. CASE UNCHANGED storeVars
    BY <1>1 DEF StoreIInv, StoreTypeOK, Counted, Ordered, Owned, FailedStaysOut, Backed,
       Undisturbed, InSqlTxn, storeVars
<1>2. ASSUME NEW h \in Handles, NEW P \in (SUBSET Pages) \ {{}}, Write(h, P)
      PROVE  StoreIInv'
    BY <1>2, WriteKeeps
<1>. QED
    BY <1>1, <1>2, OpenKeeps, CloseKeeps, RollbackKeeps, TxnBeginKeeps, CommitKeeps,
       FlushKeeps, BeginBackupKeeps, CopyPageKeeps, StopKeeps DEF StoreNext

-----------------------------------------------------------------------------
(* For every number of objects that share the connection: it is open exactly as
   long as one uses it; and as long as SQLite takes no transaction back by itself,
   at most one takes its transaction for its own, and nothing of a commit that was
   reported as failed is ever in the file. *)
THEOREM TransactionsApartTheorem ==
    StoreSpec => []TransactionsApart
<1>1. ASSUME StoreIInv, ~rolledBack PROVE OneOwner /\ FailedStaysOut
    <2>. DEFINE owners == {h \in Handles : handle[h].fInTxn}
    <2>1. Cardinality(owners) <= 1
        <3>1. CASE owners = {}
            <4>1. Cardinality({}) = 0
                BY FS_EmptySet
            <4>. QED
                BY <3>1, <4>1
        <3>2. CASE owners # {}
            <4>1. PICK h \in owners : TRUE
                BY <3>2
            <4>2. owners = {h}
                BY <1>1, <4>1 DEF StoreIInv, Owned
            <4>3. Cardinality({h}) = 1
                BY FS_Singleton
            <4>. QED
                BY <4>2, <4>3
        <3>. QED
            BY <3>1, <3>2
    <2>2. owners # {} => InSqlTxn
        BY <1>1 DEF StoreIInv, Owned
    <2>. QED
        BY <1>1, <2>1, <2>2 DEF StoreIInv, Owned, OneOwner
<1>2. StoreIInv => TransactionsApart
    BY <1>1 DEF StoreIInv, TransactionsApart
<1>. QED
    BY <1>2, StoreIInvInit, StoreIInvNext, PTL DEF StoreSpec

(* For every number of objects and pages: a backup whose checkpoint was not
   blocked, and during which nothing was committed, is the wallet as it was when
   the backup began, whatever is opened, closed and flushed meanwhile. *)
THEOREM BackupExactTheorem ==
    StoreSpec => []BackupExact
<1>1. ASSUME StoreIInv PROVE BackupExact
    <2>. SUFFICES ASSUME backup.at = "done", backup.flushed, committed = backup.start
                  PROVE  backup.copy = backup.start
        BY DEF BackupExact
    <2>1. \A k \in Pages : backup.copy[k] = backup.start[k]
        BY <1>1 DEF StoreIInv, Backed, Undisturbed
    <2>2. backup.copy \in Contents /\ backup.start \in Contents
        BY <1>1 DEF StoreIInv, StoreTypeOK
    <2>. QED
        BY <2>1, <2>2 DEF Contents
<1>. QED
    BY <1>1, StoreIInvInit, StoreIInvNext, PTL DEF StoreSpec
=============================================================================
