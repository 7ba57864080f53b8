--------------------------- MODULE WalletMigrate ---------------------------
(***************************************************************************)
(* The one-time conversion of wallet.dat from Berkeley DB to SQLite at     *)
(* start-up (walletmigrate.cpp), one step per file operation, with a       *)
(* failure of any operation and a stop of the process between any two.     *)
(* A file is absent or has a format and a set of committed records.        *)
(***************************************************************************)
EXTENDS Naturals

CONSTANT
  Record    \* what a wallet stores: keys, transactions, names

VARIABLES
  wallet,     \* the file wallet.dat
  tmp,        \* the file wallet.dat.sqlite.tmp
  bak,        \* the file wallet.dat.<timestamp>.bdb.bak
  vRecords,   \* the records read from the Berkeley DB wallet
  pc,         \* where the start-up is; "off" when the process is not running
  owned,      \* history: every record a wallet of this user has stored
  torn        \* history: a start-up ended between the two renames

migrateVars == <<wallet, tmp, bak, vRecords, pc, owned, torn>>

File == [fmt : {"bdb", "sqlite"}, recs : SUBSET Record]

(* A path where there is no file.                                          *)
NoFile == [fmt |-> "none", recs |-> {}]

SQLite(recs) == [fmt |-> "sqlite", recs |-> recs]

Recs(f) == IF f = NoFile THEN {} ELSE f.recs

Migrating == {"read", "clear", "create", "insert", "verify", "backup", "swap",
              "rollback", "load"}

MigrateTypeOK ==
  /\ wallet \in File \cup {NoFile}
  /\ tmp \in File \cup {NoFile}
  /\ bak \in File \cup {NoFile}
  /\ vRecords \subseteq Record
  /\ pc \in Migrating \cup {"off", "running"}
  /\ owned \subseteq Record
  /\ torn \in BOOLEAN
  /\ pc = "read" => wallet # NoFile /\ wallet.fmt = "bdb"
  /\ pc \in {"insert", "verify", "backup", "swap"} => tmp # NoFile
  /\ pc = "running" => wallet # NoFile

(* The data directory of a new user, or of one of an older version.        *)
MigrateInit ==
  /\ wallet \in {NoFile} \cup [fmt : {"bdb"}, recs : SUBSET Record]
  /\ tmp = NoFile
  /\ bak = NoFile
  /\ vRecords = {}
  /\ pc = "off"
  /\ owned = Recs(wallet)
  /\ torn = FALSE

-----------------------------------------------------------------------------
(* (1) Nothing to migrate, or a Berkeley DB wallet.  A left-over temporary *)
(* file is swept up only beside a wallet that is already SQLite; whether   *)
(* it could be removed is not looked at.                                   *)
BeginMigration ==
  /\ pc = "off"
  /\ \/ wallet = NoFile /\ pc' = "load" /\ UNCHANGED tmp
     \/ /\ wallet # NoFile
        /\ wallet.fmt = "sqlite"
        /\ pc' = "load"
        /\ tmp' \in {NoFile, tmp}
     \/ /\ wallet # NoFile
        /\ wallet.fmt = "bdb"
        /\ pc' = "read"
        /\ UNCHANGED tmp
  /\ UNCHANGED <<wallet, bak, vRecords, owned, torn>>

(* WMIGRATE_ERROR: the start-up gives up.                                  *)
MigrationFails ==
  /\ pc' = "off"
  /\ UNCHANGED <<wallet, bak, vRecords, owned, torn>>

(* ... after it removed the temporary file, if that is possible.           *)
MigrationFailsWithTmp == MigrationFails /\ tmp' \in {NoFile, tmp}

(* Mutant: an error of the cursor ends the copy as the last record does.   *)
ReadSomeBdbRecords ==
  /\ pc = "read"
  /\ \/ /\ vRecords' \in SUBSET wallet.recs
        /\ pc' = "clear"
        /\ UNCHANGED <<wallet, tmp, bak, owned, torn>>
     \/ MigrationFails /\ UNCHANGED tmp

(* (2) Read every record; an empty wallet is refused.                      *)
ReadAllBdbRecords ==
  /\ pc = "read"
  /\ \/ /\ wallet.recs # {}
        /\ vRecords' = wallet.recs
        /\ pc' = "clear"
        /\ UNCHANGED <<wallet, tmp, bak, owned, torn>>
     \/ MigrationFails /\ UNCHANGED tmp

(* (3) Remove an old temporary file, as far as possible, ...               *)
ClearTmp ==
  /\ pc = "clear"
  /\ tmp' \in {NoFile, tmp}
  /\ pc' = "create"
  /\ UNCHANGED <<wallet, bak, vRecords, owned, torn>>

(* ... create the table, which an old file already has, and ...            *)
CreateTable ==
  /\ pc = "create"
  /\ \/ /\ tmp = NoFile
        /\ tmp' = SQLite({})
        /\ pc' = "insert"
        /\ UNCHANGED <<wallet, bak, vRecords, owned, torn>>
     \/ MigrationFailsWithTmp

(* ... insert the records in one SQLite transaction.                       *)
WriteSQLite ==
  /\ pc = "insert"
  /\ \/ /\ tmp' = SQLite(vRecords)
        /\ pc' = "verify"
        /\ UNCHANGED <<wallet, bak, vRecords, owned, torn>>
     \/ MigrationFailsWithTmp

(* (4) Compare the temporary file with the records read.                   *)
VerifySQLite ==
  /\ pc = "verify"
  /\ \/ /\ tmp.recs = vRecords
        /\ pc' = "backup"
        /\ UNCHANGED <<wallet, tmp, bak, vRecords, owned, torn>>
     \/ MigrationFailsWithTmp

(* Mutant: the original is removed instead of kept.                        *)
RemoveOriginal ==
  /\ pc = "backup"
  /\ \/ /\ wallet' = NoFile
        /\ pc' = "swap"
        /\ UNCHANGED <<bak, tmp, vRecords, owned, torn>>
     \/ MigrationFailsWithTmp

(* (5) Rename the original to the backup, ...                              *)
BackupOriginal ==
  /\ pc = "backup"
  /\ \/ /\ bak' = wallet
        /\ wallet' = NoFile
        /\ pc' = "swap"
        /\ UNCHANGED <<tmp, vRecords, owned, torn>>
     \/ MigrationFailsWithTmp

(* ... then the temporary file to wallet.dat.                              *)
SwapIn ==
  /\ pc = "swap"
  /\ \/ /\ wallet' = tmp
        /\ tmp' = NoFile
        /\ pc' = "load"
     \/ /\ pc' = "rollback"
        /\ UNCHANGED <<wallet, tmp>>
  /\ UNCHANGED <<bak, vRecords, owned, torn>>

(* Roll the original back; whether that worked is not looked at.           *)
RollBack ==
  /\ pc = "rollback"
  /\ pc' = "off"
  /\ \/ /\ wallet' = bak
        /\ bak' = NoFile
        /\ UNCHANGED torn
     \/ /\ torn' = TRUE
        /\ UNCHANGED <<wallet, bak>>
  /\ UNCHANGED <<tmp, vRecords, owned>>

(* The node opens the wallet; SQLite creates the file when there is none.  *)
LoadWallet ==
  /\ pc = "load"
  /\ wallet' = IF wallet = NoFile THEN SQLite({}) ELSE wallet
  /\ pc' = "running"
  /\ UNCHANGED <<tmp, bak, vRecords, owned, torn>>

(* The running node stores a record.                                       *)
WriteRecord(r) ==
  /\ pc = "running"
  /\ wallet' = [wallet EXCEPT !.recs = @ \cup {r}]
  /\ owned' = owned \cup {r}
  /\ UNCHANGED <<tmp, bak, vRecords, pc, torn>>

(* The process stops, at any moment.                                       *)
StopMigration ==
  /\ pc # "off"
  /\ pc' = "off"
  /\ torn' = (torn \/ pc \in {"swap", "rollback"})
  /\ UNCHANGED <<wallet, tmp, bak, vRecords, owned>>

MigrateWalletToSQLite ==
  \/ ReadAllBdbRecords
  \/ ClearTmp
  \/ CreateTable
  \/ WriteSQLite
  \/ VerifySQLite
  \/ BackupOriginal
  \/ SwapIn
  \/ RollBack
  \/ LoadWallet

MigrateNext ==
  \/ BeginMigration
  \/ MigrateWalletToSQLite
  \/ \E r \in Record : WriteRecord(r)
  \/ StopMigration

MigrateSpec == MigrateInit /\ [][MigrateNext]_migrateVars

-----------------------------------------------------------------------------
(* No record the user ever had is lost: whatever fails and wherever the    *)
(* process stops, each is in wallet.dat or in the kept original.           *)
NothingLost == owned \subseteq Recs(wallet) \cup Recs(bak)

(* A node that runs has the user's whole wallet, unless an earlier         *)
(* start-up ended between the two renames.                                 *)
WholeWallet == pc = "running" /\ ~torn => owned \subseteq Recs(wallet)

(* Both: what the user stored is there, and a running node has it.         *)
RecordsKept == NothingLost /\ WholeWallet

(* "The original is NEVER overwritten in place" (walletmigrate.h): a       *)
(* Berkeley DB wallet.dat only ever moves to the backup, once a temporary  *)
(* file with all of its records is there.                                  *)
OriginalKept ==
  [][wallet # NoFile /\ wallet.fmt = "bdb" /\ wallet' # wallet =>
       wallet' = NoFile /\ bak' = wallet /\ Recs(tmp) = wallet.recs]_migrateVars

(* "so the user is never left without a wallet" (MigrateWalletToSQLite),   *)
(* "abort rather than run on a half-migrated state" (walletmigrate.h): a   *)
(* running node would always have the user's whole wallet.                 *)
NeverWithoutWallet == pc = "running" => owned \subseteq Recs(wallet)
=============================================================================
