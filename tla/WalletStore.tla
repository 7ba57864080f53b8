----------------------------- MODULE WalletStore -----------------------------
(***************************************************************************)
(* The wallet file: every CWalletDB object of the process shares one SQLite *)
(* connection, which CSQLiteEnv counts, opens and closes.  SQLite itself is *)
(* external: a connection has at most one transaction, a statement outside  *)
(* it commits by itself, a commit goes to the write-ahead log, a checkpoint *)
(* moves the log into the .dat file and fails while the connection has a    *)
(* transaction.  The file is a B-tree of pages; a statement changes some of *)
(* them, which then carry its number, 0 for none.                           *)
(*                                                                         *)
(* cs_sqlite makes each operation atomic.  BackupWallet copies the .dat     *)
(* file, a page after the other, without any lock.                          *)
(***************************************************************************)
EXTENDS Naturals, FiniteSets

CONSTANTS
    Handles,      \* CWalletDB objects, each used by one thread
    Pages,        \* of the file
    MaxWrites     \* bound: statements of a behaviour

ASSUME StoreAssumption ==
    IsFiniteSet(Handles) /\ Pages # {} /\ MaxWrites \in Nat

VARIABLES
    refcount,   \* of the connection; 0: closed
    handle,     \* Handles -> [open, fInTxn]
    sqlTxn,     \* the pages as the connection's transaction sees them, or NoSqlTxn
    committed,  \* the pages in the .dat file and the log together
    dat,        \* the pages in the .dat file alone
    backup,     \* BackupWallet: where it is, what is left to copy, the copy; the
                \* pages as they were committed when it began, and whether its
                \* checkpoint could move them all into the .dat file
    nWrites,
    failed,     \* history: the writes of transactions whose commit failed
    rolledBack  \* history: SQLite has taken back a transaction by itself

storeVars == <<refcount, handle, sqlTxn, committed, dat, backup, nWrites, failed, rolledBack>>
fileVars == <<refcount, handle, sqlTxn, committed, dat>>

Values == 0 .. MaxWrites
Contents == [Pages -> Values]
NoSqlTxn == [k \in {} |-> 0]
InSqlTxn == sqlTxn # NoSqlTxn

StoreTypeOK ==
    /\ refcount \in 0 .. Cardinality(Handles)
    /\ handle \in [Handles -> [open : BOOLEAN, fInTxn : BOOLEAN]]
    /\ sqlTxn \in Contents \cup {NoSqlTxn}
    /\ committed \in Contents
    /\ dat \in Contents
    /\ backup \in [at : {"idle", "copy", "done"}, todo : SUBSET Pages, copy : Contents,
                  start : Contents, flushed : BOOLEAN]
    /\ nWrites \in 0 .. MaxWrites
    /\ failed \subseteq Values
    /\ rolledBack \in BOOLEAN

Closed == [open |-> FALSE, fInTxn |-> FALSE]
Empty == [p \in Pages |-> 0]
NoBackup == [at |-> "idle", todo |-> {}, copy |-> Empty, start |-> Empty, flushed |-> FALSE]

StoreInit ==
    /\ refcount = 0
    /\ handle = [h \in Handles |-> Closed]
    /\ sqlTxn = NoSqlTxn
    /\ committed = Empty /\ dat = Empty
    /\ backup = NoBackup
    /\ nWrites = 0
    /\ failed = {}
    /\ rolledBack = FALSE

-----------------------------------------------------------------------------
(* CSQLiteEnv and CSQLiteDB *)

Open(h) ==
    /\ ~handle[h].open
    /\ refcount' = refcount + 1
    /\ handle' = [handle EXCEPT ![h] = [open |-> TRUE, fInTxn |-> FALSE]]
    /\ UNCHANGED <<sqlTxn, committed, dat, backup, nWrites, failed, rolledBack>>

(* Mutant: the log is left behind by the last reference. *)
CloseLeavesLog(h) ==
    /\ handle[h].open
    /\ handle' = [handle EXCEPT ![h] = Closed]
    /\ refcount' = refcount - 1
    /\ sqlTxn' = IF handle[h].fInTxn \/ refcount = 1 THEN NoSqlTxn ELSE sqlTxn
    /\ UNCHANGED <<committed, dat, backup, nWrites, failed, rolledBack>>

(* A transaction of the handle is rolled back.  With the last reference the
   connection is closed, which rolls back what is open; the log is checkpointed, by
   the code before or by SQLite itself. *)
Close(h) ==
    /\ handle[h].open
    /\ handle' = [handle EXCEPT ![h] = Closed]
    /\ refcount' = refcount - 1
    /\ sqlTxn' = IF handle[h].fInTxn \/ refcount = 1 THEN NoSqlTxn ELSE sqlTxn
    /\ dat' = IF refcount = 1 THEN committed ELSE dat
    /\ UNCHANGED <<committed, backup, nWrites, failed, rolledBack>>

(* The pages r after a statement that changes those in P. *)
Changed(r, P) == [p \in Pages |-> IF p \in P THEN nWrites + 1 ELSE r[p]]

(* WriteBlob and EraseBlob: the statement is part of the connection's
   transaction, whoever began it; otherwise it commits.  One that fails by itself
   changes nothing. *)
Write(h, P) ==
    /\ handle[h].open /\ nWrites < MaxWrites
    /\ nWrites' = nWrites + 1
    /\ IF InSqlTxn
       THEN sqlTxn' = Changed(sqlTxn, P) /\ UNCHANGED committed
       ELSE committed' = Changed(committed, P) /\ UNCHANGED sqlTxn
    /\ UNCHANGED <<refcount, handle, dat, backup, failed, rolledBack>>

(* ... or it fails and SQLite takes back the whole transaction, of which the
   object that began it learns nothing (disk full, an I/O error, no memory). *)
WriteFails(h) ==
    /\ handle[h].open /\ InSqlTxn
    /\ sqlTxn' = NoSqlTxn
    /\ rolledBack' = TRUE
    /\ UNCHANGED <<refcount, handle, committed, dat, backup, nWrites, failed>>

(* BEGIN IMMEDIATE fails while the connection has a transaction. *)
TxnBegin(h) ==
    /\ handle[h].open /\ ~handle[h].fInTxn
    /\ ~InSqlTxn
    /\ sqlTxn' = committed
    /\ handle' = [handle EXCEPT ![h].fInTxn = TRUE]
    /\ UNCHANGED <<refcount, committed, dat, backup, nWrites, failed, rolledBack>>

(* The writes of the transaction so far. *)
Pending == {sqlTxn[p] : p \in {q \in Pages : sqlTxn[q] # committed[q]}}

(* Mutant: the handle still takes the transaction for its own. *)
TxnCommitKeeps(h) ==
    /\ handle[h].fInTxn
    /\ \/ /\ InSqlTxn
          /\ committed' = sqlTxn /\ sqlTxn' = NoSqlTxn
          /\ handle' = [handle EXCEPT ![h].fInTxn = FALSE]
          /\ UNCHANGED failed
       \/ /\ failed' = IF InSqlTxn THEN failed \cup Pending ELSE failed
          /\ UNCHANGED <<handle, committed, sqlTxn>>
    /\ UNCHANGED <<refcount, dat, backup, nWrites, rolledBack>>

(* COMMIT may fail, and does without a transaction; then SQLite has rolled the
   transaction back or not.  The handle forgets it in every case. *)
TxnCommit(h) ==
    /\ handle[h].fInTxn
    /\ handle' = [handle EXCEPT ![h].fInTxn = FALSE]
    /\ \/ /\ InSqlTxn
          /\ committed' = sqlTxn /\ sqlTxn' = NoSqlTxn
          /\ UNCHANGED failed
       \/ /\ failed' = IF InSqlTxn THEN failed \cup Pending ELSE failed
          /\ sqlTxn' \in {sqlTxn, NoSqlTxn}
          /\ UNCHANGED committed
    /\ UNCHANGED <<refcount, dat, backup, nWrites, rolledBack>>

TxnAbort(h) ==
    /\ handle[h].fInTxn
    /\ sqlTxn' = NoSqlTxn
    /\ handle' = [handle EXCEPT ![h].fInTxn = FALSE]
    /\ UNCHANGED <<refcount, committed, dat, backup, nWrites, failed, rolledBack>>

(* Flush, by ThreadFlushWalletDB or at shutdown, and the checkpoints that SQLite
   makes by itself. *)
Checkpointed == IF refcount > 0 /\ ~InSqlTxn THEN committed ELSE dat

Flush ==
    /\ dat' = Checkpointed
    /\ UNCHANGED <<refcount, handle, sqlTxn, committed, backup, nWrites, failed, rolledBack>>

-----------------------------------------------------------------------------
(* BackupWallet *)

(* The checkpoint; its result is not looked at. *)
BeginBackup ==
    /\ backup.at # "copy"
    /\ backup' = [NoBackup EXCEPT !.at = "copy", !.todo = Pages, !.start = committed,
                                  !.flushed = ~InSqlTxn]
    /\ dat' = Checkpointed
    /\ UNCHANGED <<refcount, handle, sqlTxn, committed, nWrites, failed, rolledBack>>

(* copy_file.  Pages are copied in any order here: it reads them in theirs, but a
   checkpoint, one step above, also writes them one by one. *)
CopyPage(p) ==
    /\ backup.at = "copy" /\ p \in backup.todo
    /\ backup' = [backup EXCEPT !.at = IF backup.todo = {p} THEN "done" ELSE "copy",
                                !.todo = backup.todo \ {p}, !.copy[p] = dat[p]]
    /\ UNCHANGED <<fileVars, nWrites, failed, rolledBack>>

(* The process stops and starts: a transaction is lost, the log is recovered, and
   LoadWallet opens and closes the file, which checkpoints it.  The copy of a
   backup that was cut off is no backup. *)
StopProcess ==
    /\ refcount' = 0
    /\ handle' = [h \in Handles |-> Closed]
    /\ sqlTxn' = NoSqlTxn
    /\ dat' = committed
    /\ backup' = NoBackup
    /\ UNCHANGED <<committed, nWrites, failed, rolledBack>>

StoreNext ==
    \/ \E h \in Handles : \/ Open(h) \/ Close(h)
                          \/ TxnBegin(h) \/ TxnCommit(h) \/ TxnAbort(h)
                          \/ \E P \in (SUBSET Pages) \ {{}} : Write(h, P)
                          \/ WriteFails(h)
    \/ Flush
    \/ BeginBackup
    \/ \E p \in Pages : CopyPage(p)
    \/ StopProcess

StoreSpec == StoreInit /\ [][StoreNext]_storeVars

-----------------------------------------------------------------------------
(* Properties *)

(* The connection is open exactly as long as some object uses it: no object is
   left with a closed one, and no reference is leaked that would keep the log. *)
Counted == refcount = Cardinality({h \in Handles : handle[h].open})

(* At most one object takes the connection's transaction for its own, and then
   the connection has one: its TxnCommit commits what it wrote. *)
OneOwner ==
    LET owners == {h \in Handles : handle[h].fInTxn} IN
    Cardinality(owners) <= 1 /\ (owners # {} => InSqlTxn)

(* What a transaction wrote whose commit was reported as failed is never in the
   file, not even with the later writes of other objects. *)
FailedStaysOut == \A p \in Pages : committed[p] \notin failed

(* Transactions of different objects stay apart on the connection they share, as
   long as SQLite takes none back by itself: the object that began it would go on
   inside the transaction of another one. *)
TransactionsApart == StoreTypeOK /\ Counted /\ (~rolledBack => OneOwner /\ FailedStaysOut)

(* A complete backup is the wallet as it was committed when the backup began, if
   its checkpoint was not blocked by a transaction and nothing was committed
   until the copy was done.  It is so also if no connection is open when it begins,
   when Flush does nothing, and whatever is opened, closed and flushed meanwhile. *)
BackupExact ==
    backup.at = "done" /\ backup.flushed /\ committed = backup.start
        => backup.copy = backup.start

(* ... and without the last condition it is that, or the wallet as it is when the
   copy is done.  It is not: a checkpoint between two pages leaves a mixture. *)
BackupNotTorn ==
    backup.at = "done" /\ backup.flushed => backup.copy \in {backup.start, committed}
=============================================================================
