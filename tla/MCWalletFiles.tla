---------------------------- MODULE MCWalletFiles ----------------------------
(***************************************************************************)
(* The wallet file: its conversion from Berkeley DB (WalletMigrate), which *)
(* is over before the file is opened, its encryption (WalletCrypt), and    *)
(* the SQLite connection its users share (WalletStore).  A behaviour is    *)
(* one of one of them.                                                     *)
(***************************************************************************)
EXTENDS WalletCrypt, WalletMigrate, WalletStore

VARIABLE part    \* what moves

mcVars == <<part, vars, migrateVars, storeVars>>

MCInit ==
  /\ part \in {"migration", "encryption", "store"}
  /\ Init /\ MigrateInit /\ StoreInit
  /\ part # "migration" => wallet = NoFile
  /\ part # "encryption" => disk.plain = Keys

MCNext ==
  \/ part = "migration" /\ MigrateNext /\ UNCHANGED <<part, vars, storeVars>>
  \/ part = "encryption" /\ Next /\ UNCHANGED <<part, migrateVars, storeVars>>
  \/ part = "store" /\ StoreNext /\ UNCHANGED <<part, vars, migrateVars>>

MCSpec == MCInit /\ [][MCNext]_mcVars
=============================================================================
