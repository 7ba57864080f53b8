-------------------------- MODULE MCWalletSpending --------------------------
(***************************************************************************)
(* How the wallet pays: the choice of the coins of one payment             *)
(* (CoinSelection), and the records and flags from which the coins are     *)
(* taken (WalletCoins).  A payment holds cs_main and cs_wallet, so that    *)
(* the records do not change during the choice: a behaviour is one of one  *)
(* of them.                                                                *)
(***************************************************************************)
EXTENDS CoinSelection

VARIABLES part, damage, best, wallet, mempool, work, target, refused

(* Kinds of coins: confirmed own ones, of others, unconfirmed change, and  *)
(* one from after the time of the payment.                                 *)
Own    == [mine |-> TRUE, nDepth |-> 1, late |-> FALSE]
Theirs == [mine |-> FALSE, nDepth |-> 1, late |-> FALSE]
Change == [mine |-> TRUE, nDepth |-> 0, late |-> FALSE]
Late   == [mine |-> TRUE, nDepth |-> 10, late |-> TRUE]

(* All kinds of three coins; and four coins of one kind, for the search.   *)
MCSettings ==
  {[Coins |-> 1 .. 3, Values |-> {1, 2, 5, 8}, Kinds |-> {Own, Theirs, Change, Late},
    Amounts |-> {1, 4, 6}, MinTxFee |-> 2, Cent |-> 3, TransactionFee |-> 1, MaxSize |-> 5],
   [Coins |-> 1 .. 4, Values |-> {1, 2, 3, 4, 7}, Kinds |-> {Own},
    Amounts |-> {3, 5}, MinTxFee |-> 1, Cent |-> 2, TransactionFee |-> 0, MaxSize |-> 7]}

(* A coin; a coinstake that spends it and splits the stake; a payment that *)
(* spends the first output of the stake; a coinstake that spends the       *)
(* second, and a payment without change that spends the second and the     *)
(* change of the first payment.  Block a has the coinstake; of the blocks  *)
(* that follow it, b has the payment, c also the second coinstake, and d   *)
(* also what conflicts with it.  Block f is empty.                         *)
Tx == {"coin", "stake", "pay", "next", "stake2"}
Inputs ==
  [t \in Tx |-> CASE t = "coin" -> {}
                  [] t = "stake" -> {<<"coin", 0>>}
                  [] t = "pay" -> {<<"stake", 1>>}
                  [] t = "stake2" -> {<<"stake", 2>>}
                  [] t = "next" -> {<<"pay", 0>>, <<"stake", 2>>}]
Coinstake == {"stake", "stake2"}
Mine == {<<"coin", 0>>, <<"stake", 1>>, <<"stake", 2>>, <<"pay", 0>>, <<"stake2", 1>>}
Blocks == {"g", "a", "b", "c", "d", "f"}
Genesis == "g"
Parent == [x \in Blocks \ {Genesis} |-> IF x \in {"b", "c", "d"} THEN "a" ELSE "g"]
Content ==
  [x \in Blocks |-> CASE x = "g" -> <<"coin">>
                      [] x = "a" -> <<"stake">>
                      [] x = "b" -> <<"pay">>
                      [] x = "c" -> <<"stake2", "pay">>
                      [] x = "d" -> <<"pay", "next">>
                      [] x = "f" -> <<>>]

Records == INSTANCE WalletCoins

ASSUME RecordsAssumption == Records!CoinsConstants

recordVars == <<damage, best, wallet, mempool, work, target, refused>>

MCInit ==
  /\ part \in {"payment", "records"}
  /\ Init /\ Records!Init
  /\ part = "records" =>
       /\ ~control /\ nValue = 3
       /\ \A c \in Coins : value[c] = 1 /\ kind[c] = Own

Pays == part = "payment" /\ Next /\ UNCHANGED <<part, recordVars>>

MCNext ==
  \/ Pays
  \/ part = "records" /\ Records!Next /\ UNCHANGED <<part, vars>>

(* CreateTransaction does not wait for anything.                           *)
MCSpec == MCInit /\ [][MCNext]_<<part, vars, recordVars>> /\ WF_vars(Pays)

(* Raising the fee, which changes the coins, which changes the size, comes *)
(* to an end (CreateTransaction's outer loop).                             *)
PaymentEnds ==
  <>(part = "payment" => pc \in {"done", "noFunds", "notSigned", "tooBig"})

(* The flags are exact (WalletCoins).                                      *)
SpentExact == Records!SpentExact

(* The records that the flags rest on are there (WalletCoins).             *)
RecordsFollow == Records!RecordsFollow
=============================================================================
