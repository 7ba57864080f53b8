---------------------------- MODULE MCChainStake ----------------------------
(***************************************************************************)
(* A small tree with proof-of-stake blocks:                                *)
(*                                                                         *)
(*              Q1 -- O1                                                   *)
(*             /  \-- O3                                                   *)
(*   G -- P --                                                             *)
(*             \                                                           *)
(*              Q2 -- O2 -- C                                              *)
(*                                                                         *)
(* O1, O2 and O3 are minted with the same stake, the coinbase of P, and    *)
(* any of them may fail the kernel check.  The others are proof of work.   *)
(***************************************************************************)
EXTENDS ChainState

MCBlock == {"G", "P", "Q1", "Q2", "O1", "O2", "O3", "C"}

MCPrev == [G |-> "none", P |-> "G", Q1 |-> "P", Q2 |-> "P", O1 |-> "Q1",
           O2 |-> "Q2", O3 |-> "Q1", C |-> "O2"]

MCChain[b \in MCBlock] ==
  IF b = "G" THEN {"G"} ELSE MCChain[MCPrev[b]] \cup {b}

MCHeight == [b \in MCBlock |-> Cardinality(MCChain[b]) - 1]

MCTrust == [b \in MCBlock |-> 1 + MCHeight[b]]

MCMinted == {"O1", "O2", "O3"}

MCStake == [b \in MCBlock |-> IF b \in MCMinted THEN "cp0" ELSE "none"]

(* One coinbase a block, named after it, and the coinstakes k1, k2, k3.    *)
MCTx == {"p", "q1", "q2", "c", "k1", "k2", "k3"}

MCVtx == [G |-> << >>, P |-> <<"p">>, Q1 |-> <<"q1">>, Q2 |-> <<"q2">>,
          O1 |-> <<"k1">>, O2 |-> <<"k2">>, O3 |-> <<"k3">>, C |-> <<"c">>]

MCVin == [t \in MCTx |-> IF t \in {"k1", "k2", "k3"} THEN {<<"p", 0>>} ELSE {}]

MCVout == [t \in MCTx |-> {0}]
=============================================================================
