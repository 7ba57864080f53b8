---------------------------- MODULE MCChainState ----------------------------
(***************************************************************************)
(* A small tree of blocks for ChainState, proof of work only:              *)
(*                                                                         *)
(*   G -- P -- A2 -- A3                                                    *)
(*         \                                                               *)
(*          B2 -- B3 -- B4                                                 *)
(*            \                                                            *)
(*             X3 -- X4                                                    *)
(*                                                                         *)
(* The coinbase cp of P has two outputs.  ta in A2 and tb in B2 spend the  *)
(* first one, each on its branch; ta is also in B4, where that is a double *)
(* spend.  B3 spends an output of tb.  X3 spends the first output of cp    *)
(* again, a double spend on its chain.  td, the second output of cp, is in *)
(* A3 and in B3: a transaction both branches confirm.                      *)
(***************************************************************************)
EXTENDS ChainState

MCBlock == {"G", "P", "A2", "A3", "B2", "B3", "B4", "X3", "X4"}

MCPrev == [G |-> "none", P |-> "G", A2 |-> "P", A3 |-> "A2", B2 |-> "P",
           B3 |-> "B2", B4 |-> "B3", X3 |-> "B2", X4 |-> "X3"]

MCChain[b \in MCBlock] ==
  IF b = "G" THEN {"G"} ELSE MCChain[MCPrev[b]] \cup {b}

MCHeight == [b \in MCBlock |-> Cardinality(MCChain[b]) - 1]

MCTrust == [b \in MCBlock |-> 1 + MCHeight[b]]

MCStake == [b \in MCBlock |-> "none"]

MCTx == {"cp", "c2", "c3", "d2", "d3", "d4", "e3", "e4",
         "ta", "tb", "tc", "td", "te"}

MCVtx == [G |-> << >>, P |-> <<"cp">>,
          A2 |-> <<"c2", "ta">>, A3 |-> <<"c3", "td">>,
          B2 |-> <<"d2", "tb">>, B3 |-> <<"d3", "td", "tc">>,
          B4 |-> <<"d4", "ta">>, X3 |-> <<"e3", "te">>, X4 |-> <<"e4">>]

MCVin == [t \in MCTx |->
            CASE t = "ta" -> {<<"cp", 0>>}
              [] t = "tb" -> {<<"cp", 0>>}
              [] t = "tc" -> {<<"tb", 0>>, <<"td", 0>>}
              [] t = "td" -> {<<"cp", 1>>}
              [] t = "te" -> {<<"cp", 0>>}
              [] OTHER -> {}]

MCVout == [t \in MCTx |-> IF t = "cp" THEN {0, 1} ELSE {0}]

MCGenerated == {"cp", "c2", "c3", "d2", "d3", "d4", "e3", "e4"}
=============================================================================
