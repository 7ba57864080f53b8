------------------------------ MODULE MCTxPool ------------------------------
(* Instances of TxPool: a and x spend the same old output, b another one,  *)
(* c spends b and a, d spends c.                                           *)
EXTENDS TxPool, TLC

CONSTANTS a, b, c, d, x

MCIns ==
  a :> << <<Coinbase, 1>> >> @@ x :> << <<Coinbase, 1>> >> @@
  b :> << <<Coinbase, 2>> >> @@ c :> << <<b, 1>>, <<a, 1>> >> @@
  d :> << <<c, 1>> >>

(* Reorganizations without orphans, and orphans of which one is not        *)
(* standard, with one block.                                               *)
MCSettings ==
  {[Loose |-> {a, b, c, x}, NonStandard |-> {}, MaxOrphans |-> 0, MaxBlocks |-> 3],
   [Loose |-> Tx, NonStandard |-> {x}, MaxOrphans |-> 2, MaxBlocks |-> 1]}
=============================================================================
