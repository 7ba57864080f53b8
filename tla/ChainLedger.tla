---------------------------- MODULE ChainLedger ----------------------------
(***************************************************************************)
(* What the block chain code of a node promises about what it has          *)
(* committed to disk, with no memory, no steps and no crashes in sight: a  *)
(* tip, and a synchronized checkpoint.  The tip moves in one step from one *)
(* valid chain to another that holds the checkpoint; it gives up trust     *)
(* only on the way to a block the checkpoint master signed.                *)
(*                                                                         *)
(* The promise is void once a postponed block failed to connect and        *)
(* SetBestChain went on (main.cpp, "errors now are not fatal").            *)
(***************************************************************************)
EXTENDS BlockTree

CONSTANT Signed     \* blocks of signed checkpoints, and the compiled-in one

VARIABLES tip, sync, void

ledgerVars == <<tip, sync, void>>

Init == tip = Genesis /\ sync = Genesis /\ void = FALSE

MoveTip(b) ==
  /\ ~void
  /\ ValidChain(b)
  /\ sync \in Chain[b]
  /\ nChainTrust[b] > nChainTrust[tip] \/ \E c \in Signed : b \in Chain[c]
  /\ tip' = b
  /\ UNCHANGED <<sync, void>>

MoveCheckpoint(h) ==
  /\ h \in Signed
  /\ sync \in Chain[h]
  /\ h \in Chain[tip] \/ void
  /\ sync' = h
  /\ UNCHANGED <<tip, void>>

BecomeVoid == void' = TRUE /\ UNCHANGED <<tip, sync>>

Anything == void /\ tip' \in Block /\ UNCHANGED <<sync, void>>

Next ==
  \/ \E b \in Block : MoveTip(b) \/ MoveCheckpoint(b)
  \/ BecomeVoid
  \/ Anything

Spec == Init /\ [][Next]_ledgerVars
=============================================================================
