----------------------------- MODULE MCServices -----------------------------
(***************************************************************************)
(* Three parts that share no state: the byte stream of one connection      *)
(* (MessageStream), the alerts (Alerts) and the stake kernel (StakeKernel).*)
(* A behaviour is one of one of them.                                      *)
(***************************************************************************)
EXTENDS MessageStream

CONSTANTS Host, Life, MaxTime, MaxConnects,
          Stake, Rounds, Ratio, nModifierInterval, nStakeMinAge

VARIABLES
  part,                                                          \* the part that moves
  clock, issued, mapAlerts, link, peer, pipe, connects,          \* the alerts
  entropy, kernel, easy, index, pindexBest, own, strays, refused \* the stake kernel

(* The second alert cancels the first.                                     *)
CancelUpTo == <<0, 1>>

Flood == INSTANCE Alerts

ASSUME AlertsAssumption == Flood!AlertsConstants

(* A trunk 0 .. 4, in which one block is earlier than its parent, and the  *)
(* branches 5, 6, 7, 11, 12, 13 and 8, 9, 10.  The modifier of block 12    *)
(* depends on the proof of block 7, and the proof of block 13 on it.       *)
N == 13
Prev == <<0, 1, 2, 3, 4, 5, 6, 4, 8, 9, 7, 11, 12>>
Time == [b \in 0 .. N |-> <<0, 4, 8, 13, 12, 18, 18, 19, 19, 25, 33, 30, 36, 41>>[b + 1]]
Entropies ==
  {[b \in 0 .. N |-> IF b \in ones THEN 1 ELSE 0] :
     ones \in {{0, 3, 5}, {1, 4, 6, 9}, {0, 2, 5, 7}, {2, 3, 4, 8, 10}}}
Kernels ==
  {[b \in 0 .. N |-> IF b \in DOMAIN coin THEN coin[b] ELSE IF b = 13 THEN 2 ELSE 0] :
     coin \in {c \in [{6, 7, 9, 10} -> 0 .. 2] : c[6] < 2 /\ c[9] < 2}}
Easy == {{}, {6, 9}, {7, 10}}

Kernel == INSTANCE StakeKernel

ASSUME StreamAssumption == StreamConstants
ASSUME KernelAssumption == Kernel!KernelConstants

alertsVars == <<clock, issued, mapAlerts, link, peer, pipe, connects>>
stakeVars == <<entropy, kernel, easy, index, pindexBest, own, strays, refused>>
mcVars == <<part, streamVars, alertsVars, stakeVars>>

(* A part that does not move is in one of its initial states.              *)
MCInit ==
  /\ part \in {"stream", "alerts", "kernel"}
  /\ StreamInit
  /\ Flood!AlertsInit
  /\ IF part = "kernel" THEN Kernel!KernelInit
     ELSE /\ entropy = [b \in 0 .. N |-> 0] /\ kernel = [b \in 0 .. N |-> 0]
          /\ easy = {} /\ own = <<>> /\ index = <<>> /\ pindexBest = 0
          /\ strays = {} /\ refused = {}

Streams(A) == part = "stream" /\ A /\ UNCHANGED <<part, alertsVars, stakeVars>>

MCNext ==
  \/ Streams(StreamNext)
  \/ part = "alerts" /\ Flood!AlertsNext /\ UNCHANGED <<part, streamVars, stakeVars>>
  \/ part = "kernel" /\ Kernel!KernelNext /\ UNCHANGED <<part, streamVars, alertsVars>>

(* StreamFairness, while that part moves.                                  *)
MCSpec ==
  /\ MCInit /\ [][MCNext]_mcVars
  /\ part = "stream" => StreamFairness

(* Connected nodes have the same alerts in effect (Alerts).                *)
AlertsAgree == Flood!AlertsAgree

(* What is recorded of a block is what its own chain gives, and a valid    *)
(* block is refused only while its modifier is off the main chain, unless  *)
(* a block before it was accepted in that state (StakeKernel).             *)
KernelAgrees == Kernel!KernelAgrees
=============================================================================
