------------------------------- MODULE MCSync -------------------------------
(* The download of blocks, and the schedule of requests to several peers:  *)
(* a behaviour is one of one protocol, the other stays as it began.        *)
(*                                                                         *)
(* Block n of the main chain is at height n; block 11 is a side chain that *)
(* leaves it at height 1.                                                  *)
EXTENDS Integers, BlockSync

CONSTANTS Peer, Silent, Inv, Retry

VARIABLES part, have, asked, mapAskFor, told, sent, since

Requests == INSTANCE AskFor

ASSUME RequestsAssumption == Requests!AskForConstants

MCNone == -1
MCMain == [i \in 1..6 |-> i - 1]
MCBlock == 0..5 \cup {11}
MCParent == [b \in MCBlock |-> IF b = 11 THEN 1 ELSE b - 1]
MCSetting ==
  { [LastPow |-> 1, Initial |-> TRUE,  Daemon |-> TRUE,  MaxRefused |-> 0],
    [LastPow |-> 9, Initial |-> TRUE,  Daemon |-> FALSE, MaxRefused |-> 1],
    [LastPow |-> 9, Initial |-> FALSE, Daemon |-> FALSE, MaxRefused |-> 1] }

askVars == <<have, asked, mapAskFor, told, sent, since>>

MCInit ==
  /\ Init /\ Requests!Init
  /\ part \in {"download", "requests"}
  /\ part = "requests" => setting = CHOOSE s \in Setting : TRUE

Download == part = "download" /\ Next /\ UNCHANGED <<part, askVars>>
Ask      == part = "requests" /\ Requests!Next /\ UNCHANGED <<part, vars>>

Down(A) == part = "download" /\ A
Asks(A) == part = "requests" /\ A

MCSpec ==
  /\ MCInit /\ [][Download \/ Ask]_<<part, vars, askVars>>
  /\ WF_vars(Down(NodeReceive)) /\ WF_vars(Down(NodeSend)) /\ WF_vars(Down(RetryDue))
  /\ WF_vars(Down(Watchdog)) /\ WF_vars(Down(PeerGetBlocks)) /\ WF_vars(Down(PeerGetData))
  /\ WF_vars(Down(PeerSend))
  /\ WF_askVars(Asks(Requests!Tick))
  /\ \A p \in Peer : WF_askVars(Asks(Requests!SendMessages(p)))
  /\ \A p \in Peer, i \in Inv : WF_askVars(Asks(Requests!Answer(p, i)))

(* Synchronized of BlockSync: the node ends up with the chain of its peer. *)
DownloadEnds == <>[](part = "download" /\ Works => best = Main[tip])

(* Obtained of AskFor: what a peer that answers announced is obtained.     *)
Obtained == Requests!Obtained
=============================================================================
