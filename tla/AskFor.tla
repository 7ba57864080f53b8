------------------------------- MODULE AskFor -------------------------------
(***************************************************************************)
(* When a node asks which peer for an announced transaction or block       *)
(* (net.h, main.cpp): AskFor schedules a request for each peer that        *)
(* announces it, two minutes after the last one scheduled, SendMessages    *)
(* sends the requests that are due, and the answer makes the rest void.    *)
(* Times are relative to now, in ticks; a time further in the past than a  *)
(* retry is as good as none.  Some peers never answer, or go away.         *)
(***************************************************************************)
EXTENDS Integers, FiniteSets, FiniteSetsExt

CONSTANTS
  Peer,     \* connected peers
  Silent,   \* those that do not answer, or disconnect
  Inv,      \* what can be announced
  Retry     \* two minutes, in ticks

AskForConstants ==
  IsFiniteSet(Peer) /\ Silent \subseteq Peer /\ Retry \in Nat \ {0}

VARIABLES
  have,        \* what the node has: AlreadyHave
  asked,       \* mapAlreadyAskedFor: -Retry stands for no entry
  mapAskFor,   \* of each peer: pairs of a time and an inv
  told,        \* peers that announced an inv; each does once
  sent,        \* getdata messages not answered yet
  since        \* history: ticks since an inv was last asked for

vars == <<have, asked, mapAskFor, told, sent, since>>

Far == Retry * Cardinality(Peer)

TypeOK ==
  /\ have \subseteq Inv
  /\ asked \in [Inv -> -Retry..Far]
  /\ \A p \in Peer : mapAskFor[p] \subseteq (-Retry..Far) \X Inv
  /\ told \subseteq Peer \X Inv /\ sent \subseteq Peer \X Inv
  /\ since \in [Inv -> 0..Retry]

Init ==
  /\ have = {} /\ asked = [i \in Inv |-> -Retry] /\ mapAskFor = [p \in Peer |-> {}]
  /\ told = {} /\ sent = {} /\ since = [i \in Inv |-> Retry]

(* Mutant: a request that is scheduled already is not scheduled again.     *)
RequestOnce(p, i) ==
  IF asked[i] > -Retry THEN UNCHANGED <<asked, mapAskFor>>
  ELSE /\ asked' = [asked EXCEPT ![i] = 0]
       /\ mapAskFor' = [mapAskFor EXCEPT ![p] = mapAskFor[p] \cup {<<0, i>>}]

(* CNode::AskFor.                                                          *)
Request(p, i) ==
  LET nRequestTime == Max({asked[i] + Retry, 0}) IN
  /\ asked' = [asked EXCEPT ![i] = nRequestTime]
  /\ mapAskFor' = [mapAskFor EXCEPT ![p] = mapAskFor[p] \cup {<<nRequestTime, i>>}]

(* The message "inv" from p.                                               *)
Announce(p, i) ==
  /\ <<p, i>> \notin told
  /\ told' = told \cup {<<p, i>>}
  /\ IF i \in have THEN UNCHANGED <<asked, mapAskFor>> ELSE Request(p, i)
  /\ UNCHANGED <<have, sent, since>>

Due(p) == {e \in mapAskFor[p] : e[1] <= 0}
Wanted(p) == {e[2] : e \in Due(p)} \ have

(* SendMessages to p.                                                      *)
SendMessages(p) ==
  /\ Due(p) # {}
  /\ mapAskFor' = [mapAskFor EXCEPT ![p] = mapAskFor[p] \ Due(p)]
  /\ asked' = [i \in Inv |-> IF i \in Wanted(p) THEN 0 ELSE asked[i]]
  /\ sent' = sent \cup ({p} \X Wanted(p))
  /\ since' = [i \in Inv |-> IF i \in Wanted(p) THEN 0 ELSE since[i]]
  /\ UNCHANGED <<have, told>>

(* The messages "tx" and "block" from p.                                   *)
Answer(p, i) ==
  /\ p \notin Silent /\ <<p, i>> \in sent
  /\ sent' = sent \ {<<p, i>>}
  /\ have' = have \cup {i}
  /\ asked' = [asked EXCEPT ![i] = IF i \in have THEN asked[i] ELSE -Retry]
  /\ UNCHANGED <<mapAskFor, told, since>>

(* The node of p is deleted; mapAlreadyAskedFor stays.                     *)
Disconnect(p) ==
  /\ p \in Silent
  /\ mapAskFor' = [mapAskFor EXCEPT ![p] = {}]
  /\ sent' = {r \in sent : r[1] # p}
  /\ UNCHANGED <<have, asked, told, since>>

(* A tick is long against the round of the message thread.                 *)
Tick ==
  /\ \A p \in Peer : Due(p) = {}
  /\ asked' = [i \in Inv |-> Max({asked[i] - 1, -Retry})]
  /\ mapAskFor' = [p \in Peer |-> {<<Max({e[1] - 1, -Retry}), e[2]>> : e \in mapAskFor[p]}]
  /\ since' = [i \in Inv |-> IF since[i] < Retry THEN since[i] + 1 ELSE Retry]
  /\ UNCHANGED <<have, told, sent>>

Next ==
  \/ \E p \in Peer : SendMessages(p) \/ Disconnect(p)
  \/ \E p \in Peer, i \in Inv : Announce(p, i) \/ Answer(p, i)
  \/ Tick

(* The message thread comes round to every peer, a peer that answers does  *)
(* so, and time goes on.                                                   *)
Fairness ==
  /\ WF_vars(Tick)
  /\ \A p \in Peer : WF_vars(SendMessages(p))
  /\ \A p \in Peer, i \in Inv : WF_vars(Answer(p, i))

Spec == Init /\ [][Next]_vars /\ Fairness

-----------------------------------------------------------------------------
(* What a peer that answers announced is obtained, however many others     *)
(* announced it first and then stay silent or go away: mapAlreadyAskedFor  *)
(* delays a request and never suppresses it.                               *)
Obtained == \A p \in Peer \ Silent, i \in Inv : (<<p, i>> \in told) ~> (i \in have)

(* "Each retry is 2 minutes after the last": no inv is asked for again     *)
(* within two minutes.                                                     *)
RetrySpacing ==
  [][\A p \in Peer, i \in Inv :
       <<p, i>> \in sent' \ sent => since[i] = Retry]_vars
=============================================================================
