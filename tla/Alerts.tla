------------------------------- MODULE Alerts -------------------------------
(***************************************************************************)
(* Alerts flooding the network (alert.cpp, the "version" and "alert"       *)
(* handlers of main.cpp and the sendalert command): which alerts each node *)
(* has, what it remembers of each connection in setKnown, and the messages *)
(* under way, while connections come and go, alerts cancel each other and  *)
(* expire.                                                                 *)
(*                                                                         *)
(* The alerts are those of sendalert: no setCancel, nExpiration and        *)
(* nRelayUntil a year after the issue; their numbers ascend.  The nodes'   *)
(* adjusted clocks agree.                                                  *)
(***************************************************************************)
EXTENDS Naturals, Sequences, FiniteSets, SequencesExt

CONSTANTS Host,         \* the nodes
          CancelUpTo,   \* CancelUpTo[i]: nCancel of alert number i
          Life,         \* from issue to nExpiration
          MaxTime,      \* bound on the clock
          MaxConnects   \* bound on the number of connections ever made

AlertsConstants ==
  /\ \A i \in DOMAIN CancelUpTo : CancelUpTo[i] \in Nat /\ CancelUpTo[i] < i
  /\ {Life, MaxTime, MaxConnects} \subseteq Nat

VARIABLES
  clock,
  issued,      \* number of alerts issued so far
  mapAlerts,   \* per node
  link,        \* pairs <<n, p>>: n opened the connection it has with p
  peer,        \* per pair <<n, p>>: what n keeps of p: nVersion # 0, setKnown
  pipe,        \* per pair <<n, p>>: messages from n to p under way
  connects

alertVars == <<clock, issued, mapAlerts, link, peer, pipe, connects>>

Pairs == {x \in Host \X Host : x[1] # x[2]}
Back(x) == <<x[2], x[1]>>
Linked(x) == x \in link \/ Back(x) \in link
NewNode == [nVersion |-> FALSE, setKnown |-> {}]

(* The version message, as an element of a pipe.                           *)
Version == [nID |-> 0, nExpiration |-> 0]

IsInEffect(a) == clock < a.nExpiration

Cancels(a, b) == IsInEffect(a) /\ b.nID <= CancelUpTo[a.nID]

----------------------------------------------------------------------------
(* ProcessAlert: the alerts afterwards, and whether the alert was taken.   *)
ProcessAlert(alerts, a) ==
  LET left == {b \in alerts : ~Cancels(a, b) /\ IsInEffect(b)}
  IN  IF ~IsInEffect(a) THEN [alerts |-> alerts, ok |-> FALSE]
      ELSE IF \E b \in left : Cancels(b, a) THEN [alerts |-> left, ok |-> FALSE]
      ELSE [alerts |-> left \cup {a}, ok |-> TRUE]

(* The state of connections as RelayTo changes it.                         *)
Nodes == [peer |-> peer, pipe |-> pipe]

(* Mutant: the alert is remembered although it is not sent yet.            *)
RelayToEarly(s, x, a) ==
  IF ~IsInEffect(a) \/ ~Linked(x) \/ a \in s.peer[x].setKnown THEN s
  ELSE [peer |-> [s.peer EXCEPT ![x].setKnown = @ \cup {a}],
        pipe |-> [s.pipe EXCEPT ![x] = IF s.peer[x].nVersion THEN Append(@, a) ELSE @]]

(* RelayTo: "don't relay to nodes which haven't sent their version         *)
(* message"; each alert goes once over a connection.                       *)
RelayTo(s, x, a) ==
  IF \/ ~IsInEffect(a) \/ ~Linked(x) \/ ~s.peer[x].nVersion
     \/ a \in s.peer[x].setKnown THEN s
  ELSE [peer |-> [s.peer EXCEPT ![x].setKnown = @ \cup {a}],
        pipe |-> [s.pipe EXCEPT ![x] = Append(@, a)]]

(* To every node of vNodes.                                                *)
RelayToAll(s, n, a) ==
  FoldLeft(LAMBDA t, p : RelayTo(t, <<n, p>>, a), s, SetToSeq(Host \ {n}))

Becomes(s) == peer' = s.peer /\ pipe' = s.pipe

----------------------------------------------------------------------------

(* n connects to p and sends its version at once (the constructor of       *)
(* CNode); the other end waits for it.                                     *)
Connect(x) ==
  /\ ~Linked(x) /\ connects < MaxConnects
  /\ connects' = connects + 1
  /\ link' = link \cup {x}
  /\ pipe' = [pipe EXCEPT ![x] = <<Version>>]
  /\ UNCHANGED <<clock, issued, mapAlerts, peer>>

(* The connection breaks, with what is under way on it.                    *)
Break(x) ==
  /\ x \in link
  /\ link' = link \ {x}
  /\ peer' = [peer EXCEPT ![x] = NewNode, ![Back(x)] = NewNode]
  /\ pipe' = [pipe EXCEPT ![x] = <<>>, ![Back(x)] = <<>>]
  /\ UNCHANGED <<clock, issued, mapAlerts, connects>>

(* The command sendalert at node n: the alert is processed, then relayed.  *)
SendAlert(n) ==
  /\ issued < Len(CancelUpTo)
  /\ issued' = issued + 1
  /\ LET a == [nID |-> issued + 1, nExpiration |-> clock + Life]
         r == ProcessAlert(mapAlerts[n], a)
     IN  /\ mapAlerts' = [mapAlerts EXCEPT ![n] = r.alerts]
         /\ Becomes(IF r.ok THEN RelayToAll(Nodes, n, a) ELSE Nodes)
  /\ UNCHANGED <<clock, link, connects>>

(* Node x[2] gets the version of x[1]: an inbound connection answers with  *)
(* its own; then the alerts are relayed, in the order of their hashes.     *)
ReceiveVersion(x) ==
  /\ pipe[x] # <<>> /\ Head(pipe[x]) = Version
  /\ LET n == x[2]
         s == [peer |-> [peer EXCEPT ![Back(x)].nVersion = TRUE],
               pipe |-> [pipe EXCEPT ![x] = Tail(@),
                                     ![Back(x)] = IF x \in link THEN Append(@, Version) ELSE @]]
     IN  \E order \in SetToSeqs(mapAlerts[n]) :
           Becomes(FoldLeft(LAMBDA t, a : RelayTo(t, Back(x), a), s, order))
  /\ UNCHANGED <<clock, issued, mapAlerts, link, connects>>

(* Node x[2] gets an alert from x[1]: one it knows from there is skipped,  *)
(* one it takes is relayed, one it refuses costs a penalty of 10 (fewer    *)
(* than the ten refusals that lead to a ban happen here).                  *)
ReceiveAlert(x) ==
  /\ pipe[x] # <<>> /\ Head(pipe[x]) # Version
  /\ LET n == x[2]
         a == Head(pipe[x])
         r == ProcessAlert(mapAlerts[n], a)
         s == [peer |-> peer, pipe |-> [pipe EXCEPT ![x] = Tail(@)]]
         k == [s EXCEPT !.peer[Back(x)].setKnown = @ \cup {a}]
     IN  IF a \in peer[Back(x)].setKnown
         THEN Becomes(s) /\ UNCHANGED mapAlerts
         ELSE /\ mapAlerts' = [mapAlerts EXCEPT ![n] = r.alerts]
              /\ Becomes(IF r.ok THEN RelayToAll(k, n, a) ELSE s)
  /\ UNCHANGED <<clock, issued, link, connects>>

TimePasses ==
  /\ clock < MaxTime
  /\ clock' = clock + 1
  /\ UNCHANGED <<issued, mapAlerts, link, peer, pipe, connects>>

----------------------------------------------------------------------------

AlertsInit ==
  /\ clock = 0
  /\ issued = 0
  /\ mapAlerts = [n \in Host |-> {}]
  /\ link = {}
  /\ peer = [x \in Pairs |-> NewNode]
  /\ pipe = [x \in Pairs |-> <<>>]
  /\ connects = 0

AlertsNext ==
  \/ \E x \in Pairs : Connect(x) \/ Break(x) \/ ReceiveVersion(x) \/ ReceiveAlert(x)
  \/ \E n \in Host : SendAlert(n)
  \/ TimePasses

AlertsSpec == AlertsInit /\ [][AlertsNext]_alertVars

----------------------------------------------------------------------------
(* Properties.                                                             *)

(* Once nothing is under way between two connected nodes they have the     *)
(* same alerts in effect, in whatever order the alerts and the versions    *)
(* crossed, were cancelled or were lost with an earlier connection.        *)
AlertsAgree ==
  \A x \in link : pipe[x] = <<>> /\ pipe[Back(x)] = <<>> =>
    {a \in mapAlerts[x[1]] : IsInEffect(a)} = {a \in mapAlerts[x[2]] : IsInEffect(a)}

=============================================================================
