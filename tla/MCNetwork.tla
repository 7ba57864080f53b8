----------------------------- MODULE MCNetwork -----------------------------
(***************************************************************************)
(* The address manager (AddrMan) and the connections (NetNodes) share no   *)
(* state and no lock; a behaviour is one of the former, with no            *)
(* connection, or one of the latter, while the address manager is empty.   *)
(***************************************************************************)
EXTENDS AddrMan, NetNodes

VARIABLE part     \* the component that moves

(* One opener and the message thread, or both openers before the message   *)
(* thread has started.                                                     *)
MCSettings ==
  {[threads |-> {"o1", "message"}, nMaxOutbound |-> 1, nMaxInbound |-> 1],
   [threads |-> {"o1", "o2"}, nMaxOutbound |-> 2, nMaxInbound |-> 0]}

(* Two new buckets, and keys for which the addresses of one source collide *)
(* in a bucket; one of them sends an evicted entry to a full bucket.       *)
HostGroup(h) == IF h = "h3" THEN 1 ELSE 0

MCKeys ==
  {[new |-> [x \in Host \X Source |-> IF x[2] = "s1" THEN 0 ELSE 1],
    tried |-> [h \in Host |-> 0]],
   [new |-> [x \in Host \X Source |->
               IF x[2] = "s1" THEN HostGroup(x[1]) ELSE 1 - HostGroup(x[1])],
    tried |-> [h \in Host |-> 0]]}

mcVars == <<part, vars, netVars>>

MCInit ==
  /\ part \in {"nodes", "addresses"}
  /\ Init /\ NetInit
  /\ part = "nodes" => nKey = CHOOSE k \in Keys : TRUE
  /\ part = "addresses" => setting = CHOOSE s \in Settings : TRUE

Nodes(A)     == part = "nodes" /\ A /\ UNCHANGED <<part, vars>>
Addresses(A) == part = "addresses" /\ A /\ UNCHANGED <<part, netVars>>

MCNext ==
  \/ Nodes(ThreadSocketHandler)
  \/ Nodes(ThreadMessageHandler)
  \/ \E o \in Opener \cap setting.threads : Nodes(ThreadOpenConnections(o))
  \/ \E h \in Host, src \in Source : Addresses(Add_(h, src))
  \/ \E h \in Host, nTime \in 1..MaxTime : Addresses(Good_(h, nTime))
  \/ Addresses(GetAddr_)
  \/ Addresses(Restart)

(* The loops of the socket and of the message thread run for ever and      *)
(* sleep for a bounded time.                                               *)
MCSpec ==
  /\ MCInit /\ [][MCNext]_mcVars
  /\ WF_netVars(part = "nodes" /\ ThreadSocketHandler)
  /\ WF_netVars(part = "nodes" /\ ThreadMessageHandler)
=============================================================================
