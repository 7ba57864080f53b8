--------------------------- MODULE MessageStream ---------------------------
(***************************************************************************)
(* One established connection between two nodes that both run this         *)
(* program: the send queue with its partial and "optimistic" writes        *)
(* (net.h, net.cpp SocketSendData), the reassembly of messages from bytes  *)
(* (ReceiveMsgBytes), the socket thread that either drains its queue or    *)
(* reads, the message thread that stops at a full send buffer              *)
(* (main.cpp ProcessMessages), keep-alive pings and inactivity limits.     *)
(*                                                                         *)
(* A byte is a pair <<message, position>>.  Time is counted in half hours  *)
(* and passes only when no thread has anything to do.                      *)
(***************************************************************************)
EXTENDS Naturals, Sequences, SequencesExt

CONSTANTS Asks,             \* requests each node may issue
          Replies,          \* messages that answer one request
          HeaderSize,       \* bytes of a header
          SocketBuffer,     \* bytes the operating systems hold per direction
          SendBufferSize,   \* -maxsendbuffer
          ReceiveFloodSize  \* -maxreceivebuffer

StreamConstants ==
  /\ {Asks, Replies} \subseteq Nat
  /\ {HeaderSize, SocketBuffer, SendBufferSize, ReceiveFloodSize} \subseteq Nat \ {0}

Ends == {"a", "b"}

\* The other end of the connection.
Peer(n) == IF n = "a" THEN "b" ELSE "a"

VARIABLES
  out,       \* per node: vSendMsg, nSendSize, nSendOffset
  wire,      \* per node: bytes it sent that its peer has not read
  vRecvMsg,  \* per node: the messages being received, each as its bytes
  handler,   \* per node: the message thread inside ProcessMessages
  fdset,     \* per node: what the socket thread selected this round
  fDisconnect,
  closed,    \* per node: hSocket = INVALID_SOCKET
  age,       \* per node: half hours since nLastSend, nLastRecv, nLastSendEmpty
  asked,     \* per node: requests issued
  inflight,  \* history: messages queued and not yet handled by the peer
  cut,       \* history: why the connection was given up first
  garbled    \* history: some message did not arrive as it was queued

streamVars == <<out, wire, vRecvMsg, handler, fdset, fDisconnect, closed,
                age, asked, inflight, cut, garbled>>

----------------------------------------------------------------------------
(* Messages and bytes.  A request and a ping have no payload here.         *)

MessageSize(m) == IF m.kind = "reply" THEN HeaderSize + 1 ELSE HeaderSize

\* The bytes of a message as EndMessage leaves them in vSendMsg.
BytesOf(m) == [k \in 1 .. MessageSize(m) |-> <<m, k>>]

\* CNetMessage::complete: the header names the size.
Complete(bytes) ==
  Len(bytes) >= HeaderSize /\ Len(bytes) = MessageSize(bytes[1][1])

\* CNetMessage::readHeader and readData, a byte at a time.
Absorb(msgs, byte) ==
  IF msgs = <<>> \/ Complete(Last(msgs))
  THEN Append(msgs, <<byte>>)
  ELSE [msgs EXCEPT ![Len(msgs)] = Append(@, byte)]

ReceiveMsgBytes(msgs, bytes) ==
  LET after[i \in 0 .. Len(bytes)] ==
        IF i = 0 THEN msgs ELSE Absorb(after[i - 1], bytes[i])
  IN  after[Len(bytes)]

\* vRecv is allocated ahead as soon as one byte of the payload is there.
AllocatedSize(bytes) ==
  IF Len(bytes) <= HeaderSize THEN HeaderSize ELSE MessageSize(bytes[1][1])

GetTotalRecvSize(msgs) ==
  LET total[i \in 0 .. Len(msgs)] ==
        IF i = 0 THEN 0 ELSE total[i - 1] + AllocatedSize(msgs[i])
  IN  total[Len(msgs)]

----------------------------------------------------------------------------
(* Sending.                                                                *)

Space(n) == SocketBuffer - Len(wire[n])

\* A plausible slip: the offset of a finished message is kept.
SendByteKeepsOffset(s) ==
  LET m    == Head(s.q.vSendMsg)
      done == s.q.nSendOffset + 1 >= MessageSize(m)
  IN  [q    |-> [vSendMsg    |-> IF done THEN Tail(s.q.vSendMsg) ELSE s.q.vSendMsg,
                 nSendSize   |-> IF done THEN s.q.nSendSize - MessageSize(m)
                                         ELSE s.q.nSendSize,
                 nSendOffset |-> s.q.nSendOffset + 1],
       sent |-> Append(s.sent, <<m, s.q.nSendOffset + 1>>)]

\* One more byte of the first queued message has been taken by send().
SendByte(s) ==
  LET m    == Head(s.q.vSendMsg)
      done == s.q.nSendOffset + 1 = MessageSize(m)
  IN  [q    |-> [vSendMsg    |-> IF done THEN Tail(s.q.vSendMsg) ELSE s.q.vSendMsg,
                 nSendSize   |-> IF done THEN s.q.nSendSize - MessageSize(m)
                                         ELSE s.q.nSendSize,
                 nSendOffset |-> IF done THEN 0 ELSE s.q.nSendOffset + 1],
       sent |-> Append(s.sent, <<m, s.q.nSendOffset + 1>>)]

\* SocketSendData: whole messages while the socket takes them, then a part.
SocketSendData(q, space) ==
  LET after[i \in 0 .. space] ==
        IF i = 0 THEN [q |-> q, sent |-> <<>>]
        ELSE IF after[i - 1].q.vSendMsg = <<>> THEN after[i - 1]
        ELSE SendByte(after[i - 1])
  IN  after[space]

\* The queue after EndMessage, and the bytes of its optimistic write.
EndMessage(q, m, space) ==
  LET queued == [q EXCEPT !.vSendMsg = Append(@, m), !.nSendSize = @ + MessageSize(m)]
  IN  IF q.vSendMsg = <<>> THEN SocketSendData(queued, space)
      ELSE [q |-> queued, sent |-> <<>>]

Sent(n, s) ==
  /\ out' = [out EXCEPT ![n] = s.q]
  /\ wire' = [wire EXCEPT ![n] = @ \o s.sent]
  /\ age' = IF s.sent = <<>> THEN age ELSE [age EXCEPT ![n].send = 0]

\* CloseSocketDisconnect; the buffer is wiped only if cs_vRecvMsg is free.
CloseSocketDisconnect(n, free) ==
  /\ fDisconnect' = [fDisconnect EXCEPT ![n] = TRUE]
  /\ closed' = [closed EXCEPT ![n] = TRUE]
  /\ vRecvMsg' = IF free THEN [vRecvMsg EXCEPT ![n] = <<>>] ELSE vRecvMsg
  /\ fdset' = [fdset EXCEPT ![n] = "none"]

\* PushMessage; on a closed socket send() fails and the message just stays.  If
\* the peer has closed, the error of the optimistic write may close this end in
\* the message thread, which holds cs_vRecvMsg itself in ProcessMessages.
PushMessage(n, m) ==
  /\ inflight' = [inflight EXCEPT ![n] = Append(@, m)]
  /\ \/ /\ Sent(n, EndMessage(out[n], m, IF closed[n] THEN 0 ELSE Space(n)))
        /\ UNCHANGED <<fDisconnect, closed, vRecvMsg, fdset>>
     \/ /\ ~closed[n] /\ closed[Peer(n)] /\ out[n].vSendMsg = <<>>
        /\ Sent(n, EndMessage(out[n], m, 0))
        /\ CloseSocketDisconnect(n, TRUE)

----------------------------------------------------------------------------
(* The message thread.                                                     *)

\* ProcessMessages may go on to message number i of the queue.
MayHandle(n, i) ==
  /\ ~fDisconnect[n]
  /\ i <= Len(vRecvMsg[n])
  /\ out[n].nSendSize < SendBufferSize
  /\ Complete(vRecvMsg[n][i])

\* What ProcessMessage answers: requests and pings have replies.
Answers(m) ==
  CASE m.kind = "ask"  -> [i \in 1 .. Replies |-> [kind |-> "reply", no |-> (m.no - 1) * Replies + i]]
    [] m.kind = "ping" -> <<[kind |-> "pong", no |-> 1]>>
    [] OTHER           -> <<>>

\* The next complete message is handled; the header and checksum tests fail
\* when its bytes are not those of one message.
Handle(n) ==
  /\ handler[n].todo = <<>>
  /\ MayHandle(n, handler[n].it + 1)
  /\ LET bytes == vRecvMsg[n][handler[n].it + 1]
         m     == bytes[1][1]
         lined == inflight[Peer(n)]
     IN  /\ handler' = [handler EXCEPT ![n] = [it |-> @.it + 1, todo |-> Answers(m)]]
         /\ garbled' = (garbled \/ bytes # BytesOf(m) \/ lined = <<>> \/ Head(lined) # m)
         /\ inflight' = [inflight EXCEPT ![Peer(n)] = IF @ = <<>> THEN @ ELSE Tail(@)]
  /\ UNCHANGED <<out, wire, vRecvMsg, fdset, fDisconnect, closed, age, asked, cut>>

\* ProcessMessage pushes its next answer.
Answer(n) ==
  /\ handler[n].todo # <<>>
  /\ PushMessage(n, Head(handler[n].todo))
  /\ handler' = [handler EXCEPT ![n].todo = Tail(@)]
  /\ UNCHANGED <<asked, cut, garbled>>

\* End of ProcessMessages: the handled messages are erased, unless the
\* connection was shut down and the buffer wiped.
Finish(n) ==
  /\ handler[n].it > 0 /\ handler[n].todo = <<>>
  /\ ~MayHandle(n, handler[n].it + 1)
  /\ vRecvMsg' = IF fDisconnect[n] THEN vRecvMsg
                 ELSE [vRecvMsg EXCEPT ![n] = SubSeq(@, handler[n].it + 1, Len(@))]
  /\ handler' = [handler EXCEPT ![n].it = 0]
  /\ UNCHANGED <<out, wire, fdset, fDisconnect, closed, age, asked, inflight, cut, garbled>>

\* SendMessages issues a request.
Ask(n) ==
  /\ handler[n].it = 0 /\ ~fDisconnect[n] /\ asked[n] < Asks
  /\ asked' = [asked EXCEPT ![n] = @ + 1]
  /\ PushMessage(n, [kind |-> "ask", no |-> asked[n] + 1])
  /\ UNCHANGED <<handler, cut, garbled>>

\* A plausible slip: the ping waits as long as the inactivity limit.
PingDueLate(n) ==
  /\ handler[n].it = 0 /\ ~fDisconnect[n]
  /\ age[n].send > 3 /\ out[n].vSendMsg = <<>>

\* "Keep-alive ping" after more than 30 minutes without sending.
PingDue(n) ==
  /\ handler[n].it = 0 /\ ~fDisconnect[n]
  /\ age[n].send > 1 /\ out[n].vSendMsg = <<>>

Ping(n) ==
  /\ PingDue(n)
  /\ PushMessage(n, [kind |-> "ping", no |-> 1])
  /\ UNCHANGED <<handler, asked, cut, garbled>>

----------------------------------------------------------------------------
(* The socket thread.                                                      *)

\* "do not read, if draining write queue"; select() reports what is ready.
Ready(n) ==
  IF out[n].vSendMsg # <<>>
  THEN IF Space(n) > 0 \/ closed[Peer(n)] THEN "send" ELSE "none"
  ELSE IF wire[Peer(n)] # <<>> \/ closed[Peer(n)] THEN "recv" ELSE "none"

Select(n) ==
  /\ ~fDisconnect[n] /\ fdset[n] = "none"
  /\ Ready(n) # "none"
  /\ fdset' = [fdset EXCEPT ![n] = Ready(n)]
  /\ UNCHANGED <<out, wire, vRecvMsg, handler, fDisconnect, closed, age, asked,
                 inflight, cut, garbled>>

\* TRY_LOCK(cs_vRecvMsg) fails while ProcessMessages runs.
ReceiveBusy(n) ==
  /\ ~closed[n] /\ fdset[n] = "recv" /\ handler[n].it > 0
  /\ fdset' = [fdset EXCEPT ![n] = "none"]
  /\ UNCHANGED <<out, wire, vRecvMsg, handler, fDisconnect, closed, age, asked,
                 inflight, cut, garbled>>

Flooded(n) == GetTotalRecvSize(vRecvMsg[n]) > ReceiveFloodSize

Receive(n) ==
  /\ ~closed[n] /\ fdset[n] = "recv" /\ handler[n].it = 0
  /\ ~Flooded(n) /\ wire[Peer(n)] # <<>>
  /\ vRecvMsg' = [vRecvMsg EXCEPT ![n] = ReceiveMsgBytes(@, wire[Peer(n)])]
  /\ wire' = [wire EXCEPT ![Peer(n)] = <<>>]
  /\ age' = [age EXCEPT ![n].recv = 0]
  /\ fdset' = [fdset EXCEPT ![n] = "none"]
  /\ UNCHANGED <<out, handler, fDisconnect, closed, asked, inflight, cut, garbled>>

\* "socket recv flood control disconnect"
FloodDisconnect(n) ==
  /\ ~closed[n] /\ fdset[n] = "recv" /\ handler[n].it = 0
  /\ Flooded(n)
  /\ CloseSocketDisconnect(n, handler[n].it = 0)
  /\ cut' = IF cut = "none" THEN "flood" ELSE cut
  /\ UNCHANGED <<out, wire, handler, age, asked, inflight, garbled>>

\* The peer closed: recv() returns 0 or an error, send() an error.  What it
\* sent before may have been thrown away by the reset.
PeerClosed(n) ==
  /\ ~closed[n] /\ fdset[n] # "none" /\ closed[Peer(n)]
  /\ fdset[n] = "recv" => handler[n].it = 0
  /\ CloseSocketDisconnect(n, handler[n].it = 0)
  /\ UNCHANGED <<out, wire, handler, age, asked, inflight, cut, garbled>>

Send(n) ==
  /\ ~closed[n] /\ fdset[n] = "send" /\ ~closed[Peer(n)]
  /\ Sent(n, SocketSendData(out[n], Space(n)))
  /\ fdset' = [fdset EXCEPT ![n] = "none"]
  /\ UNCHANGED <<vRecvMsg, handler, fDisconnect, closed, asked, inflight, cut, garbled>>

\* "socket not sending" and "socket inactivity timeout", after 90 minutes.
Overdue(n) == (age[n].send > 3 /\ age[n].empty > 3) \/ age[n].recv > 3

\* Both queues wait for the other end to read, and neither end reads.
MutualBlock == \A n \in Ends : out[n].vSendMsg # <<>> /\ Space(n) = 0

Inactive(n) ==
  /\ ~fDisconnect[n] /\ Overdue(n)
  /\ fDisconnect' = [fDisconnect EXCEPT ![n] = TRUE]
  /\ cut' = CASE cut # "none" -> cut
              [] cut = "none" /\ MutualBlock -> "block"
              [] OTHER -> "idle"
  /\ UNCHANGED <<out, wire, vRecvMsg, handler, fdset, closed, age, asked, inflight, garbled>>

\* "Disconnect unused nodes" at the top of the next round.
Drop(n) ==
  /\ fDisconnect[n] /\ ~closed[n]
  /\ CloseSocketDisconnect(n, handler[n].it = 0)
  /\ UNCHANGED <<out, wire, handler, age, asked, inflight, cut, garbled>>

----------------------------------------------------------------------------
(* Time.                                                                   *)

\* The message thread of node n has something to do for this connection.
MessageWork(n) == handler[n].it > 0 \/ MayHandle(n, 1) \/ PingDue(n)

\* So has its socket thread.
SocketWork(n) ==
  /\ ~closed[n]
  /\ fDisconnect[n] \/ fdset[n] # "none" \/ Ready(n) # "none" \/ Overdue(n)

\* Half an hour passes; nLastSendEmpty follows the clock while the queue is
\* empty.
HalfHour ==
  /\ \A n \in Ends : ~MessageWork(n) /\ ~SocketWork(n) /\ ~closed[n]
  /\ age' = [n \in Ends |-> [send  |-> age[n].send + 1,
                             recv  |-> age[n].recv + 1,
                             empty |-> IF out[n].vSendMsg = <<>> THEN 0
                                       ELSE age[n].empty + 1]]
  /\ UNCHANGED <<out, wire, vRecvMsg, handler, fdset, fDisconnect, closed, asked,
                 inflight, cut, garbled>>

----------------------------------------------------------------------------

StreamInit ==
  /\ out = [n \in Ends |-> [vSendMsg |-> <<>>, nSendSize |-> 0, nSendOffset |-> 0]]
  /\ wire = [n \in Ends |-> <<>>]
  /\ vRecvMsg = [n \in Ends |-> <<>>]
  /\ handler = [n \in Ends |-> [it |-> 0, todo |-> <<>>]]
  /\ fdset = [n \in Ends |-> "none"]
  /\ fDisconnect = [n \in Ends |-> FALSE]
  /\ closed = [n \in Ends |-> FALSE]
  /\ age = [n \in Ends |-> [send |-> 0, recv |-> 0, empty |-> 0]]
  /\ asked = [n \in Ends |-> 0]
  /\ inflight = [n \in Ends |-> <<>>]
  /\ cut = "none"
  /\ garbled = FALSE

ThreadMessageHandler(n) == Handle(n) \/ Answer(n) \/ Finish(n) \/ Ping(n)

ThreadSocketHandler(n) ==
  \/ Select(n) \/ Receive(n) \/ ReceiveBusy(n) \/ Send(n)
  \/ FloodDisconnect(n) \/ PeerClosed(n) \/ Inactive(n) \/ Drop(n)

StreamNext ==
  \/ \E n \in Ends : ThreadMessageHandler(n) \/ ThreadSocketHandler(n) \/ Ask(n)
  \/ HalfHour

\* Both threads run in endless loops, and time passes: weak fairness, with the
\* enabling conditions of the threads written out.
StreamFairness ==
  /\ \A n \in Ends :
       /\ []<>~MessageWork(n) \/ []<><<ThreadMessageHandler(n)>>_streamVars
       /\ []<>~SocketWork(n)  \/ []<><<ThreadSocketHandler(n)>>_streamVars
  /\ WF_streamVars(HalfHour)

StreamSpec == StreamInit /\ [][StreamNext]_streamVars /\ StreamFairness

----------------------------------------------------------------------------
(* Properties.                                                             *)

\* Whatever the pieces in which the sockets take and give the bytes, and
\* however the two threads of each end interleave, messages are handled whole,
\* once and in the order they were queued; nSendSize is the size of the queue
\* and nSendOffset lies inside its first message (the assertions at
\* net.cpp:751, 781 and 782).
StreamIntact ==
  /\ ~garbled
  /\ \A n \in Ends :
       LET q == out[n]
           total[i \in 0 .. Len(q.vSendMsg)] ==
             IF i = 0 THEN 0 ELSE total[i - 1] + MessageSize(q.vSendMsg[i])
       IN
       /\ q.nSendSize = total[Len(q.vSendMsg)]
       /\ IF q.vSendMsg = <<>> THEN q.nSendOffset = 0
          ELSE q.nSendOffset < MessageSize(Head(q.vSendMsg))

\* Every message that was queued is handled by the peer, unless the receive
\* buffer ran over its limit or both ends had stopped reading because they were
\* draining their own queues (then the inactivity limit ends the connection);
\* a connection that is merely quiet is kept alive by the pings, for ever.
MessagesServed ==
  []<>(/\ cut # "idle"
       /\ \A n \in Ends : inflight[n] = <<>> \/ (cut # "none" /\ closed[n]))

=============================================================================
