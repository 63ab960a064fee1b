------------------------- MODULE PacketStreamFilter -------------------------
(***************************************************************************)
(* The packets over a socket (src/lib/deskflow/PacketStreamFilter.cpp) and *)
(* the event thread that handles the socket's events: a ClientProxy on the *)
(* server, or the Client.                                                  *)
(*                                                                         *)
(* A packet is a header, counted as one byte, and Payload bytes.  The      *)
(* filter takes all that the socket has when it is told of input, and      *)
(* holds the end of the input back while a whole packet is unread.         *)
(***************************************************************************)
EXTENDS TCPSocket

CONSTANT Payload     \* the size in each header
ASSUME PayloadAssumption == Payload \in Nat \ {0}

VARIABLES
  filter,       \* [buffer, size, shut]: m_buffer, m_size, m_inputShutdown;
                \* [was]: wasReady in readMore
  greeted,      \* the greeting has been read
  consumed,     \* whole packets that have been read from the filter
  told          \* why the connection was given up

filterVars == <<filter, greeted, consumed, told>>
vars == <<socketVars, filterVars>>

Init == /\ SocketInit /\ consumed = 0 /\ told = "nothing" /\ greeted = FALSE
        /\ filter = [buffer |-> 0, size |-> 0, shut |-> FALSE, was |-> FALSE]

IsReady(f) == f.size # 0 /\ f.buffer >= f.size

ReadPacketSize(f) ==
  IF f.size = 0 /\ f.buffer > 0 THEN [f EXCEPT !.size = Payload, !.buffer = @ - 1] ELSE f

\* What reading so many packets leaves behind, and how many are whole.
Packets(f) == IF IsReady(f) THEN 1 + (f.buffer - Payload) \div (Payload + 1) ELSE 0
Rest(f, n) ==
  IF n = 0 THEN f
  ELSE ReadPacketSize([f EXCEPT !.size = 0, !.buffer = @ - n * (Payload + 1) + 1])

(***************************************************************************)
(* The events a connection's owner takes as its end: a server's proxy does *)
(* not listen for SocketDisconnected, nor a client for a format error.     *)
(***************************************************************************)
EndsIt ==
  IF ~up THEN {"ConnectionFailed", "DisconnectedOnAccept"}
  ELSE {"OutputError", "InputShutdown", "OutputShutdown"}
       \cup (IF end.role = "server" THEN {"FormatError"} ELSE {"Disconnected"})

\* What the filter does to the end of the input before it passes it on.
HoldsBack == up /\ Head(events) = "InputShutdown" /\ IsReady(filter)
AtInputShutdown ==
  IF up /\ Head(events) = "InputShutdown"
    THEN [filter EXCEPT !.shut = TRUE, !.size = IF IsReady(filter) THEN @ ELSE 0]
    ELSE filter
Broken == up /\ Head(events) = "InputShutdown" /\ filter.size # 0 /\ ~IsReady(filter)

Taken == pc = "idle" /\ events # <<>>
Pop == events' = Tail(events)

HandleReady ==
  /\ Taken /\ up /\ Head(events) = "InputReady" /\ Pop /\ pc' = "read"
  /\ filter' = [filter EXCEPT !.was = IsReady(filter)]
  /\ UNCHANGED <<end, sock, job, serviced, made, up, net, greeted, consumed, told>>

\* TCP is connected: a client goes on with TLS, or is connected.
HandleConnected ==
  /\ Taken /\ Head(events) = "Connected" /\ Pop
  /\ IF end.secure
       THEN made' = [NoJob EXCEPT !.kind = "handshake"] /\ pc' = "fields" /\ UNCHANGED up
       ELSE up' = TRUE /\ UNCHANGED <<made, pc>>
  /\ UNCHANGED <<end, sock, job, serviced, net, filterVars>>

HandleUp ==
  /\ Taken /\ Head(events) \in {"SecureConnected", "Accepted"} /\ Pop /\ up' = TRUE
  /\ UNCHANGED <<end, sock, job, serviced, pc, made, net, filterVars>>

HandleEnd ==
  /\ Taken /\ Head(events) \in EndsIt /\ ~HoldsBack
  /\ pc' = "remove" /\ told' = Head(events) /\ filter' = AtInputShutdown
  /\ events' = IF Broken THEN Append(Tail(events), "FormatError") ELSE Tail(events)
  /\ UNCHANGED <<end, sock, job, serviced, made, up, net, greeted, consumed>>

\* No handler, or the end of the input is held back.
HandleNothing ==
  /\ Taken /\ Pop /\ filter' = AtInputShutdown
  /\ \/ HoldsBack
     \/ Head(events) \notin EndsIt \cup {"Connected", "SecureConnected", "Accepted", "Pending"}
        /\ ~(up /\ Head(events) = "InputReady")
  /\ UNCHANGED <<end, sock, job, serviced, pc, made, up, net, greeted, consumed, told>>

(***************************************************************************)
(* readMore(): one read of the socket after another, until one returns     *)
(* nothing.  If there is a whole packet now and was none, the packets are  *)
(* read: at first only the greeting, after which a client posts itself an  *)
(* event for what is left and a server's new proxy does not.               *)
(***************************************************************************)
ReadMore ==
  /\ pc = "read" /\ sock.input > 0
  /\ \E n \in 1..sock.input :
       LET left == IfDrained([sock EXCEPT !.input = @ - n], <<>>)
       IN /\ sock' = left.sock /\ events' = events \o left.said
          /\ filter' = ReadPacketSize([filter EXCEPT !.buffer = @ + n])
  /\ UNCHANGED <<end, job, serviced, pc, made, up, net, greeted, consumed, told>>

HandleData(waiting) ==
  LET n == IF greeted THEN Packets(filter) ELSE Min2(1, Packets(filter))
      left == Rest(filter, n)
      shut == IF n > 0 /\ filter.shut /\ left.size = 0 THEN <<"InputShutdown">> ELSE <<>>
      pending == IF ~greeted /\ end.role = "client" /\ IsReady(left) THEN <<"Pending">> ELSE <<>>
  IN /\ consumed' = consumed + n /\ filter' = left
     /\ greeted' = (greeted \/ n > 0) /\ events' = waiting \o shut \o pending

ReadPackets ==
  /\ pc = "read" /\ sock.input = 0 /\ pc' = "idle"
  /\ IF filter.was # IsReady(filter)
       THEN HandleData(events)
       ELSE UNCHANGED <<consumed, filter, greeted, events>>
  /\ UNCHANGED <<end, sock, job, serviced, made, up, net, told>>

HandlePending ==
  /\ Taken /\ up /\ Head(events) = "Pending" /\ HandleData(Tail(events))
  /\ UNCHANGED <<end, sock, job, serviced, own, net, told>>

\* The timer of a client that connects, or of an unknown client.
Timeout ==
  /\ pc = "idle" /\ ~up /\ pc' = "remove"
  /\ UNCHANGED <<end, sock, job, serviced, events, made, up, net, filterVars>>

HandleNext == HandleReady \/ HandleConnected \/ HandleUp \/ HandleEnd \/ HandleNothing
              \/ ReadMore \/ ReadPackets \/ HandlePending \/ Timeout

Next == HandleNext \/ ((ServiceNext \/ ThreadNext \/ NetNext) /\ UNCHANGED filterVars)

Spec == Init /\ [][Next]_vars

(***************************************************************************)
(* Fairness: both threads go on, keep-alives are written, the other end    *)
(* reads while it is there, and what is sent to an end that has closed is  *)
(* answered by breaking the connection.  The event loop comes back to the  *)
(* queue between the writes its handlers make, and a thread that           *)
(* adds or removes a job gets the list between two runs of the service     *)
(* thread: SocketMultiplexer's ReservationHonoured.                        *)
(***************************************************************************)
Fairness ==
  /\ WF_vars(ServiceNext /\ UNCHANGED filterVars)
  /\ SF_vars(HandleNext)
  /\ WF_vars((TestJob \/ ReadFields \/ Connect \/ Accept \/ Flushed \/ CloseSocket)
             /\ UNCHANGED filterVars)
  /\ SF_vars((SetJob \/ RemoveJob) /\ UNCHANGED filterVars)
  /\ WF_vars(Write /\ events = <<>> /\ UNCHANGED filterVars)
  /\ WF_vars(Reads /\ UNCHANGED filterVars)
  /\ WF_vars(net.room = 0 /\ net.peer = "closed" /\ Breaks /\ UNCHANGED filterVars)

LiveSpec == Spec /\ Fairness

(***************************************************************************)
(* Properties                                                              *)
(***************************************************************************)

\* Every field has its type (TCPSocket.h, PacketStreamFilter.h).
TypeOK ==
  /\ sock \in SocketType /\ {job, returned, made} \subseteq JobType
  /\ service \in {"idle", "owes"} /\ up \in BOOLEAN
  /\ pc \in {"start", "accept", "idle", "test", "fields", "add", "read", "flush",
             "remove", "close", "closed"}
  /\ net.arrived \in 0..net.sent /\ net.sent \in 0..MaxSent /\ net.room \in 0..MaxRoom
  /\ filter.buffer \in 0..MaxSent /\ filter.size \in {0, Payload} /\ filter.shut \in BOOLEAN

\* No lost wakeup: bytes that wait to be written are watched for by a job,
\* unless a thread is about to install one.  The event thread computes its job
\* after it has let the mutex go (write(), TCPSocket.cpp:163), and the service
\* thread may have drained and shut the buffers in between.
WriteWatched ==
  (up /\ ~end.secure /\ sock.connected /\ sock.output > 0
      /\ pc \notin {"test", "fields", "add", "close"} /\ service = "idle")
    => job.write

Queued(event) == \E i \in DOMAIN events : events[i] = event
Listening == up /\ ~end.secure /\ pc \notin {"read", "remove", "close", "closed"}

\* A server has read the greeting, and nothing since: the packets that were in
\* the filter with it are told to nobody (ClientProxyUnknown.cpp:237 hands
\* the stream over without asking it), and readMore, which compares with
\* before, is silent from then on.  A client that writes DINF or CCLP before
\* it is asked gets there: its handlers are there from the server's hello
\* on (Client.cpp:491-496).
BehindGreeting == end.role = "server" /\ consumed = 1

\* Bytes in the input buffer are announced or are being read: InputReady is
\* sent only when the buffer was empty (doRead, TCPSocket.cpp:308-324).
\* So is a whole packet in the filter: it tells of a packet only when it had
\* none, and the greeting is read alone (PacketStreamFilter.cpp:126-161), after
\* which a client looks again (Client.cpp:726-731); a server does not, and
\* there only what stands behind the greeting is silent: a connection that has
\* had one packet told to its proxy is never stuck.
InputAnnounced ==
  Listening => /\ sock.input > 0 => Queued("InputReady")
               /\ IsReady(filter) => Queued("Pending") \/ BehindGreeting

\* What PacketStreamFilter.cpp:149 says, "if we weren't ready before but now
\* we are then send a input ready event": whoever has the stream learns of
\* every packet.  Does not hold: on a server, BehindGreeting.
PacketsAnnounced == Listening /\ IsReady(filter) => Queued("Pending")

\* Both directions: nothing waits in a buffer that nobody will look at, and
\* every variable has its type.
NoLostWakeup == TypeOK /\ WriteWatched /\ InputAnnounced

\* The end of the input comes last: when it closes a connection that did not
\* break, every whole packet the other end sent has been read
\* (PacketStreamFilter.cpp:162-178, doRead's "don't flush our buffer").
ShutdownLast ==
  (told = "InputShutdown" /\ ~end.secure /\ net.peer # "reset")
    => consumed = net.sent \div (Payload + 1)

\* flush() returns on a plain socket whose peer goes on reading or goes away
\* (TCPSocket.cpp:169, called by ClientProxy::close).
PlainFlushEnds == (pc = "flush" /\ ~end.secure) ~> (pc # "flush")

\* The same with TLS: IStream.h says flush "waits until all buffered data has
\* been written", ClientProxy.cpp:33 "force the close to be sent before we return".
SecureFlushEnds == (pc = "flush" /\ end.secure) ~> (pc # "flush")

\* A connection whose other end has gone is closed, though a server's proxy
\* does not listen for SocketDisconnected: its next write fails.  With TLS there
\* are two exceptions: the event thread may be caught in flush(), and a proxy
\* whose filter holds the end back for a packet behind the greeting is left
\* with a socket that takes what it writes and has no job (SecureSocket.cpp:630);
\* the keep-alive (ClientProxy1_0::handleFlatline) ends that one, in Session.
EndNoticed ==
  (net.peer \in {"closed", "reset"})
    ~> (\/ pc = "closed"
        \/ end.secure /\ (pc = "flush" \/ (BehindGreeting /\ filter.shut /\ IsReady(filter))))
=============================================================================
