----------------------- MODULE PacketStreamFilterProofs -----------------------
(***************************************************************************)
(* Proofs about a connected socket and the packets over it, for any amount *)
(* sent, any sizes of the buffers and of the packets.  TCPSocket's service *)
(* thread and event thread take their steps in any order.                  *)
(***************************************************************************)
EXTENDS PacketStreamFilter, Integers, FiniteSets, FiniteSetTheorems, SequenceTheorems, TLAPS

(***************************************************************************)
(* Sequences: the first is taken, one is appended.                         *)
(***************************************************************************)
LEMMA TailOf ==
  ASSUME NEW S, NEW s \in Seq(S), s # <<>>
  PROVE  /\ Len(s) \in Nat \ {0} /\ DOMAIN s = 1..Len(s)
         /\ Head(s) = s[1] /\ s[1] \in S
         /\ Tail(s) \in Seq(S) /\ Len(Tail(s)) = Len(s) - 1
         /\ DOMAIN Tail(s) = 1..(Len(s) - 1)
         /\ \A i \in 1..(Len(s) - 1) : Tail(s)[i] = s[i + 1]
<1>1. Len(s) \in Nat \ {0} BY EmptySeq
<1>2. DOMAIN s = 1..Len(s) BY LenProperties
<1>3. Tail(s) \in Seq(S) /\ Len(Tail(s)) = Len(s) - 1 BY HeadTailProperties
<1>4. DOMAIN Tail(s) = 1..(Len(s) - 1) BY <1>3, LenProperties
<1>5. \A i \in 1..(Len(s) - 1) : Tail(s)[i] = s[i + 1] BY <1>3, HeadTailProperties
<1>6. Head(s) = s[1] OBVIOUS
<1>7. s[1] \in S BY <1>1, ElementOfSeq
<1> QED BY <1>1, <1>2, <1>3, <1>4, <1>5, <1>6, <1>7

LEMMA AppendTo ==
  ASSUME NEW S, NEW s \in Seq(S), NEW m \in S
  PROVE  /\ Append(s, m) \in Seq(S) /\ Append(s, m) # <<>>
         /\ Len(s) \in Nat /\ DOMAIN s = 1..Len(s)
         /\ Len(Append(s, m)) = Len(s) + 1
         /\ DOMAIN Append(s, m) = 1..(Len(s) + 1)
         /\ \A i \in 1..Len(s) : Append(s, m)[i] = s[i]
         /\ Append(s, m)[Len(s) + 1] = m
<1>1. Append(s, m) \in Seq(S) /\ Append(s, m) # <<>> /\ Len(Append(s, m)) = Len(s) + 1
  BY AppendProperties
<1>2. DOMAIN Append(s, m) = 1..(Len(s) + 1) BY <1>1, LenProperties
<1> QED BY <1>1, <1>2, AppendProperties, LenProperties

LEMMA OneMore ==
  ASSUME NEW S, NEW s \in Seq(S), NEW m \in S
  PROVE  s \o <<m>> = Append(s, m)
BY AppendIsConcat
-----------------------------------------------------------------------------

EventNames ==
  {"Connected", "SecureConnected", "Accepted", "InputReady", "InputShutdown",
   "OutputShutdown", "OutputError", "Disconnected", "ConnectionFailed",
   "DisconnectedOnAccept", "FormatError", "Pending"}
Peers == {"dialled", "refused", "open", "closed", "reset"}
Pcs == {"start", "accept", "idle", "test", "fields", "add", "read", "flush",
        "remove", "close", "closed"}
NetType == [peer : Peers, arrived : Nat, sent : 0..MaxSent, room : 0..MaxRoom]
FilterType == [buffer : Nat, size : {0, Payload}, shut : BOOLEAN, was : BOOLEAN]

Plain == ~end.secure
Leaving == {"remove", "close", "closed"}
Making == {"test", "fields", "add"}
In(s, e) == \E i \in DOMAIN s : s[i] = e
Waits(e) == In(events, e)

(* Every variable has its type, the events are ones that are sent.         *)
Typed ==
  /\ end \in [role : {"client", "server"}, secure : BOOLEAN]
  /\ sock \in SocketType
  /\ job \in JobType /\ returned \in JobType /\ made \in JobType
  /\ service \in {"idle", "owes"} /\ up \in BOOLEAN /\ pc \in Pcs
  /\ events \in Seq(EventNames) /\ net \in NetType /\ filter \in FilterType
  /\ greeted \in BOOLEAN /\ consumed \in Nat

(* No byte is made up, and none of a plain connection that did not break   *)
(* is lost while its owner listens: it is in the network, in the socket,   *)
(* in the filter or in a packet that has been read.                        *)
Held(f) == (IF f.size = 0 THEN 0 ELSE 1) + f.buffer
Known == consumed * (Payload + 1) + Held(filter) + sock.input + net.arrived
Bytes ==
  /\ Known <= net.sent
  /\ (Plain /\ net.peer # "reset" /\ pc \notin Leaving) => Known = net.sent
  /\ (filter.size = 0 /\ pc \notin Leaving) => filter.buffer = 0
  /\ (~up /\ pc # "closed") => net.sent = 0
  /\ net.peer \in {"dialled", "refused"} => net.sent = 0
  /\ ~greeted => consumed = 0

(* Before it starts, and after it has let its job go, the socket is alone. *)
Phases ==
  /\ sock.open <=> pc # "closed"
  /\ pc = "start" => /\ ~sock.readable /\ ~sock.writable /\ ~sock.connected
                     /\ sock.output = 0 /\ job = NoJob /\ service = "idle" /\ made = NoJob
                     /\ events = <<>> /\ ~up /\ ~filter.shut /\ net.peer = "dialled"
  /\ pc \in {"close", "closed"} => job = NoJob /\ service = "idle"
  /\ pc = "closed" => ~sock.connected /\ ~sock.writable /\ ~up
  /\ pc = "read" => up

(* A plain socket that connects knows nothing else yet, and only then is   *)
(* there a job that waits for the connection.                              *)
Dialling == sock.writable /\ ~sock.connected
Connecting ==
  /\ sock.readable => sock.connected
  /\ job.kind # "handshake" /\ made.kind # "handshake"
  /\ returned.kind \in {"none", "connected"}
  /\ Dialling => /\ ~up /\ sock.output = 0 /\ events = <<>> /\ ~filter.shut
                 /\ service = "idle" /\ job.kind \in {"none", "connecting"}
                 /\ made.kind \in {"none", "connecting"} /\ pc # "accept"
                 /\ pc \in Making => job = NoJob
  /\ (job.kind = "connecting" /\ service = "idle") => Dialling
  /\ made.kind = "connecting" => Dialling /\ pc \in Making

Stages == Phases /\ (Plain => Connecting)

(* What waits to be written is watched for by the job, by the one that the *)
(* service thread owes, or by the one that the event thread is making.     *)
Unwritten == sock.connected /\ sock.output > 0
Watched ==
  (Plain /\ Unwritten) =>
    /\ sock.writable
    /\ pc = "fields" => made.kind = "connected"
    /\ pc = "add" => made.write
    /\ pc \notin Making \cup {"close", "closed"} =>
         IF service = "idle" THEN job.write ELSE returned.write

(* What has come in is announced, and before the end of the input is.      *)
Ahead(s) == \E j \in DOMAIN s :
              /\ s[j] = "InputReady"
              /\ \A i \in DOMAIN s : i < j => s[i] # "InputShutdown"
Announced ==
  (Plain /\ up /\ pc \notin Leaving) =>
    /\ (pc # "read" /\ sock.input > 0) => Ahead(events)
    /\ (IF pc = "read" THEN filter.was ELSE IsReady(filter))
         => Waits("Pending") \/ BehindGreeting

(* The end of the input is told of when all has been received; when it is  *)
(* held back, the socket is empty.                                         *)
Received == net.peer = "reset" \/ (net.peer = "closed" /\ net.arrived = 0)
Ended ==
  Plain =>
    /\ (Waits("InputShutdown") \/ filter.shut) => ~sock.readable /\ Received
    /\ filter.shut => sock.input = 0

(* The connection was given up because the input had ended.                *)
LastTold ==
  told = "InputShutdown" =>
    /\ pc \in Leaving
    /\ (Plain /\ net.peer # "reset") =>
         net.peer = "closed" /\ consumed = net.sent \div (Payload + 1)

PacketInv == Typed /\ Bytes /\ Stages /\ Watched /\ Announced /\ Ended /\ LastTold
-----------------------------------------------------------------------------
(***************************************************************************)
(* Counting packets in bytes.                                              *)
(***************************************************************************)
LEMMA Dividing ==
  ASSUME NEW a \in Nat, NEW k \in Nat, k > 0
  PROVE  /\ a \div k \in Nat
         /\ (a \div k) * k <= a
         /\ a < (a \div k) * k + k
OBVIOUS

LEMMA DividesInto ==
  ASSUME NEW a \in Nat, NEW k \in Nat, k > 0, NEW c \in Nat, c * k <= a, a < c * k + k
  PROVE  a \div k = c
OBVIOUS


Sized(f) == f \in FilterType /\ (f.size = 0 => f.buffer = 0)

LEMMA SizeIsPositive == Payload \in Nat /\ Payload > 0 /\ Payload + 1 \in Nat
BY PayloadAssumption

(* The whole packets that the filter has, and what is left of it.          *)
LEMMA WholePackets ==
  ASSUME NEW f, Sized(f)
  PROVE  /\ Packets(f) \in Nat
         /\ IsReady(f) <=> Packets(f) > 0
         /\ Packets(f) * (Payload + 1) <= Held(f)
         /\ Held(f) < Packets(f) * (Payload + 1) + Payload + 1
<1> DEFINE k == Payload + 1
<1>1. /\ f.buffer \in Nat /\ f.size \in {0, Payload} /\ Held(f) \in Nat
      /\ k \in Nat /\ k > 1
  BY SizeIsPositive DEF Sized, FilterType, Held
<1>2. CASE IsReady(f)
  <2> DEFINE a == f.buffer - Payload
  <2>1. a \in Nat /\ Held(f) = a + k /\ f.size = Payload
    BY <1>1, <1>2, SizeIsPositive DEF IsReady, Held
  <2>2. /\ a \div k \in Nat /\ (a \div k) * k <= a /\ a < (a \div k) * k + k
    <3> HIDE DEF a, k
    <3> QED BY <1>1, <2>1, Dividing
  <2>3. Packets(f) = 1 + (a \div k) BY <1>2 DEF Packets
  <2> HIDE DEF a, k
  <2>4. \A q \in Nat : (1 + q) * k = q * k + k BY <1>1
  <2>5. /\ Packets(f) * k <= Held(f)
        /\ Held(f) < Packets(f) * k + k
    BY <1>1, <2>1, <2>2, <2>3, <2>4
  <2>6. Packets(f) \in Nat /\ Packets(f) > 0 BY <2>2, <2>3
  <2> QED BY <1>2, <2>5, <2>6, SizeIsPositive DEF k
<1>3. CASE ~IsReady(f)
  <2>1. Packets(f) = 0 BY <1>3 DEF Packets
  <2>2. f.size = 0 => f.buffer = 0 BY DEF Sized
  <2>3. f.size # 0 => f.size = Payload /\ f.buffer < Payload
    BY <1>1, <1>3, SizeIsPositive DEF IsReady
  <2>4. Held(f) < k BY <1>1, <2>2, <2>3, SizeIsPositive DEF Held
  <2> QED BY <1>1, <1>3, <2>1, <2>4, SizeIsPositive
<1> QED BY <1>2, <1>3

LEMMA SizeRead ==
  ASSUME NEW f \in FilterType
  PROVE  LET g == ReadPacketSize(f)
         IN Sized(g) /\ g.shut = f.shut /\ g.was = f.was /\ Held(g) = Held(f)
<1> DEFINE g == [f EXCEPT !.size = Payload, !.buffer = @ - 1]
<1>1. f.buffer \in Nat /\ f.size \in {0, Payload} BY DEF FilterType
<1>2. CASE f.size = 0 /\ f.buffer > 0
  <2>1. f.buffer - 1 \in Nat BY <1>1, <1>2
  <2>2. /\ g \in FilterType /\ g.shut = f.shut /\ g.was = f.was
        /\ g.size = Payload /\ g.buffer = f.buffer - 1
    BY <2>1, SizeIsPositive DEF FilterType
  <2>3. Held(f) = f.buffer BY <1>1, <1>2 DEF Held
  <2>4. Held(g) = 1 + (f.buffer - 1) BY <2>2, SizeIsPositive DEF Held
  <2>5. ReadPacketSize(f) = g BY <1>2 DEF ReadPacketSize
  <2> HIDE DEF g
  <2> QED BY <1>1, <2>2, <2>3, <2>4, <2>5, SizeIsPositive DEF Sized
<1>3. CASE ~(f.size = 0 /\ f.buffer > 0)
  BY <1>1, <1>3 DEF ReadPacketSize, Sized
<1> QED BY <1>2, <1>3

LEMMA RestOf ==
  ASSUME NEW f, Sized(f), NEW n \in Nat, n <= Packets(f)
  PROVE  LET g == Rest(f, n)
         IN Sized(g) /\ g.shut = f.shut /\ Held(g) = Held(f) - n * (Payload + 1)
<1> DEFINE k == Payload + 1
<1>1. /\ f \in FilterType /\ f.buffer \in Nat /\ f.size \in {0, Payload} /\ Held(f) \in Nat
      /\ k \in Nat /\ k > 1
  BY SizeIsPositive DEF Sized, FilterType, Held
<1>2. CASE n = 0 BY <1>1, <1>2 DEF Rest
<1>3. CASE n # 0
  <2>1. Packets(f) \in Nat /\ Packets(f) > 0 /\ Packets(f) * k <= Held(f)
    BY <1>3, WholePackets
  <2>2. n * k \in Nat /\ n * k <= Packets(f) * k
    <3> HIDE DEF k
    <3> QED BY <1>1, <2>1
  <2>3. f.size = Payload /\ Held(f) = f.buffer + 1
    BY <1>1, <2>1, WholePackets, SizeIsPositive DEF IsReady, Held
  <2> DEFINE g == [f EXCEPT !.size = 0, !.buffer = @ - n * k + 1]
  <2>4. f.buffer - n * k + 1 \in Nat
    <3> HIDE DEF k
    <3> QED BY <1>1, <2>1, <2>2, <2>3
  <2>5. /\ g \in FilterType /\ g.shut = f.shut /\ g.size = 0
        /\ g.buffer = f.buffer - n * k + 1
    <3> HIDE DEF k
    <3> QED BY <1>1, <2>4 DEF FilterType
  <2>6. Held(g) = Held(f) - n * k
    <3> HIDE DEF k, g
    <3> QED BY <1>1, <2>2, <2>3, <2>5 DEF Held
  <2>7. Rest(f, n) = ReadPacketSize(g) BY <1>3 DEF Rest
  <2> HIDE DEF g
  <2> QED BY <2>5, <2>6, <2>7, SizeRead
<1> QED BY <1>2, <1>3

-----------------------------------------------------------------------------
(***************************************************************************)
(* Events that wait, as they are taken and sent.                           *)
(***************************************************************************)
LEMMA InBoth ==
  ASSUME NEW S, NEW s \in Seq(S), NEW t \in Seq(S), NEW e
  PROVE  In(s \o t, e) <=> In(s, e) \/ In(t, e)
<1>1. /\ Len(s) \in Nat /\ Len(t) \in Nat
      /\ DOMAIN s = 1..Len(s) /\ DOMAIN t = 1..Len(t)
      /\ DOMAIN (s \o t) = 1..(Len(s) + Len(t))
  BY ConcatProperties, LenProperties
<1>2. \A i \in 1..(Len(s) + Len(t)) :
        (s \o t)[i] = IF i <= Len(s) THEN s[i] ELSE t[i - Len(s)]
  BY ConcatProperties
<1>3. \A i \in DOMAIN s : i \in DOMAIN (s \o t) /\ (s \o t)[i] = s[i] BY <1>1, <1>2
<1>4. \A i \in DOMAIN t : i + Len(s) \in DOMAIN (s \o t) /\ (s \o t)[i + Len(s)] = t[i]
  BY <1>1, <1>2
<1>5. \A i \in DOMAIN (s \o t) :
        \/ i \in DOMAIN s /\ (s \o t)[i] = s[i]
        \/ i - Len(s) \in DOMAIN t /\ (s \o t)[i] = t[i - Len(s)]
  BY <1>1, <1>2
<1> QED BY <1>3, <1>4, <1>5 DEF In

LEMMA InSome ==
  \A e : /\ ~In(<<>>, e)
         /\ \A f : In(<<f>>, e) <=> f = e
BY DEF In

LEMMA InTail ==
  ASSUME NEW S, NEW s \in Seq(S), s # <<>>, NEW e
  PROVE  In(s, e) <=> Head(s) = e \/ In(Tail(s), e)
<1>1. /\ Len(s) \in Nat \ {0} /\ DOMAIN s = 1..Len(s) /\ Head(s) = s[1]
      /\ DOMAIN Tail(s) = 1..(Len(s) - 1)
      /\ \A i \in 1..(Len(s) - 1) : Tail(s)[i] = s[i + 1] /\ i + 1 \in DOMAIN s
  BY TailOf
<1>2. ASSUME NEW i \in DOMAIN s, i # 1
      PROVE  i - 1 \in DOMAIN Tail(s) /\ Tail(s)[i - 1] = s[i]
  <2>1. i - 1 \in 1..(Len(s) - 1) /\ i - 1 + 1 = i BY <1>1, <1>2
  <2> QED BY <1>1, <2>1
<1>3. 1 \in DOMAIN s BY <1>1
<1> QED BY <1>1, <1>2, <1>3 DEF In

LEMMA AheadThen ==
  ASSUME NEW S, NEW s \in Seq(S), NEW t \in Seq(S)
  PROVE  Ahead(s) => Ahead(s \o t)
<1>1. /\ Len(s) \in Nat /\ Len(t) \in Nat /\ DOMAIN s = 1..Len(s)
      /\ DOMAIN (s \o t) = 1..(Len(s) + Len(t))
      /\ \A i \in 1..Len(s) : (s \o t)[i] = s[i]
  BY ConcatProperties, LenProperties
<1>2. SUFFICES ASSUME NEW j \in DOMAIN s, s[j] = "InputReady",
                      \A i \in DOMAIN s : i < j => s[i] # "InputShutdown"
               PROVE  Ahead(s \o t)
  BY DEF Ahead
<1>3. j \in DOMAIN (s \o t) /\ (s \o t)[j] = "InputReady" BY <1>1, <1>2
<1>4. \A i \in DOMAIN (s \o t) : i < j => i \in DOMAIN s /\ (s \o t)[i] = s[i] BY <1>1
<1> QED BY <1>2, <1>3, <1>4 DEF Ahead

LEMMA AheadAppended ==
  ASSUME NEW S, NEW s \in Seq(S), NEW m \in S
  PROVE  /\ Ahead(s) => Ahead(Append(s, m))
         /\ ~In(s, "InputShutdown") /\ m = "InputReady" => Ahead(Append(s, m))
         /\ \A e : In(Append(s, m), e) <=> In(s, e) \/ m = e
<1>1. <<m>> \in Seq(S) /\ s \o <<m>> = Append(s, m) BY OneMore
<1>2. Ahead(s) => Ahead(Append(s, m)) BY <1>1, AheadThen
<1>3. ASSUME NEW e PROVE In(Append(s, m), e) <=> In(s, e) \/ m = e
  <2>1. In(s \o <<m>>, e) <=> In(s, e) \/ In(<<m>>, e) BY <1>1, InBoth
  <2>2. In(<<m>>, e) <=> m = e BY InSome
  <2> QED BY <1>1, <2>1, <2>2
<1>4. ASSUME ~In(s, "InputShutdown"), m = "InputReady" PROVE Ahead(Append(s, m))
  <2>1. /\ Len(s) \in Nat /\ DOMAIN s = 1..Len(s)
        /\ DOMAIN Append(s, m) = 1..(Len(s) + 1)
        /\ \A i \in 1..Len(s) : Append(s, m)[i] = s[i]
        /\ Append(s, m)[Len(s) + 1] = m
    BY AppendTo
  <2>2. Len(s) + 1 \in DOMAIN Append(s, m) BY <2>1
  <2>3. \A i \in DOMAIN Append(s, m) :
          i < Len(s) + 1 => i \in DOMAIN s /\ Append(s, m)[i] = s[i]
    BY <2>1
  <2> QED BY <1>4, <2>1, <2>2, <2>3 DEF Ahead, In
<1> QED BY <1>2, <1>3, <1>4

LEMMA AheadTaken ==
  ASSUME NEW S, NEW s \in Seq(S), s # <<>>, Ahead(s), Head(s) # "InputReady"
  PROVE  Head(s) # "InputShutdown" /\ Ahead(Tail(s))
<1>1. /\ Len(s) \in Nat \ {0} /\ DOMAIN s = 1..Len(s) /\ Head(s) = s[1]
      /\ DOMAIN Tail(s) = 1..(Len(s) - 1)
      /\ \A i \in 1..(Len(s) - 1) : Tail(s)[i] = s[i + 1] /\ i + 1 \in DOMAIN s
  BY TailOf
<1>2. PICK j \in DOMAIN s : s[j] = "InputReady"
                            /\ \A i \in DOMAIN s : i < j => s[i] # "InputShutdown"
  BY DEF Ahead
<1>3. j - 1 \in 1..(Len(s) - 1) /\ 1 < j /\ j - 1 + 1 = j /\ 1 \in DOMAIN s BY <1>1, <1>2
<1>4. j - 1 \in DOMAIN Tail(s) /\ Tail(s)[j - 1] = "InputReady" BY <1>1, <1>2, <1>3
<1>5. \A i \in DOMAIN Tail(s) : i < j - 1 =>
        i + 1 \in DOMAIN s /\ i + 1 < j /\ Tail(s)[i] = s[i + 1]
  BY <1>1, <1>3
<1> QED BY <1>1, <1>2, <1>3, <1>4, <1>5 DEF Ahead

-----------------------------------------------------------------------------
(***************************************************************************)
(* What a run of the job may come to, with TLS or without.                 *)
(***************************************************************************)
Results == {"retry", "new", "break"}

(* It is of the right type, takes from the network what has arrived, gives *)
(* it what it has room for, and makes up no input.                         *)
Fits(s, o) ==
  /\ o.sock \in SocketType /\ o.said \in Seq(EventNames) /\ o.result \in Results
  /\ o.took \in Nat /\ o.gave \in Nat /\ o.took <= net.arrived /\ o.gave <= net.room
  /\ o.sock.input <= s.input + o.took /\ o.sock.open = s.open

NetFits == net.arrived \in Nat /\ net.room \in Nat

LEMMA BoundsAreNumbers ==
  /\ MaxSent \in Nat /\ MaxInput \in Nat /\ MaxOutput \in Nat /\ MaxRoom \in Nat
  /\ 0 \in 0..MaxSent /\ 0 \in 0..MaxOutput
BY SocketAssumption

LEMMA OutcomeFields ==
  ASSUME NEW s, NEW said, NEW result, NEW took, NEW gave
  PROVE  LET o == Outcome(s, said, result, took, gave)
         IN /\ o.sock = s /\ o.said = said /\ o.result = result
            /\ o.took = took /\ o.gave = gave
BY DEF Outcome

(* The events said are sequences of events.                                *)
LEMMA SaidTyped ==
  /\ <<>> \in Seq(EventNames)
  /\ \A e \in EventNames : <<e>> \in Seq(EventNames)
  /\ \A e, f \in EventNames : <<e, f>> \in Seq(EventNames)
  /\ \A s, t \in Seq(EventNames) : s \o t \in Seq(EventNames)
<1>1. \A s, t \in Seq(EventNames) : s \o t \in Seq(EventNames) BY ConcatProperties
<1> QED BY <1>1

LEMMA DrainedTyped ==
  ASSUME NEW s \in SocketType, NEW said \in Seq(EventNames)
  PROVE  LET d == IfDrained(s, said)
         IN /\ d.sock \in SocketType /\ d.said \in Seq(EventNames)
            /\ d.sock = s \/ d.sock = [s EXCEPT !.connected = FALSE]
            /\ d.sock.input = s.input /\ d.sock.open = s.open
<1>1. "Disconnected" \in EventNames BY DEF EventNames
<1>2. Append(said, "Disconnected") \in Seq(EventNames) BY <1>1, AppendTo
<1>3. [s EXCEPT !.connected = FALSE] \in SocketType BY DEF SocketType
<1> QED BY <1>2, <1>3 DEF IfDrained, SocketType

(* What the input's, the output's, both ends do to the fields.             *)
LEMMA InputShut ==
  ASSUME NEW s \in SocketType
  PROVE  LET t == OnInputShutdown(s)
         IN /\ t \in SocketType /\ t.input = 0 /\ ~t.readable
            /\ t.open = s.open /\ t.connected = s.connected /\ t.writable = s.writable
            /\ t.output = s.output
BY BoundsAreNumbers DEF SocketType, OnInputShutdown

LEMMA OutputShut ==
  ASSUME NEW s \in SocketType
  PROVE  LET t == OnOutputShutdown(s)
         IN /\ t \in SocketType /\ t.output = 0 /\ ~t.writable
            /\ t.open = s.open /\ t.connected = s.connected /\ t.readable = s.readable
            /\ t.input = s.input
BY BoundsAreNumbers DEF SocketType, OnOutputShutdown

LEMMA BothShut ==
  ASSUME NEW s \in SocketType
  PROVE  LET t == OnDisconnected(s)
         IN /\ t \in SocketType /\ t.output = 0 /\ t.input = 0
            /\ ~t.writable /\ ~t.readable /\ ~t.connected /\ t.open = s.open
<1> DEFINE i == OnInputShutdown(s)
           o == OnOutputShutdown(i)
<1>1. i \in SocketType /\ i.input = 0 /\ ~i.readable /\ i.open = s.open BY InputShut
<1>2. /\ o \in SocketType /\ o.output = 0 /\ ~o.writable
      /\ o.input = 0 /\ ~o.readable /\ o.open = s.open
  <2> HIDE DEF i
  <2> QED BY <1>1, OutputShut
<1>3. OnDisconnected(s) = [o EXCEPT !.connected = FALSE] BY DEF OnDisconnected
<1> HIDE DEF o
<1> QED BY <1>2, <1>3 DEF SocketType

LEMMA ConnectedFields ==
  ASSUME NEW s \in SocketType
  PROVE  LET t == OnConnected(s)
         IN /\ t \in SocketType /\ t.connected /\ t.readable /\ t.writable
            /\ t.open = s.open /\ t.input = s.input /\ t.output = s.output
BY DEF SocketType, OnConnected

(***************************************************************************)
(* A plain socket's run never opens what was shut, and says that the input *)
(* has ended only when nothing more will come.                             *)
(***************************************************************************)
Follows(s, t) ==
  /\ t.open = s.open /\ t.output <= s.output
  /\ t.connected => s.connected
  /\ t.readable => s.readable
  /\ t.writable => s.writable
  /\ (t.output > 0 /\ t.connected) => t.writable = s.writable
  /\ (s.readable => s.connected) => (t.readable => t.connected)
  /\ (s.writable => s.connected) => (t.writable => t.connected)

Silent(said) == ~In(said, "InputShutdown")

PlainRun(s, o) ==
  /\ Fits(s, o) /\ Follows(s, o.sock) /\ o.result \in {"retry", "new"}
  /\ o.took = 0 => o.sock.input \in {0, s.input}
  /\ net.peer # "reset" => o.sock.input = s.input + o.took
  /\ o.took > 0 => /\ s.readable /\ net.peer # "reset"
                   /\ o.said = IF s.input = 0 THEN <<"InputReady">> ELSE <<>>
  /\ ~Silent(o.said) => ~o.sock.readable /\ net.peer # "reset" /\ net.arrived = 0

LEMMA NothingRuns ==
  ASSUME NetFits, NEW s \in SocketType
  PROVE  PlainRun(s, Nothing(s)) /\ Nothing(s).said = <<>> /\ Nothing(s).took = 0
<1>1. /\ Nothing(s).sock = s /\ Nothing(s).said = <<>> /\ Nothing(s).result = "retry"
      /\ Nothing(s).took = 0 /\ Nothing(s).gave = 0
  BY DEF Nothing, Outcome
<1>2. s.output \in Nat /\ s.input \in Nat BY DEF SocketType
<1>3. Fits(s, Nothing(s)) BY <1>1, <1>2, SaidTyped DEF Fits, Results, NetFits
<1>4. Follows(s, s) BY <1>2 DEF Follows
<1>5. Silent(<<>>) BY DEF Silent, In
<1> QED BY <1>1, <1>2, <1>3, <1>4, <1>5 DEF PlainRun

LEMMA DrainedFollows ==
  ASSUME NEW s \in SocketType, NEW t \in SocketType, Follows(s, t), NEW said
  PROVE  Follows(s, IfDrained(t, said).sock)
<1> DEFINE g == [t EXCEPT !.connected = FALSE]
<1>1. CASE ~t.readable /\ ~t.writable /\ t.input = 0
  <2>1. IfDrained(t, said).sock = g BY <1>1 DEF IfDrained
  <2>2. /\ g.open = t.open /\ g.output = t.output /\ g.readable = t.readable
        /\ g.writable = t.writable /\ ~g.connected
    BY DEF SocketType
  <2> HIDE DEF g
  <2> QED BY <1>1, <2>1, <2>2 DEF Follows
<1>2. CASE ~(~t.readable /\ ~t.writable /\ t.input = 0)
  BY <1>2 DEF IfDrained
<1> QED BY <1>1, <1>2

LEMMA SilentSaid ==
  /\ Silent(<<>>)
  /\ \A e : e # "InputShutdown" => Silent(<<e>>)
  /\ \A e, f : (e # "InputShutdown" /\ f # "InputShutdown") => Silent(<<e, f>>)
BY DEF Silent, In


LEMMA DrainedSilent ==
  ASSUME NEW t, NEW said \in Seq(EventNames), Silent(said)
  PROVE  Silent(IfDrained(t, said).said)
<1> DEFINE more == Append(said, "Disconnected")
<1>1. "Disconnected" \in EventNames BY DEF EventNames
<1>2. /\ DOMAIN said = 1..Len(said) /\ DOMAIN more = 1..(Len(said) + 1) /\ Len(said) \in Nat
      /\ \A i \in 1..Len(said) : more[i] = said[i]
      /\ more[Len(said) + 1] = "Disconnected"
  BY <1>1, AppendTo
<1>3. Silent(more)
  <2> HIDE DEF more
  <2>1. \A i \in DOMAIN more : i \in 1..Len(said) \/ i = Len(said) + 1 BY <1>2
  <2> QED BY <1>2, <2>1 DEF Silent, In
<1> QED BY <1>3 DEF IfDrained

(* A socket that has shut one end or both, and may have disconnected.      *)
LEMMA ShutFollows ==
  ASSUME NEW s \in SocketType
  PROVE  /\ Follows(s, s) /\ Follows(s, OnInputShutdown(s))
         /\ Follows(s, OnOutputShutdown(s)) /\ Follows(s, OnDisconnected(s))
         /\ [s EXCEPT !.readable = FALSE] \in SocketType
         /\ Follows(s, [s EXCEPT !.readable = FALSE])
<1>1. s.output \in Nat BY DEF SocketType
<1>2. Follows(s, s) BY <1>1 DEF Follows
<1>3. Follows(s, OnInputShutdown(s))
  <2> DEFINE t == OnInputShutdown(s)
  <2>1. /\ ~t.readable /\ t.open = s.open /\ t.connected = s.connected
        /\ t.writable = s.writable /\ t.output = s.output
    BY InputShut
  <2>2. Follows(s, t)
    <3> HIDE DEF t
    <3> QED BY <1>1, <2>1 DEF Follows
  <2> QED BY <2>2
<1>4. Follows(s, OnOutputShutdown(s))
  <2> DEFINE t == OnOutputShutdown(s)
  <2>1. /\ ~t.writable /\ t.open = s.open /\ t.connected = s.connected
        /\ t.readable = s.readable /\ t.output = 0
    BY OutputShut
  <2>2. Follows(s, t)
    <3> HIDE DEF t
    <3> QED BY <1>1, <2>1 DEF Follows
  <2> QED BY <2>2
<1>5. Follows(s, OnDisconnected(s))
  <2> DEFINE t == OnDisconnected(s)
  <2>1. /\ ~t.writable /\ t.open = s.open /\ ~t.connected /\ ~t.readable /\ t.output = 0
    BY BothShut
  <2>2. Follows(s, t)
    <3> HIDE DEF t
    <3> QED BY <1>1, <2>1 DEF Follows
  <2> QED BY <2>2
<1> DEFINE u == [s EXCEPT !.readable = FALSE]
<1>6. /\ u \in SocketType /\ ~u.readable /\ u.open = s.open /\ u.connected = s.connected
      /\ u.writable = s.writable /\ u.output = s.output
  BY DEF SocketType
<1>7. Follows(s, u)
  <2> HIDE DEF u
  <2> QED BY <1>1, <1>6 DEF Follows
<1> QED BY <1>2, <1>3, <1>4, <1>5, <1>6, <1>7

(* A write takes no input, and says nothing unless the connection broke.   *)
LEMMA WriteRuns ==
  ASSUME NetFits, NEW s \in SocketType, Plain, NEW w \in DoWrite(s)
  PROVE  /\ PlainRun(s, w) /\ w.took = 0 /\ Silent(w.said)
         /\ net.peer # "reset" => w.said = <<>>
<1> USE DEF NetFits
<1>0. s.input \in Nat /\ s.output \in Nat BY DEF SocketType
<1>1. CASE net.peer = "reset"
  <2>1. w \in WriteFailures(s) BY <1>1 DEF DoWrite, Plain
  <2> DEFINE out == OnOutputShutdown(s)
             shut == IfDrained(out, <<"OutputShutdown">>)
             gone == OnDisconnected(s)
  <2>2. /\ {"OutputShutdown", "Disconnected", "OutputError"} \subseteq EventNames
        /\ "new" \in Results
    BY DEF EventNames, Results
  <2>3. /\ out \in SocketType /\ out.input = s.input /\ out.open = s.open
        /\ Follows(s, out)
    BY OutputShut, ShutFollows
  <2>4. /\ shut.sock \in SocketType /\ shut.sock.input = s.input /\ shut.sock.open = s.open
        /\ Follows(s, shut.sock)
    <3> HIDE DEF out
    <3> QED BY <2>2, <2>3, DrainedTyped, DrainedFollows, SaidTyped
  <2>5. /\ shut.said \in Seq(EventNames) /\ Silent(shut.said)
    <3>1. <<"OutputShutdown">> \in Seq(EventNames) /\ Silent(<<"OutputShutdown">>)
      BY <2>2, SaidTyped, SilentSaid
    <3> HIDE DEF out
    <3> QED BY <2>3, <3>1, DrainedTyped, DrainedSilent
  <2>6. /\ gone \in SocketType /\ gone.input = 0 /\ gone.open = s.open /\ Follows(s, gone)
    BY BothShut, ShutFollows
  <2>7. w.took = 0 /\ w.gave = 0 /\ w.result = "new"
    BY <2>1, OutcomeFields DEF WriteFailures
  <2>8. w.sock \in {shut.sock, gone} BY <2>1, OutcomeFields DEF WriteFailures
  <2>9. w.said \in {shut.said, <<"Disconnected">>, <<"OutputError", "Disconnected">>}
    BY <2>1, OutcomeFields DEF WriteFailures
  <2>10. w.said \in Seq(EventNames) /\ Silent(w.said)
    <3> HIDE DEF shut, gone
    <3> QED BY <2>2, <2>5, <2>9, SaidTyped, SilentSaid
  <2> HIDE DEF shut, gone
  <2> QED BY <1>0, <1>1, <2>2, <2>4, <2>6, <2>7, <2>8, <2>10 DEF PlainRun, Fits
<1>2. CASE net.peer # "reset"
  <2>1. w \in Written(s) BY <1>2 DEF DoWrite, Plain
  <2>2. CASE s.output = 0 \/ net.room = 0
    BY <2>1, <2>2, NothingRuns, SilentSaid DEF Written
  <2>3. CASE ~(s.output = 0 \/ net.room = 0)
    <3>1. PICK n \in 1..Min2(s.output, net.room) :
            w = Outcome(DiscardWrittenData(s, n), <<>>, "new", 0, n)
      BY <2>1, <2>3 DEF Written
    <3>2. n \in Nat /\ n <= s.output /\ n <= net.room BY <1>0, <3>1 DEF Min2
    <3> DEFINE left == [s EXCEPT !.output = @ - n]
               d == DiscardWrittenData(s, n)
    <3>3. s.output - n \in 0..MaxOutput BY <3>2, BoundsAreNumbers DEF SocketType
    <3>4. left \in SocketType /\ left.output = s.output - n BY <3>3 DEF SocketType
    <3>5. /\ d \in SocketType /\ d.input = s.input /\ d.open = s.open
          /\ d.readable = s.readable /\ d.writable = s.writable /\ d.connected = s.connected
          /\ d.output = s.output - n
      BY <3>4 DEF DiscardWrittenData, SocketType
    <3>6. w.sock = d /\ w.said = <<>> /\ w.result = "new" /\ w.took = 0 /\ w.gave = n
      BY <3>1, OutcomeFields
    <3> HIDE DEF d, left
    <3>7. Follows(s, d) BY <1>0, <3>2, <3>5 DEF Follows
    <3>8. Fits(s, w) BY <1>0, <3>2, <3>5, <3>6, SaidTyped DEF Fits, Results
    <3> QED BY <1>0, <3>5, <3>6, <3>7, <3>8, SilentSaid DEF PlainRun
  <2> QED BY <2>2, <2>3
<1> QED BY <1>1, <1>2


(* A read announces the input if there was none, and tells of the end when *)
(* there is nothing left to receive.                                       *)
LEMMA ReadRuns ==
  ASSUME NetFits, NEW s \in SocketType, Plain, s.readable, s.input + net.arrived <= MaxSent,
         NEW r \in DoRead(s)
  PROVE  PlainRun(s, r)
<1> USE DEF NetFits
<1>0. s.input \in Nat /\ s.output \in Nat /\ "new" \in Results /\ "retry" \in Results
  BY DEF SocketType, Results
<1>1. CASE net.peer = "reset"
  <2> DEFINE gone == OnDisconnected(s)
  <2>1. r \in {Outcome(gone, <<"Disconnected">>, "new", 0, 0), Nothing(s)}
    BY <1>1 DEF DoRead, Plain
  <2>2. CASE r = Nothing(s) BY <2>2, NothingRuns
  <2>3. CASE r = Outcome(gone, <<"Disconnected">>, "new", 0, 0)
    <3>1. gone \in SocketType /\ gone.input = 0 /\ gone.open = s.open /\ Follows(s, gone)
      BY BothShut, ShutFollows
    <3>2. <<"Disconnected">> \in Seq(EventNames) /\ Silent(<<"Disconnected">>)
      BY SaidTyped, SilentSaid DEF EventNames
    <3>3. /\ r.sock = gone /\ r.said = <<"Disconnected">> /\ r.result = "new"
          /\ r.took = 0 /\ r.gave = 0
      BY <2>3, OutcomeFields
    <3> HIDE DEF gone
    <3> QED BY <1>0, <1>1, <3>1, <3>2, <3>3 DEF PlainRun, Fits
  <2> QED BY <2>1, <2>2, <2>3
<1>2. CASE net.peer # "reset" /\ net.arrived > 0
  <2>1. PICK n \in Slurped(s) : r = Filled(s, n) BY <1>2 DEF DoRead, Plain
  <2>2. n \in Nat /\ n > 0 /\ n <= net.arrived BY <2>1 DEF Slurped
  <2> DEFINE g == [s EXCEPT !.input = @ + n]
             announced == IF s.input = 0 THEN <<"InputReady">> ELSE <<>>
  <2>3. s.input + n \in 0..MaxSent BY <1>0, <2>2, BoundsAreNumbers
  <2>4. /\ g \in SocketType /\ g.input = s.input + n /\ g.open = s.open /\ g.output = s.output
        /\ g.readable = s.readable /\ g.writable = s.writable /\ g.connected = s.connected
    BY <2>3 DEF SocketType
  <2>5. Follows(s, g)
    <3> HIDE DEF g
    <3> QED BY <1>0, <2>4 DEF Follows
  <2>6. announced \in Seq(EventNames) /\ Silent(announced)
    BY SaidTyped, SilentSaid DEF EventNames
  <2>7. /\ r.sock = g /\ r.said = announced /\ r.result = "retry"
        /\ r.took = n /\ r.gave = 0
    BY <2>1, OutcomeFields DEF Filled
  <2>8. r.said = IF s.input = 0 THEN <<"InputReady">> ELSE <<>> BY <2>7
  <2> HIDE DEF g, announced
  <2>9. Fits(s, r) BY <1>0, <2>2, <2>4, <2>6, <2>7 DEF Fits
  <2> QED BY <1>0, <1>2, <2>2, <2>4, <2>5, <2>6, <2>7, <2>8, <2>9 DEF PlainRun
<1>3. CASE net.peer # "reset" /\ net.arrived = 0
  <2> DEFINE u == [s EXCEPT !.readable = FALSE]
             shut == IfDrained(u, <<"InputShutdown">>)
  <2>1. r = Outcome(shut.sock, shut.said, "new", 0, 0) BY <1>3 DEF DoRead, Plain, HungUp
  <2>2. u \in SocketType /\ Follows(s, u) BY ShutFollows
  <2>3. u.input = s.input /\ u.open = s.open /\ ~u.readable BY DEF SocketType
  <2>4. <<"InputShutdown">> \in Seq(EventNames) BY SaidTyped DEF EventNames
  <2>5. /\ shut.sock \in SocketType /\ shut.said \in Seq(EventNames)
        /\ shut.sock = u \/ shut.sock = [u EXCEPT !.connected = FALSE]
        /\ shut.sock.input = u.input /\ shut.sock.open = u.open
    <3> HIDE DEF u
    <3> QED BY <2>2, <2>4, DrainedTyped
  <2>6. Follows(s, shut.sock)
    <3> HIDE DEF u
    <3> QED BY <2>2, DrainedFollows
  <2>7. ~shut.sock.readable BY <2>2, <2>3, <2>5 DEF SocketType
  <2>8. r.sock = shut.sock /\ r.said = shut.said /\ r.result = "new" /\ r.took = 0 /\ r.gave = 0
    BY <2>1, OutcomeFields
  <2> HIDE DEF shut, u
  <2>9. Fits(s, r) BY <1>0, <2>3, <2>5, <2>8 DEF Fits
  <2> QED BY <1>0, <1>3, <2>3, <2>5, <2>6, <2>7, <2>8, <2>9 DEF PlainRun
<1> QED BY <1>1, <1>2, <1>3

LEMMA FollowsOn ==
  ASSUME NEW s \in SocketType, NEW t \in SocketType, NEW u \in SocketType,
         Follows(s, t), Follows(t, u)
  PROVE  Follows(s, u)
<1>1. s.output \in Nat /\ t.output \in Nat /\ u.output \in Nat BY DEF SocketType
<1> QED BY <1>1 DEF Follows

(* serviceConnected writes first, and then reads.                          *)
WritesOf(write) == IF write THEN DoWrite(sock) ELSE {Nothing(sock)}
ReadsOf(w, read) == IF read /\ w.sock.readable THEN DoRead(w.sock) ELSE {Nothing(w.sock)}
Joins(o, w, r) ==
  /\ o.sock = r.sock /\ o.said = w.said \o r.said
  /\ o.took = r.took /\ o.gave = w.gave
  /\ o.result = IF "break" \in {w.result, r.result} THEN "break"
                ELSE IF "new" \in {w.result, r.result} THEN "new" ELSE "retry"

LEMMA WritesThenReads ==
  ASSUME NEW read, NEW write, NEW o \in Served(read, write)
  PROVE  \E w \in WritesOf(write) : \E r \in ReadsOf(w, read) : Joins(o, w, r)
<1>1. PICK w \in WritesOf(write) :
        \E r \in ReadsOf(w, read) :
          o = [Outcome(r.sock, w.said \o r.said, "retry", r.took, w.gave)
                 EXCEPT !.result = IF "break" \in {w.result, r.result} THEN "break"
                                   ELSE IF "new" \in {w.result, r.result} THEN "new" ELSE "retry"]
  BY DEF Served, WritesOf, ReadsOf
<1>2. PICK r \in ReadsOf(w, read) :
        o = [Outcome(r.sock, w.said \o r.said, "retry", r.took, w.gave)
               EXCEPT !.result = IF "break" \in {w.result, r.result} THEN "break"
                                 ELSE IF "new" \in {w.result, r.result} THEN "new" ELSE "retry"]
  BY <1>1
<1>3. Joins(o, w, r) BY <1>2 DEF Outcome, Joins
<1> QED BY <1>2, <1>3

LEMMA ServedRuns ==
  ASSUME NetFits, sock \in SocketType, Plain, sock.input + net.arrived <= MaxSent,
         NEW read, NEW write, NEW o \in Served(read, write)
  PROVE  PlainRun(sock, o) /\ (~Silent(o.said) => read)
<1> USE DEF NetFits
<1>1. PICK w \in WritesOf(write) : \E r \in ReadsOf(w, read) : Joins(o, w, r)
  BY WritesThenReads
<1>2. PICK r \in ReadsOf(w, read) : Joins(o, w, r) BY <1>1
<1>3. /\ PlainRun(sock, w) /\ w.took = 0 /\ Silent(w.said)
      /\ net.peer # "reset" => w.said = <<>>
  BY WriteRuns, NothingRuns, SilentSaid DEF WritesOf
<1>4. w.sock \in SocketType /\ w.said \in Seq(EventNames) /\ w.sock.input <= sock.input
  <2>1. sock.input \in Nat BY DEF SocketType
  <2> QED BY <1>3, <2>1 DEF PlainRun, Fits
<1>5. w.sock.input + net.arrived <= MaxSent
  <2>1. sock.input \in Nat /\ w.sock.input \in Nat BY <1>4 DEF SocketType
  <2> QED BY <1>4, <2>1, BoundsAreNumbers
<1>6. PlainRun(w.sock, r) /\ (~(read /\ w.sock.readable) => r.said = <<>>)
  BY <1>4, <1>5, ReadRuns, NothingRuns DEF ReadsOf
<1>7. r.sock \in SocketType /\ r.said \in Seq(EventNames) BY <1>6 DEF PlainRun, Fits
<1>8. o.said \in Seq(EventNames) /\ (Silent(o.said) <=> Silent(r.said))
  BY <1>2, <1>3, <1>4, <1>7, SaidTyped, InBoth DEF Joins, Silent
<1>9. Follows(sock, o.sock) BY <1>2, <1>3, <1>4, <1>6, <1>7, FollowsOn DEF PlainRun, Joins
<1>10. o.result \in {"retry", "new"} BY <1>2, <1>3, <1>6 DEF PlainRun, Joins
<1>11. Fits(sock, o)
  <2>1. /\ sock.input \in Nat /\ w.sock.input \in Nat /\ r.sock.input \in Nat
        /\ r.took \in Nat /\ w.gave \in Nat
    BY <1>3, <1>4, <1>6, <1>7 DEF SocketType, PlainRun, Fits
  <2>2. r.sock.input <= sock.input + r.took
    BY <1>4, <1>6, <2>1 DEF PlainRun, Fits
  <2> QED BY <1>2, <1>3, <1>6, <1>7, <1>8, <1>10, <2>2 DEF PlainRun, Fits, Results, Joins
<1>12. o.took = 0 => o.sock.input \in {0, sock.input}
  BY <1>2, <1>3, <1>6 DEF PlainRun, Joins
<1>13. sock.input \in Nat /\ w.sock.input \in Nat BY <1>4 DEF SocketType
<1>14. net.peer # "reset" => o.sock.input = sock.input + o.took
  BY <1>2, <1>3, <1>6, <1>13 DEF PlainRun, Joins
<1>15. o.took > 0 => /\ sock.readable /\ net.peer # "reset"
                     /\ o.said = IF sock.input = 0 THEN <<"InputReady">> ELSE <<>>
  <2> SUFFICES ASSUME o.took > 0
               PROVE  /\ sock.readable /\ net.peer # "reset"
                      /\ o.said = IF sock.input = 0 THEN <<"InputReady">> ELSE <<>>
    OBVIOUS
  <2>1. /\ w.sock.readable /\ net.peer # "reset"
        /\ r.said = IF w.sock.input = 0 THEN <<"InputReady">> ELSE <<>>
    BY <1>2, <1>6 DEF PlainRun, Joins, ReadsOf
  <2>2. w.sock.input = sock.input BY <1>3, <1>13, <2>1 DEF PlainRun
  <2>3. o.said = r.said BY <1>2, <1>3, <1>7, <2>1, ConcatEmptySeq DEF Joins
  <2>4. sock.readable BY <1>3, <2>1 DEF PlainRun, Follows
  <2> QED BY <2>1, <2>2, <2>3, <2>4
<1>16. ~Silent(o.said) => read /\ ~o.sock.readable /\ net.peer # "reset" /\ net.arrived = 0
  BY <1>2, <1>6, <1>8, SilentSaid DEF PlainRun, Joins
<1> QED BY <1>9, <1>10, <1>11, <1>12, <1>14, <1>15, <1>16 DEF PlainRun


(* With TLS: the run is of the right type.                                 *)
LEMMA TlsOutcomes ==
  ASSUME NetFits, NEW s \in SocketType,
         NEW o \in TlsFailures(s) \cup TlsRetries(s) \cup {Nothing(s)}
  PROVE  /\ Fits(s, o) /\ o.took = 0 /\ o.sock.input = s.input
         /\ o = Outcome(o.sock, o.said, o.result, o.took, o.gave)
<1> USE DEF NetFits
<1>0. s.input \in Nat BY DEF SocketType
<1>1. /\ <<"Disconnected", "InputShutdown">> \in Seq(EventNames)
      /\ <<>> \in Seq(EventNames)
      /\ Results = {"retry", "new", "break"}
  BY SaidTyped DEF EventNames, Results
<1>2. CASE o = TlsFatal(s)
  <2> DEFINE t == [s EXCEPT !.fatal = TRUE]
  <2>1. t \in SocketType /\ t.input = s.input /\ t.open = s.open BY DEF SocketType
  <2>2. /\ o.sock = t /\ o.said = <<"Disconnected", "InputShutdown">> /\ o.result = "break"
        /\ o.took = 0 /\ o.gave = 0
        /\ o = Outcome(o.sock, o.said, o.result, o.took, o.gave)
    BY <1>2 DEF TlsFatal, Outcome
  <2> HIDE DEF t
  <2> QED BY <1>0, <1>1, <2>1, <2>2 DEF Fits
<1>3. CASE o = TlsEnd(s)
  <2> DEFINE t == [s EXCEPT !.connected = FALSE, !.readable = FALSE, !.writable = FALSE]
  <2>1. t \in SocketType /\ t.input = s.input /\ t.open = s.open BY DEF SocketType
  <2>2. /\ o.sock = t /\ o.said = <<"Disconnected", "InputShutdown">> /\ o.result = "break"
        /\ o.took = 0 /\ o.gave = 0
        /\ o = Outcome(o.sock, o.said, o.result, o.took, o.gave)
    BY <1>3 DEF TlsEnd, Outcome
  <2> HIDE DEF t
  <2> QED BY <1>0, <1>1, <2>1, <2>2 DEF Fits
<1>4. CASE o \in TlsRetries(s)
  <2>1. PICK t \in {[s EXCEPT !.readable = TRUE], [s EXCEPT !.writable = TRUE]} :
          o = Outcome(t, <<>>, "new", 0, 0)
    BY <1>4 DEF TlsRetries
  <2>2. t \in SocketType /\ t.input = s.input /\ t.open = s.open BY <2>1 DEF SocketType
  <2>3. /\ o.sock = t /\ o.said = <<>> /\ o.result = "new" /\ o.took = 0 /\ o.gave = 0
        /\ o = Outcome(o.sock, o.said, o.result, o.took, o.gave)
    BY <2>1 DEF Outcome
  <2> QED BY <1>0, <1>1, <2>2, <2>3 DEF Fits
<1>5. CASE o = Nothing(s)
  <2>1. o = Outcome(o.sock, o.said, o.result, o.took, o.gave) BY <1>5 DEF Nothing, Outcome
  <2>2. o.sock = s BY <1>5 DEF Nothing, Outcome
  <2> QED BY <1>5, <2>1, <2>2, NothingRuns DEF PlainRun
<1> QED BY <1>2, <1>3, <1>4, <1>5 DEF TlsFailures

LEMMA WrittenFits ==
  ASSUME NetFits, NEW s \in SocketType, NEW w \in Written(s)
  PROVE  Fits(s, w) /\ w.took = 0
<1> USE DEF NetFits
<1>0. s.input \in Nat /\ s.output \in Nat BY DEF SocketType
<1>1. CASE s.output = 0 \/ net.room = 0
  BY <1>1, NothingRuns DEF Written, PlainRun
<1>2. CASE ~(s.output = 0 \/ net.room = 0)
  <2>1. PICK n \in 1..Min2(s.output, net.room) :
          w = Outcome(DiscardWrittenData(s, n), <<>>, "new", 0, n)
    BY <1>2 DEF Written
  <2>2. n \in Nat /\ n <= s.output /\ n <= net.room BY <1>0, <2>1 DEF Min2
  <2> DEFINE left == [s EXCEPT !.output = @ - n]
             d == DiscardWrittenData(s, n)
  <2>3. s.output - n \in 0..MaxOutput BY <2>2, BoundsAreNumbers DEF SocketType
  <2>4. left \in SocketType BY <2>3 DEF SocketType
  <2>5. d \in SocketType /\ d.input = s.input /\ d.open = s.open
    BY <2>4 DEF DiscardWrittenData, SocketType
  <2>6. w.sock = d /\ w.said = <<>> /\ w.result = "new" /\ w.took = 0 /\ w.gave = n
    BY <2>1, OutcomeFields
  <2> HIDE DEF d, left
  <2> QED BY <1>0, <2>2, <2>5, <2>6, SaidTyped DEF Fits, Results
<1> QED BY <1>1, <1>2

LEMMA TlsReads ==
  ASSUME NetFits, NEW s \in SocketType, end.secure, s.input + net.arrived <= MaxSent,
         NEW r \in DoRead(s)
  PROVE  Fits(s, r)
<1> USE DEF NetFits
<1>0. s.input \in Nat /\ "retry" \in Results BY DEF SocketType, Results
<1>1. CASE r \in TlsRetries(s) \cup {Nothing(s)} BY <1>1, TlsOutcomes
<1>2. ASSUME NEW n \in Slurped(s), r = Filled(s, n) PROVE Fits(s, r)
  <2>2. n \in Nat /\ n <= net.arrived BY <1>2 DEF Slurped
  <2> DEFINE g == [s EXCEPT !.input = @ + n]
             announced == IF s.input = 0 THEN <<"InputReady">> ELSE <<>>
  <2>3. s.input + n \in 0..MaxSent BY <1>0, <2>2, BoundsAreNumbers
  <2>4. g \in SocketType /\ g.input = s.input + n /\ g.open = s.open
    BY <2>3 DEF SocketType
  <2>5. announced \in Seq(EventNames) BY SaidTyped DEF EventNames
  <2>6. /\ r.sock = g /\ r.said = announced /\ r.result = "retry" /\ r.took = n /\ r.gave = 0
    BY <1>2, OutcomeFields DEF Filled
  <2> HIDE DEF g, announced
  <2> QED BY <1>0, <2>2, <2>4, <2>5, <2>6 DEF Fits
<1>3. ASSUME NEW f \in TlsFailures(s), NEW n \in 0..(IF s.fatal THEN 0 ELSE net.arrived),
             r = CutShort(s, f, n)
      PROVE  Fits(s, r)
  <2>1. Fits(s, f) /\ f = Outcome(f.sock, f.said, f.result, f.took, f.gave) BY TlsOutcomes
  <2>2. n \in Nat /\ n <= net.arrived BY <1>3
  <2> DEFINE g == [f.sock EXCEPT !.input = s.input + n]
  <2>3. s.input + n \in 0..MaxSent BY <1>0, <2>2, BoundsAreNumbers
  <2>4. g \in SocketType /\ g.input = s.input + n /\ g.open = s.open
    BY <2>1, <2>3 DEF SocketType, Fits
  <2>5. /\ r.sock = g /\ r.said = f.said /\ r.result = f.result /\ r.took = n
        /\ r.gave = f.gave
    BY <1>3, OutcomeFields DEF CutShort
  <2> HIDE DEF g
  <2> QED BY <1>0, <2>1, <2>2, <2>4, <2>5 DEF Fits
<1> DEFINE whole == {Filled(s, n) : n \in Slurped(s)}
           cut == {CutShort(s, f, n) :
                     f \in TlsFailures(s), n \in 0..(IF s.fatal THEN 0 ELSE net.arrived)}
<1>4. DoRead(s) = IF ~s.ready THEN {Nothing(s)}
                  ELSE (IF s.fatal THEN {} ELSE whole) \cup TlsRetries(s) \cup cut
  BY DEF DoRead
<1>5. r \in cut => Fits(s, r) BY <1>3
<1>6. r \in whole => Fits(s, r) BY <1>2
<1> HIDE DEF whole, cut
<1> QED BY <1>1, <1>4, <1>5, <1>6

(* The whole run, with TLS or without.                                     *)
LEMMA ServedFits ==
  ASSUME NetFits, end.secure \in BOOLEAN, sock \in SocketType,
         sock.input + net.arrived <= MaxSent,
         NEW read, NEW write, NEW o \in Served(read, write)
  PROVE  Fits(sock, o)
<1> USE DEF NetFits
<1>1. CASE Plain BY <1>1, ServedRuns DEF PlainRun
<1>2. CASE end.secure
  <2>1. PICK w \in WritesOf(write) : \E r \in ReadsOf(w, read) : Joins(o, w, r)
    BY WritesThenReads
  <2>2. PICK r \in ReadsOf(w, read) : Joins(o, w, r) BY <2>1
  <2>3. w \in TlsFailures(sock) \cup TlsRetries(sock) \cup {Nothing(sock)} \cup Written(sock)
    BY <1>2 DEF WritesOf, DoWrite
  <2>4. Fits(sock, w) /\ w.took = 0 BY <2>3, TlsOutcomes, WrittenFits
  <2>5. /\ w.sock \in SocketType /\ w.said \in Seq(EventNames) /\ sock.input \in Nat
        /\ w.sock.input \in Nat /\ w.sock.input <= sock.input
    BY <2>4 DEF Fits, SocketType
  <2>6. Fits(w.sock, r)
    <3>1. w.sock.input + net.arrived <= MaxSent BY <2>5, BoundsAreNumbers
    <3>2. r \in DoRead(w.sock) \/ r = Nothing(w.sock) BY <2>2 DEF ReadsOf
    <3> QED BY <1>2, <2>5, <3>1, <3>2, TlsReads, TlsOutcomes
  <2>7. o.said \in Seq(EventNames) /\ o.result \in Results
    BY <2>2, <2>5, <2>6, SaidTyped DEF Joins, Fits, Results
  <2>8. r.sock.input \in Nat /\ r.took \in Nat BY <2>6 DEF Fits, SocketType
  <2>9. r.sock.input <= sock.input + r.took BY <2>5, <2>6, <2>8 DEF Fits
  <2> QED BY <2>2, <2>4, <2>6, <2>7, <2>9 DEF Joins, Fits
<1> QED BY <1>1, <1>2 DEF Plain

-----------------------------------------------------------------------------
(***************************************************************************)
(* The jobs, and the steps of the service thread.                          *)
(***************************************************************************)
LEMMA JobsTyped ==
  /\ NoJob \in JobType /\ NoJob.kind = "none"
  /\ \A k \in JobKinds : [NoJob EXCEPT !.kind = k] \in JobType
                         /\ [NoJob EXCEPT !.kind = k].kind = k
  /\ \A k \in JobKinds : \A s \in SocketType :
       /\ JobOf(k, s) \in JobType /\ JobOf(k, s).kind = k
       /\ (k = "connected" /\ s.writable /\ s.output > 0) => JobOf(k, s).write
  /\ \A s \in SocketType : JobKind(s) \in JobKinds
<1>1. NoJob \in JobType /\ NoJob.kind = "none" BY DEF NoJob, JobType, JobKinds
<1>2. \A k \in JobKinds : [NoJob EXCEPT !.kind = k] \in JobType
                          /\ [NoJob EXCEPT !.kind = k].kind = k
  BY DEF NoJob, JobType, JobKinds
<1>3. ASSUME NEW k \in JobKinds, NEW s \in SocketType
      PROVE  /\ JobOf(k, s) \in JobType /\ JobOf(k, s).kind = k
             /\ (k = "connected" /\ s.writable /\ s.output > 0) => JobOf(k, s).write
  <2>1. CASE k = "none" BY <1>1, <2>1 DEF JobOf
  <2>2. CASE k # "none"
    <3>1. /\ s.readable \in BOOLEAN /\ (s.writable /\ (k = "connected" => s.output > 0)) \in BOOLEAN
      BY DEF SocketType
    <3> QED BY <2>2, <3>1 DEF JobOf, JobType
  <2> QED BY <2>1, <2>2
<1>4. \A s \in SocketType : JobKind(s) \in JobKinds BY DEF JobKind, JobKinds
<1> QED BY <1>1, <1>2, <1>3, <1>4

(* The job of a plain socket: connected when there is something to write.  *)
LEMMA PlainJob ==
  ASSUME Plain, NEW s \in SocketType
  PROVE  /\ JobKind(s) \in {"none", "connecting", "connected"}
         /\ JobKind(s) = "connecting" => ~s.connected /\ (s.readable \/ s.writable)
         /\ (s.open /\ s.connected /\ s.writable /\ s.output > 0) => JobKind(s) = "connected"
         /\ (s.open /\ s.connected /\ s.writable /\ s.output > 0) => NewJob(s).write
         /\ NewJob(s).kind = JobKind(s) /\ NewJob(s) \in JobType
<1>1. /\ JobKind(s) \in {"none", "connecting", "connected"}
      /\ JobKind(s) = "connecting" => ~s.connected /\ (s.readable \/ s.writable)
      /\ (s.open /\ s.connected /\ s.writable /\ s.output > 0) => JobKind(s) = "connected"
  BY DEF JobKind, Plain
<1> QED BY <1>1, JobsTyped DEF NewJob

LEMMA Numbers ==
  ASSUME Typed, Bytes
  PROVE  /\ NetFits /\ end.secure \in BOOLEAN /\ sock.input + net.arrived <= MaxSent
         /\ consumed * (Payload + 1) \in Nat /\ Held(filter) \in Nat
         /\ sock.input \in Nat /\ sock.output \in Nat /\ net.sent \in Nat /\ Known \in Nat
         /\ net.arrived <= net.sent /\ net.sent <= MaxSent
<1>1. /\ NetFits /\ end.secure \in BOOLEAN /\ consumed \in Nat /\ sock.input \in Nat
      /\ sock.output \in Nat /\ net.sent \in Nat /\ net.sent <= MaxSent
  BY BoundsAreNumbers DEF Typed, NetType, NetFits, SocketType
<1>2. Held(filter) \in Nat BY DEF Typed, FilterType, Held
<1>3. consumed * (Payload + 1) \in Nat BY <1>1, SizeIsPositive
<1>4. Known \in Nat /\ Known <= net.sent /\ sock.input + net.arrived <= Known
  BY <1>1, <1>2, <1>3 DEF NetFits, Bytes, Known
<1> QED BY <1>1, <1>2, <1>3, <1>4, BoundsAreNumbers DEF NetFits

Gone(o, next) ==
  /\ o.sock = OnDisconnected(sock) /\ o.took = 0 /\ Silent(o.said) /\ next = NoJob
  /\ net.peer \in {"reset", "refused"}
Connects(o, next) ==
  /\ job.kind = "connecting" /\ o.sock = OnConnected(sock) /\ o.took = 0 /\ Silent(o.said)
  /\ next = NewJob(o.sock)
Serves(o, next) ==
  /\ job.kind = "connected" /\ PlainRun(sock, o)
  /\ ~Silent(o.said) => Readable
  /\ next \in {job, NewJob(o.sock)}

(* Whatever the service thread does: it installs what it owes, or runs the *)
(* job it has.                                                             *)
Runs(o, next) ==
  /\ Run(o, next) /\ service = "idle" /\ job.kind # "none"
  /\ Fits(sock, o) /\ next \in JobType
  /\ Plain => job.kind = "handshake" \/ Gone(o, next) \/ Connects(o, next) \/ Serves(o, next)

LEMMA ServiceRuns ==
  ASSUME Typed, Bytes, ServiceNext
  PROVE  Install \/ \E o, next : Runs(o, next)
<1>1. /\ NetFits /\ end.secure \in BOOLEAN /\ sock.input + net.arrived <= MaxSent
      /\ sock \in SocketType /\ job \in JobType /\ sock.input \in Nat
  BY Numbers DEF Typed
<1>2. /\ <<"ConnectionFailed">> \in Seq(EventNames) /\ Silent(<<"ConnectionFailed">>)
      /\ <<"Connected">> \in Seq(EventNames) /\ Silent(<<"Connected">>)
      /\ <<"Disconnected">> \in Seq(EventNames) /\ Silent(<<"Disconnected">>)
      /\ <<>> \in Seq(EventNames)
      /\ <<"Accepted">> \in Seq(EventNames) /\ <<"SecureConnected">> \in Seq(EventNames)
      /\ {"new", "break"} \subseteq Results
  BY SaidTyped, SilentSaid DEF EventNames, Results
<1>3. ASSUME NEW said, <<said>> \in Seq(EventNames), Silent(<<said>>), service = "idle",
             job.kind # "none", Failing,
             Run(Outcome(OnDisconnected(sock), <<said>>, "new", 0, 0), NoJob)
      PROVE  \E o, next : Runs(o, next)
  <2> DEFINE o == Outcome(OnDisconnected(sock), <<said>>, "new", 0, 0)
  <2>1. /\ o.sock = OnDisconnected(sock) /\ o.said = <<said>> /\ o.result = "new"
        /\ o.took = 0 /\ o.gave = 0
    BY OutcomeFields
  <2>2. o.sock \in SocketType /\ o.sock.input = 0 /\ o.sock.open = sock.open
    BY <1>1, <2>1, BothShut
  <2>3. Gone(o, NoJob)
    <3> HIDE DEF o
    <3> QED BY <1>3, <2>1 DEF Gone, Failing
  <2>4. Fits(sock, o)
    <3> HIDE DEF o
    <3> QED BY <1>1, <1>2, <1>3, <2>1, <2>2 DEF Fits, NetFits
  <2>5. Runs(o, NoJob)
    <3>1. Run(o, NoJob) BY <1>3
    <3> HIDE DEF o
    <3> QED BY <1>3, <2>3, <2>4, <3>1, JobsTyped DEF Runs
  <2> QED BY <2>5
<1>4. CASE ServiceConnecting
  <2>1. CASE Failing BY <1>2, <1>3, <1>4, <2>1 DEF ServiceConnecting
  <2>2. CASE ~Failing
    <3> DEFINE o == Outcome(OnConnected(sock), <<"Connected">>, "new", 0, 0)
    <3>1. /\ o.sock = OnConnected(sock) /\ o.said = <<"Connected">> /\ o.result = "new"
          /\ o.took = 0 /\ o.gave = 0
      BY OutcomeFields
    <3>2. o.sock \in SocketType /\ o.sock.input = sock.input /\ o.sock.open = sock.open
      BY <1>1, <3>1, ConnectedFields
    <3>3. /\ Run(o, NewJob(o.sock)) /\ service = "idle" /\ job.kind = "connecting"
      BY <1>4, <2>2, <3>1 DEF ServiceConnecting
    <3> HIDE DEF o
    <3>4. Connects(o, NewJob(o.sock)) BY <1>2, <3>1, <3>3 DEF Connects
    <3>5. Fits(sock, o) BY <1>1, <1>2, <3>1, <3>2 DEF Fits, NetFits
    <3>6. NewJob(o.sock) \in JobType BY <3>2, JobsTyped DEF NewJob
    <3> QED BY <3>3, <3>4, <3>5, <3>6 DEF Runs
  <2> QED BY <2>1, <2>2
<1>5. CASE ServiceError BY <1>2, <1>3, <1>5 DEF ServiceError
<1>6. CASE ServiceConnected
  <2>1. PICK o \in Served(Readable, Writable) :
          Run(o, CASE o.result = "break" -> NoJob
                   [] o.result = "new" -> NewJob(o.sock)
                   [] OTHER -> job)
    BY <1>6 DEF ServiceConnected
  <2> DEFINE next == CASE o.result = "break" -> NoJob
                       [] o.result = "new" -> NewJob(o.sock)
                       [] OTHER -> job
  <2>2. Fits(sock, o) BY <1>1, ServedFits
  <2>3. o.sock \in SocketType BY <2>2 DEF Fits
  <2>4. next \in JobType BY <1>1, <2>3, JobsTyped DEF NewJob
  <2>5. ASSUME Plain PROVE Serves(o, next)
    <3>1. PlainRun(sock, o) /\ (~Silent(o.said) => Readable) BY <1>1, <2>5, ServedRuns
    <3>2. next \in {job, NewJob(o.sock)}
      <4>1. o.result \in {"retry", "new"} BY <3>1 DEF PlainRun
      <4> QED BY <4>1
    <3> HIDE DEF next
    <3> QED BY <1>6, <3>1, <3>2 DEF Serves, ServiceConnected
  <2>6. Run(o, next) /\ service = "idle" /\ job.kind = "connected"
    BY <1>6, <2>1 DEF ServiceConnected
  <2> HIDE DEF next
  <2> QED BY <2>2, <2>4, <2>5, <2>6 DEF Runs
<1>7. CASE ServiceHandshake
  <2>1. ASSUME NEW s \in SocketType, s.input = sock.input, s.open = sock.open,
               NEW said \in Seq(EventNames), NEW result \in Results, NEW next \in JobType,
               Run(Outcome(s, said, result, 0, 0), next)
        PROVE  \E o, n : Runs(o, n)
    <3> DEFINE o == Outcome(s, said, result, 0, 0)
    <3>1. /\ o.sock = s /\ o.said = said /\ o.result = result /\ o.took = 0 /\ o.gave = 0
      BY OutcomeFields
    <3>2. Run(o, next) /\ service = "idle" /\ job.kind = "handshake"
      BY <1>7, <2>1 DEF ServiceHandshake
    <3> HIDE DEF o
    <3>3. Fits(sock, o) BY <1>1, <2>1, <3>1 DEF Fits, NetFits
    <3> QED BY <3>2, <3>3 DEF Runs
  <2> DEFINE clear == [sock EXCEPT !.readable = FALSE, !.writable = FALSE]
             failed == IF end.role = "server" THEN <<"DisconnectedOnAccept">> ELSE <<>>
             done == [OnConnected(sock) EXCEPT !.ready = TRUE]
             retry(r, w) == [clear EXCEPT !.readable = r, !.writable = w]
  <2>2. clear \in SocketType /\ clear.input = sock.input /\ clear.open = sock.open
    BY <1>1 DEF SocketType
  <2>3. done \in SocketType /\ done.input = sock.input /\ done.open = sock.open
    <3>1. OnConnected(sock) \in SocketType BY <1>1, ConnectedFields
    <3>2. OnConnected(sock).input = sock.input /\ OnConnected(sock).open = sock.open
      BY <1>1, ConnectedFields
    <3> QED BY <3>1, <3>2 DEF SocketType
  <2>4. <<"Disconnected", "InputShutdown">> \o failed \in Seq(EventNames)
    BY SaidTyped DEF EventNames
  <2>5. \A f \in BOOLEAN : /\ [clear EXCEPT !.fatal = f] \in SocketType
                           /\ [clear EXCEPT !.fatal = f].input = sock.input
                           /\ [clear EXCEPT !.fatal = f].open = sock.open
    <3> HIDE DEF clear
    <3> QED BY <2>2 DEF SocketType
  <2>6. \A r, w \in BOOLEAN : /\ retry(r, w) \in SocketType
                              /\ retry(r, w).input = sock.input
                              /\ retry(r, w).open = sock.open
    <3> HIDE DEF clear
    <3> QED BY <2>2 DEF SocketType
  <2>7. NoJob \in JobType /\ NewJob(done) \in JobType
    <3> HIDE DEF done
    <3> QED BY <2>3, JobsTyped DEF NewJob
  <2>8. \A s \in SocketType : JobOf("handshake", s) \in JobType
    BY JobsTyped DEF JobKinds
  <2>9. \/ \E f \in {FALSE, TRUE} :
              Run(Outcome([clear EXCEPT !.fatal = f],
                          <<"Disconnected", "InputShutdown">> \o failed, "break", 0, 0), NoJob)
        \/ Run(Outcome(done, IF end.role = "server" THEN <<"Accepted">> ELSE <<"SecureConnected">>,
                       "new", 0, 0), NewJob(done))
        \/ \E s \in {retry(TRUE, FALSE), retry(FALSE, TRUE)} :
              Run(Outcome(s, <<>>, "new", 0, 0), JobOf("handshake", s))
    BY <1>7 DEF ServiceHandshake
  <2> HIDE DEF clear, failed, done, retry
  <2>10. (IF end.role = "server" THEN <<"Accepted">> ELSE <<"SecureConnected">>) \in Seq(EventNames)
    BY <1>2
  <2>11. CASE \E f \in {FALSE, TRUE} :
              Run(Outcome([clear EXCEPT !.fatal = f],
                          <<"Disconnected", "InputShutdown">> \o failed, "break", 0, 0), NoJob)
    BY <1>2, <2>1, <2>4, <2>5, <2>7, <2>11
  <2>12. CASE Run(Outcome(done, IF end.role = "server" THEN <<"Accepted">> ELSE <<"SecureConnected">>,
                       "new", 0, 0), NewJob(done))
    BY <1>2, <2>1, <2>3, <2>7, <2>10, <2>12
  <2>13. CASE \E s \in {retry(TRUE, FALSE), retry(FALSE, TRUE)} :
              Run(Outcome(s, <<>>, "new", 0, 0), JobOf("handshake", s))
    BY <1>2, <2>1, <2>6, <2>8, <2>13
  <2> QED BY <2>9, <2>11, <2>12, <2>13
<1> QED BY <1>4, <1>5, <1>6, <1>7 DEF ServiceNext

-----------------------------------------------------------------------------
(***************************************************************************)
(* What the owner of the filter does with the packets that are whole.      *)
(***************************************************************************)
LEMMA DataHandled ==
  ASSUME Sized(filter), greeted \in BOOLEAN, consumed \in Nat,
         NEW waiting \in Seq(EventNames), HandleData(waiting)
  PROVE  /\ \E n \in Nat : /\ consumed' = consumed + n
                           /\ Held(filter') = Held(filter) - n * (Payload + 1)
         /\ Sized(filter') /\ filter'.shut = filter.shut
         /\ greeted' \in BOOLEAN
         /\ greeted' \/ ~IsReady(filter)
         /\ ~greeted' => consumed' = consumed /\ filter' = filter /\ ~greeted
         /\ greeted => greeted'
         /\ events' \in Seq(EventNames)
         /\ Ahead(waiting) => Ahead(events')
         /\ \A e : In(waiting, e) => In(events', e)
         /\ In(events', "InputShutdown") => In(waiting, "InputShutdown") \/ filter.shut
         /\ IsReady(filter') =>
              \/ In(events', "Pending")
              \/ ~greeted /\ end.role # "client" /\ consumed' = consumed + 1
<1>0. PICK n : n = IF greeted THEN Packets(filter) ELSE Min2(1, Packets(filter))
  OBVIOUS
<1> DEFINE left == Rest(filter, n)
           shut == IF n > 0 /\ filter.shut /\ left.size = 0 THEN <<"InputShutdown">> ELSE <<>>
           pending == IF ~greeted /\ end.role = "client" /\ IsReady(left) THEN <<"Pending">> ELSE <<>>
<1>1. /\ consumed' = consumed + n /\ filter' = left
      /\ greeted' = (greeted \/ n > 0) /\ events' = waiting \o shut \o pending
  BY <1>0 DEF HandleData
<1>2. /\ Packets(filter) \in Nat /\ (IsReady(filter) <=> Packets(filter) > 0)
      /\ Packets(filter) * (Payload + 1) <= Held(filter)
      /\ Held(filter) < Packets(filter) * (Payload + 1) + Payload + 1
  BY WholePackets
<1>3. /\ n \in Nat /\ n <= Packets(filter) /\ (n = 0 => Packets(filter) = 0)
      /\ n # Packets(filter) => ~greeted /\ n = 1 /\ Packets(filter) > 1
  <2>1. CASE greeted BY <1>0, <1>2, <2>1
  <2>2. CASE ~greeted
    <3>1. n = IF 1 < Packets(filter) THEN 1 ELSE Packets(filter) BY <1>0, <2>2 DEF Min2
    <3> QED BY <1>2, <2>2, <3>1
  <2> QED BY <2>1, <2>2
<1>4. Sized(left) /\ left.shut = filter.shut /\ Held(left) = Held(filter) - n * (Payload + 1)
  BY <1>3, RestOf
<1>5. shut \in Seq(EventNames) /\ pending \in Seq(EventNames)
  BY SaidTyped DEF EventNames
<1>6. Held(filter) \in Nat /\ Payload + 1 \in Nat /\ Payload + 1 > 0
  BY SizeIsPositive DEF Sized, FilterType, Held
<1>7. /\ ~In(pending, "InputShutdown")
      /\ In(shut, "InputShutdown") => filter.shut
      /\ ~greeted /\ end.role = "client" /\ IsReady(left) => In(pending, "Pending")
  <2> HIDE DEF left
  <2>1. "Pending" # "InputShutdown" OBVIOUS
  <2> QED BY <2>1, InSome
<1>8. IsReady(left) => ~greeted /\ n = 1
  <2>1. SUFFICES ASSUME IsReady(left) PROVE ~greeted /\ n = 1
    OBVIOUS
  <2>2. /\ Packets(left) \in Nat /\ Packets(left) > 0
        /\ Packets(left) * (Payload + 1) <= Held(left)
    <3> HIDE DEF left
    <3> QED BY <1>4, <2>1, WholePackets
  <2>3. Held(left) >= Payload + 1
    <3> HIDE DEF left
    <3>1. Held(left) \in Nat BY <1>4, SizeIsPositive DEF Sized, FilterType, Held
    <3>2. \A q \in Nat : q > 0 => q * (Payload + 1) >= Payload + 1 BY <1>6
    <3> QED BY <1>6, <2>2, <3>1, <3>2
  <2>4. n # Packets(filter)
    <3> SUFFICES ASSUME n = Packets(filter) PROVE FALSE OBVIOUS
    <3> HIDE DEF left
    <3>1. Packets(filter) * (Payload + 1) \in Nat BY <1>2, <1>6
    <3> QED BY <1>2, <1>4, <1>6, <2>3, <3>1, SizeIsPositive
  <2> QED BY <1>3, <2>4
<1>9. n = 0 => left = filter BY DEF Rest
<1> HIDE DEF left, shut, pending
<1>10. waiting \o shut \in Seq(EventNames) /\ events' \in Seq(EventNames)
  BY <1>1, <1>5, SaidTyped
<1>11. \A e : In(events', e) <=> In(waiting, e) \/ In(shut, e) \/ In(pending, e)
  <2> TAKE e
  <2>1. In(events', e) <=> In(waiting \o shut, e) \/ In(pending, e) BY <1>1, <1>5, <1>10, InBoth
  <2>2. In(waiting \o shut, e) <=> In(waiting, e) \/ In(shut, e) BY <1>5, InBoth
  <2> QED BY <2>1, <2>2
<1>12. Ahead(waiting) => Ahead(events') BY <1>1, <1>5, <1>10, AheadThen
<1>13. /\ greeted' \in BOOLEAN /\ (greeted' \/ ~IsReady(filter)) /\ (greeted => greeted')
       /\ ~greeted' => consumed' = consumed /\ filter' = filter /\ ~greeted
  <2>1. CASE n > 0
    <3>1. greeted' = TRUE BY <1>1, <2>1
    <3> QED BY <3>1
  <2>2. CASE n = 0
    <3>1. greeted' = greeted /\ filter' = filter /\ consumed' = consumed /\ ~IsReady(filter)
      <4>1. ~(n > 0) BY <2>2
      <4> QED BY <1>1, <1>2, <1>3, <1>9, <2>2, <4>1
    <3> QED BY <3>1
  <2> QED BY <1>3, <2>1, <2>2
<1>14. IsReady(filter') =>
         \/ In(events', "Pending")
         \/ ~greeted /\ end.role # "client" /\ consumed' = consumed + 1
  BY <1>1, <1>7, <1>8, <1>11
<1>15. In(events', "InputShutdown") => In(waiting, "InputShutdown") \/ filter.shut
  BY <1>7, <1>11
<1> QED BY <1>1, <1>3, <1>4, <1>10, <1>11, <1>12, <1>13, <1>14, <1>15

-----------------------------------------------------------------------------
(***************************************************************************)
(* Types.                                                                  *)
(***************************************************************************)
LEMMA InstallTyped ==
  ASSUME Typed, Install, UNCHANGED filterVars
  PROVE  Typed'
BY JobsTyped DEF Typed, Install, filterVars, own

LEMMA RunTyped ==
  ASSUME Typed, NEW o, NEW next, Runs(o, next), UNCHANGED filterVars
  PROVE  /\ Typed'
         /\ net' = [net EXCEPT !.arrived = @ - o.took, !.room = @ - o.gave]
         /\ net'.arrived = net.arrived - o.took /\ net'.sent = net.sent
         /\ net'.peer = net.peer
<1>1. /\ Run(o, next) /\ Fits(sock, o) /\ next \in JobType BY DEF Runs
<1>2. events \o o.said \in Seq(EventNames) BY <1>1, SaidTyped DEF Typed, Fits
<1>3. net.arrived - o.took \in Nat /\ net.room - o.gave \in 0..MaxRoom
  BY <1>1, BoundsAreNumbers DEF Typed, NetType, Fits
<1>4. net' = [net EXCEPT !.arrived = @ - o.took, !.room = @ - o.gave] BY <1>1 DEF Run
<1>5. net' \in NetType /\ net'.arrived = net.arrived - o.took /\ net'.sent = net.sent
      /\ net'.peer = net.peer
  BY <1>3, <1>4 DEF Typed, NetType
<1>6. Typed' BY <1>1, <1>2, <1>5 DEF Typed, Run, Fits, filterVars, own
<1> QED BY <1>4, <1>5, <1>6

LEMMA NetTyped ==
  ASSUME Typed, Bytes, NetNext, UNCHANGED filterVars
  PROVE  Typed'
<1>1. ASSUME NEW n \in NetType, Network(n) PROVE Typed'
  BY <1>1 DEF Typed, Network, filterVars, own, serviced
<1>2. net \in NetType BY DEF Typed
<1>3. \A p \in Peers : [net EXCEPT !.peer = p] \in NetType BY <1>2 DEF NetType
<1>4. CASE Answers BY <1>1, <1>3, <1>4 DEF Answers, Peers
<1>5. CASE Sends
  <2>1. net.sent + 1 \in 0..MaxSent /\ net.arrived + 1 \in Nat
    BY <1>2, <1>5, BoundsAreNumbers DEF Sends, NetType
  <2>2. [net EXCEPT !.sent = @ + 1, !.arrived = @ + 1] \in NetType BY <1>2, <2>1 DEF NetType
  <2> QED BY <1>1, <1>5, <2>2 DEF Sends
<1>6. CASE Reads
  <2>1. [net EXCEPT !.room = MaxRoom] \in NetType BY <1>2, BoundsAreNumbers DEF NetType
  <2> QED BY <1>1, <1>6, <2>1 DEF Reads
<1>7. CASE Closes BY <1>1, <1>3, <1>7 DEF Closes, Peers
<1>8. CASE Breaks BY <1>1, <1>3, <1>8 DEF Breaks, Peers
<1> QED BY <1>4, <1>5, <1>6, <1>7, <1>8 DEF NetNext

(* write() adds to the output.                                             *)
Adding == [sock EXCEPT !.output = @ + 1, !.flushed = FALSE]

LEMMA AddingFields ==
  ASSUME Typed, sock.output < MaxOutput
  PROVE  /\ Adding \in SocketType /\ Adding.output = sock.output + 1
         /\ Adding.open = sock.open /\ Adding.connected = sock.connected
         /\ Adding.readable = sock.readable /\ Adding.writable = sock.writable
         /\ Adding.input = sock.input
<1>1. sock.output + 1 \in 0..MaxOutput BY BoundsAreNumbers DEF Typed, SocketType
<1> QED BY <1>1 DEF Typed, SocketType, Adding

LEMMA ThreadTyped ==
  ASSUME Typed, Bytes, ThreadNext, UNCHANGED filterVars
  PROVE  Typed'
<1> USE DEF Typed, filterVars, own, serviced
<1>1. CASE TestJob
  <2>1. [NoJob EXCEPT !.kind = JobKind(sock)] \in JobType BY JobsTyped
  <2> QED BY <1>1, <2>1 DEF TestJob, Pcs
<1>2. CASE ReadFields
  <2>1. JobOf(made.kind, sock) \in JobType BY JobsTyped DEF JobType
  <2> QED BY <1>2, <2>1 DEF ReadFields, Pcs
<1>3. CASE SetJob BY <1>3, JobsTyped DEF SetJob, Pcs
<1>4. CASE Connect
  <2>1. /\ [sock EXCEPT !.writable = TRUE] \in SocketType
        /\ OnConnected(sock) \in SocketType
    BY ConnectedFields DEF SocketType
  <2>2. Append(events, "Connected") \in Seq(EventNames) BY AppendTo DEF EventNames
  <2>3. [net EXCEPT !.peer = "open"] \in NetType BY DEF NetType, Peers
  <2>4. pc' \in Pcs /\ sock' \in SocketType /\ events' \in Seq(EventNames) /\ net' \in NetType
    BY <1>4, <2>1, <2>2, <2>3 DEF Connect, Pcs
  <2> QED BY <1>4, <2>4 DEF Connect
<1>5. CASE Accept
  <2>1. [NoJob EXCEPT !.kind = "handshake"] \in JobType BY JobsTyped DEF JobKinds
  <2>2. Append(events, "Accepted") \in Seq(EventNames) BY AppendTo DEF EventNames
  <2> QED BY <1>5, <2>1, <2>2 DEF Accept, Pcs
<1>6. CASE Write
  <2>1. Append(events, "OutputError") \in Seq(EventNames) BY AppendTo DEF EventNames
  <2>2. Adding \in SocketType BY <1>6, AddingFields DEF Write
  <2> QED BY <1>6, <2>1, <2>2 DEF Write, Pcs, Adding
<1>7. CASE Flush BY <1>7 DEF Flush, Pcs
<1>8. CASE Flushed BY <1>8 DEF Flushed, Pcs
<1>9. CASE RemoveJob
  <2>1. sock' \in SocketType
    <3>1. (sock.fatal \/ end.secure) \in BOOLEAN BY DEF SocketType
    <3>2. sock' = [sock EXCEPT !.fatal = sock.fatal \/ end.secure] BY <1>9 DEF RemoveJob
    <3> QED BY <3>1, <3>2 DEF SocketType
  <2> QED BY <1>9, <2>1, JobsTyped DEF RemoveJob, Pcs
<1>10. CASE CloseSocket
  <2>1. OnDisconnected(sock) \in SocketType BY BothShut
  <2>2. [OnDisconnected(sock) EXCEPT !.open = FALSE] \in SocketType BY <2>1 DEF SocketType
  <2> QED BY <1>10, <2>2, SaidTyped DEF CloseSocket, Pcs
<1> QED BY <1>1, <1>2, <1>3, <1>4, <1>5, <1>6, <1>7, <1>8, <1>9, <1>10 DEF ThreadNext

(* The filter has its type with a size in it or nothing, until its owner   *)
(* leaves.                                                                 *)
LEMMA FilterSized ==
  ASSUME Typed, Bytes, pc \notin Leaving
  PROVE  Sized(filter)
BY DEF Typed, Bytes, Sized

LEMMA TakenTyped ==
  ASSUME Typed, events # <<>>
  PROVE  Tail(events) \in Seq(EventNames) /\ Head(events) \in EventNames
BY TailOf DEF Typed

LEMMA AtShutdownTyped ==
  ASSUME Typed
  PROVE  AtInputShutdown \in FilterType
BY DEF Typed, AtInputShutdown, FilterType

(* readMore() moves some input to the filter.                              *)
Moved(n) == IfDrained([sock EXCEPT !.input = @ - n], <<>>)
Grown(n) == [filter EXCEPT !.buffer = @ + n]

LEMMA MovedFields ==
  ASSUME Typed, NEW n \in 1..sock.input
  PROVE  /\ Moved(n).sock \in SocketType /\ Moved(n).said \in Seq(EventNames)
         /\ Moved(n).sock.input = sock.input - n /\ Moved(n).sock.open = sock.open
         /\ Silent(Moved(n).said) /\ Follows(sock, Moved(n).sock)
         /\ Grown(n) \in FilterType /\ Grown(n).buffer = filter.buffer + n
         /\ Grown(n).size = filter.size /\ Grown(n).shut = filter.shut
         /\ Grown(n).was = filter.was
         /\ n \in Nat
<1> DEFINE s == [sock EXCEPT !.input = @ - n]
<1>1. /\ n \in Nat /\ sock.input - n \in 0..MaxSent /\ filter.buffer + n \in Nat
      /\ sock.output \in Nat
  BY BoundsAreNumbers DEF Typed, SocketType, FilterType
<1>2. /\ s \in SocketType /\ s.input = sock.input - n /\ s.open = sock.open
      /\ s.output = sock.output /\ s.readable = sock.readable
      /\ s.writable = sock.writable /\ s.connected = sock.connected
  BY <1>1 DEF Typed, SocketType
<1>3. Moved(n) = IfDrained(s, <<>>) BY DEF Moved
<1>4. /\ Grown(n) \in FilterType /\ Grown(n).buffer = filter.buffer + n
      /\ Grown(n).size = filter.size /\ Grown(n).shut = filter.shut /\ Grown(n).was = filter.was
  BY <1>1 DEF Typed, FilterType, Grown
<1> HIDE DEF s
<1>5. Follows(sock, s) BY <1>1, <1>2 DEF Follows
<1>6. Follows(sock, Moved(n).sock)
  BY <1>2, <1>3, <1>5, DrainedFollows DEF Typed
<1>7. <<>> \in Seq(EventNames) /\ Silent(<<>>) BY SaidTyped, SilentSaid
<1>8. /\ Moved(n).sock \in SocketType /\ Moved(n).said \in Seq(EventNames)
      /\ Moved(n).sock.input = sock.input - n /\ Moved(n).sock.open = sock.open
  BY <1>2, <1>3, <1>7, DrainedTyped
<1>9. Silent(Moved(n).said) BY <1>3, <1>7, DrainedSilent
<1> QED BY <1>1, <1>4, <1>6, <1>8, <1>9

LEMMA HandleTyped ==
  ASSUME Typed, Bytes, HandleNext
  PROVE  Typed'
<1> USE DEF Typed, filterVars, own, serviced
<1>1. CASE HandleReady
  <2>1. filter' \in FilterType
    BY <1>1 DEF HandleReady, FilterType, IsReady
  <2> QED BY <1>1, <2>1, TakenTyped DEF HandleReady, Taken, Pop, Pcs
<1>2. CASE HandleConnected
  <2>1. [NoJob EXCEPT !.kind = "handshake"] \in JobType BY JobsTyped DEF JobKinds
  <2> QED BY <1>2, <2>1, TakenTyped DEF HandleConnected, Taken, Pop, Pcs
<1>3. CASE HandleUp BY <1>3, TakenTyped DEF HandleUp, Taken, Pop
<1>4. CASE HandleEnd
  <2>1. Append(Tail(events), "FormatError") \in Seq(EventNames)
    BY <1>4, TakenTyped, AppendTo DEF HandleEnd, Taken, EventNames
  <2> QED BY <1>4, <2>1, TakenTyped, AtShutdownTyped DEF HandleEnd, Taken, Pcs
<1>5. CASE HandleNothing
  BY <1>5, TakenTyped, AtShutdownTyped DEF HandleNothing, Taken, Pop
<1>6. CASE ReadMore
  <2>1. PICK n \in 1..sock.input :
          /\ sock' = Moved(n).sock /\ events' = events \o Moved(n).said
          /\ filter' = ReadPacketSize(Grown(n))
    BY <1>6 DEF ReadMore, Moved, Grown
  <2>2. filter' \in FilterType
    <3>1. Grown(n) \in FilterType BY MovedFields
    <3> QED BY <2>1, <3>1, SizeRead DEF Sized
  <2>3. sock' \in SocketType /\ events' \in Seq(EventNames)
    BY <2>1, MovedFields, SaidTyped
  <2> QED BY <1>6, <2>2, <2>3 DEF ReadMore
<1>7. CASE ReadPackets
  <2>1. CASE HandleData(events)
    <3>1. Sized(filter) BY <1>7, FilterSized DEF ReadPackets, Leaving
    <3>2. /\ consumed' \in Nat /\ filter' \in FilterType /\ greeted' \in BOOLEAN
          /\ events' \in Seq(EventNames)
      BY <2>1, <3>1, DataHandled DEF Sized
    <3> QED BY <1>7, <3>2 DEF ReadPackets, Pcs
  <2>2. CASE UNCHANGED <<consumed, filter, greeted, events>>
    BY <1>7, <2>2 DEF ReadPackets, Pcs
  <2> QED BY <1>7, <2>1, <2>2 DEF ReadPackets
<1>8. CASE HandlePending
  <2>1. Sized(filter) BY <1>8, FilterSized DEF HandlePending, Taken, Leaving
  <2>2. Tail(events) \in Seq(EventNames) BY <1>8, TakenTyped DEF HandlePending, Taken
  <2>3. /\ consumed' \in Nat /\ filter' \in FilterType /\ greeted' \in BOOLEAN
        /\ events' \in Seq(EventNames)
    <3>1. HandleData(Tail(events)) BY <1>8 DEF HandlePending
    <3>2. greeted \in BOOLEAN /\ consumed \in Nat OBVIOUS
    <3>3. /\ \E n \in Nat : consumed' = consumed + n
          /\ Sized(filter') /\ greeted' \in BOOLEAN /\ events' \in Seq(EventNames)
      BY <2>1, <2>2, <3>1, <3>2, DataHandled
    <3> QED BY <3>2, <3>3 DEF Sized
  <2> QED BY <1>8, <2>3 DEF HandlePending
<1>9. CASE Timeout BY <1>9 DEF Timeout, Pcs
<1> QED BY <1>1, <1>2, <1>3, <1>4, <1>5, <1>6, <1>7, <1>8, <1>9 DEF HandleNext

LEMMA StepTyped ==
  ASSUME Typed, Bytes, [Next]_vars
  PROVE  Typed'
<1>1. CASE HandleNext BY <1>1, HandleTyped
<1>2. CASE ServiceNext /\ UNCHANGED filterVars
  BY <1>2, ServiceRuns, InstallTyped, RunTyped
<1>3. CASE ThreadNext /\ UNCHANGED filterVars BY <1>3, ThreadTyped
<1>4. CASE NetNext /\ UNCHANGED filterVars BY <1>4, NetTyped
<1>5. CASE UNCHANGED vars
  BY <1>5 DEF Typed, vars, socketVars, filterVars, own, serviced
<1> QED BY <1>1, <1>2, <1>3, <1>4, <1>5 DEF Next

-----------------------------------------------------------------------------
(***************************************************************************)
(* The bytes are accounted for.                                            *)
(***************************************************************************)
(* A step that loses bytes only when the connection broke or its owner     *)
(* leaves.                                                                 *)
LEMMA BytesKept ==
  ASSUME Typed, Bytes, end' = end, net'.sent = net.sent,
         net'.peer \in {"dialled", "refused"} => net.peer \in {"dialled", "refused"},
         net.peer = "reset" => net'.peer = "reset",
         Known' \in Nat, Known' <= Known,
         pc' \notin Leaving => pc \notin Leaving /\ (filter'.size = 0 => filter'.buffer = 0),
         (Plain /\ net'.peer # "reset" /\ pc' \notin Leaving) => Known' = Known,
         (~up' /\ pc' # "closed") => ~up /\ pc # "closed",
         ~greeted' => ~greeted /\ consumed' = consumed
  PROVE  Bytes'
<1>1. net.sent \in Nat /\ Known \in Nat BY Numbers
<1>2. Known' <= net'.sent BY <1>1 DEF Bytes
<1> QED BY <1>1, <1>2 DEF Bytes, Plain

LEMMA RunBytes ==
  ASSUME Typed, Bytes, Stages, NEW o, NEW next, Runs(o, next), UNCHANGED filterVars
  PROVE  Bytes'
<1>1. /\ sock' = o.sock /\ end' = end /\ pc' = pc /\ up' = up /\ filter' = filter
      /\ greeted' = greeted /\ consumed' = consumed
  BY DEF Runs, Run, filterVars, own
<1>2. /\ net'.arrived = net.arrived - o.took /\ net'.sent = net.sent /\ net'.peer = net.peer
      /\ Typed'
  BY RunTyped
<1>3. /\ sock.input \in Nat /\ net.arrived \in Nat /\ Held(filter) \in Nat
      /\ consumed * (Payload + 1) \in Nat /\ Known \in Nat
      /\ sock'.input \in Nat /\ net'.arrived \in Nat
  BY <1>2, Numbers DEF NetFits, Typed, SocketType, NetType
<1>4. /\ o.took \in Nat /\ sock'.input <= sock.input + o.took BY <1>1 DEF Runs, Fits
<1>5. Known' = consumed * (Payload + 1) + Held(filter) + sock'.input + net'.arrived
  BY <1>1 DEF Known, Held
<1>6. Known' \in Nat /\ Known' <= Known BY <1>2, <1>3, <1>4, <1>5 DEF Known
<1>7. ASSUME Plain, net'.peer # "reset" PROVE Known' = Known
  <2>1. Gone(o, next) \/ Connects(o, next) \/ Serves(o, next) BY <1>7 DEF Runs, Stages, Connecting
  <2>2. CASE Gone(o, next)
    <3>1. net.sent = 0 BY <1>2, <1>7, <2>2 DEF Gone, Bytes
    <3>2. Known = 0 BY <1>3, <3>1 DEF Bytes
    <3> QED BY <1>3, <1>6, <3>2
  <2>3. CASE Connects(o, next)
    <3>1. sock'.input = sock.input /\ o.took = 0
      BY <1>1, <2>3, ConnectedFields DEF Connects, Typed
    <3> QED BY <1>2, <1>3, <1>5, <3>1 DEF Known
  <2>4. CASE Serves(o, next)
    <3>1. sock'.input = sock.input + o.took BY <1>1, <1>2, <1>7, <2>4 DEF Serves, PlainRun
    <3> QED BY <1>2, <1>3, <1>4, <1>5, <3>1 DEF Known
  <2> QED BY <2>1, <2>2, <2>3, <2>4
<1>8. pc \notin Leaving => (filter.size = 0 => filter.buffer = 0) BY DEF Bytes
<1> QED BY <1>1, <1>2, <1>6, <1>7, <1>8, BytesKept

(* Steps that leave the bytes where they are.                              *)
LEMMA BytesUnmoved ==
  ASSUME Typed, Bytes, end' = end, net'.sent = net.sent, net'.arrived = net.arrived,
         net'.peer \in {"dialled", "refused"} => net.peer \in {"dialled", "refused"},
         net.peer = "reset" => net'.peer = "reset",
         sock'.input = sock.input, consumed' = consumed, greeted' = greeted,
         filter'.size = filter.size, filter'.buffer = filter.buffer,
         pc' \notin Leaving => pc \notin Leaving,
         (~up' /\ pc' # "closed") => ~up /\ pc # "closed"
  PROVE  Bytes'
<1>1. Known' = Known BY DEF Known, Held
<1>2. Known \in Nat BY Numbers
<1>3. pc \notin Leaving => (filter'.size = 0 => filter'.buffer = 0) BY DEF Bytes
<1> QED BY <1>1, <1>2, <1>3, BytesKept

LEMMA NetBytes ==
  ASSUME Typed, Bytes, NetNext, UNCHANGED filterVars
  PROVE  Bytes'
<1>1. UNCHANGED <<end, sock, pc, up, filter, greeted, consumed>>
  BY DEF NetNext, Answers, Sends, Reads, Closes, Breaks, Network, filterVars, own
<1>2. net \in NetType BY DEF Typed
<1>3. ASSUME NEW p \in {"open", "closed", "refused", "reset"},
             net' = [net EXCEPT !.peer = p], net.peer # "reset" \/ p = "reset",
             p = "refused" => net.peer = "dialled"
      PROVE  Bytes'
  <2>1. net'.peer = p /\ net'.sent = net.sent /\ net'.arrived = net.arrived
    BY <1>2, <1>3 DEF NetType
  <2> QED BY <1>1, <1>3, <2>1, BytesUnmoved
<1>4. CASE Answers BY <1>3, <1>4 DEF Answers, Network
<1>5. CASE Sends
  <2>1. /\ net'.sent = net.sent + 1 /\ net'.arrived = net.arrived + 1 /\ net'.peer = net.peer
        /\ net.peer = "open" /\ up
    BY <1>2, <1>5 DEF Sends, Network, NetType
  <2>2. /\ net.sent \in Nat /\ net.arrived \in Nat /\ Known \in Nat /\ sock.input \in Nat
        /\ Held(filter) \in Nat /\ consumed * (Payload + 1) \in Nat
    BY Numbers DEF NetFits
  <2>3. Known' = Known + 1 BY <1>1, <2>1, <2>2 DEF Known, Held
  <2>4. Known' <= net'.sent BY <2>1, <2>2, <2>3 DEF Bytes
  <2>5. (Plain /\ net.peer # "reset" /\ pc \notin Leaving) => Known' = net'.sent
    BY <2>1, <2>2, <2>3 DEF Bytes
  <2> QED BY <1>1, <2>1, <2>4, <2>5 DEF Bytes, Plain
<1>6. CASE Reads
  <2>1. net' = [net EXCEPT !.room = MaxRoom] BY <1>6 DEF Reads, Network
  <2>2. net'.peer = net.peer /\ net'.sent = net.sent /\ net'.arrived = net.arrived
    BY <1>2, <2>1 DEF NetType
  <2> QED BY <1>1, <2>2, BytesUnmoved
<1>7. CASE Closes BY <1>3, <1>7 DEF Closes, Network
<1>8. CASE Breaks BY <1>3, <1>8 DEF Breaks, Network
<1> QED BY <1>4, <1>5, <1>6, <1>7, <1>8 DEF NetNext

LEMMA ThreadBytes ==
  ASSUME Typed, Bytes, Stages, ThreadNext, UNCHANGED filterVars
  PROVE  Bytes'
<1>1. end' = end /\ UNCHANGED filterVars /\ UNCHANGED <<filter, greeted, consumed>>
  BY DEF ThreadNext, TestJob, ReadFields, SetJob, Connect, Accept, Write, Flush, Flushed,
         RemoveJob, CloseSocket, filterVars
<1>2. CASE CloseSocket
  <2>1. /\ sock' = [OnDisconnected(sock) EXCEPT !.open = FALSE] /\ net' = net
        /\ pc' = "closed"
    BY <1>2 DEF CloseSocket
  <2>2. sock'.input = 0 BY <2>1, BothShut DEF Typed, SocketType
  <2>3. Known' = consumed * (Payload + 1) + Held(filter) + 0 + net.arrived
    BY <1>1, <2>1, <2>2 DEF Known, Held
  <2>4. Known' \in Nat /\ Known' <= Known BY <2>3, Numbers DEF NetFits, Known
  <2> QED BY <1>1, <2>1, <2>4, BytesKept DEF Leaving
<1>3. ASSUME net' = net, sock'.input = sock.input, up' = up, pc' \in Leaving \/ pc \notin Leaving,
             pc # "closed"
      PROVE  Bytes'
  BY <1>1, <1>3, BytesUnmoved
<1>4. CASE TestJob BY <1>3, <1>4 DEF TestJob, Leaving
<1>5. CASE ReadFields BY <1>3, <1>5 DEF ReadFields, Leaving
<1>6. CASE SetJob BY <1>3, <1>6 DEF SetJob, Leaving
<1>7. CASE Connect
  <2>1. pc = "start" /\ up' = up BY <1>7 DEF Connect
  <2>2. sock'.input = sock.input
    <3>1. [sock EXCEPT !.writable = TRUE].input = sock.input BY DEF Typed, SocketType
    <3>2. OnConnected(sock).input = sock.input BY ConnectedFields DEF Typed
    <3> QED BY <1>7, <3>1, <3>2 DEF Connect
  <2>3. CASE net' = net BY <1>3, <2>1, <2>2, <2>3 DEF Leaving
  <2>4. CASE net' = [net EXCEPT !.peer = "open"] /\ net.peer # "reset"
    <3>1. net'.peer = "open" /\ net'.sent = net.sent /\ net'.arrived = net.arrived
      BY <2>4 DEF Typed, NetType
    <3>2. pc \notin Leaving /\ pc # "closed" BY <2>1 DEF Leaving
    <3> QED BY <1>1, <2>1, <2>2, <2>4, <3>1, <3>2, BytesUnmoved
  <2>5. net.peer = "dialled" BY <2>1 DEF Stages, Phases
  <2> QED BY <1>7, <2>3, <2>4, <2>5 DEF Connect
<1>8. CASE Accept BY <1>3, <1>8 DEF Accept, Leaving
<1>9. CASE Write
  <2>1. sock'.input = sock.input BY <1>9, AddingFields DEF Write, Adding
  <2> QED BY <1>3, <1>9, <2>1 DEF Write, Leaving
<1>10. CASE Flush BY <1>3, <1>10 DEF Flush, Leaving
<1>11. CASE Flushed BY <1>3, <1>11 DEF Flushed, Leaving
<1>12. CASE RemoveJob
  <2>1. sock'.input = sock.input BY <1>12 DEF RemoveJob, Typed, SocketType
  <2> QED BY <1>3, <1>12, <2>1 DEF RemoveJob, Leaving
<1> QED BY <1>2, <1>4, <1>5, <1>6, <1>7, <1>8, <1>9, <1>10, <1>11, <1>12 DEF ThreadNext


(* What the end of the input leaves of the filter.                         *)
LEMMA AtShutdownFields ==
  ASSUME Typed, pc = "idle"
  PROVE  /\ HoldsBack => /\ AtInputShutdown.size = filter.size
                         /\ AtInputShutdown.buffer = filter.buffer
                         /\ AtInputShutdown.shut
         /\ Held(AtInputShutdown) <= Held(filter) /\ Held(AtInputShutdown) \in Nat
         /\ ~(up /\ Head(events) = "InputShutdown") => AtInputShutdown = filter
         /\ AtInputShutdown.was = filter.was
         /\ AtInputShutdown.shut => filter.shut \/ (up /\ Head(events) = "InputShutdown")
<1>1. filter.buffer \in Nat /\ filter.size \in {0, Payload} BY DEF Typed, FilterType
<1>2. CASE up /\ Head(events) = "InputShutdown"
  <2> DEFINE g == [filter EXCEPT !.shut = TRUE, !.size = IF IsReady(filter) THEN @ ELSE 0]
  <2>1. /\ g.buffer = filter.buffer /\ g.shut /\ g.was = filter.was
        /\ g.size = IF IsReady(filter) THEN filter.size ELSE 0
    BY DEF Typed, FilterType
  <2>2. AtInputShutdown = g BY <1>2 DEF AtInputShutdown
  <2> HIDE DEF g
  <2>3. Held(g) <= Held(filter) /\ Held(g) \in Nat
    <3>1. CASE IsReady(filter) BY <1>1, <2>1, <3>1 DEF Held
    <3>2. CASE ~IsReady(filter) BY <1>1, <2>1, <3>2 DEF Held
    <3> QED BY <3>1, <3>2
  <2>4. HoldsBack => IsReady(filter) BY DEF HoldsBack
  <2> QED BY <1>2, <2>1, <2>2, <2>3, <2>4
<1>3. CASE ~(up /\ Head(events) = "InputShutdown")
  <2>1. AtInputShutdown = filter BY <1>3 DEF AtInputShutdown
  <2>2. ~HoldsBack BY <1>3 DEF HoldsBack
  <2> QED BY <1>1, <1>3, <2>1, <2>2 DEF Held
<1> QED BY <1>2, <1>3

(* An event that nobody handles is not the end of the input, unless it is  *)
(* held back.                                                              *)
LEMMA NothingHandled ==
  ASSUME Typed, HandleNothing
  PROVE  /\ HoldsBack \/ ~(up /\ Head(events) = "InputShutdown")
         /\ Head(events) # "Pending"
         /\ Head(events) = "InputReady" => ~up
BY DEF HandleNothing, HoldsBack, EndsIt

LEMMA DataBytes ==
  ASSUME Typed, Bytes, pc \in {"idle", "read"}, pc' \notin Leaving,
         UNCHANGED <<end, net, up>>, sock'.input = sock.input,
         NEW waiting \in Seq(EventNames), HandleData(waiting)
  PROVE  Bytes'
<1>1. Sized(filter) BY FilterSized DEF Leaving
<1>2. greeted \in BOOLEAN /\ consumed \in Nat BY DEF Typed
<1>3. /\ \E n \in Nat : /\ consumed' = consumed + n
                        /\ Held(filter') = Held(filter) - n * (Payload + 1)
      /\ Sized(filter') /\ (~greeted' => consumed' = consumed /\ ~greeted)
  BY <1>1, <1>2, DataHandled
<1>4. PICK n \in Nat : /\ consumed' = consumed + n
                       /\ Held(filter') = Held(filter) - n * (Payload + 1)
  BY <1>3
<1>5. /\ Held(filter) \in Nat /\ Known \in Nat /\ sock.input \in Nat /\ net.arrived \in Nat
      /\ consumed * (Payload + 1) \in Nat
  BY Numbers DEF NetFits
<1>6. consumed' * (Payload + 1) = consumed * (Payload + 1) + n * (Payload + 1)
  BY <1>2, <1>4, SizeIsPositive
<1>7. n * (Payload + 1) \in Nat BY SizeIsPositive
<1>8. Known' = consumed' * (Payload + 1) + Held(filter') + sock.input + net.arrived
  BY DEF Known, Held
<1>9. Known' = Known BY <1>4, <1>5, <1>6, <1>7, <1>8 DEF Known
<1>10. filter'.size = 0 => filter'.buffer = 0 BY <1>3 DEF Sized
<1>11. pc \notin Leaving /\ pc # "closed" BY DEF Leaving
<1> QED BY <1>3, <1>5, <1>9, <1>10, <1>11, BytesKept

LEMMA HandleBytes ==
  ASSUME Typed, Bytes, Stages, HandleNext
  PROVE  Bytes'
<1>1. CASE HandleReady
  <2>1. filter'.size = filter.size /\ filter'.buffer = filter.buffer
    BY <1>1 DEF HandleReady, Typed, FilterType
  <2> QED BY <1>1, <2>1, BytesUnmoved DEF HandleReady, Taken, Leaving
<1>2. CASE HandleConnected
  BY <1>2, BytesUnmoved DEF HandleConnected, Taken, Leaving, filterVars
<1>3. CASE HandleUp BY <1>3, BytesUnmoved DEF HandleUp, Taken, Leaving, filterVars
<1>4. CASE HandleEnd
  <2>1. /\ pc = "idle" /\ filter' = AtInputShutdown /\ pc' = "remove"
        /\ UNCHANGED <<end, sock, net, up, consumed, greeted>>
    BY <1>4 DEF HandleEnd, Taken
  <2>2. /\ Held(AtInputShutdown) <= Held(filter) /\ Held(AtInputShutdown) \in Nat
    BY <2>1, AtShutdownFields
  <2>3. Known' = consumed * (Payload + 1) + Held(AtInputShutdown) + sock.input + net.arrived
    BY <2>1 DEF Known, Held
  <2>4. Known' \in Nat /\ Known' <= Known
    BY <2>2, <2>3, Numbers DEF Known, NetFits
  <2> QED BY <2>1, <2>4, BytesKept DEF Leaving
<1>5. CASE HandleNothing
  <2>1. /\ pc = "idle" /\ filter' = AtInputShutdown
        /\ UNCHANGED <<end, sock, net, up, consumed, greeted, pc>>
    BY <1>5 DEF HandleNothing, Taken
  <2>2. filter'.size = filter.size /\ filter'.buffer = filter.buffer
    BY <1>5, <2>1, AtShutdownFields, NothingHandled
  <2> QED BY <2>1, <2>2, BytesUnmoved DEF Leaving
<1>6. CASE ReadMore
  <2>1. PICK n \in 1..sock.input :
          /\ sock' = Moved(n).sock /\ events' = events \o Moved(n).said
          /\ filter' = ReadPacketSize(Grown(n))
    BY <1>6 DEF ReadMore, Moved, Grown
  <2>2. pc = "read" /\ UNCHANGED <<end, net, up, consumed, greeted, pc>>
    BY <1>6 DEF ReadMore
  <2>3. /\ sock'.input = sock.input - n /\ n \in Nat
        /\ Grown(n) \in FilterType /\ Grown(n).buffer = filter.buffer + n
        /\ Grown(n).size = filter.size
    BY <2>1, MovedFields
  <2>4. Sized(filter') /\ Held(filter') = Held(Grown(n)) BY <2>1, <2>3, SizeRead
  <2>5. Held(Grown(n)) = Held(filter) + n
    BY <2>3 DEF Held, Typed, FilterType
  <2>6. Known' = consumed * (Payload + 1) + Held(filter') + sock'.input + net.arrived
    BY <2>2 DEF Known, Held
  <2>7. Known' = Known /\ Known \in Nat
    BY <2>3, <2>4, <2>5, <2>6, Numbers DEF Known, NetFits
  <2>8. filter'.size = 0 => filter'.buffer = 0 BY <2>4 DEF Sized
  <2> QED BY <2>2, <2>7, <2>8, BytesKept DEF Leaving
<1>7. CASE ReadPackets
  <2>1. /\ pc = "read" /\ pc' = "idle" /\ UNCHANGED <<end, sock, net, up>>
    BY <1>7 DEF ReadPackets
  <2>2. CASE HandleData(events)
    <3>1. events \in Seq(EventNames) BY DEF Typed
    <3> QED BY <2>1, <2>2, <3>1, DataBytes DEF Leaving
  <2>3. CASE UNCHANGED <<consumed, filter, greeted, events>>
    BY <2>1, <2>3, BytesUnmoved DEF Leaving
  <2> QED BY <1>7, <2>2, <2>3 DEF ReadPackets
<1>8. CASE HandlePending
  <2>1. /\ pc = "idle" /\ pc' = pc /\ UNCHANGED <<end, sock, net, up>>
        /\ HandleData(Tail(events)) /\ events # <<>>
    BY <1>8 DEF HandlePending, Taken, own
  <2>2. Tail(events) \in Seq(EventNames) BY <2>1, TakenTyped
  <2> QED BY <2>1, <2>2, DataBytes DEF Leaving
<1>9. CASE Timeout BY <1>9, BytesUnmoved DEF Timeout, Leaving, filterVars
<1> QED BY <1>1, <1>2, <1>3, <1>4, <1>5, <1>6, <1>7, <1>8, <1>9 DEF HandleNext

LEMMA StepBytes ==
  ASSUME Typed, Bytes, Stages, [Next]_vars
  PROVE  Bytes'
<1>1. CASE HandleNext BY <1>1, HandleBytes
<1>2. CASE ServiceNext /\ UNCHANGED filterVars
  <2>1. CASE Install
    BY <1>2, <2>1, BytesUnmoved DEF Install, filterVars, own
  <2> QED BY <1>2, <2>1, ServiceRuns, RunBytes
<1>3. CASE ThreadNext /\ UNCHANGED filterVars BY <1>3, ThreadBytes
<1>4. CASE NetNext /\ UNCHANGED filterVars BY <1>4, NetBytes
<1>5. CASE UNCHANGED vars
  BY <1>5, BytesUnmoved DEF vars, socketVars, filterVars, own
<1> QED BY <1>1, <1>2, <1>3, <1>4, <1>5 DEF Next

-----------------------------------------------------------------------------
(***************************************************************************)
(* The stages of a connection.                                             *)
(***************************************************************************)
LEMMA RunStages ==
  ASSUME Typed, Bytes, Stages, NEW o, NEW next, Runs(o, next), UNCHANGED filterVars
  PROVE  Stages'
<1>1. /\ sock' = o.sock /\ end' = end /\ pc' = pc /\ up' = up /\ filter' = filter
      /\ job' = job /\ service' = "owes" /\ returned' = next /\ made' = made
      /\ service = "idle" /\ job.kind # "none" /\ o.sock.open = sock.open
  BY DEF Runs, Run, filterVars, own, Fits
<1>2. job # NoJob /\ pc \notin {"start", "close", "closed"}
  BY <1>1, JobsTyped DEF Stages, Phases
<1>3. Phases' BY <1>1, <1>2 DEF Stages, Phases
<1>4. ASSUME Plain PROVE Connecting'
  <2>1. Connecting /\ sock \in SocketType BY <1>4 DEF Stages, Typed
  <2>2. Gone(o, next) \/ Connects(o, next) \/ Serves(o, next)
    BY <1>4, <2>1 DEF Runs, Connecting
  <2>3. made.kind # "connecting" /\ made.kind # "handshake" /\ job.kind # "handshake"
    BY <1>2, <2>1 DEF Connecting
  <2>4. SUFFICES /\ o.sock.readable => o.sock.connected
                 /\ o.sock.writable => o.sock.connected
                 /\ next.kind \in {"none", "connected"}
    BY <1>1, <2>3 DEF Connecting, Dialling
  <2>5. CASE Gone(o, next) BY <2>1, <2>5, BothShut, JobsTyped DEF Gone
  <2>6. CASE Connects(o, next)
    <3>1. o.sock \in SocketType /\ o.sock.connected /\ next = NewJob(o.sock)
      BY <2>1, <2>6, ConnectedFields DEF Connects
    <3> QED BY <1>4, <3>1, PlainJob
  <2>7. CASE Serves(o, next)
    <3>1. /\ Follows(sock, o.sock) /\ o.sock \in SocketType /\ job.kind = "connected"
          /\ next \in {job, NewJob(o.sock)}
      BY <2>7 DEF Serves, PlainRun, Fits
    <3>2. (sock.readable => sock.connected) /\ (sock.writable => sock.connected)
      BY <2>1, <3>1 DEF Connecting, Dialling
    <3>3. (o.sock.readable => o.sock.connected) /\ (o.sock.writable => o.sock.connected)
      BY <3>1, <3>2 DEF Follows
    <3> QED BY <1>4, <3>1, <3>3, PlainJob
  <2> QED BY <2>2, <2>5, <2>6, <2>7
<1> QED BY <1>1, <1>3, <1>4 DEF Stages, Plain

LEMMA ThreadStages ==
  ASSUME Typed, Stages, ThreadNext, UNCHANGED filterVars
  PROVE  Stages'
<1>0. /\ end' = end /\ filter' = filter /\ sock \in SocketType /\ job \in JobType
      /\ made \in JobType
  BY DEF ThreadNext, TestJob, ReadFields, SetJob, Connect, Accept, Write, Flush, Flushed,
         RemoveJob, CloseSocket, filterVars, Typed
<1> USE DEF serviced
<1>1. CASE TestJob
  <2>1. /\ pc = "test" /\ pc' \in {"add", "fields"} /\ made'.kind = JobKind(sock)
        /\ UNCHANGED <<end, sock, job, serviced, events, up, net, filter>>
        /\ JobKind(sock) # "none" => pc' = "fields"
    BY <1>0, <1>1, JobsTyped DEF TestJob
  <2>2. Phases' BY <2>1 DEF Stages, Phases
  <2>3. ASSUME Plain PROVE Connecting'
    <3>1. /\ JobKind(sock) \in {"none", "connecting", "connected"}
          /\ JobKind(sock) = "connecting" => ~sock.connected /\ (sock.readable \/ sock.writable)
          /\ JobKind(sock) = "connected" => sock.connected
      BY <1>0, <2>3, PlainJob DEF JobKind
    <3> QED BY <2>1, <2>3, <3>1 DEF Stages, Connecting, Dialling, Making
  <2> QED BY <2>1, <2>2, <2>3 DEF Stages, Plain
<1>2. CASE ReadFields
  <2>1. /\ pc = "fields" /\ pc' = "add" /\ made'.kind = made.kind
        /\ UNCHANGED <<end, sock, job, serviced, events, up, net, filter>>
    BY <1>0, <1>2, JobsTyped DEF ReadFields, JobType
  <2> QED BY <2>1 DEF Stages, Phases, Plain, Connecting, Dialling, Making
<1>3. CASE SetJob
  <2>1. /\ pc = "add" /\ pc' = "idle" /\ made'.kind = "none" /\ job' = made
        /\ service = "idle"
        /\ UNCHANGED <<end, sock, serviced, events, up, net, filter>>
    BY <1>0, <1>3, JobsTyped DEF SetJob
  <2> QED BY <2>1 DEF Stages, Phases, Plain, Connecting, Dialling, Making
<1>4. CASE Connect
  <2>1. /\ pc = "start" /\ Phases /\ UNCHANGED <<end, job, serviced, made, up, filter>>
        /\ made.kind = "none"
    BY <1>0, <1>4, JobsTyped DEF Connect, Stages, Phases
  <2>2. CASE /\ sock' = [sock EXCEPT !.writable = TRUE] /\ pc' = "test"
             /\ UNCHANGED <<events, net>>
    <3>1. /\ sock'.open = sock.open /\ sock'.readable = sock.readable
          /\ sock'.connected = sock.connected /\ sock'.output = sock.output
      BY <1>0, <2>2 DEF SocketType
    <3>2. Phases' BY <2>1, <2>2, <3>1 DEF Phases
    <3>3. ASSUME Plain PROVE Connecting'
      BY <2>1, <2>2, <3>1, <3>3, JobsTyped DEF Stages, Phases, Connecting, Dialling, Making
    <3> QED BY <2>1, <3>2, <3>3 DEF Stages, Plain
  <2>3. CASE sock' = OnConnected(sock) /\ pc' = "test"
    <3>1. sock'.open = sock.open /\ sock'.connected BY <1>0, <2>3, ConnectedFields
    <3>2. Phases' BY <2>1, <2>3, <3>1 DEF Phases
    <3>3. ASSUME Plain PROVE Connecting'
      BY <2>1, <2>3, <3>1, <3>3, JobsTyped DEF Stages, Phases, Connecting, Dialling, Making
    <3> QED BY <2>1, <3>2, <3>3 DEF Stages, Plain
  <2>4. CASE pc' = "remove" /\ UNCHANGED <<sock, events, net>>
    <3>1. Phases' BY <2>1, <2>4 DEF Phases
    <3>2. ASSUME Plain PROVE Connecting'
      BY <2>1, <2>4, <3>2, JobsTyped DEF Stages, Phases, Connecting, Dialling, Making
    <3> QED BY <2>1, <3>1, <3>2 DEF Stages, Plain
  <2> QED BY <1>4, <2>2, <2>3, <2>4 DEF Connect
<1>5. CASE Accept
  <2>1. /\ pc = "accept" /\ UNCHANGED <<end, sock, job, serviced, up, net, filter>>
        /\ pc' \in {"fields", "idle"} /\ (Plain => made' = made /\ pc' = "idle")
    BY <1>0, <1>5 DEF Accept, Plain
  <2>2. Phases' BY <2>1 DEF Stages, Phases
  <2>3. ASSUME Plain PROVE Connecting'
    BY <2>1, <2>3 DEF Stages, Connecting, Dialling, Making
  <2> QED BY <2>1, <2>2, <2>3 DEF Stages, Plain
<1>6. CASE Write
  <2>1. /\ pc = "idle" /\ up /\ pc' \in {"idle", "test"}
        /\ UNCHANGED <<end, job, serviced, made, up, net, filter>>
        /\ sock'.open = sock.open /\ sock'.connected = sock.connected
        /\ sock'.readable = sock.readable /\ sock'.writable = sock.writable
    BY <1>0, <1>6, AddingFields DEF Write, Adding
  <2>2. Phases' BY <2>1 DEF Stages, Phases
  <2>3. ASSUME Plain PROVE Connecting'
    BY <2>1, <2>3 DEF Stages, Connecting, Dialling, Making
  <2> QED BY <2>1, <2>2, <2>3 DEF Stages, Plain
<1>7. CASE Flush \/ Flushed
  <2>1. /\ pc \in {"idle", "flush"} /\ pc' \in {"idle", "flush"}
        /\ UNCHANGED <<end, sock, job, serviced, events, made, up, net, filter>>
    BY <1>0, <1>7 DEF Flush, Flushed
  <2> QED BY <2>1 DEF Stages, Phases, Plain, Connecting, Dialling, Making
<1>8. CASE RemoveJob
  <2>1. /\ pc = "remove" /\ pc' = "close" /\ job' = NoJob /\ service = "idle"
        /\ UNCHANGED <<end, serviced, events, made, up, net, filter>>
        /\ sock'.open = sock.open /\ sock'.connected = sock.connected
        /\ sock'.readable = sock.readable /\ sock'.writable = sock.writable
        /\ sock'.output = sock.output
    BY <1>0, <1>8 DEF RemoveJob, SocketType
  <2>2. Phases' BY <2>1 DEF Stages, Phases
  <2>3. ASSUME Plain PROVE Connecting'
    BY <2>1, <2>3, JobsTyped DEF Stages, Connecting, Dialling, Making
  <2> QED BY <2>1, <2>2, <2>3 DEF Stages, Plain
<1>9. CASE CloseSocket
  <2>1. /\ pc = "close" /\ pc' = "closed" /\ ~up' /\ events' = <<>>
        /\ UNCHANGED <<end, job, serviced, made, net, filter>>
    BY <1>0, <1>9 DEF CloseSocket
  <2>2. ~sock'.open /\ ~sock'.connected /\ ~sock'.readable /\ ~sock'.writable
    <3>1. sock' = [OnDisconnected(sock) EXCEPT !.open = FALSE] BY <1>9 DEF CloseSocket
    <3> QED BY <1>0, <3>1, BothShut DEF SocketType
  <2>3. Phases' BY <2>1, <2>2 DEF Stages, Phases
  <2>4. ASSUME Plain PROVE Connecting'
    BY <2>1, <2>2, <2>4, JobsTyped DEF Stages, Phases, Connecting, Dialling, Making
  <2> QED BY <2>1, <2>3, <2>4 DEF Stages, Plain
<1> QED BY <1>1, <1>2, <1>3, <1>4, <1>5, <1>6, <1>7, <1>8, <1>9 DEF ThreadNext

LEMMA HandleStages ==
  ASSUME Typed, Stages, HandleNext
  PROVE  Stages'
<1> USE DEF serviced, own, filterVars
<1>1. CASE Timeout
  BY <1>1 DEF Timeout, Stages, Phases, Plain, Connecting, Dialling, Making
<1>2. CASE HandleReady \/ HandleConnected \/ HandleUp \/ HandleEnd \/ HandleNothing
           \/ HandlePending
  <2>1. /\ pc = "idle" /\ events # <<>> /\ UNCHANGED <<end, sock, job, serviced, net>>
        /\ pc' \notin {"start", "close", "closed"} /\ (pc' = "read" => up')
        /\ Plain => made' = made
    BY <1>2 DEF HandleReady, HandleConnected, HandleUp, HandleEnd, HandleNothing,
                HandlePending, Taken, Plain
  <2>2. Phases' BY <2>1 DEF Stages, Phases
  <2>3. ASSUME Plain PROVE Connecting'
    BY <2>1, <2>3 DEF Stages, Connecting, Dialling, Making
  <2> QED BY <2>1, <2>2, <2>3 DEF Stages, Plain
<1>3. CASE ReadPackets
  <2>1. /\ pc = "read" /\ pc' = "idle" /\ UNCHANGED <<end, sock, job, serviced, made, up, net>>
    BY <1>3 DEF ReadPackets
  <2>2. Phases' BY <2>1 DEF Stages, Phases
  <2>3. ASSUME Plain PROVE Connecting'
    BY <2>1, <2>3 DEF Stages, Phases, Connecting, Dialling, Making
  <2> QED BY <2>1, <2>2, <2>3 DEF Stages, Plain
<1>4. CASE ReadMore
  <2>1. /\ pc = "read" /\ UNCHANGED <<end, job, serviced, made, up, net, pc>>
    BY <1>4 DEF ReadMore
  <2>2. PICK n \in 1..sock.input : sock' = Moved(n).sock
    BY <1>4 DEF ReadMore, Moved
  <2>3. Follows(sock, sock') /\ sock'.open = sock.open BY <2>2, MovedFields
  <2>4. Phases' BY <2>1, <2>3 DEF Stages, Phases
  <2>5. ASSUME Plain PROVE Connecting'
    BY <2>1, <2>3, <2>5 DEF Stages, Phases, Connecting, Dialling, Making, Follows
  <2> QED BY <2>1, <2>4, <2>5 DEF Stages, Plain
<1> QED BY <1>1, <1>2, <1>3, <1>4 DEF HandleNext

LEMMA StepStages ==
  ASSUME Typed, Bytes, Stages, [Next]_vars
  PROVE  Stages'
<1>1. CASE HandleNext BY <1>1, HandleStages
<1>2. CASE ServiceNext /\ UNCHANGED filterVars
  <2>1. CASE Install
    <3>1. /\ service = "owes" /\ job' = returned /\ service' = "idle"
          /\ returned'.kind = "none"
          /\ UNCHANGED <<end, sock, events, pc, made, up, net, filter>>
      BY <1>2, <2>1, JobsTyped DEF Install, own, filterVars
    <3> QED BY <3>1 DEF Stages, Phases, Plain, Connecting, Dialling
  <2> QED BY <1>2, <2>1, ServiceRuns, RunStages
<1>3. CASE ThreadNext /\ UNCHANGED filterVars BY <1>3, ThreadStages
<1>4. CASE NetNext /\ UNCHANGED filterVars
  <2>1. /\ UNCHANGED <<end, sock, job, service, returned, events, pc, made, up, filter>>
        /\ net.peer = "dialled" => net'.peer = "dialled" \/ sock.writable
    BY <1>4 DEF NetNext, Answers, Sends, Reads, Closes, Breaks, Network, filterVars,
                serviced, own
  <2> QED BY <2>1 DEF Stages, Phases, Plain, Connecting, Dialling
<1>5. CASE UNCHANGED vars
  BY <1>5 DEF vars, socketVars, serviced, own, filterVars, Stages, Phases, Plain, Connecting,
              Dialling
<1> QED BY <1>1, <1>2, <1>3, <1>4, <1>5 DEF Next

-----------------------------------------------------------------------------
(***************************************************************************)
(* The output is watched for.                                              *)
(***************************************************************************)
(* Steps that leave the job, whoever holds it, and open nothing.           *)
LEMMA WatchKept ==
  ASSUME Typed, Watched, UNCHANGED <<end, job, service, returned>>,
         Plain => Follows(sock, sock'), sock' \in SocketType,
         Plain => made' = made,
         pc \notin Making \cup {"close", "closed"}, pc' \notin {"fields", "add"}
  PROVE  Watched'
<1>1. sock.output \in Nat /\ sock'.output \in Nat BY DEF Typed, SocketType
<1> QED BY <1>1 DEF Watched, Unwritten, Plain, Follows, Making

LEMMA RunWatched ==
  ASSUME Typed, Bytes, Stages, Watched, NEW o, NEW next, Runs(o, next), UNCHANGED filterVars
  PROVE  Watched'
<1>1. /\ sock' = o.sock /\ end' = end /\ pc' = pc /\ made' = made
      /\ service' = "owes" /\ returned' = next /\ service = "idle" /\ job.kind # "none"
      /\ o.sock.open = sock.open /\ o.sock \in SocketType /\ sock \in SocketType
  BY DEF Runs, Run, own, Fits, Typed
<1>2. sock.open /\ pc \notin {"close", "closed"}
  BY <1>1, JobsTyped DEF Stages, Phases
<1>3. SUFFICES ASSUME Plain, Unwritten' PROVE Watched'
  BY <1>1 DEF Watched, Plain
<1>4. ~Gone(o, next) BY <1>1, <1>3, BothShut DEF Gone, Unwritten
<1>5. ~Connects(o, next)
  <2>1. SUFFICES ASSUME Connects(o, next) PROVE FALSE OBVIOUS
  <2>2. sock.output = 0 BY <1>1, <1>3, <2>1 DEF Connects, Stages, Connecting
  <2> QED BY <1>1, <1>3, <2>1, <2>2, ConnectedFields DEF Connects, Unwritten
<1>6. Serves(o, next)
  BY <1>3, <1>4, <1>5 DEF Runs, Stages, Connecting
<1>7. Follows(sock, o.sock) /\ next \in {job, NewJob(o.sock)} BY <1>6 DEF Serves, PlainRun
<1>8. Unwritten /\ o.sock.writable = sock.writable
  <2>1. sock.output \in Nat /\ o.sock.output \in Nat BY <1>1 DEF SocketType
  <2> QED BY <1>1, <1>3, <1>7, <2>1 DEF Follows, Unwritten
<1>9. sock'.writable BY <1>1, <1>3, <1>8 DEF Watched
<1>10. NewJob(o.sock).write BY <1>1, <1>2, <1>3, <1>9, PlainJob DEF Unwritten
<1>11. pc \notin Making \cup {"close", "closed"} => returned'.write
  BY <1>1, <1>3, <1>7, <1>8, <1>10 DEF Watched
<1> QED BY <1>1, <1>3, <1>8, <1>9, <1>11 DEF Watched

LEMMA ThreadWatched ==
  ASSUME Typed, Stages, Watched, ThreadNext, UNCHANGED filterVars
  PROVE  Watched'
<1>0. /\ end' = end /\ sock \in SocketType /\ (sock.open <=> pc # "closed")
      /\ service' = service /\ returned' = returned /\ sock.output \in Nat
  BY DEF ThreadNext, TestJob, ReadFields, SetJob, Connect, Accept, Write, Flush, Flushed,
         RemoveJob, CloseSocket, Typed, SocketType, Stages, Phases, serviced
<1>1. CASE TestJob
  <2>1. /\ pc = "test" /\ made'.kind = JobKind(sock) /\ UNCHANGED <<sock, job>>
        /\ pc' \in {"add", "fields"} /\ (pc' = "add" => JobKind(sock) = "none")
    BY <1>0, <1>1, JobsTyped DEF TestJob
  <2> QED BY <1>0, <2>1, PlainJob DEF Watched, Unwritten, Plain, Making
<1>2. CASE ReadFields
  <2>1. /\ pc = "fields" /\ pc' = "add" /\ made' = JobOf(made.kind, sock)
        /\ UNCHANGED <<sock, job>>
    BY <1>2 DEF ReadFields
  <2>2. (Plain /\ Unwritten) => made'.write
    BY <1>0, <2>1, JobsTyped DEF Watched, Unwritten, JobKinds
  <2> QED BY <1>0, <2>1, <2>2 DEF Watched, Unwritten, Plain, Making
<1>3. CASE SetJob
  <2>1. pc = "add" /\ pc' = "idle" /\ job' = made /\ service = "idle" /\ sock' = sock
    BY <1>3 DEF SetJob
  <2> QED BY <1>0, <2>1 DEF Watched, Unwritten, Plain, Making
<1>4. CASE Connect
  <2>1. sock.output = 0 /\ ~sock.connected BY <1>4 DEF Connect, Stages, Phases
  <2>2. sock'.output = 0
    <3>1. [sock EXCEPT !.writable = TRUE].output = 0 BY <1>0, <2>1 DEF SocketType
    <3>2. OnConnected(sock).output = 0 BY <1>0, <2>1, ConnectedFields
    <3> QED BY <1>4, <2>1, <3>1, <3>2 DEF Connect
  <2> QED BY <2>2 DEF Watched, Unwritten
<1>5. CASE Accept
  <2>1. /\ UNCHANGED <<job, sock>> /\ pc = "accept"
        /\ Plain => made' = made /\ pc' = "idle"
    BY <1>5 DEF Accept, Plain
  <2> QED BY <1>0, <2>1 DEF Watched, Unwritten, Plain, Making
<1>6. CASE Write
  <2>1. pc = "idle" /\ UNCHANGED <<job, made>> BY <1>6 DEF Write
  <2>2. CASE sock' = sock /\ pc' = pc
    BY <1>0, <2>1, <2>2 DEF Watched, Unwritten, Plain, Making
  <2>3. CASE sock.writable /\ sock' = Adding /\ pc' = (IF sock.output = 0 THEN "test" ELSE pc)
    <3>1. /\ sock'.connected = sock.connected /\ sock'.writable
      BY <1>6, <2>3, AddingFields DEF Write
    <3>2. CASE sock.output = 0
      BY <1>0, <2>1, <2>3, <3>1, <3>2 DEF Watched, Unwritten, Plain, Making
    <3>3. CASE sock.output > 0
      BY <1>0, <2>1, <2>3, <3>1, <3>3 DEF Watched, Unwritten, Plain, Making
    <3> QED BY <1>0, <3>2, <3>3
  <2> QED BY <1>6, <2>2, <2>3 DEF Write, Adding
<1>7. CASE Flush \/ Flushed
  BY <1>0, <1>7 DEF Flush, Flushed, Watched, Unwritten, Plain, Making
<1>8. CASE RemoveJob
  <2>1. /\ pc = "remove" /\ pc' = "close" /\ made' = made
        /\ sock'.connected = sock.connected /\ sock'.writable = sock.writable
        /\ sock'.output = sock.output
    BY <1>0, <1>8 DEF RemoveJob, SocketType
  <2> QED BY <1>0, <2>1 DEF Watched, Unwritten, Plain, Making
<1>9. CASE CloseSocket
  <2>1. ~sock'.connected
    <3>1. sock' = [OnDisconnected(sock) EXCEPT !.open = FALSE] BY <1>9 DEF CloseSocket
    <3> QED BY <1>0, <3>1, BothShut DEF SocketType
  <2> QED BY <2>1 DEF Watched, Unwritten
<1> QED BY <1>1, <1>2, <1>3, <1>4, <1>5, <1>6, <1>7, <1>8, <1>9 DEF ThreadNext

LEMMA HandleWatched ==
  ASSUME Typed, Watched, HandleNext
  PROVE  Watched'
<1>1. sock \in SocketType /\ Follows(sock, sock) BY ShutFollows DEF Typed
<1>2. CASE HandleReady \/ HandleConnected \/ HandleUp \/ HandleEnd \/ HandleNothing
           \/ HandlePending \/ ReadPackets \/ Timeout
  <2>1. /\ pc \in {"idle", "read"} /\ UNCHANGED <<end, sock, job, service, returned>>
        /\ Plain => made' = made
        /\ Plain => pc' \in {"idle", "read", "remove"}
    BY <1>2 DEF HandleReady, HandleConnected, HandleUp, HandleEnd, HandleNothing,
                HandlePending, ReadPackets, Timeout, Taken, Plain, serviced, own
  <2>2. CASE Plain BY <1>1, <2>1, <2>2, WatchKept DEF Making
  <2>3. CASE ~Plain BY <2>1, <2>3 DEF Watched, Plain
  <2> QED BY <2>2, <2>3
<1>3. CASE ReadMore
  <2>1. /\ pc = "read" /\ UNCHANGED <<end, job, service, returned, made, pc>>
    BY <1>3 DEF ReadMore, serviced
  <2>2. PICK n \in 1..sock.input : sock' = Moved(n).sock
    BY <1>3 DEF ReadMore, Moved
  <2> QED BY <2>1, <2>2, MovedFields, WatchKept DEF Making
<1> QED BY <1>2, <1>3 DEF HandleNext

LEMMA StepWatched ==
  ASSUME Typed, Bytes, Stages, Watched, [Next]_vars
  PROVE  Watched'
<1>1. CASE HandleNext BY <1>1, HandleWatched
<1>2. CASE ServiceNext /\ UNCHANGED filterVars
  <2>1. CASE Install
    <3>1. /\ service = "owes" /\ job' = returned /\ service' = "idle"
          /\ UNCHANGED <<end, sock, pc, made>>
      BY <2>1 DEF Install, own
    <3> QED BY <3>1 DEF Watched, Unwritten, Plain
  <2> QED BY <1>2, <2>1, ServiceRuns, RunWatched
<1>3. CASE ThreadNext /\ UNCHANGED filterVars BY <1>3, ThreadWatched
<1>4. CASE NetNext /\ UNCHANGED filterVars
  <2>1. UNCHANGED <<end, sock, job, service, returned, pc, made>>
    BY <1>4 DEF NetNext, Answers, Sends, Reads, Closes, Breaks, Network, serviced, own
  <2> QED BY <2>1 DEF Watched, Unwritten, Plain
<1>5. CASE UNCHANGED vars
  BY <1>5 DEF vars, socketVars, serviced, own, Watched, Unwritten, Plain
<1> QED BY <1>1, <1>2, <1>3, <1>4, <1>5 DEF Next

-----------------------------------------------------------------------------
(***************************************************************************)
(* The input is announced, and its end comes last.                         *)
(***************************************************************************)
(* When the end of the input is at the head of the queue, the socket is    *)
(* empty.                                                                  *)
LEMMA EmptyAtShutdown ==
  ASSUME Typed, Announced, Plain, up, pc = "idle", events # <<>>,
         Head(events) = "InputShutdown"
  PROVE  sock.input = 0
<1>1. sock.input \in Nat /\ events \in Seq(EventNames) BY DEF Typed, SocketType
<1>2. SUFFICES ASSUME sock.input > 0 PROVE FALSE BY <1>1
<1>3. Ahead(events) BY <1>2 DEF Announced, Leaving
<1> QED BY <1>1, <1>3, AheadTaken

(* Before the connection is up nothing has come in.                        *)
LEMMA NothingYet ==
  ASSUME Typed, Bytes, ~up, pc # "closed"
  PROVE  sock.input = 0 /\ ~IsReady(filter)
<1>1. /\ net.sent = 0 /\ Known <= net.sent BY DEF Bytes
<1>2. sock.input = 0 /\ Held(filter) = 0 BY <1>1, Numbers DEF Known, NetFits
<1>3. ~IsReady(filter) BY <1>2, SizeIsPositive DEF Held, IsReady, Typed, FilterType
<1> QED BY <1>2, <1>3

LEMMA RunAnnounced ==
  ASSUME Typed, Bytes, Stages, Announced, Ended, NEW o, NEW next, Runs(o, next),
         UNCHANGED filterVars
  PROVE  Announced' /\ Ended'
<1>1. /\ sock' = o.sock /\ end' = end /\ pc' = pc /\ up' = up /\ filter' = filter
      /\ consumed' = consumed /\ events' = events \o o.said /\ service = "idle"
      /\ o.said \in Seq(EventNames) /\ events \in Seq(EventNames) /\ sock \in SocketType
      /\ o.took \in Nat /\ o.took <= net.arrived
  BY DEF Runs, Run, own, filterVars, Fits, Typed
<1>2. /\ net'.arrived = net.arrived - o.took /\ net'.peer = net.peer /\ Typed'
      /\ net.arrived \in Nat /\ net'.arrived \in Nat
      /\ sock.input \in Nat /\ sock'.input \in Nat
  <2>1. net'.arrived = net.arrived - o.took /\ net'.peer = net.peer /\ Typed'
    BY RunTyped
  <2>2. net.arrived \in Nat /\ sock.input \in Nat BY DEF Typed, NetType, SocketType
  <2>3. net'.arrived \in Nat /\ sock'.input \in Nat
    BY <2>1 DEF Typed, NetType, SocketType
  <2> QED BY <2>1, <2>2, <2>3
<1>3. \A e : In(events', e) <=> In(events, e) \/ In(o.said, e) BY <1>1, InBoth
<1>4. Ahead(events) => Ahead(events') BY <1>1, AheadThen
<1>5. CASE ~Plain BY <1>1, <1>5 DEF Announced, BehindGreeting, Ended, Plain
<1>6. CASE Plain
  <2>1. Gone(o, next) \/ Connects(o, next) \/ Serves(o, next)
    BY <1>6 DEF Runs, Stages, Connecting
  <2>2. SUFFICES /\ (up /\ pc \notin Leaving /\ pc # "read" /\ sock'.input > 0) => Ahead(events')
                 /\ (In(events', "InputShutdown") \/ filter.shut) => ~sock'.readable /\ Received'
                 /\ filter.shut => sock'.input = 0
    <3>1. Waits("Pending") => Waits("Pending")' BY <1>3 DEF Waits
    <3> QED BY <1>1, <1>6, <3>1 DEF Announced, BehindGreeting, Ended, Plain, Waits, IsReady
  <2>3. CASE Gone(o, next)
    <3>1. sock'.input = 0 /\ ~sock'.readable BY <1>1, <2>3, BothShut DEF Gone
    <3>2. In(events', "InputShutdown") => In(events, "InputShutdown")
      BY <1>3, <2>3 DEF Gone, Silent
    <3>3. o.took = 0 BY <2>3 DEF Gone
    <3>4. Received => Received' BY <1>2, <3>3 DEF Received
    <3> QED BY <1>6, <3>1, <3>2, <3>4 DEF Ended, Waits
  <2>4. CASE Connects(o, next)
    <3>1. ~up /\ events = <<>> /\ ~filter.shut
      BY <1>1, <1>6, <2>4 DEF Connects, Stages, Connecting
    <3>2. ~In(events', "InputShutdown")
      BY <1>3, <2>4, <3>1, InSome DEF Connects, Silent
    <3> QED BY <3>1, <3>2
  <2>5. CASE Serves(o, next)
    <3>1. /\ Follows(sock, o.sock)
          /\ o.took = 0 => o.sock.input \in {0, sock.input}
          /\ o.took > 0 => /\ sock.readable
                           /\ o.said = IF sock.input = 0 THEN <<"InputReady">> ELSE <<>>
          /\ ~Silent(o.said) => ~o.sock.readable /\ net.peer # "reset" /\ net.arrived = 0
                                /\ Readable
      BY <2>5 DEF Serves, PlainRun
    <3>2. ASSUME up, pc \notin Leaving, pc # "read", sock'.input > 0 PROVE Ahead(events')
      <4>1. sock.input > 0 => Ahead(events') BY <1>4, <1>6, <3>2 DEF Announced
      <4>2. CASE sock.input = 0
        <5>1. o.took > 0 BY <1>1, <3>1, <3>2, <4>2
        <5>2. o.said = <<"InputReady">> /\ sock.readable BY <3>1, <4>2, <5>1
        <5>3. ~In(events, "InputShutdown") BY <1>6, <5>2 DEF Ended, Waits
        <5>4. "InputReady" \in EventNames BY DEF EventNames
        <5>5. events' = Append(events, "InputReady") BY <1>1, <5>2, <5>4, OneMore
        <5> QED BY <1>1, <5>3, <5>4, <5>5, AheadAppended
      <4> QED BY <1>2, <4>1, <4>2
    <3>3. ASSUME In(events, "InputShutdown") \/ filter.shut
          PROVE  ~sock'.readable /\ Received' /\ o.took = 0
      <4>1. ~sock.readable /\ Received BY <1>6, <3>3 DEF Ended, Waits
      <4>2. o.took = 0 /\ ~sock'.readable BY <1>1, <3>1, <4>1 DEF Follows
      <4> QED BY <1>2, <4>1, <4>2 DEF Received
    <3>4. ASSUME In(o.said, "InputShutdown") PROVE ~sock'.readable /\ Received'
      <4>1. ~o.sock.readable /\ net.peer # "reset" /\ net.arrived = 0 /\ Readable
        BY <3>1, <3>4 DEF Silent
      <4>2. net.peer = "closed" BY <4>1 DEF Readable
      <4>3. net'.arrived = 0 BY <1>1, <1>2, <4>1
      <4> QED BY <1>1, <1>2, <4>1, <4>2, <4>3 DEF Received
    <3>5. filter.shut => sock'.input = 0
      BY <1>1, <1>6, <3>1, <3>3 DEF Ended
    <3> QED BY <1>3, <3>2, <3>3, <3>4, <3>5
  <2> QED BY <2>1, <2>3, <2>4, <2>5
<1> QED BY <1>5, <1>6

(* Steps that append an event which is not the end of the input, or none,  *)
(* and leave the input.                                                    *)
LEMMA MoreEvents ==
  ASSUME Typed, Announced, Ended, UNCHANGED <<end, net, filter, consumed>>, up' = up,
         sock'.input = sock.input, sock'.readable => sock.readable, pc # "read", pc' # "read",
         pc' \notin Leaving => pc \notin Leaving,
         NEW e \in EventNames, e # "InputShutdown",
         events' = events \/ events' = Append(events, e)
  PROVE  Announced' /\ Ended'
<1>1. /\ Ahead(events) => Ahead(events')
      /\ In(events, "Pending") => In(events', "Pending")
      /\ In(events', "InputShutdown") => In(events, "InputShutdown")
  <2>1. CASE events' = events BY <2>1
  <2>2. CASE events' = Append(events, e)
    <3>1. events \in Seq(EventNames) BY DEF Typed
    <3> QED BY <2>2, <3>1, AheadAppended
  <2> QED BY <2>1, <2>2
<1> QED BY <1>1 DEF Announced, BehindGreeting, Ended, Plain, Waits, Received, IsReady

LEMMA ThreadAnnounced ==
  ASSUME Typed, Stages, Announced, Ended, ThreadNext, UNCHANGED filterVars
  PROVE  Announced' /\ Ended'
<1>0. /\ UNCHANGED <<end, filter, consumed>> /\ sock \in SocketType /\ events \in Seq(EventNames)
      /\ {"Accepted", "OutputError", "Connected"} \subseteq EventNames
  BY DEF ThreadNext, TestJob, ReadFields, SetJob, Connect, Accept, Write, Flush, Flushed,
         RemoveJob, CloseSocket, Typed, filterVars, EventNames
<1>1. CASE TestJob \/ ReadFields \/ SetJob \/ Flush \/ Flushed
  <2>1. /\ UNCHANGED <<sock, events, net, up>> /\ pc # "read" /\ pc' # "read"
        /\ pc' \notin Leaving => pc \notin Leaving
    BY <1>1 DEF TestJob, ReadFields, SetJob, Flush, Flushed, Leaving
  <2> QED BY <1>0, <2>1, MoreEvents
<1>2. CASE Connect
  <2>1. ~up /\ up' = up /\ events = <<>> /\ ~filter.shut
    BY <1>2 DEF Connect, Stages, Phases
  <2>2. ~In(events', "InputShutdown")
    <3>1. \A e : In(Append(events, "Connected"), e) <=> In(events, e) \/ "Connected" = e
      BY <1>0, AheadAppended
    <3> QED BY <1>2, <2>1, <3>1, InSome DEF Connect
  <2> QED BY <1>0, <2>1, <2>2 DEF Announced, BehindGreeting, Ended, Waits
<1>3. CASE Accept
  <2>1. /\ UNCHANGED <<sock, net, up>> /\ pc # "read" /\ pc' # "read" /\ pc \notin Leaving
        /\ events' = events \/ events' = Append(events, "Accepted")
    BY <1>3 DEF Accept, Leaving
  <2> QED BY <1>0, <2>1, MoreEvents
<1>4. CASE Write
  <2>1. /\ UNCHANGED <<net, up>> /\ pc # "read" /\ pc' # "read" /\ pc \notin Leaving
        /\ events' = events \/ events' = Append(events, "OutputError")
    BY <1>4 DEF Write, Leaving
  <2>2. sock'.input = sock.input /\ sock'.readable = sock.readable
    BY <1>4, AddingFields DEF Write, Adding
  <2> QED BY <1>0, <2>1, <2>2, MoreEvents
<1>5. CASE RemoveJob
  <2>1. /\ UNCHANGED <<net, up, events>> /\ pc = "remove" /\ pc' = "close"
        /\ sock'.input = sock.input /\ sock'.readable = sock.readable
    BY <1>0, <1>5 DEF RemoveJob, SocketType
  <2> QED BY <1>0, <2>1, MoreEvents DEF Leaving
<1>6. CASE CloseSocket
  <2>1. /\ net' = net /\ pc' = "closed" /\ events' = <<>>
    BY <1>6 DEF CloseSocket
  <2>2. sock'.input = 0 /\ ~sock'.readable
    <3>1. sock' = [OnDisconnected(sock) EXCEPT !.open = FALSE] BY <1>6 DEF CloseSocket
    <3> QED BY <1>0, <3>1, BothShut DEF SocketType
  <2>3. ~In(events', "InputShutdown") BY <2>1, InSome
  <2> QED BY <1>0, <2>1, <2>2, <2>3 DEF Announced, BehindGreeting, Ended, Waits, Received, Plain, Leaving
<1> QED BY <1>1, <1>2, <1>3, <1>4, <1>5, <1>6 DEF ThreadNext


(* Whole packets are handled: at least one event for what is left.         *)
LEMMA DataAnnounced ==
  ASSUME Typed, Bytes, Announced, Ended, pc \in {"idle", "read"}, pc' = "idle",
         UNCHANGED <<end, sock, net, up>>,
         NEW waiting \in Seq(EventNames), HandleData(waiting),
         In(waiting, "InputShutdown") => Waits("InputShutdown"),
         (Plain /\ up /\ sock.input > 0) => Ahead(waiting)
  PROVE  Announced' /\ Ended'
<1>1. Sized(filter) /\ greeted \in BOOLEAN /\ consumed \in Nat
  BY FilterSized DEF Leaving, Typed
<1>2. /\ filter'.shut = filter.shut
      /\ Ahead(waiting) => Ahead(events')
      /\ In(events', "InputShutdown") => In(waiting, "InputShutdown") \/ filter.shut
      /\ IsReady(filter') =>
           \/ In(events', "Pending")
           \/ ~greeted /\ end.role # "client" /\ consumed' = consumed + 1
  BY <1>1, DataHandled
<1>3. IsReady(filter') => In(events', "Pending") \/ BehindGreeting'
  <2>1. SUFFICES ASSUME ~greeted, end.role # "client", consumed' = consumed + 1
                 PROVE  BehindGreeting'
    BY <1>2
  <2>2. consumed = 0 /\ end.role = "server" BY <2>1 DEF Bytes, Typed
  <2> QED BY <2>1, <2>2 DEF BehindGreeting
<1>4. Announced' BY <1>2, <1>3 DEF Announced, BehindGreeting, Plain, Waits, Leaving
<1>5. Ended' BY <1>2 DEF Ended, Plain, Waits, Received
<1> QED BY <1>4, <1>5

LEMMA HandleAnnounced ==
  ASSUME Typed, Bytes, Stages, Announced, Ended, HandleNext
  PROVE  Announced' /\ Ended'
<1>0. events \in Seq(EventNames) /\ sock.input \in Nat BY DEF Typed, SocketType
\* The first event is gone from the queue.
<1>1. ASSUME events # <<>>
      PROVE  /\ Tail(events) \in Seq(EventNames)
             /\ \A e : In(events, e) <=> Head(events) = e \/ In(Tail(events), e)
             /\ (Ahead(events) /\ Head(events) # "InputReady") =>
                  Head(events) # "InputShutdown" /\ Ahead(Tail(events))
  <2>1. Tail(events) \in Seq(EventNames) BY <1>1, TakenTyped
  <2>2. \A e : In(events, e) <=> Head(events) = e \/ In(Tail(events), e)
    BY <1>0, <1>1, InTail
  <2>3. (Ahead(events) /\ Head(events) # "InputReady") =>
           Head(events) # "InputShutdown" /\ Ahead(Tail(events))
    BY <1>0, <1>1, AheadTaken
  <2> QED BY <2>1, <2>2, <2>3
<1>2. CASE HandleReady
  <2>1. /\ pc = "idle" /\ events # <<>> /\ up /\ Head(events) = "InputReady"
        /\ events' = Tail(events) /\ pc' = "read"
        /\ filter' = [filter EXCEPT !.was = IsReady(filter)]
        /\ UNCHANGED <<end, sock, up, net, consumed>>
    BY <1>2 DEF HandleReady, Taken, Pop
  <2>2. filter'.was = IsReady(filter) /\ filter'.shut = filter.shut
    BY <2>1 DEF Typed, FilterType
  <2>3. In(events', "InputShutdown") => In(events, "InputShutdown") BY <1>1, <2>1
  <2>4. In(events, "Pending") => In(events', "Pending") BY <1>1, <2>1
  <2>5. Announced' BY <2>1, <2>2, <2>4 DEF Announced, BehindGreeting, Plain, Waits, Leaving
  <2>6. Ended' BY <2>1, <2>2, <2>3 DEF Ended, Plain, Waits, Received
  <2> QED BY <2>5, <2>6
<1>3. CASE HandleConnected \/ HandleUp
  <2>1. /\ pc = "idle" /\ events # <<>> /\ Head(events) \notin {"InputReady", "Pending"}
        /\ events' = Tail(events) /\ UNCHANGED <<end, sock, net, filter, consumed>>
        /\ Plain => pc' = "idle"
    BY <1>3 DEF HandleConnected, HandleUp, Taken, Pop, filterVars, Plain
  <2>2. In(events', "InputShutdown") => In(events, "InputShutdown") BY <1>1, <2>1
  <2>3. In(events, "Pending") => In(events', "Pending") BY <1>1, <2>1
  <2>4. Ahead(events) => Ahead(events') BY <1>1, <2>1
  <2>5. ~up => sock.input = 0 /\ ~IsReady(filter) BY <2>1, NothingYet
  <2>6. Announced'
    BY <2>1, <2>3, <2>4, <2>5 DEF Announced, BehindGreeting, Plain, Waits, Leaving, IsReady
  <2>7. Ended' BY <2>1, <2>2 DEF Ended, Plain, Waits, Received
  <2> QED BY <2>6, <2>7
<1>4. CASE HandleEnd
  <2>1. /\ pc = "idle" /\ events # <<>> /\ pc' = "remove" /\ filter' = AtInputShutdown
        /\ events' = Tail(events) \/ events' = Append(Tail(events), "FormatError")
        /\ UNCHANGED <<end, sock, net, up>>
    BY <1>4 DEF HandleEnd, Taken
  <2>2. In(events', "InputShutdown") => In(events, "InputShutdown")
    <3>1. "FormatError" \in EventNames /\ "FormatError" # "InputShutdown" BY DEF EventNames
    <3>2. Tail(events) \in Seq(EventNames) BY <1>1, <2>1
    <3>3. In(Append(Tail(events), "FormatError"), "InputShutdown") =>
             In(Tail(events), "InputShutdown")
      BY <3>1, <3>2, AheadAppended
    <3> QED BY <1>1, <2>1, <3>3
  <2>3. filter'.shut => filter.shut \/ (up /\ Head(events) = "InputShutdown")
    BY <2>1, AtShutdownFields
  <2>4. (Plain /\ up /\ Head(events) = "InputShutdown") =>
           sock.input = 0 /\ In(events, "InputShutdown")
    BY <1>1, <2>1, EmptyAtShutdown
  <2>5. Announced' BY <2>1 DEF Announced, Leaving
  <2>6. Ended' BY <2>1, <2>2, <2>3, <2>4 DEF Ended, Plain, Waits, Received
  <2> QED BY <2>5, <2>6
<1>5. CASE HandleNothing
  <2>1. /\ pc = "idle" /\ events # <<>> /\ filter' = AtInputShutdown
        /\ events' = Tail(events) /\ UNCHANGED <<end, sock, net, up, pc, consumed>>
    BY <1>5 DEF HandleNothing, Taken, Pop
  <2>2. /\ HoldsBack \/ ~(up /\ Head(events) = "InputShutdown")
        /\ Head(events) # "Pending"
        /\ Head(events) = "InputReady" => ~up
    BY <1>5, NothingHandled
  <2>3. /\ filter'.size = filter.size /\ filter'.buffer = filter.buffer
        /\ filter'.shut => filter.shut \/ (up /\ Head(events) = "InputShutdown")
    BY <2>1, <2>2, AtShutdownFields
  <2>4. (Plain /\ up /\ Head(events) = "InputShutdown") =>
           sock.input = 0 /\ In(events, "InputShutdown")
    BY <1>1, <2>1, EmptyAtShutdown
  <2>5. In(events', "InputShutdown") => In(events, "InputShutdown") BY <1>1, <2>1
  <2>6. In(events, "Pending") => In(events', "Pending") BY <1>1, <2>1, <2>2
  <2>7. (up /\ Ahead(events)) => Ahead(events') BY <1>1, <2>1, <2>2
  <2>8. Announced'
    BY <2>1, <2>3, <2>6, <2>7 DEF Announced, BehindGreeting, Plain, Waits, Leaving, IsReady
  <2>9. Ended' BY <2>1, <2>3, <2>4, <2>5 DEF Ended, Plain, Waits, Received
  <2> QED BY <2>8, <2>9
<1>6. CASE ReadMore
  <2>1. PICK n \in 1..sock.input :
          /\ sock' = Moved(n).sock /\ events' = events \o Moved(n).said
          /\ filter' = ReadPacketSize(Grown(n))
    BY <1>6 DEF ReadMore, Moved, Grown
  <2>2. /\ pc = "read" /\ sock.input > 0 /\ UNCHANGED <<end, net, up, pc, consumed>>
    BY <1>6 DEF ReadMore
  <2>3. /\ Moved(n).said \in Seq(EventNames) /\ Silent(Moved(n).said)
        /\ Follows(sock, sock') /\ Grown(n) \in FilterType
        /\ Grown(n).shut = filter.shut /\ Grown(n).was = filter.was
    BY <2>1, MovedFields
  <2>4. filter'.shut = filter.shut /\ filter'.was = filter.was BY <2>1, <2>3, SizeRead
  <2>5. \A e : In(events', e) <=> In(events, e) \/ In(Moved(n).said, e)
    BY <1>0, <2>1, <2>3, InBoth
  <2>6. In(events', "InputShutdown") => In(events, "InputShutdown")
    BY <2>3, <2>5 DEF Silent
  <2>7. In(events, "Pending") => In(events', "Pending") BY <2>5
  <2>8. Announced' BY <2>2, <2>4, <2>7 DEF Announced, BehindGreeting, Plain, Waits, Leaving
  <2>9. Plain => ~filter.shut BY <2>2 DEF Ended
  <2>10. Ended' BY <2>2, <2>3, <2>4, <2>6, <2>9 DEF Ended, Plain, Waits, Received, Follows
  <2> QED BY <2>8, <2>10
<1>7. CASE ReadPackets
  <2>1. /\ pc = "read" /\ sock.input = 0 /\ pc' = "idle" /\ UNCHANGED <<end, sock, net, up>>
    BY <1>7 DEF ReadPackets
  <2>2. CASE HandleData(events)
    BY <1>0, <2>1, <2>2, DataAnnounced DEF Waits
  <2>3. CASE filter.was = IsReady(filter) /\ UNCHANGED <<consumed, filter, greeted, events>>
    <3>1. IsReady(filter)' <=> filter.was BY <2>3 DEF IsReady
    <3>2. Announced' BY <2>1, <2>3, <3>1 DEF Announced, BehindGreeting, Plain, Waits, Leaving
    <3>3. Ended' BY <2>1, <2>3 DEF Ended, Plain, Waits, Received
    <3> QED BY <3>2, <3>3
  <2> QED BY <1>7, <2>2, <2>3 DEF ReadPackets
<1>8. CASE HandlePending
  <2>1. /\ pc = "idle" /\ pc' = pc /\ UNCHANGED <<end, sock, net, up>>
        /\ HandleData(Tail(events)) /\ events # <<>> /\ Head(events) = "Pending" /\ up
    BY <1>8 DEF HandlePending, Taken, own
  <2>2. Tail(events) \in Seq(EventNames) BY <1>1, <2>1
  <2>3. In(Tail(events), "InputShutdown") => Waits("InputShutdown")
    BY <1>1, <2>1 DEF Waits
  <2>4. (Plain /\ up /\ sock.input > 0) => Ahead(Tail(events))
    BY <1>1, <2>1 DEF Announced, Leaving
  <2> QED BY <2>1, <2>2, <2>3, <2>4, DataAnnounced
<1>9. CASE Timeout
  <2>1. pc' = "remove" /\ UNCHANGED <<end, sock, events, net, filter>>
    BY <1>9 DEF Timeout, filterVars
  <2> QED BY <2>1 DEF Announced, BehindGreeting, Ended, Plain, Waits, Received, Leaving
<1> QED BY <1>2, <1>3, <1>4, <1>5, <1>6, <1>7, <1>8, <1>9 DEF HandleNext

LEMMA StepAnnounced ==
  ASSUME Typed, Bytes, Stages, Announced, Ended, [Next]_vars
  PROVE  Announced' /\ Ended'
<1>1. CASE HandleNext BY <1>1, HandleAnnounced
<1>2. CASE ServiceNext /\ UNCHANGED filterVars
  <2>1. CASE Install
    <3>1. UNCHANGED <<end, sock, events, pc, up, net, filter, consumed>>
      BY <1>2, <2>1 DEF Install, own, filterVars
    <3> QED BY <3>1 DEF Announced, BehindGreeting, Ended, Plain, Waits, Received, IsReady
  <2> QED BY <1>2, <2>1, ServiceRuns, RunAnnounced
<1>3. CASE ThreadNext /\ UNCHANGED filterVars BY <1>3, ThreadAnnounced
<1>4. CASE NetNext /\ UNCHANGED filterVars
  <2>1. UNCHANGED <<end, sock, events, pc, up, filter, consumed>>
    BY <1>4 DEF NetNext, Answers, Sends, Reads, Closes, Breaks, Network, own, filterVars
  <2>2. Received => Received'
    <3>1. net \in NetType BY DEF Typed
    <3>2. CASE Answers BY <3>2 DEF Answers, Received
    <3>3. CASE Sends BY <3>3 DEF Sends, Received
    <3>4. CASE Reads BY <3>4 DEF Reads, Received
    <3>5. CASE Closes BY <3>5 DEF Closes, Received
    <3>6. CASE Breaks BY <3>1, <3>6 DEF Breaks, Network, Received, NetType
    <3> QED BY <1>4, <3>2, <3>3, <3>4, <3>5, <3>6 DEF NetNext
  <2> QED BY <2>1, <2>2 DEF Announced, BehindGreeting, Ended, Plain, Waits, IsReady
<1>5. CASE UNCHANGED vars
  BY <1>5 DEF vars, socketVars, own, filterVars, Announced, BehindGreeting, Ended, Plain, Waits, Received, IsReady
<1> QED BY <1>1, <1>2, <1>3, <1>4, <1>5 DEF Next

(***************************************************************************)
(* The end that is told of.                                                *)
(***************************************************************************)
LEMMA ToldKept ==
  ASSUME LastTold, told' = told, end' = end, consumed' = consumed \/ pc \notin Leaving,
         pc \in Leaving => pc' \in Leaving,
         pc \in Leaving => /\ net'.sent = net.sent
                           /\ net'.peer = net.peer \/ net'.peer = "reset"
  PROVE  LastTold'
BY DEF LastTold, Plain

LEMMA StepLastTold ==
  ASSUME Typed, Bytes, Stages, Announced, Ended, LastTold, [Next]_vars
  PROVE  LastTold'
<1>1. CASE HandleEnd
  <2>1. /\ pc = "idle" /\ events # <<>> /\ pc' = "remove" /\ told' = Head(events)
        /\ UNCHANGED <<end, net, consumed>> /\ Head(events) \in EndsIt /\ ~HoldsBack
    BY <1>1 DEF HandleEnd, Taken
  <2>2. SUFFICES ASSUME Head(events) = "InputShutdown", Plain, net.peer # "reset"
                 PROVE  net.peer = "closed" /\ consumed = net.sent \div (Payload + 1)
    BY <2>1 DEF LastTold, Plain, Leaving
  <2>3. up /\ ~IsReady(filter) BY <2>1, <2>2 DEF EndsIt, HoldsBack
  <2>4. sock.input = 0 BY <2>1, <2>2, <2>3, EmptyAtShutdown
  <2>5. events \in Seq(EventNames) /\ consumed \in Nat BY DEF Typed
  <2>6. In(events, "InputShutdown") BY <2>1, <2>2, <2>5, InTail
  <2>7. net.peer = "closed" /\ net.arrived = 0 BY <2>2, <2>6 DEF Ended, Waits, Received
  <2>8. Known = net.sent BY <2>1, <2>2 DEF Bytes, Leaving
  <2>9. /\ consumed * (Payload + 1) \in Nat /\ Held(filter) \in Nat
        /\ net.sent = consumed * (Payload + 1) + Held(filter)
    BY <2>4, <2>7, <2>8, Numbers DEF Known
  <2>10. Held(filter) < Payload + 1
    <3>1. Sized(filter) BY <2>1, FilterSized DEF Leaving
    <3>2. Packets(filter) = 0 BY <2>3 DEF Packets
    <3>3. Held(filter) < 0 * (Payload + 1) + Payload + 1 BY <3>1, <3>2, WholePackets
    <3> QED BY <3>3, SizeIsPositive
  <2>11. /\ consumed * (Payload + 1) <= net.sent
         /\ net.sent < consumed * (Payload + 1) + (Payload + 1) /\ net.sent \in Nat
    BY <2>9, <2>10, SizeIsPositive
  <2> QED BY <2>5, <2>7, <2>11, SizeIsPositive, DividesInto
<1>2. CASE HandleReady \/ HandleConnected \/ HandleUp \/ HandleNothing \/ HandlePending
           \/ ReadMore \/ ReadPackets \/ Timeout
  <2>1. told' = told /\ end' = end /\ pc \notin Leaving
    BY <1>2 DEF HandleReady, HandleConnected, HandleUp, HandleNothing, HandlePending, ReadMore,
                ReadPackets, Timeout, Taken, Leaving, filterVars
  <2> QED BY <2>1, ToldKept
<1>3. CASE ServiceNext /\ UNCHANGED filterVars
  <2>1. CASE Install
    <3>1. UNCHANGED <<end, net, pc, consumed, told>>
      BY <1>3, <2>1 DEF Install, filterVars, own
    <3> QED BY <3>1, ToldKept
  <2>2. ASSUME NEW o, NEW next, Runs(o, next) PROVE LastTold'
    <3>1. UNCHANGED <<end, pc, consumed, told>>
      BY <1>3, <2>2 DEF Runs, Run, filterVars, own
    <3>2. net'.sent = net.sent /\ net'.peer = net.peer BY <1>3, <2>2, RunTyped
    <3> QED BY <3>1, <3>2, ToldKept
  <2> QED BY <1>3, <2>1, <2>2, ServiceRuns
<1>4. CASE ThreadNext /\ UNCHANGED filterVars
  <2>1. UNCHANGED <<end, consumed, told>>
    BY <1>4 DEF ThreadNext, TestJob, ReadFields, SetJob, Connect, Accept, Write, Flush, Flushed,
                RemoveJob, CloseSocket, filterVars
  <2>2. pc \in Leaving => net' = net /\ pc' \in Leaving
    BY <1>4 DEF ThreadNext, TestJob, ReadFields, SetJob, Connect, Accept, Write, Flush, Flushed,
                RemoveJob, CloseSocket, Leaving
  <2> QED BY <2>1, <2>2, ToldKept
<1>5. CASE NetNext /\ UNCHANGED filterVars
  <2>1. UNCHANGED <<end, pc, consumed, told>>
    BY <1>5 DEF NetNext, Answers, Sends, Reads, Closes, Breaks, Network, filterVars, own
  <2>2. net \in NetType BY DEF Typed
  <2>3. SUFFICES ASSUME told = "InputShutdown", Plain, net.peer = "closed"
                 PROVE  net'.sent = net.sent /\ net'.peer \in {"closed", "reset"}
    <3>1. net.peer # "reset" BY <1>5 DEF NetNext, Answers, Sends, Reads, Closes, Breaks
    <3> QED BY <2>1, <3>1 DEF LastTold, Plain
  <2>4. Breaks BY <1>5, <2>3 DEF NetNext, Answers, Sends, Reads, Closes
  <2> QED BY <2>2, <2>4 DEF Breaks, Network, NetType
<1>6. CASE UNCHANGED vars
  <2>1. UNCHANGED <<end, net, pc, consumed, told>>
    BY <1>6 DEF vars, socketVars, own, filterVars
  <2> QED BY <2>1, ToldKept
<1> QED BY <1>1, <1>2, <1>3, <1>4, <1>5, <1>6 DEF Next, HandleNext

-----------------------------------------------------------------------------
(***************************************************************************)
(* The invariant, and what it gives.                                       *)
(***************************************************************************)
LEMMA InitInv ==
  ASSUME Init
  PROVE  PacketInv
<1>1. /\ end \in [role : {"client", "server"}, secure : BOOLEAN]
      /\ end.role \in {"client", "server"}
  BY SocketAssumption DEF Init, SocketInit
<1>2. /\ NewSocket \in SocketType /\ NewSocket.open /\ ~NewSocket.connected
      /\ ~NewSocket.readable /\ ~NewSocket.writable /\ NewSocket.input = 0
      /\ NewSocket.output = 0
  BY BoundsAreNumbers DEF NewSocket, SocketType
<1>3. /\ sock \in SocketType /\ sock.open /\ sock.input = 0 /\ sock.output = 0
      /\ end.role = "client" => ~sock.connected /\ ~sock.readable /\ ~sock.writable
      /\ end.role # "client" => sock.connected
  BY <1>2, ConnectedFields DEF Init, SocketInit
<1>4. /\ job \in JobType /\ job.kind \in {"none", "connected"}
      /\ end.role = "client" => job = NoJob
  BY <1>3, JobsTyped DEF Init, SocketInit, JobKinds
<1>5. /\ service = "idle" /\ returned = NoJob /\ events = <<>> /\ made = NoJob /\ ~up
      /\ pc = (IF end.role = "client" THEN "start" ELSE "accept")
      /\ consumed = 0 /\ told = "nothing" /\ ~greeted /\ greeted \in BOOLEAN /\ up \in BOOLEAN
  BY DEF Init, SocketInit
<1>6. /\ net \in NetType /\ net.arrived = 0 /\ net.sent = 0
      /\ end.role = "client" => net.peer = "dialled"
  BY BoundsAreNumbers DEF Init, SocketInit, NetType, Peers
<1>7. /\ filter \in FilterType /\ filter.buffer = 0 /\ filter.size = 0 /\ ~filter.shut
  BY DEF Init, FilterType
<1>8. pc \in {"start", "accept"} /\ (pc = "start" <=> end.role = "client") BY <1>5
<1>9. Typed BY <1>1, <1>3, <1>4, <1>5, <1>6, <1>7, <1>8, JobsTyped, SaidTyped DEF Typed, Pcs
<1>10. Bytes
  <2>1. 0 * (Payload + 1) = 0 BY SizeIsPositive
  <2>2. Held(filter) = 0 BY <1>7 DEF Held
  <2>3. Known = 0 BY <1>3, <1>5, <1>6, <2>1, <2>2 DEF Known
  <2> QED BY <1>5, <1>6, <1>7, <2>3, SizeIsPositive DEF Bytes
<1>11. Phases BY <1>3, <1>4, <1>5, <1>6, <1>7, <1>8 DEF Phases
<1>12. Connecting
  <2>1. ~Dialling /\ (sock.readable => sock.connected) BY <1>1, <1>3 DEF Dialling
  <2> QED BY <1>4, <1>5, <2>1, JobsTyped DEF Connecting
<1>13. Watched BY <1>3 DEF Watched, Unwritten
<1>14. Announced BY <1>5 DEF Announced
<1>15. Ended BY <1>5, <1>7, InSome DEF Ended, Waits
<1>16. LastTold BY <1>5 DEF LastTold
<1> QED BY <1>9, <1>10, <1>11, <1>12, <1>13, <1>14, <1>15, <1>16 DEF PacketInv, Stages

LEMMA StepInv ==
  ASSUME PacketInv, [Next]_vars
  PROVE  PacketInv'
<1> USE DEF PacketInv
<1>1. Typed' BY StepTyped
<1>2. Bytes' BY StepBytes
<1>3. Stages' BY StepStages
<1>4. Watched' BY StepWatched
<1>5. Announced' /\ Ended' BY StepAnnounced
<1>6. LastTold' BY StepLastTold
<1> QED BY <1>1, <1>2, <1>3, <1>4, <1>5, <1>6

(* Whatever is sent, and however the threads and the network interleave,   *)
(* the invariant holds.                                                    *)
THEOREM PacketInvHolds == Spec => []PacketInv
<1>1. Init => PacketInv BY InitInv
<1>2. PacketInv /\ [Next]_vars => PacketInv' BY StepInv
<1> QED BY <1>1, <1>2, PTL DEF Spec

(* Bytes that wait to be written are watched for by a job that is, or is   *)
(* about to be, installed, though newJob() runs without the mutex          *)
(* (TCPSocket.cpp:163); bytes and packets that wait to be read are         *)
(* announced by an event or being read (TCPSocket.cpp:308,                 *)
(* PacketStreamFilter.cpp:126), but for a packet that a server read with   *)
(* the greeting and all that comes behind it; and every variable has its   *)
(* type.                                                                   *)
THEOREM NoLostWakeupHolds == Spec => []NoLostWakeup
<1>1. PacketInv => TypeOK
  <2>1. SUFFICES ASSUME PacketInv PROVE TypeOK OBVIOUS
  <2>2. Typed /\ Bytes BY <2>1 DEF PacketInv
  <2>3. net.arrived \in 0..net.sent BY <2>2, Numbers DEF NetFits
  <2>4. filter.buffer \in 0..MaxSent
    <3>1. /\ Known <= net.sent /\ net.sent <= MaxSent /\ Known \in Nat /\ net.sent \in Nat
          /\ Held(filter) <= Known
      BY <2>2, Numbers DEF Bytes, Known, NetFits
    <3>2. filter.buffer \in Nat /\ filter.buffer <= Held(filter)
      BY <2>2 DEF Typed, FilterType, Held
    <3> QED BY <2>2, <3>1, <3>2, Numbers, BoundsAreNumbers
  <2> QED BY <2>2, <2>3, <2>4 DEF TypeOK, Typed, NetType, FilterType, Pcs
<1>2. PacketInv => WriteWatched
  BY DEF PacketInv, Watched, WriteWatched, Plain, Unwritten, Making, Phases, Stages
<1>3. PacketInv => InputAnnounced
  <2>1. SUFFICES ASSUME PacketInv, up, Plain, pc \notin {"read", "remove", "close", "closed"}
                 PROVE  /\ sock.input > 0 => In(events, "InputReady")
                        /\ IsReady(filter) => In(events, "Pending") \/ BehindGreeting
    BY DEF InputAnnounced, Listening, Queued, Plain, In
  <2>2. Announced BY <2>1 DEF PacketInv
  <2>3. Ahead(events) => In(events, "InputReady") BY DEF Ahead, In
  <2> QED BY <2>1, <2>2, <2>3 DEF Announced, Waits, Leaving
<1> QED BY <1>1, <1>2, <1>3, PacketInvHolds, PTL DEF NoLostWakeup

(* When the end of the input closes a connection that did not break, every *)
(* whole packet that the other end sent has been read                      *)
(* (PacketStreamFilter.cpp:162, TCPSocket.cpp:327).                        *)
THEOREM ShutdownLastHolds == Spec => []ShutdownLast
<1>1. PacketInv => ShutdownLast BY DEF PacketInv, LastTold, ShutdownLast, Plain
<1> QED BY <1>1, PacketInvHolds, PTL

=============================================================================
