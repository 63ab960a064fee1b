----------------------------- MODULE TCPSocket -----------------------------
(***************************************************************************)
(* A connected socket shared by the event thread and the thread that       *)
(* services the sockets (src/lib/net/TCPSocket.cpp, SecureSocket.cpp).     *)
(*                                                                         *)
(* The service thread runs the socket's job, under the socket's mutex,     *)
(* then installs the job that one returned.  The event thread reads and    *)
(* writes the buffers under the mutex, but computes a new job after it     *)
(* has let the mutex go, one field at a time.  Adding and removing a job   *)
(* waits until the service thread has installed what it owes, which is     *)
(* what the socket multiplexer's list lock does.                           *)
(*                                                                         *)
(* Bytes are counted, and the network is external: what has arrived, what  *)
(* it still takes, and how the other end is.  The events are those of one  *)
(* socket, in the order of the event queue.                                *)
(***************************************************************************)
EXTENDS Naturals, Sequences

CONSTANTS
  Roles,        \* which ends are modelled: "client", "server"
  Kinds,        \* whether they use TLS: FALSE (TCPSocket), TRUE (SecureSocket)
  MaxSent,      \* bound: how much the other end sends
  MaxInput,     \* s_maxInputBufferSize
  MaxOutput,    \* bound: how much may wait to be written
  MaxEvents,    \* bound: events that wait while the event thread writes
  MaxRoom       \* how much the network takes before the other end reads

ASSUME SocketAssumption ==
  /\ Roles \subseteq {"client", "server"} /\ Kinds \subseteq BOOLEAN
  /\ MaxSent \in Nat /\ MaxInput \in Nat /\ MaxEvents \in Nat
  /\ MaxOutput \in Nat \ {0} /\ MaxRoom \in Nat \ {0}

VARIABLES
  end,          \* which end this is: [role, secure]
  sock,         \* the fields of the socket, see SocketType
  job,          \* the job the multiplexer holds
  service,      \* the service thread: "idle", or "owes" the job it was given
  returned,     \* that job
  events,       \* this socket's events that wait to be handled
  pc,           \* where the event thread is
  made,         \* the job it is making
  up,           \* the handlers of a connection are in place
  net           \* [peer, arrived, sent, room]

own == <<pc, made, up>>
serviced == <<service, returned>>
socketVars == <<end, sock, job, serviced, events, own, net>>

NoJob == [kind |-> "none", read |-> FALSE, write |-> FALSE]
JobKinds == {"none", "connecting", "connected", "handshake"}
JobType == [kind : JobKinds, read : BOOLEAN, write : BOOLEAN]
SocketType == [open : BOOLEAN, connected : BOOLEAN, readable : BOOLEAN, writable : BOOLEAN,
               input : 0..MaxSent, output : 0..MaxOutput, flushed : BOOLEAN,
               ready : BOOLEAN, fatal : BOOLEAN]

Min2(a, b) == IF a < b THEN a ELSE b

OnConnected(s) == [s EXCEPT !.connected = TRUE, !.readable = TRUE, !.writable = TRUE]
OnInputShutdown(s) == [s EXCEPT !.input = 0, !.readable = FALSE]
X_StillUnflushed(s) == [s EXCEPT !.output = 0, !.writable = FALSE]
OnOutputShutdown(s) == [s EXCEPT !.output = 0, !.writable = FALSE, !.flushed = TRUE]
OnDisconnected(s) == [OnOutputShutdown(OnInputShutdown(s)) EXCEPT !.connected = FALSE]

(***************************************************************************)
(* newJob().  With TLS there is no job between the connection and the      *)
(* start of the handshake, and nothing asks for one during it.             *)
(***************************************************************************)
JobKind(s) ==
  IF ~s.open THEN "none"
  ELSE IF s.connected
    THEN IF end.secure /\ ~s.ready THEN "none"
         ELSE IF s.readable \/ (s.writable /\ s.output > 0) THEN "connected" ELSE "none"
    ELSE IF s.readable \/ s.writable THEN "connecting" ELSE "none"

JobOf(kind, s) ==
  IF kind = "none" THEN NoJob
  ELSE [kind |-> kind, read |-> s.readable,
        write |-> s.writable /\ (kind = "connected" => s.output > 0)]

NewJob(s) == JobOf(JobKind(s), s)

NewSocket == [open |-> TRUE, connected |-> FALSE, readable |-> FALSE, writable |-> FALSE,
              input |-> 0, output |-> 0, flushed |-> TRUE, ready |-> FALSE, fatal |-> FALSE]

\* A client's new socket, or one the server has just accepted, whose
\* constructor gives it the job of a plain socket.
SocketInit ==
  /\ end \in [role : Roles, secure : Kinds]
  /\ sock = IF end.role = "client" THEN NewSocket ELSE OnConnected(NewSocket)
  /\ job = IF end.role = "client" THEN NoJob ELSE JobOf("connected", sock)
  /\ service = "idle" /\ returned = NoJob /\ events = <<>>
  /\ pc = (IF end.role = "client" THEN "start" ELSE "accept") /\ made = NoJob /\ up = FALSE
  /\ net = [peer |-> IF end.role = "client" THEN "dialled" ELSE "open",
            arrived |-> 0, sent |-> 0, room |-> MaxRoom]

(***************************************************************************)
(* The network.  The other end answers a connection or refuses it, sends,  *)
(* reads, closes, and its connection may break.  It sends nothing before   *)
(* it has been greeted: the server's greeting comes first.                 *)
(***************************************************************************)
Network(n) == sock.open /\ net' = n /\ UNCHANGED <<end, sock, job, serviced, events, own>>

Answers == \E p \in {"open", "refused"} :
  net.peer = "dialled" /\ sock.writable /\ Network([net EXCEPT !.peer = p])
Sends == /\ net.peer = "open" /\ net.sent < MaxSent /\ up
         /\ Network([net EXCEPT !.sent = @ + 1, !.arrived = @ + 1])
Reads == /\ net.peer = "open" /\ net.room = 0
         /\ Network([net EXCEPT !.room = MaxRoom])
Closes == net.peer = "open" /\ Network([net EXCEPT !.peer = "closed"])
Breaks == net.peer \in {"open", "closed"} /\ Network([net EXCEPT !.peer = "reset"])

(***************************************************************************)
(* What doRead and doWrite may come to: the socket after it, the events,   *)
(* what it returns, and what it took from and gave to the network.         *)
(***************************************************************************)
Outcome(s, said, result, took, gave) ==
  [sock |-> s, said |-> said, result |-> result, took |-> took, gave |-> gave]

Nothing(s) == Outcome(s, <<>>, "retry", 0, 0)

DiscardWrittenData(s, n) ==
  LET left == [s EXCEPT !.output = @ - n]
  IN IF left.output = 0 THEN [left EXCEPT !.flushed = TRUE] ELSE left

\* Both sides are shut: the socket has disconnected.
IfDrained(s, said) ==
  IF ~s.readable /\ ~s.writable /\ s.input = 0
    THEN [sock |-> [s EXCEPT !.connected = FALSE], said |-> Append(said, "Disconnected")]
    ELSE [sock |-> s, said |-> said]

\* disconnect() in checkResult: only the events are sent.
TlsFatal(s) == Outcome([s EXCEPT !.fatal = TRUE], <<"Disconnected", "InputShutdown">>, "break", 0, 0)
\* The end of the stream without a close_notify.
TlsEnd(s) == Outcome([s EXCEPT !.connected = FALSE, !.readable = FALSE, !.writable = FALSE],
                     <<"Disconnected", "InputShutdown">>, "break", 0, 0)
TlsFailures(s) == IF s.fatal \/ net.peer = "reset" THEN {TlsFatal(s)}
                  ELSE IF net.peer = "closed" THEN {TlsFatal(s), TlsEnd(s)} ELSE {}
\* TLS wants to read or to write before it can go on.
TlsRetries(s) ==
  IF net.peer = "open" /\ ~s.fatal
    THEN {Outcome(t, <<>>, "new", 0, 0) :
            t \in {[s EXCEPT !.readable = TRUE], [s EXCEPT !.writable = TRUE]}}
    ELSE {}

WriteFailures(s) ==
  LET shut == IfDrained(OnOutputShutdown(s), <<"OutputShutdown">>)
      gone == OnDisconnected(s)
  IN {Outcome(shut.sock, shut.said, "new", 0, 0),
      Outcome(gone, <<"Disconnected">>, "new", 0, 0),
      Outcome(gone, <<"OutputError", "Disconnected">>, "new", 0, 0)}

Written(s) ==
  IF s.output = 0 \/ net.room = 0 THEN {Nothing(s)}
  ELSE {Outcome(DiscardWrittenData(s, n), <<>>, "new", 0, n) : n \in 1..Min2(s.output, net.room)}

DoWrite(s) ==
  IF ~end.secure THEN IF net.peer = "reset" THEN WriteFailures(s) ELSE Written(s)
  ELSE IF ~s.ready \/ s.output = 0 THEN {Nothing(s)}
  ELSE TlsFailures(s) \cup TlsRetries(s)
       \cup (IF s.fatal \/ net.peer = "reset" THEN {} ELSE Written(s))

\* It slurps until nothing is left or the buffer is over its limit; TLS goes
\* on to the failure that follows the last byte.
Slurped(s) == {n \in 1..net.arrived :
                 \/ n = net.arrived /\ (end.secure => net.peer = "open")
                 \/ s.input + n > MaxInput}

Filled(s, n) ==
  Outcome([s EXCEPT !.input = @ + n], IF s.input = 0 THEN <<"InputReady">> ELSE <<>>, "retry", n, 0)

X_BufferDropped(s) ==
  LET shut == IfDrained(OnInputShutdown(s), <<"InputShutdown">>)
  IN Outcome(shut.sock, shut.said, "new", 0, 0)

\* The other end has hung up; what is in the buffer may still be read.
HungUp(s) ==
  LET shut == IfDrained([s EXCEPT !.readable = FALSE], <<"InputShutdown">>)
  IN Outcome(shut.sock, shut.said, "new", 0, 0)

\* A failure in the middle of the slurp keeps what was read, unannounced.
CutShort(s, f, n) ==
  Outcome([f.sock EXCEPT !.input = s.input + n], f.said, f.result, n, f.gave)

DoRead(s) ==
  IF ~end.secure
  THEN IF net.peer = "reset"
       THEN {Outcome(OnDisconnected(s), <<"Disconnected">>, "new", 0, 0), Nothing(s)}
       ELSE IF net.arrived > 0 THEN {Filled(s, n) : n \in Slurped(s)} ELSE {HungUp(s)}
  ELSE IF ~s.ready THEN {Nothing(s)}
  ELSE (IF s.fatal THEN {} ELSE {Filled(s, n) : n \in Slurped(s)})
       \cup TlsRetries(s)
       \cup {CutShort(s, f, n) : f \in TlsFailures(s), n \in 0..(IF s.fatal THEN 0 ELSE net.arrived)}

\* serviceConnected, when the poll reported no error.
Served(read, write) ==
  LET writes == IF write THEN DoWrite(sock) ELSE {Nothing(sock)}
      reads(w) == IF read /\ w.sock.readable THEN DoRead(w.sock) ELSE {Nothing(w.sock)}
      both(w, r) == [Outcome(r.sock, w.said \o r.said, "retry", r.took, w.gave)
                       EXCEPT !.result = IF "break" \in {w.result, r.result} THEN "break"
                                         ELSE IF "new" \in {w.result, r.result} THEN "new" ELSE "retry"]
  IN UNION {{both(w, r) : r \in reads(w)} : w \in writes}

(***************************************************************************)
(* The service thread.  A poll reports what the job asked for and the      *)
(* network allows, and an error; the connection may also break just after  *)
(* it was polled.                                                          *)
(***************************************************************************)
Readable == job.read /\ (net.arrived > 0 \/ net.peer \in {"closed", "reset"})
Writable == job.write /\ (net.room > 0 \/ net.peer = "reset") /\ net.peer # "dialled"
Failing == net.peer \in {"reset", "refused"}

Run(o, next) ==
  /\ sock' = o.sock /\ events' = events \o o.said
  /\ service' = "owes" /\ returned' = next
  /\ net' = [net EXCEPT !.arrived = @ - o.took, !.room = @ - o.gave]
  /\ UNCHANGED <<end, job, own>>

ServiceConnecting ==
  /\ service = "idle" /\ job.kind = "connecting" /\ (Failing \/ Writable)
  /\ IF Failing
       THEN Run(Outcome(OnDisconnected(sock), <<"ConnectionFailed">>, "new", 0, 0), NoJob)
       ELSE Run(Outcome(OnConnected(sock), <<"Connected">>, "new", 0, 0), NewJob(OnConnected(sock)))

ServiceError ==
  /\ service = "idle" /\ job.kind = "connected" /\ Failing
  /\ Run(Outcome(OnDisconnected(sock), <<"Disconnected">>, "new", 0, 0), NoJob)

ServiceConnected ==
  /\ service = "idle" /\ job.kind = "connected" /\ (Readable \/ Writable)
  /\ \E o \in Served(Readable, Writable) :
       Run(o, CASE o.result = "break" -> NoJob
                [] o.result = "new" -> NewJob(o.sock)
                [] OTHER -> job)

\* serviceConnect and serviceAccept: TLS fails, waits, or is ready.
ServiceHandshake ==
  LET clear == [sock EXCEPT !.readable = FALSE, !.writable = FALSE]
      failed == IF end.role = "server" THEN <<"DisconnectedOnAccept">> ELSE <<>>
      done == [OnConnected(sock) EXCEPT !.ready = TRUE]
      retry(r, w) == [clear EXCEPT !.readable = r, !.writable = w]
  IN /\ service = "idle" /\ job.kind = "handshake" /\ (Readable \/ Writable \/ Failing)
     /\ \/ \E f \in {FALSE, TRUE} :     \* TLS itself, or the certificate
             Run(Outcome([clear EXCEPT !.fatal = f],
                         <<"Disconnected", "InputShutdown">> \o failed, "break", 0, 0), NoJob)
        \/ /\ net.peer = "open"
           /\ \/ Run(Outcome(done, IF end.role = "server" THEN <<"Accepted">> ELSE <<"SecureConnected">>,
                             "new", 0, 0), NewJob(done))
              \/ \E s \in {retry(TRUE, FALSE), retry(FALSE, TRUE)} :
                   Run(Outcome(s, <<>>, "new", 0, 0), JobOf("handshake", s))

Install ==
  /\ service = "owes" /\ job' = returned /\ service' = "idle" /\ returned' = NoJob
  /\ UNCHANGED <<end, sock, events, own, net>>

ServiceNext == ServiceConnecting \/ ServiceError \/ ServiceConnected \/ ServiceHandshake \/ Install

(***************************************************************************)
(* The event thread: making a job without the mutex, and giving it to the  *)
(* multiplexer.                                                            *)
(***************************************************************************)
TestJob ==
  /\ pc = "test" /\ made' = [NoJob EXCEPT !.kind = JobKind(sock)]
  /\ pc' = IF JobKind(sock) = "none" THEN "add" ELSE "fields"
  /\ UNCHANGED <<end, sock, job, serviced, events, up, net>>

ReadFields ==
  /\ pc = "fields" /\ made' = JobOf(made.kind, sock) /\ pc' = "add"
  /\ UNCHANGED <<end, sock, job, serviced, events, up, net>>

X_NoLock ==
  /\ pc = "add" /\ job' = made /\ pc' = "idle" /\ made' = NoJob
  /\ UNCHANGED <<end, sock, serviced, events, up, net>>

SetJob ==
  /\ pc = "add" /\ service = "idle" /\ job' = made /\ pc' = "idle" /\ made' = NoJob
  /\ UNCHANGED <<end, sock, serviced, events, up, net>>

Connect ==
  /\ pc = "start"
  /\ \/ /\ net.peer = "dialled" /\ sock' = [sock EXCEPT !.writable = TRUE]
        /\ pc' = "test" /\ UNCHANGED <<events, net>>
     \/ /\ sock' = OnConnected(sock) /\ events' = Append(events, "Connected")
        /\ net' = [net EXCEPT !.peer = "open"] /\ pc' = "test"
     \/ pc' = "remove" /\ UNCHANGED <<sock, events, net>>     \* SocketConnectException
  /\ UNCHANGED <<end, job, serviced, made, up>>

\* A plain socket is announced at once; TLS starts its handshake.
Accept ==
  /\ pc = "accept"
  /\ IF end.secure
       THEN made' = [NoJob EXCEPT !.kind = "handshake"] /\ pc' = "fields" /\ UNCHANGED events
       ELSE events' = Append(events, "Accepted") /\ pc' = "idle" /\ UNCHANGED made
  /\ UNCHANGED <<end, sock, job, serviced, up, net>>

X_SilentWrite ==
  /\ pc = "idle" /\ up /\ sock.output < MaxOutput /\ Len(events) < MaxEvents /\ sock.writable
  /\ sock' = [sock EXCEPT !.output = @ + 1, !.flushed = FALSE]
  /\ pc' = (IF sock.output = 0 THEN "test" ELSE pc)
  /\ UNCHANGED <<events, end, job, serviced, made, up, net>>

Write ==
  /\ pc = "idle" /\ up /\ sock.output < MaxOutput /\ Len(events) < MaxEvents
  /\ IF ~sock.writable
       THEN events' = Append(events, "OutputError") /\ UNCHANGED <<sock, pc>>
       ELSE /\ sock' = [sock EXCEPT !.output = @ + 1, !.flushed = FALSE]
            /\ pc' = IF sock.output = 0 THEN "test" ELSE pc
            /\ UNCHANGED events
  /\ UNCHANGED <<end, job, serviced, made, up, net>>

\* flush(), when there is something to wait for.
Flush ==
  /\ pc = "idle" /\ up /\ ~sock.flushed /\ pc' = "flush"
  /\ UNCHANGED <<end, sock, job, serviced, events, made, up, net>>

Flushed ==
  /\ pc = "flush" /\ sock.flushed /\ pc' = "idle"
  /\ UNCHANGED <<end, sock, job, serviced, events, made, up, net>>

\* close(): freeSSL and setJob(nullptr) first, then the fields.
RemoveJob ==
  /\ pc = "remove" /\ service = "idle" /\ job' = NoJob /\ pc' = "close"
  /\ sock' = [sock EXCEPT !.fatal = @ \/ end.secure]
  /\ UNCHANGED <<end, serviced, events, made, up, net>>

CloseSocket ==
  /\ pc = "close" /\ pc' = "closed" /\ up' = FALSE
  /\ sock' = [OnDisconnected(sock) EXCEPT !.open = FALSE]
  /\ events' = <<>>        \* its handlers are gone
  /\ UNCHANGED <<end, job, serviced, made, net>>

ThreadNext == TestJob \/ ReadFields \/ SetJob \/ Connect \/ Accept \/ Write \/ Flush
              \/ Flushed \/ RemoveJob \/ CloseSocket
NetNext == Answers \/ Sends \/ Reads \/ Closes \/ Breaks
=============================================================================
