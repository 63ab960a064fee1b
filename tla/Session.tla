------------------------------ MODULE Session ------------------------------
(***************************************************************************)
(* A client and its connection to the server, again and again              *)
(* (src/lib/client/Client.cpp, ServerProxy.cpp, lib/deskflow/              *)
(* ClientApp.cpp; lib/server/ClientProxyUnknown.cpp, ClientProxy1_0.cpp,   *)
(* ClientProxy1_3.cpp and Server.cpp for the other end).                   *)
(*                                                                         *)
(* The client connects, answers the greeting, tells its screen's shape,    *)
(* and is ready when it gets its options; it moves its cursor where the    *)
(* server says, and ignores that while a change of its shape is not        *)
(* acknowledged.  A position is the version of the shape it was computed   *)
(* for.  Both ends give up a silent connection, and the application        *)
(* connects again after a while.  Events of the stream and of the system   *)
(* come in any order; what the client posts to itself is in events.  The   *)
(* keep-alives themselves are left out: an alarm may run out at any time.  *)
(* So are the no-ops, and the reset of the options that precedes them.     *)
(***************************************************************************)
EXTENDS Naturals, Sequences

CONSTANTS MaxShape,     \* bound: changes of the shape, over the run
          MaxFlight,    \* bound: messages in flight, each way
          MaxSuspends,  \* bound: suspends, over the run
          MaxRetries,   \* bound: retry timers at a time
          MaxSessions   \* bound: connections, over the run
ASSUME SessionAssumption ==
  /\ {MaxShape, MaxFlight, MaxRetries} \subseteq Nat \ {0}
  /\ {MaxSuspends, MaxSessions} \subseteq Nat

VARIABLES
  client,       \* m_stream and what goes with it: stream, proxy (m_server), timer,
                \* ready, alarm (the keep-alive's), and suspended, onResume
  mouse,        \* ServerProxy's [ignore, compress]: m_ignoreMouse, and the position
                \* that waits for the end of the input (0: none); as a history,
                \* unacked as it was when that position was read
  screen,       \* Computer's [enabled, entered], and its shape
  inbox,        \* packets the client is reading
  events,       \* events the client posted to itself and to the application
  retries,      \* the application's retry timers
  server,       \* [phase, info, stuck, active, old] of its end
  up, down,     \* messages in flight
  link,         \* the connection
  unacked,      \* info messages of this connection the client has no answer to
  misled,       \* the last position obeyed, if it was not for the screen's shape
  used          \* bounds: [suspends, sessions] so far

clientVars == <<client, mouse, screen, inbox, events, retries>>
vars == <<clientVars, server, up, down, link, unacked, misled, used>>

Msg(type, version) == [type |-> type, version |-> version]
NoMouse == [ignore |-> FALSE, compress |-> 0, unacked |-> 0]
NoServer == [phase |-> "none", info |-> 0, stuck |-> FALSE, active |-> FALSE, old |-> FALSE]
Fits == [type |-> "none", version |-> 0, shape |-> 0, unacked |-> 0]

Init ==
  /\ client = [stream |-> "none", proxy |-> "none", timer |-> FALSE, ready |-> FALSE,
               alarm |-> FALSE, suspended |-> FALSE, onResume |-> FALSE]
  /\ mouse = NoMouse /\ screen = [enabled |-> FALSE, entered |-> FALSE, shape |-> 1]
  /\ inbox = <<>> /\ events = <<>> /\ retries = 1
  /\ server = NoServer /\ up = <<>> /\ down = <<>> /\ link = "closed"
  /\ unacked = 0 /\ misled = Fits /\ used = [suspends |-> 0, sessions |-> 0]

(***************************************************************************)
(* Ending a connection: every way deletes the proxy and the stream, and    *)
(* with them the handlers of what is posted to the stream.  A screen that  *)
(* was enabled is left if the cursor is on it.                             *)
(***************************************************************************)
X_StillEntered(s, c) ==
  IF c.proxy # "none" /\ c.ready THEN [s EXCEPT !.enabled = FALSE] ELSE s

CleanupComputer(s, c) ==
  IF c.proxy # "none" /\ c.ready THEN [s EXCEPT !.enabled = FALSE, !.entered = FALSE] ELSE s

Gone(c) == [c EXCEPT !.stream = "none", !.proxy = "none", !.timer = FALSE, !.ready = FALSE,
                     !.alarm = FALSE]

\* What was posted to the stream stays in the queue, and nobody hears it.
ToApp == {"Disconnected", "Failed", "Refused"}
Requests == {"RequestDisconnect", "RequestFailed", "RequestRefused"}
ForApp(waiting) == [i \in 1..Len(waiting) |-> IF waiting[i] \in ToApp THEN waiting[i] ELSE "Unheard"]

\* The server's end of a connection the client closed is old until it notices.
Hide(s) == IF s.phase = "adopted" THEN [NoServer EXCEPT !.active = s.active, !.old = TRUE]
           ELSE [NoServer EXCEPT !.active = s.active, !.old = s.old]

Cleanup(posted, c) ==
  /\ client' = Gone(c) /\ mouse' = NoMouse /\ inbox' = <<>>
  /\ screen' = CleanupComputer(screen, c)
  /\ events' = Append(ForApp(posted[1]), posted[2])
  /\ link' = "closed" /\ up' = <<>> /\ down' = <<>> /\ unacked' = 0
  /\ server' = Hide(server)

(***************************************************************************)
(* Client::connect: ignored while there is a stream, and put off while     *)
(* the system is suspended.                                                *)
(***************************************************************************)
Connect(c) ==
  IF c.stream # "none" THEN client' = c /\ UNCHANGED link
  ELSE IF c.suspended THEN client' = [c EXCEPT !.onResume = TRUE] /\ UNCHANGED link
  ELSE client' = [c EXCEPT !.stream = "connecting", !.timer = TRUE] /\ link' = "opening"

\* ClientApp::handleClientRestart
HandleClientRestart ==
  /\ retries > 0 /\ retries' = retries - 1 /\ events = <<>>
  /\ used.sessions < MaxSessions /\ used' = [used EXCEPT !.sessions = @ + 1]
  /\ inbox = <<>> /\ Connect(client)
  /\ UNCHANGED <<mouse, screen, inbox, events, server, up, down, unacked, misled>>

HandleConnected ==
  /\ client.stream = "connecting" /\ link = "opening" /\ link' = "open"
  /\ client' = [client EXCEPT !.stream = "hello"]
  /\ server' = [server EXCEPT !.phase = "hello"] /\ down' = <<Msg("HELO", 0)>>
  /\ UNCHANGED <<mouse, screen, inbox, events, retries, up, unacked, misled, used>>

HandleConnectionFailed ==
  /\ client.stream = "connecting" /\ Cleanup(<<events, "Failed">>, client)
  /\ UNCHANGED <<retries, misled, used>>

HandleConnectTimeout ==
  /\ client.timer /\ events = <<>> /\ inbox = <<>> /\ Cleanup(<<events, "Failed">>, client)
  /\ UNCHANGED <<retries, misled, used>>

(***************************************************************************)
(* Input: the client takes what has arrived, and reads packet by packet.   *)
(***************************************************************************)
Input ==
  /\ client.stream = "hello" /\ inbox = <<>> /\ down # <<>> /\ link # "silent"
  /\ \E n \in 1..Len(down) :
       inbox' = SubSeq(down, 1, n) /\ down' = SubSeq(down, n + 1, Len(down))
  /\ UNCHANGED <<client, mouse, screen, events, retries, server, up, link, unacked, misled, used>>

Reading(type) == inbox # <<>> /\ Head(inbox).type = type
More == Len(inbox) > 1
Room == link = "open" => Len(up) < MaxFlight
\* A connection that has ended swallows what is written to it.
Write(msgs) == up' = IF link = "open" THEN up \o msgs ELSE up

\* The cursor goes to a position that was read when so many info messages
\* were unacknowledged.
Position(type, version, expected) ==
  IF version = screen.shape THEN Fits
  ELSE [type |-> type, version |-> version, shape |-> screen.shape, unacked |-> expected]

\* flushCompressedMouse(): the position that waits, if any, is obeyed.
Flushed(m) == [m EXCEPT !.compress = 0, !.unacked = 0]
Obeyed(m) == IF m.compress = 0 THEN misled ELSE Position("motion", m.compress, m.unacked)

\* The last packet of the input is followed by a flush.
AtTheEnd(m) ==
  IF More THEN mouse' = m /\ UNCHANGED misled ELSE mouse' = Flushed(m) /\ misled' = Obeyed(m)

X_NoAlarm ==
  /\ Reading("HELO") /\ client.proxy = "none" /\ Room
  /\ inbox' = Tail(inbox) /\ Write(<<Msg("HelloBack", 0)>>)
  /\ client' = [client EXCEPT !.proxy = "handshake", !.ready = FALSE, !.timer = FALSE]
  /\ UNCHANGED <<mouse, screen, events, retries, server, down, link, unacked, misled, used>>

HandleHello ==
  /\ Reading("HELO") /\ client.proxy = "none" /\ Room
  /\ inbox' = Tail(inbox) /\ Write(<<Msg("HelloBack", 0)>>)
  /\ client' = [client EXCEPT !.proxy = "handshake", !.ready = FALSE, !.timer = FALSE, !.alarm = TRUE]
  /\ UNCHANGED <<mouse, screen, events, retries, server, down, link, unacked, misled, used>>

\* Not a server, or of a version the client has no proxy for.
RefuseHello ==
  /\ Reading("HELO") /\ client.proxy = "none" /\ Cleanup(<<events, "Failed">>, client)
  /\ UNCHANGED <<retries, misled, used>>

HandshakeMessages == {"QINF", "CIAK", "DSOP", "CBYE", "EBSY"}
ReadyMessages == {"QINF", "CIAK", "DSOP", "CBYE", "DMMV", "CENT", "COUT"}
Understood == IF client.proxy = "handshake" THEN HandshakeMessages ELSE ReadyMessages

QueryInfo ==
  /\ Reading("QINF") /\ client.proxy # "none" /\ Room /\ inbox' = Tail(inbox)
  /\ Write(<<Msg("DINF", screen.shape)>>) /\ unacked' = unacked + 1 /\ AtTheEnd(mouse)
  /\ UNCHANGED <<client, screen, events, retries, server, down, link, used>>

InfoAcknowledgment ==
  /\ Reading("CIAK") /\ client.proxy # "none" /\ inbox' = Tail(inbox)
  /\ unacked' = unacked - 1 /\ AtTheEnd([mouse EXCEPT !.ignore = FALSE])
  /\ UNCHANGED <<client, screen, events, retries, server, up, down, link, used>>

\* The options complete the handshake: the screen is enabled.
SetOptions ==
  /\ Reading("DSOP") /\ client.proxy # "none" /\ inbox' = Tail(inbox)
  /\ client' = [client EXCEPT !.proxy = "ready", !.ready = TRUE] /\ AtTheEnd(mouse)
  /\ screen' = IF client.proxy = "handshake" THEN [screen EXCEPT !.enabled = TRUE] ELSE screen
  /\ UNCHANGED <<events, retries, server, up, down, link, unacked, used>>

\* A motion waits for the end of the input if more follows, or if another one
\* waits, whatever is ignored by now; else it is ignored, or obeyed at once.
MouseMove ==
  /\ Reading("DMMV") /\ client.proxy = "ready" /\ inbox' = Tail(inbox)
  /\ LET version == Head(inbox).version
     IN IF mouse.compress # 0 \/ (~mouse.ignore /\ More)
          THEN AtTheEnd([mouse EXCEPT !.compress = version, !.unacked = unacked])
          ELSE /\ misled' = IF mouse.ignore THEN misled ELSE Position("motion", version, unacked)
               /\ UNCHANGED mouse
  /\ UNCHANGED <<client, screen, events, retries, server, up, down, link, unacked, used>>

\* The cursor goes where the server says, whatever the client ignores, and a
\* motion that waits is discarded.
Enter ==
  /\ Reading("CENT") /\ client.proxy = "ready" /\ inbox' = Tail(inbox)
  /\ mouse' = Flushed(mouse) /\ screen' = [screen EXCEPT !.entered = TRUE]
  /\ misled' = Position("enter", Head(inbox).version, unacked)
  /\ UNCHANGED <<client, events, retries, server, up, down, link, unacked, used>>

\* The last motion is obeyed first.
Leave ==
  /\ Reading("COUT") /\ client.proxy = "ready" /\ inbox' = Tail(inbox)
  /\ mouse' = Flushed(mouse) /\ screen' = [screen EXCEPT !.entered = FALSE]
  /\ misled' = Obeyed(mouse)
  /\ UNCHANGED <<client, events, retries, server, up, down, link, unacked, used>>

\* The server closes or refuses: the client asks itself to disconnect.  What
\* stands behind in the input is not read, and a motion that waits is forgotten:
\* only input that was announced before could have it obeyed, and an
\* acknowledgment there was outstanding when the motion was read.
Told(type) == IF type = "EBSY" THEN "RequestRefused" ELSE "RequestDisconnect"
Close ==
  /\ \E type \in {"CBYE", "EBSY"} :
       /\ Reading(type) /\ (type = "EBSY" => client.proxy = "handshake")
       /\ client.proxy # "none" /\ events' = Append(events, Told(type))
  /\ inbox' = <<>> /\ mouse' = Flushed(mouse)
  /\ UNCHANGED <<client, screen, retries, server, up, down, link, unacked, misled, used>>

\* A message that is not understood would have the rest of the input discarded;
\* AllUnderstood says that there is none, and no action stands for it.
Read == HandleHello \/ RefuseHello \/ QueryInfo \/ InfoAcknowledgment \/ SetOptions
        \/ MouseMove \/ Enter \/ Leave \/ Close

(***************************************************************************)
(* Other events of the client.                                             *)
(***************************************************************************)
KeepAliveAlarm ==
  /\ client.alarm /\ events = <<>> /\ inbox = <<>> /\ events' = <<"RequestFailed">>
  /\ client' = [client EXCEPT !.alarm = FALSE]
  /\ UNCHANGED <<mouse, screen, inbox, retries, server, up, down, link, unacked, misled, used>>

HandleDisconnectRequested ==
  /\ inbox = <<>> /\ events # <<>>
  /\ \E r \in {<<"RequestDisconnect", "Disconnected">>, <<"RequestFailed", "Failed">>,
               <<"RequestRefused", "Refused">>} :
       Head(events) = r[1] /\ Cleanup(<<Tail(events), r[2]>>, [client EXCEPT !.onResume = FALSE])
  /\ UNCHANGED <<retries, misled, used>>

\* The stream ended, or a write to it failed.
HandleDisconnected ==
  /\ client.stream = "hello" /\ inbox = <<>> /\ link = "closed"
  /\ Cleanup(<<events, "Disconnected">>, client)
  /\ UNCHANGED <<retries, misled, used>>

\* ComputerShapeChanged: heard while there is a proxy.
OnInfoChanged(m) == [m EXCEPT !.ignore = TRUE]
HandleShapeChanged ==
  /\ screen.shape < MaxShape /\ screen' = [screen EXCEPT !.shape = @ + 1] /\ inbox = <<>>
  /\ IF client.proxy # "none"
       THEN /\ Room /\ Write(<<Msg("DINF", screen'.shape)>>) /\ unacked' = unacked + 1
            /\ mouse' = OnInfoChanged(mouse)
       ELSE UNCHANGED <<up, unacked, mouse>>
  /\ UNCHANGED <<client, inbox, events, retries, server, down, link, misled, used>>

HandleSuspend ==
  /\ ~client.suspended /\ inbox = <<>> /\ used.suspends < MaxSuspends
  /\ used' = [used EXCEPT !.suspends = @ + 1]
  /\ Cleanup(<<events, "Disconnected">>,
             [client EXCEPT !.suspended = TRUE, !.onResume = client.proxy # "none"])
  /\ UNCHANGED <<retries, misled>>

HandleResume ==
  /\ client.suspended /\ inbox = <<>>
  /\ IF client.onResume /\ used.sessions < MaxSessions
       THEN /\ Connect([client EXCEPT !.suspended = FALSE, !.onResume = FALSE])
            /\ used' = [used EXCEPT !.sessions = @ + 1]
       ELSE ~client.onResume /\ client' = [client EXCEPT !.suspended = FALSE] /\ UNCHANGED <<link, used>>
  /\ UNCHANGED <<mouse, screen, inbox, events, retries, server, up, down, unacked, misled>>

\* ClientApp::handleClientDisconnected, handleClientFailed, handleClientRefused:
\* each schedules a retry.
ScheduleClientRestart ==
  /\ events # <<>> /\ Head(events) \in ToApp /\ inbox = <<>>
  /\ events' = Tail(events) /\ retries < MaxRetries /\ retries' = retries + 1
  /\ UNCHANGED <<client, mouse, screen, inbox, server, up, down, link, unacked, misled, used>>

\* A request to a stream that is gone has no handler.
Unheard ==
  /\ inbox = <<>> /\ events # <<>> /\ Head(events) = "Unheard" /\ events' = Tail(events)
  /\ UNCHANGED <<client, mouse, screen, inbox, retries, server, up, down, link, unacked, misled, used>>

(***************************************************************************)
(* The server's end.                                                       *)
(***************************************************************************)
Send(msgs) == Len(down) + Len(msgs) <= MaxFlight /\ down' = down \o msgs
Heard(type) == link = "open" /\ up # <<>> /\ Head(up).type = type /\ ~server.stuck

\* The unknown client reads one packet: what came with it is never announced.
ServerHandleHello ==
  /\ Heard("HelloBack") /\ Send(<<Msg("QINF", 0)>>)
  /\ \E stuck \in {FALSE, Len(up) > 1} :
       server' = [server EXCEPT !.phase = "query", !.stuck = stuck]
  /\ up' = Tail(up) /\ UNCHANGED <<clientVars, link, unacked, misled, used>>

X_InfoNotSaved ==
  /\ Heard("DINF") /\ server.phase # "hello" /\ Send(<<Msg("CIAK", 0)>>) /\ up' = Tail(up)
  /\ server' = IF server.phase = "query" THEN [server EXCEPT !.info = Head(up).version, !.phase = "known"]
               ELSE server
  /\ UNCHANGED <<clientVars, link, unacked, misled, used>>

RecvInfo ==
  /\ Heard("DINF") /\ server.phase # "hello" /\ Send(<<Msg("CIAK", 0)>>) /\ up' = Tail(up)
  /\ server' = [server EXCEPT !.info = Head(up).version,
                              !.phase = IF @ = "query" THEN "known" ELSE @]
  /\ UNCHANGED <<clientVars, link, unacked, misled, used>>

X_EnteredFirst ==
  /\ link = "open" /\ server.phase = "known"
  /\ IF server.old
       THEN Send(<<Msg("EBSY", 0)>>) /\ server' = [server EXCEPT !.phase = "closing"]
       ELSE Send(<<Msg("CENT", server.info), Msg("DSOP", 0)>>)
            /\ server' = [server EXCEPT !.phase = "adopted", !.active = TRUE]
  /\ UNCHANGED <<clientVars, up, link, unacked, misled, used>>

\* Server::adoptClient: a client whose name is still connected is refused.
AdoptClient ==
  /\ link = "open" /\ server.phase = "known"
  /\ IF server.old
       THEN Send(<<Msg("EBSY", 0)>>) /\ server' = [server EXCEPT !.phase = "closing"]
       ELSE Send(<<Msg("DSOP", 0)>>) /\ server' = [server EXCEPT !.phase = "adopted"]
  /\ UNCHANGED <<clientVars, up, link, unacked, misled, used>>

Tell ==
  /\ link = "open" /\ server.phase = "adopted"
  /\ \/ ~server.active /\ Send(<<Msg("CENT", server.info)>>) /\ server' = [server EXCEPT !.active = TRUE]
     \/ server.active /\ Send(<<Msg("COUT", 0)>>) /\ server' = [server EXCEPT !.active = FALSE]
     \/ server.active /\ Send(<<Msg("DMMV", server.info)>>) /\ UNCHANGED server
     \/ Send(<<Msg("CBYE", 0)>>) /\ server' = [server EXCEPT !.phase = "closing", !.active = FALSE]
  /\ UNCHANGED <<clientVars, up, link, unacked, misled, used>>

\* The server gives the connection up: the 30 seconds of a handshake, the
\* alarm of a proxy, or a closed client that does not go.
ServerGivesUp ==
  /\ link \in {"open", "silent"} /\ server.phase # "none" /\ link' = IF link = "open" THEN "closed" ELSE link
  /\ server' = [NoServer EXCEPT !.old = server.old,
                                !.active = server.active /\ server.old]
  /\ UNCHANGED <<clientVars, up, down, unacked, misled, used>>

\* It notices that an old connection has ended.
ServerNotices ==
  /\ server.old /\ server' = [server EXCEPT !.old = FALSE, !.active = FALSE]
  /\ UNCHANGED <<clientVars, up, down, link, unacked, misled, used>>

\* The network stops carrying anything, and says nothing.
Silence ==
  /\ link = "open" /\ link' = "silent"
  /\ UNCHANGED <<clientVars, server, up, down, unacked, misled, used>>

ServerNext == ServerHandleHello \/ RecvInfo \/ AdoptClient \/ Tell
              \/ ServerGivesUp \/ ServerNotices
ClientNext == HandleClientRestart \/ HandleConnected \/ HandleConnectionFailed \/ HandleConnectTimeout
              \/ Input \/ Read \/ KeepAliveAlarm \/ HandleDisconnectRequested \/ HandleDisconnected
              \/ HandleShapeChanged \/ HandleSuspend \/ HandleResume \/ ScheduleClientRestart
              \/ Unheard
Next == ServerNext \/ ClientNext \/ Silence

Spec == Init /\ [][Next]_vars

(***************************************************************************)
(* Properties                                                              *)
(***************************************************************************)

\* Computer::enable and disable alternate, as their assertions say
\* (Computer.cpp:99, 116), through every way a connection ends.
EnabledWhenReady == screen.enabled = client.ready /\ client.ready = (client.proxy = "ready")

Clients == [stream : {"none", "connecting", "hello"}, proxy : {"none", "handshake", "ready"},
            timer : BOOLEAN, ready : BOOLEAN, alarm : BOOLEAN, suspended : BOOLEAN,
            onResume : BOOLEAN]
Mice == [ignore : BOOLEAN, compress : 0..MaxShape, unacked : Nat]
Posts == ToApp \cup Requests \cup {"Unheard"}
Phases == {"none", "hello", "query", "known", "adopted", "closing"}
ToClient == [type : {"HELO", "EBSY"} \cup ReadyMessages, version : 0..MaxShape]
ToServer == [type : {"HelloBack", "DINF"}, version : 0..MaxShape]

\* Every field has its type (Client.h, ServerProxy.h); the timer of a
\* connection attempt and the proxy exclude each other, and both need a
\* stream: no handler finds m_server or m_stream null (Client.cpp:95, 427-497).
TypeOK ==
  /\ EnabledWhenReady
  /\ client.timer => client.proxy = "none"
  /\ (client.stream = "none") => (client.proxy = "none" /\ ~client.timer /\ ~client.alarm)
  /\ (client.stream # "none" /\ client.proxy = "none") => client.timer
  /\ client \in Clients
  /\ mouse \in Mice /\ (inbox = <<>> => mouse.compress = 0)
  /\ screen \in [enabled : BOOLEAN, entered : BOOLEAN, shape : 1..MaxShape]
  /\ inbox \in Seq(ToClient) /\ down \in Seq(ToClient) /\ Len(down) <= MaxFlight
  /\ up \in Seq(ToServer) /\ events \in Seq(Posts)
  /\ server \in [phase : Phases, info : 0..MaxShape, stuck : BOOLEAN, active : BOOLEAN, old : BOOLEAN]
  /\ link \in {"closed", "opening", "open", "silent"} /\ retries \in 0..MaxRetries
  /\ unacked \in Nat /\ used \in [suspends : Nat, sessions : Nat]
  /\ misled \in [type : {"none", "motion", "enter"}, version : 0..MaxShape, shape : 0..MaxShape,
                 unacked : Nat]

\* In each phase the client gets only messages its parser knows, so it never
\* discards the rest of its input (ServerProxy.cpp:101-107): the server sends
\* nothing between the acknowledgment and the options.
AllUnderstood ==
  (inbox # <<>> /\ client.proxy # "none") => Head(inbox).type \in Understood

\* A position the client obeys is for its present shape, unless an info
\* message of its own was unacknowledged when the position was read
\* (onInfoChanged, ServerProxy.cpp:348-356): waiting for the end of the input
\* (mouseMove, flushCompressedMouse), over enters, leaves, acknowledgments and a
\* close, brings no position to a shape it was not computed for.
OnlyUnackedMisleads == misled.unacked = 0 => misled.version = misled.shape

\* "ignore mouse motion until we receive acknowledgment of our info change
\* message" (ServerProxy.cpp:350).  Does not hold: an acknowledgment is taken
\* for that of the last change, though it may answer an earlier one, and a
\* motion that is recorded between the two is obeyed at the end of the input,
\* when nothing is unacknowledged any more.
IgnoredUntilAck == misled.type = "motion" => misled.version = misled.shape

\* No change of the shape is lost: when nothing is under way the server knows
\* the shape, and the client does not ignore motion for good.
ShapeKnown ==
  (server.phase = "adopted" /\ link = "open" /\ up = <<>> /\ down = <<>> /\ inbox = <<>>)
    => server.info = screen.shape /\ ~mouse.ignore

\* Both ends agree on where the cursor is when nothing is under way
\* (enter, leave, Computer::disable, forceLeaveClient).
EnteredAgrees ==
  (server.phase = "adopted" /\ link = "open" /\ down = <<>> /\ inbox = <<>>)
    => screen.entered = server.active

\* When everything under way has arrived, client and server agree on the shape
\* and on the cursor.
EndsAgree == ShapeKnown /\ EnteredAgrees

\* A client that is not connected tries again, unless it is suspended; then it
\* will when it resumes (ClientApp.cpp:161-231, Client.cpp:94-97, 734-754).
WillRetry ==
  client.stream = "none" =>
    \/ retries > 0 \/ \E i \in DOMAIN events : events[i] \in ToApp
    \/ client.suspended /\ client.onResume

\* No connection is left to a server that has fallen silent: in each phase a
\* timer runs, or what it asked for waits (handleConnectTimeout until the
\* answer to the greeting, handleKeepAliveAlarm from then on).
Watched ==
  client.stream # "none" =>
    \/ client.timer \/ client.alarm
    \/ \E i \in DOMAIN events : events[i] \in Requests

\* A client never stops for good without the user: its objects fit together, it
\* is connected and watches the server, or it will try again.
NeverStranded == TypeOK /\ WillRetry /\ Watched
=============================================================================
