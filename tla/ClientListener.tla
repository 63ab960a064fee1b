--------------------------- MODULE ClientListener ---------------------------
(***************************************************************************)
(* How the server takes on a client, and who deletes what it is made of    *)
(* (src/lib/server/ClientListener.cpp, ClientProxyUnknown.cpp,             *)
(* ClientProxy1_0.cpp; Server.cpp and ServerApp.cpp for the adoption and   *)
(* the end).                                                               *)
(*                                                                         *)
(* A connection is a socket, a packet filter over it, a ClientProxyUnknown *)
(* that says hello, and a ClientProxy that asks for the client's info.     *)
(* They are heap objects that delete each other and are called back by the *)
(* event queue through handlers: on[c][h] is who is called, and every      *)
(* action that handles an event takes it from the head of the queue.       *)
(***************************************************************************)
EXTENDS Naturals, FiniteSets, Sequences, Functions

CONSTANTS Conns,        \* the connections that will be tried
          Levels,       \* is TLS on: a set of Booleans
          MaxPackets    \* bound: packets a client sends
ASSUME ListenerAssumption == Levels \subseteq BOOLEAN /\ MaxPackets \in Nat

VARIABLES
  secure,       \* m_securityLevel
  conn,         \* [c -> the objects of c and what the unknown client holds]
  on,           \* [c -> handler -> who is called]
  waiting,      \* m_waitingClients
  members,      \* clients in the server's m_clients
  leaving,      \* clients in the server's m_oldClients
  queue,        \* events, [type, of]
  app,          \* the server: "running", "closing", "stopped", or it aborted
  net           \* [c -> [sent, socket, inbox, shut, peer]]: packets the client has
                \* sent, those in the socket and in the filter, the filter's
                \* m_inputShutdown, and the other end

vars == <<secure, conn, on, waiting, members, leaving, queue, app, net>>

NoConn == [socket |-> "none", filter |-> "none", unknown |-> "none", proxy |-> "none",
           holds |-> "nothing", ready |-> FALSE, info |-> FALSE]
NoHandlers == [accept |-> "nobody", stream |-> "nobody", ready |-> "nobody", gone |-> "nobody",
               outcome |-> "nobody", timer |-> "nobody", close |-> "nobody", alarm |-> "nobody"]

Init ==
  /\ secure \in Levels
  /\ conn = [c \in Conns |-> NoConn] /\ on = [c \in Conns |-> NoHandlers]
  /\ waiting = <<>> /\ members = {} /\ leaving = {} /\ queue = <<>> /\ app = "running"
  /\ net = [c \in Conns |-> [sent |-> 0, socket |-> <<>>, inbox |-> <<>>, shut |-> FALSE,
                             peer |-> "away"]]

Event(type, c) == [type |-> type, of |-> c]
Post(type, c) == queue' = Append(Tail(queue), Event(type, c))
Drop == queue' = Tail(queue)
\* The event loop runs the handler of the event at the head.
Up == app \in {"running", "closing"}
At(type, c) == Up /\ queue # <<>> /\ Head(queue) = Event(type, c)
Owned(c) == c \in members \cup leaving

(***************************************************************************)
(* What deleting an object takes with it: the unknown client its proxy or  *)
(* stream, a proxy its stream; both unregister their handlers.             *)
(***************************************************************************)
WithoutProxy(r) == [r EXCEPT !.proxy = "freed", !.filter = "freed"]
ProxySilent(h) == [h EXCEPT !.stream = "nobody", !.alarm = "nobody"]
WithoutUnknown(r) ==
  LET held == IF r.holds = "proxy" THEN WithoutProxy(r)
              ELSE IF r.holds = "stream" THEN [r EXCEPT !.filter = "freed"] ELSE r
  IN [held EXCEPT !.unknown = "freed", !.holds = "nothing"]
X_TimerKept(h, r) ==
  [h EXCEPT !.stream = IF r.holds = "nothing" THEN @ ELSE "nobody",
            !.alarm = IF r.holds = "proxy" THEN "nobody" ELSE @,
            !.ready = IF r.holds = "proxy" THEN "nobody" ELSE @,
            !.gone = IF r.holds = "proxy" THEN "nobody" ELSE @,
            !.outcome = "nobody"]

UnknownSilent(h, r) ==
  [h EXCEPT !.stream = IF r.holds = "nothing" THEN @ ELSE "nobody",
            !.alarm = IF r.holds = "proxy" THEN "nobody" ELSE @,
            !.ready = IF r.holds = "proxy" THEN "nobody" ELSE @,
            !.gone = IF r.holds = "proxy" THEN "nobody" ELSE @,
            !.timer = "nobody", !.outcome = "nobody"]

(***************************************************************************)
(* Accepting.  Plain connections are announced at once, with TLS the       *)
(* service thread does so when the handshake is over.                      *)
(***************************************************************************)
Connect(c) ==
  /\ net[c].peer = "away" /\ net' = [net EXCEPT ![c].peer = "here"]
  /\ queue' = Append(queue, Event("Connecting", c)) /\ Up
  /\ UNCHANGED <<secure, conn, on, waiting, members, leaving, app>>

HandleClientConnecting(c) ==
  /\ At("Connecting", c)
  /\ conn' = [conn EXCEPT ![c].socket = "open"]
  /\ on' = [on EXCEPT ![c].accept = "listener"]
  /\ IF secure THEN Drop ELSE Post("Accepted", c)
  /\ UNCHANGED <<secure, waiting, members, leaving, app, net>>

SecureAccept(c) ==
  /\ secure /\ Up /\ conn[c].socket = "open" /\ net[c].peer \in {"here", "gone"} /\ net[c].sent = 0
  /\ conn[c].filter = "none" /\ ~\E i \in DOMAIN queue : queue[i].of = c
  /\ \E type \in {"Accepted", "DisconnectedOnAccept"} :
       queue' = Append(queue, Event(type, c))
  /\ UNCHANGED <<secure, conn, on, waiting, members, leaving, app, net>>

DisconnectedOnAccept(c) ==
  /\ At("DisconnectedOnAccept", c) /\ on[c].accept = "listener" /\ Drop
  /\ conn' = [conn EXCEPT ![c].socket = "freed"]
  /\ on' = [on EXCEPT ![c].accept = "nobody"]
  /\ UNCHANGED <<secure, waiting, members, leaving, app, net>>

\* The filter replaces the handlers of its socket; the unknown client sets a
\* timer of 30 seconds and says hello.
HandleClientAccepted(c) ==
  /\ At("Accepted", c) /\ on[c].accept = "listener" /\ Drop
  /\ conn' = [conn EXCEPT ![c] = [@ EXCEPT !.filter = "live", !.unknown = "live",
                                          !.holds = "stream"]]
  /\ on' = [on EXCEPT ![c] = [NoHandlers EXCEPT !.stream = "unknown", !.timer = "unknown",
                                                !.outcome = "listener"]]
  /\ UNCHANGED <<secure, waiting, members, leaving, app, net>>

(***************************************************************************)
(* The unknown client.                                                     *)
(***************************************************************************)
X_OutcomeDropped(c, r, h) ==
  /\ conn' = [conn EXCEPT ![c] =
       [IF r.holds = "proxy" THEN [WithoutProxy(r) EXCEPT !.holds = "nothing"] ELSE r
         EXCEPT !.ready = FALSE]]
  /\ on' = [on EXCEPT ![c] = UnknownSilent(h, r)]

SendFailure(c, r, h) ==
  /\ conn' = [conn EXCEPT ![c] =
       [IF r.holds = "proxy" THEN [WithoutProxy(r) EXCEPT !.holds = "nothing"] ELSE r
         EXCEPT !.ready = FALSE]]
  /\ on' = [on EXCEPT ![c] = [UnknownSilent(h, r) EXCEPT !.outcome = h.outcome]]

\* The reply to hello: the unknown client reads one packet and lets go of the
\* stream; the new proxy asks for the client's info.
ReadHello(c, packet) ==
  IF packet = "hello"
    THEN /\ conn' = [conn EXCEPT ![c] = [@ EXCEPT !.proxy = "live", !.holds = "proxy"]]
         /\ on' = [on EXCEPT ![c] = [@ EXCEPT !.stream = "proxy", !.ready = "unknown",
                                                !.gone = "unknown"]]
         /\ Drop
    ELSE SendFailure(c, conn[c], on[c]) /\ Post("Failure", c)

\* A proxy reads every packet; the first that is its info makes it ready.
ReadInfo(c, packets) ==
  /\ IF "info" \in Range(packets) /\ ~conn[c].info
       THEN conn' = [conn EXCEPT ![c].info = TRUE] /\ Post("Ready", c)
       ELSE Drop /\ UNCHANGED conn
  /\ on' = [on EXCEPT ![c].alarm = "proxy"]

\* The filter takes what the socket has and tells its owner only when it had
\* no whole packet before.  Reading may let out an end that was held back.
HandleInput(c) ==
  /\ At("Input", c)
  /\ LET all == net[c].inbox \o net[c].socket
         told == net[c].inbox = <<>> /\ all # <<>>
         who == IF conn[c].filter # "live" \/ ~told THEN "nobody" ELSE on[c].stream
         rest == CASE who = "unknown" -> Tail(all) [] who = "proxy" -> <<>> [] OTHER -> all
     IN /\ net' = IF conn[c].filter # "live" THEN net
                  ELSE [net EXCEPT ![c].inbox = rest, ![c].socket = <<>>]
        /\ CASE who = "unknown" -> ReadHello(c, Head(all))
             [] who = "proxy" -> ReadInfo(c, all)
             [] OTHER -> Drop /\ UNCHANGED <<conn, on>>
  /\ UNCHANGED <<secure, waiting, members, leaving, app>>

\* ClientProxy1_0::disconnect: the proxy unregisters itself and closes the stream.
Disconnect(c) ==
  /\ conn' = [conn EXCEPT ![c] = [@ EXCEPT !.proxy = "closed", !.socket = "closed"]]
  /\ on' = [on EXCEPT ![c] = ProxySilent(@)] /\ Post("Gone", c)

GiveUp(c) ==
  CASE on[c].stream = "unknown" -> SendFailure(c, conn[c], on[c]) /\ Post("Failure", c)
    [] on[c].stream = "proxy" -> Disconnect(c)
    [] OTHER -> Drop /\ UNCHANGED <<conn, on>>

\* The end of the input, which the filter holds back while it has a packet,
\* or an error that it passes on.
HandleStreamEnd(c) ==
  /\ \E type \in {"End", "Error"} :
       /\ At(type, c)
       /\ IF type = "End" /\ conn[c].filter = "live" /\ net[c].inbox # <<>>
            THEN net' = [net EXCEPT ![c].shut = TRUE] /\ Drop /\ UNCHANGED <<conn, on>>
            ELSE /\ UNCHANGED net
                 /\ IF conn[c].filter = "live" THEN GiveUp(c) ELSE Drop /\ UNCHANGED <<conn, on>>
  /\ UNCHANGED <<secure, waiting, members, leaving, app>>

\* ClientProxyReady: sendSuccess().
SendSuccess(c) ==
  /\ At("Ready", c) /\ on[c].ready = "unknown"
  /\ conn' = [conn EXCEPT ![c].ready = TRUE] /\ Post("Success", c)
  /\ on' = [on EXCEPT ![c].timer = "nobody"]
  /\ UNCHANGED <<secure, waiting, members, leaving, app, net>>

\* The 30 seconds are over: timers run when no event waits.
HandleTimeout(c) ==
  /\ Up /\ queue = <<>> /\ on[c].timer = "unknown" /\ SendFailure(c, conn[c], on[c])
  /\ queue' = <<Event("Failure", c)>>
  /\ UNCHANGED <<secure, waiting, members, leaving, app, net>>

HandleFlatline(c) ==
  /\ Up /\ queue = <<>> /\ on[c].alarm = "proxy"
  /\ conn' = [conn EXCEPT ![c] = [@ EXCEPT !.proxy = "closed", !.socket = "closed"]]
  /\ on' = [on EXCEPT ![c] = ProxySilent(@)] /\ queue' = <<Event("Gone", c)>>
  /\ UNCHANGED <<secure, waiting, members, leaving, app, net>>

(***************************************************************************)
(* The listener: a client whose handshake succeeded waits to be adopted.   *)
(***************************************************************************)
X_NotOrphaned(r) == r

Orphan(r) == [r EXCEPT !.holds = "nothing"]

HandleUnknownClient(c) ==
  /\ At("Success", c) /\ on[c].outcome = "listener"
  /\ IF conn[c].ready
       THEN /\ waiting' = Append(waiting, c) /\ Post("ListenerAccepted", c)
            /\ conn' = [conn EXCEPT ![c] = WithoutUnknown(Orphan(@))]
            /\ on' = [on EXCEPT ![c] = [@ EXCEPT !.ready = "nobody", !.gone = "listener",
                                                 !.outcome = "nobody", !.timer = "nobody"]]
       ELSE /\ conn' = [conn EXCEPT ![c] = WithoutUnknown(
                          IF @.holds = "stream" THEN [@ EXCEPT !.socket = "closed"] ELSE @)]
            /\ on' = [on EXCEPT ![c] = UnknownSilent(@, conn[c])]
            /\ Drop /\ UNCHANGED waiting
  /\ UNCHANGED <<secure, members, leaving, app, net>>

\* The socket goes too, if the unknown client still had the stream.
HandleUnknownFailure(c) ==
  /\ At("Failure", c) /\ on[c].outcome = "listener" /\ Drop
  /\ conn' = [conn EXCEPT ![c] = WithoutUnknown(
                IF @.holds = "stream" THEN [@ EXCEPT !.socket = "freed"] ELSE @)]
  /\ on' = [on EXCEPT ![c] = UnknownSilent(@, conn[c])]
  /\ UNCHANGED <<secure, waiting, members, leaving, app, net>>

\* ClientProxyDisconnected, by the one who owns the proxy.  The listener takes
\* the filter for the socket: the proxy deletes it, and so does the listener.
HandleGoneUnknown(c) ==
  /\ At("Gone", c) /\ on[c].gone = "unknown"
  /\ SendFailure(c, conn[c], on[c]) /\ Post("Failure", c)
  /\ UNCHANGED <<secure, waiting, members, leaving, app, net>>

WithoutAt(s, i) == [j \in 1..(Len(s) - 1) |-> IF j < i THEN s[j] ELSE s[j + 1]]
HandleGoneWaiting(c) ==
  /\ At("Gone", c) /\ on[c].gone = "listener" /\ Drop
  /\ \E i \in DOMAIN waiting : waiting[i] = c /\ waiting' = WithoutAt(waiting, i)
  /\ conn' = [conn EXCEPT ![c] = WithoutProxy(@)] /\ on' = [on EXCEPT ![c].gone = "nobody"]
  /\ app' = "aborted"
  /\ UNCHANGED <<secure, members, leaving, net>>

(***************************************************************************)
(* The server adopts the next waiting client, or refuses it and gives it   *)
(* five seconds to go.  There is always one: only the listener's own       *)
(* HandleGoneWaiting takes a client out of the queue, and that aborts.     *)
(***************************************************************************)
X_HandlerLost(d, ok) ==
  /\ waiting' = Tail(waiting)
  /\ on' = [on EXCEPT ![d].gone = IF ok THEN "server" ELSE "nobody",
                       ![d].close = IF ok THEN "nobody" ELSE "server"]
  /\ members' = IF ok THEN members \cup {d} ELSE members
  /\ leaving' = IF ok THEN leaving ELSE leaving \cup {d}

AdoptClient(d, ok) ==
  /\ waiting' = Tail(waiting)
  /\ on' = [on EXCEPT ![d] = [@ EXCEPT !.gone = "server",
                                        !.close = IF ok THEN "nobody" ELSE "server"]]
  /\ members' = IF ok THEN members \cup {d} ELSE members
  /\ leaving' = IF ok THEN leaving ELSE leaving \cup {d}

HandleClientConnected(c) ==
  /\ At("ListenerAccepted", c) /\ Drop
  /\ \E ok \in BOOLEAN : AdoptClient(Head(waiting), ok)
  /\ UNCHANGED <<secure, conn, app, net>>

LastLeft(c) == members \ {c} = {} /\ leaving \ {c} = {}
DeleteClient(c) ==
  /\ conn' = [conn EXCEPT ![c] = WithoutProxy(@)]
  /\ on' = [on EXCEPT ![c] = [ProxySilent(@) EXCEPT !.gone = "nobody", !.close = "nobody"]]
  /\ members' = members \ {c} /\ leaving' = leaving \ {c}

HandleClientDisconnected(c) ==
  /\ At("Gone", c) /\ on[c].gone = "server" /\ DeleteClient(c)
  /\ queue' = IF LastLeft(c) THEN Append(Tail(queue), Event("ServerDisconnected", c)) ELSE Tail(queue)
  /\ UNCHANGED <<secure, waiting, app, net>>

HandleClientCloseTimeout(c) ==
  /\ Up /\ queue = <<>> /\ on[c].close = "server" /\ DeleteClient(c)
  /\ queue' = IF LastLeft(c) THEN <<Event("ServerDisconnected", c)>> ELSE <<>>
  /\ UNCHANGED <<secure, waiting, app, net>>

\* An event for which nobody has a handler.
Unheard(c) ==
  /\ \/ At("Accepted", c) /\ on[c].accept = "nobody"
     \/ At("DisconnectedOnAccept", c) /\ on[c].accept = "nobody"
     \/ At("Ready", c) /\ on[c].ready = "nobody"
     \/ At("Gone", c) /\ on[c].gone = "nobody"
     \/ \E type \in {"Success", "Failure"} : At(type, c) /\ on[c].outcome = "nobody"
     \/ At("ServerDisconnected", c) /\ app = "running"
  /\ Drop /\ UNCHANGED <<secure, conn, on, waiting, members, leaving, app, net>>

(***************************************************************************)
(* Stopping (ServerApp::stopServer): the server tells its clients to go    *)
(* and runs the event loop until the last has gone or three seconds are    *)
(* over; then it is deleted with its clients, and after it the listener.   *)
(***************************************************************************)
StopServer(c) ==
  /\ app = "running" /\ app' = "closing"
  /\ IF members \cup leaving = {}
       THEN queue' = Append(queue, Event("ServerDisconnected", c)) /\ UNCHANGED <<leaving, on>>
       ELSE /\ leaving' = leaving \cup members /\ UNCHANGED queue
            /\ on' = [d \in Conns |-> IF d \in members THEN [on[d] EXCEPT !.close = "server"] ELSE on[d]]
  /\ members' = {} /\ UNCHANGED <<secure, conn, waiting, net>>

CloseServer(c) ==
  /\ app = "closing" /\ At("ServerDisconnected", c) /\ Post("Quit", c)
  /\ UNCHANGED <<secure, conn, on, waiting, members, leaving, app, net>>

CloseServerTimeout(c) ==
  /\ app = "closing" /\ queue = <<>> /\ queue' = <<Event("Quit", c)>>
  /\ UNCHANGED <<secure, conn, on, waiting, members, leaving, app, net>>

Deleted(c) ==
  LET r == IF Owned(c) \/ c \in Range(waiting) THEN WithoutProxy(conn[c]) ELSE conn[c]
      s == IF r.unknown = "live" THEN WithoutUnknown(r) ELSE r
  IN [s EXCEPT !.socket = IF @ = "none" THEN @ ELSE "freed"]

DeleteServer(c) ==
  /\ At("Quit", c) /\ Drop /\ app' = "stopped"
  /\ conn' = [d \in Conns |-> Deleted(d)]
  /\ on' = [d \in Conns |-> NoHandlers]
  /\ waiting' = <<>> /\ members' = {} /\ leaving' = {}
  /\ UNCHANGED <<secure, net>>

(***************************************************************************)
(* The client's end: it answers the greeting, then sends its info, at      *)
(* any time after its answer; it may go, and a write to it may fail.       *)
(***************************************************************************)
Send(c) ==
  /\ Up /\ net[c].peer = "here" /\ net[c].sent < MaxPackets
  /\ conn[c].filter = "live" /\ conn[c].socket = "open"
  /\ \E packet \in IF net[c].sent = 0 THEN {"hello", "bad"} ELSE {"info"} :
       net' = [net EXCEPT ![c].sent = @ + 1, ![c].socket = Append(@, packet)]
  /\ queue' = IF net[c].socket = <<>> THEN Append(queue, Event("Input", c)) ELSE queue
  /\ UNCHANGED <<secure, conn, on, waiting, members, leaving, app>>

HangUp(c) ==
  /\ Up /\ conn[c].socket = "open" /\ conn[c].filter # "none"
  /\ \/ net[c].peer = "here" /\ net' = [net EXCEPT ![c].peer = "gone"]
        /\ queue' = Append(queue, Event("End", c))
     \/ net[c].peer = "gone" /\ net' = [net EXCEPT ![c].peer = "reset"]
        /\ queue' = Append(queue, Event("Error", c))
  /\ UNCHANGED <<secure, conn, on, waiting, members, leaving, app>>

Dispatch(c) ==
  \/ HandleClientConnecting(c) \/ DisconnectedOnAccept(c) \/ HandleClientAccepted(c)
  \/ HandleInput(c) \/ HandleStreamEnd(c) \/ SendSuccess(c) \/ HandleUnknownClient(c)
  \/ HandleUnknownFailure(c) \/ HandleGoneUnknown(c) \/ HandleGoneWaiting(c)
  \/ HandleClientConnected(c) \/ HandleClientDisconnected(c) \/ Unheard(c)
  \/ CloseServer(c) \/ DeleteServer(c)

Timers(c) == HandleTimeout(c) \/ HandleFlatline(c) \/ HandleClientCloseTimeout(c)
             \/ CloseServerTimeout(c)

Next == \E c \in Conns : Dispatch(c) \/ Timers(c) \/ Connect(c) \/ SecureAccept(c)
                         \/ StopServer(c) \/ Send(c) \/ HangUp(c)

Spec == Init /\ [][Next]_vars

(***************************************************************************)
(* Properties                                                              *)
(***************************************************************************)
States == {"none", "live", "freed"}
Objects == [socket : {"none", "open", "closed", "freed"}, filter : States, unknown : States,
            proxy : States \cup {"closed"}, holds : {"nothing", "stream", "proxy"},
            ready : BOOLEAN, info : BOOLEAN]
Handlers == [accept : {"nobody", "listener"}, stream : {"nobody", "unknown", "proxy"},
             ready : {"nobody", "unknown"}, gone : {"nobody", "unknown", "listener", "server"},
             outcome : {"nobody", "listener"}, timer : {"nobody", "unknown"},
             close : {"nobody", "server"}, alarm : {"nobody", "proxy"}]
Packets == {"hello", "bad", "info"}
Ends == [sent : 0..MaxPackets, socket : Seq(Packets), inbox : Seq(Packets), shut : BOOLEAN,
         peer : {"away", "here", "gone", "reset"}]
Events == [type : {"Connecting", "Accepted", "DisconnectedOnAccept", "Input", "End", "Error",
                   "Ready", "Success", "Failure", "Gone", "ListenerAccepted",
                   "ServerDisconnected", "Quit"},
           of : Conns]

\* Every field has its type (ClientListener.h, ClientProxyUnknown.h), and the
\* server's current and old clients are distinct.
TypeOK ==
  /\ secure \in BOOLEAN /\ queue \in Seq(Events) /\ waiting \in Seq(Conns)
  /\ conn \in [Conns -> Objects] /\ on \in [Conns -> Handlers] /\ net \in [Conns -> Ends]
  /\ members \subseteq Conns /\ leaving \subseteq Conns /\ members \cap leaving = {}
  /\ app \in {"running", "closing", "stopped", "aborted"}

\* A live proxy has one owner that will delete it, and no owner has a deleted
\* one: the unknown client, the listener's queue, or the server
\* (orphanClientProxy, getNextClient, adoptClient).
OneOwner ==
  \A c \in Conns : app # "aborted" =>
    LET owners == {o \in {"unknown", "waiting", "member", "old"} :
                     \/ o = "unknown" /\ conn[c].holds = "proxy" /\ conn[c].unknown = "live"
                     \/ o = "waiting" /\ c \in Range(waiting)
                     \/ o = "member" /\ c \in members
                     \/ o = "old" /\ c \in leaving}
    IN Cardinality(owners) = IF conn[c].proxy \in {"live", "closed"} THEN 1 ELSE 0

\* Whoever a handler would call is alive, and so is what the handler uses: no
\* object is deleted before its handlers are gone (removeUnknownClient,
\* ~ClientProxy1_0, removeClientSocket).
CalledAreLive ==
  \A c \in Conns : app # "aborted" =>
    /\ on[c].timer = "unknown" => conn[c].unknown = "live"
    /\ on[c].outcome = "listener" => conn[c].unknown = "live"
    /\ on[c].stream # "nobody" => conn[c].filter = "live" /\ conn[c].socket \in {"open", "closed"}
    /\ on[c].stream = "unknown" => conn[c].unknown = "live" /\ conn[c].holds = "stream"
    /\ "proxy" \in {on[c].stream, on[c].alarm} => conn[c].proxy = "live"
    /\ on[c].ready = "unknown" => conn[c].unknown = "live" /\ conn[c].holds = "proxy"
    /\ on[c].gone # "nobody" => conn[c].proxy \in {"live", "closed"}
    /\ conn[c].filter = "live" => conn[c].socket \in {"open", "closed"}

\* Who owns the objects of a connection and who may be called about them agree
\* with what is alive, and every variable has its type.
Lifetimes == TypeOK /\ OneOwner /\ CalledAreLive

\* The news that a client has gone is not lost when the proxy changes hands:
\* while a closed proxy exists, its event waits and its owner will be called
\* (ClientListener.cpp:64-73, 195-203; Server.cpp:252).
GoneIsHeard ==
  \A c \in Conns : conn[c].proxy = "closed" =>
    /\ Event("Gone", c) \in Range(queue)
    /\ on[c].gone = IF conn[c].holds = "proxy" THEN "unknown"
                    ELSE IF c \in Range(waiting) THEN "listener" ELSE "server"

\* Every handshake ends: an unknown client has a timer, or an event that ends
\* it waits, whether its client answers, is silent, or goes; and Success, which
\* stops the timer, is not undone by what comes before it is handled
\* (ClientProxyUnknown.cpp:70-85, 254-270).
HandshakeEnds ==
  \A c \in Conns : (conn[c].unknown = "live" /\ app # "aborted") =>
    /\ \/ on[c].timer = "unknown"
       \/ {Event("Success", c), Event("Failure", c)} \cap Range(queue) # {}
    /\ on[c].outcome = "listener"

\* "pull out the socket before deleting the client so we know which socket we
\* no longer need" (ClientListener.cpp:220): what is pulled out is the filter,
\* which the client deletes as well.
DeletedOnce == app # "aborted"
=============================================================================
