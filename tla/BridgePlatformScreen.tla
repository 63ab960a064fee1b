------------------------ MODULE BridgePlatformScreen ------------------------
(***************************************************************************)
(* The bridge client: a screen that stands for a device behind a serial    *)
(* link (src/lib/platform/bridge/BridgePlatformScreen.cpp,                 *)
(* BridgeRequests.cpp, src/lib/client/BridgeClientApp.cpp), on the         *)
(* transport of CdcTransport.                                              *)
(*                                                                         *)
(* One thread reads the GUI's requests from stdin into a queue and posts   *)
(* an event for each; the event thread takes the queue empty and carries   *)
(* the requests out, blocked in one command of the transport after the     *)
(* other.  `steps' is what the event thread has still to do in the handler *)
(* it is in.                                                               *)
(***************************************************************************)
EXTENDS CdcTransport

CONSTANTS
  Requests,    \* the requests the GUI may send
  SizeOf,      \* the screen size a profile sets; 0 is no valid size
  GivenSize,   \* the size on the command line
  Fallback,    \* kFallbackProfileCount
  MaxRequests, MaxEnters, MaxAlives   \* bounds

ASSUME ScreenAssumption ==
  /\ Requests \subseteq [command : {"profiles", "getName", "setName"} \cup ChangeOps,
                         slot : Nat, profile : Profiles]
  /\ SizeOf \in [Profiles -> Nat] /\ GivenSize \in Nat \ {0}
  /\ Fallback \in Nat
  /\ {MaxRequests, MaxEnters, MaxAlives} \subseteq Nat

VARIABLES
  app,        \* "running", "stopping" (out of the loop) or "stopped"
  events,     \* the event queue
  lines,      \* requests::Queue
  closed,     \* its m_closed
  reader,     \* the line the stdin thread has pushed and not posted yet
  batch,      \* the lines handleRequests took and has not come to
  steps,      \* what the current handler has still to do
  fields,     \* the answer to the current request, so far
  answers,    \* the requests whose response is printed
  screen,     \* the size, and the profile and slot whose settings are used
  told,       \* the size the server has been told; 0 before connecting
  sent, entered, alives   \* counted against the bounds

queue == <<lines, closed, reader>>
handler == <<batch, steps, fields, answers>>
view == <<screen, told>>
counts == <<sent, entered, alives>>
vars == <<transport, app, events, queue, handler, view, counts>>

NoLine == [id |-> 0, command |-> "none", slot |-> 0, profile |-> Blank]
NoFields == [ok |-> FALSE, active |-> 0, profiles |-> <<>>]

\* A step that needs the transport is its question, and what it is for.
Do(for, q) == [for |-> for, q |-> q]
Load == Do("load", Ask("getActive"))
Respond == Do("respond", Ask("none"))

\* main() opens the port and gives up if that fails; the screen's constructor
\* loads the active profile, then arms the keep-alive.
Init ==
  /\ TransportInit
  /\ app = "running" /\ events = <<>> /\ lines = <<>> /\ closed = FALSE
  /\ reader = NoLine /\ batch = <<>> /\ fields = NoFields /\ answers = {}
  /\ steps = <<Do("main", Ask("open")), Do("init", Ask("getActive")), Do("alive", Ask("keepAlive"))>>
  /\ screen = [size |-> GivenSize, slot |-> 0, profile |-> Blank]
  /\ told = 0 /\ sent = 0 /\ entered = 0 /\ alives = 0

(***************************************************************************)
(* readStdinCommands: push the line, then post the event unless the queue  *)
(* is closed.                                                              *)
(***************************************************************************)
Input == "input"

PushRequest(r) ==
  /\ reader = NoLine /\ sent < MaxRequests
  /\ sent' = sent + 1
  /\ reader' = [id |-> sent', command |-> r.command, slot |-> r.slot,
                profile |-> r.profile]
  /\ lines' = Append(lines, reader')
  /\ UNCHANGED <<transport, app, events, closed, handler, view, entered,
                 alives>>

PostInput_WhenIdle ==
  /\ reader # NoLine
  /\ reader' = NoLine
  /\ events' = IF closed \/ batch # <<>> THEN events ELSE Append(events, Input)
  /\ UNCHANGED <<transport, app, lines, closed, handler, view, counts>>

PostInput ==
  /\ reader # NoLine
  /\ reader' = NoLine
  /\ events' = IF closed THEN events ELSE Append(events, Input)
  /\ UNCHANGED <<transport, app, lines, closed, handler, view, counts>>

(***************************************************************************)
(* The event loop.  An event is taken when no handler runs; handling       *)
(* ComputerError leaves the loop for good.  What the event queue does not  *)
(* order, the events of the sockets and timers, may come at any time.      *)
(***************************************************************************)
Free == app = "running" /\ steps = <<>> /\ batch = <<>> /\ Idle

HandleInput ==
  /\ batch' = lines /\ lines' = <<>>
  /\ UNCHANGED <<transport, app, closed, reader, steps, fields, answers, view>>

HandleShapeChanged ==
  /\ told' = IF told = 0 THEN 0 ELSE screen.size
  /\ UNCHANGED <<transport, app, queue, handler, screen>>

HandleError ==
  /\ app' = "stopping"
  /\ UNCHANGED <<transport, queue, handler, view>>

HandleEvent ==
  /\ Free /\ events # <<>>
  /\ events' = Tail(events)
  /\ LET e == Head(events)
     IN \/ e = Input /\ HandleInput
        \/ e = "shape" /\ HandleShapeChanged
        \/ e = "error" /\ HandleError
  /\ UNCHANGED counts

\* The size goes to the server with the handshake of the client.
HandleClientConnected ==
  /\ Free /\ told = 0
  /\ told' = screen.size
  /\ steps' = <<Do("open", Ask("open"))>>
  /\ UNCHANGED <<transport, app, events, queue, batch, fields, answers, screen,
                 counts>>

\* enter(): open(), then the settings of the profile deviceConfig has.
Enter ==
  /\ Free /\ told # 0 /\ entered < MaxEnters
  /\ entered' = entered + 1
  /\ steps' = <<Do("enter", Ask("open"))>>
  /\ UNCHANGED <<transport, app, events, queue, batch, fields, answers, view, sent,
                 alives>>

\* sendKeepAliveIfIdle, when no command went out lately.
HandleKeepAliveTimer ==
  /\ Free /\ alives < MaxAlives
  /\ alives' = alives + 1
  /\ steps' = <<Do("alive", Ask("keepAlive"))>>
  /\ UNCHANGED <<transport, app, events, queue, batch, fields, answers, view, sent,
                 entered>>
(***************************************************************************)
(* handleRequests: execute() each line, load the active profile again when *)
(* the command may have changed it, whatever became of the command, and    *)
(* print the response.                                                     *)
(***************************************************************************)
Reads ==
  LET known == config.total > 0
      count == IF known THEN config.total ELSE Fallback
  IN [i \in 1..count |-> Do(IF known THEN "read" ELSE "readOld",
                            Question("get", i - 1, Blank))]

ToLoad(r) == IF r.command \in ChangeOps THEN <<Load>> ELSE <<>>

\* readProfiles starts with the active profile deviceConfig has.
NewFields_Shown == [ok |-> TRUE, active |-> screen.slot, profiles |-> <<>>]
NewFields == [ok |-> TRUE, active |-> config.active, profiles |-> <<>>]

NextRequest ==
  /\ app = "running" /\ steps = <<>> /\ batch # <<>>
  /\ LET r == Head(batch)
     IN steps' = (IF r.command = "profiles" THEN Reads
                  ELSE <<Do("command", Question(r.command, r.slot, r.profile))>>)
                 \o ToLoad(r) \o <<Respond>>
  /\ fields' = NewFields
  /\ UNCHANGED <<transport, app, events, queue, batch, answers, view, counts>>

PrintResponse ==
  /\ app = "running" /\ steps = <<Respond>>
  /\ answers' = answers \cup {Head(batch).id}
  /\ batch' = Tail(batch) /\ steps' = <<>> /\ fields' = NoFields
  /\ UNCHANGED <<transport, app, events, queue, view, counts>>

(***************************************************************************)
(* A step that needs the transport: the call, and what is done with its    *)
(* result.                                                                 *)
(***************************************************************************)
StartStep ==
  /\ app = "running" /\ steps # <<>> /\ Head(steps) # Respond
  /\ ~outcome.done
  /\ Call(Head(steps).q)
  /\ UNCHANGED <<app, events, queue, handler, view, counts>>

IsReadStep(s) == s.for \in {"read", "readOld"}
WithoutReads ==
  LET first == {n \in DOMAIN steps : /\ ~IsReadStep(steps[n])
                                     /\ \A i \in 1..(n - 1) : IsReadStep(steps[i])}
  IN {SubSeq(steps, n, Len(steps)) : n \in first}

\* applyProfileSettings, and the new size unless it is the old or invalid.
Loaded(slot, profile) == [screen EXCEPT !.slot = slot, !.profile = profile]
ValidNewSize(profile) == SizeOf[profile] \notin {0, screen.size}
ActiveLoaded ==
  LET new == Loaded(outcome.reply.slot, outcome.reply.profile)
  IN IF ValidNewSize(new.profile) THEN [new EXCEPT !.size = SizeOf[new.profile]]
     ELSE new

\* Nothing is connected yet to be told by the constructor's load.
Announce(size) ==
  IF Head(steps).for = "load" /\ size # screen.size THEN Append(events, "shape")
  ELSE events

EndLoad ==
  /\ IF outcome.ok
     THEN /\ screen' = ActiveLoaded
          /\ events' = Announce(screen'.size)
     ELSE UNCHANGED <<screen, events>>
  /\ steps' = Tail(steps)
  /\ UNCHANGED fields

\* execute(): a change that succeeded reads every profile back.
EndCommand ==
  /\ IF outcome.ok
     THEN /\ steps' = (IF Head(steps).q.op \in ChangeOps THEN Reads ELSE <<>>)
                      \o Tail(steps)
          /\ fields' = NewFields
     ELSE /\ steps' = Tail(steps)
          /\ fields' = [fields EXCEPT !.ok = FALSE]
  /\ UNCHANGED <<screen, events>>

EndRead ==
  /\ IF outcome.ok \/ Head(steps).for = "readOld"
     THEN /\ steps' = Tail(steps)
          /\ fields' = [fields EXCEPT !.profiles =
               Append(@, IF outcome.ok THEN outcome.reply.profile ELSE Blank)]
     ELSE /\ steps' \in WithoutReads
          /\ fields' = [fields EXCEPT !.ok = FALSE]
  /\ UNCHANGED <<screen, events>>

EndOpen == steps' = Tail(steps) /\ UNCHANGED <<screen, events, fields>>

EndEnter ==
  /\ steps' = IF open /\ config.has
              THEN <<Do("settings", Question("get", config.active, Blank))>>
              ELSE <<>>
  /\ UNCHANGED <<screen, events, fields>>

EndSettings ==
  /\ screen' = IF outcome.ok THEN Loaded(config.active, outcome.reply.profile)
               ELSE screen
  /\ steps' = <<>>
  /\ UNCHANGED <<events, fields>>

EndAlive ==
  /\ events' = IF outcome.ok THEN events ELSE Append(events, "error")
  /\ steps' = Tail(steps)
  /\ UNCHANGED <<screen, fields>>

EndStep ==
  /\ app = "running" /\ outcome.done
  /\ LET for == Head(steps).for
     IN \/ for \in {"main", "open"} /\ EndOpen
        \/ for \in {"init", "load"} /\ EndLoad
        \/ for = "command" /\ EndCommand
        \/ for \in {"read", "readOld"} /\ EndRead
        \/ for = "enter" /\ EndEnter
        \/ for = "settings" /\ EndSettings
        \/ for = "alive" /\ EndAlive
  /\ app' = IF Head(steps).for = "main" /\ ~outcome.ok THEN "stopping" ELSE app
  /\ outcome' = NoOutcome
  /\ UNCHANGED <<device, link, port, todo, waiting, waits, queue, batch,
                 answers, told, counts>>

InTransport(A) == A /\ UNCHANGED <<app, events, queue, handler, view, counts>>

\* ~BridgeClientApp, ~CdcTransport
Stop ==
  /\ app = "stopping"
  /\ app' = "stopped" /\ closed' = TRUE
  /\ Close
  /\ UNCHANGED <<events, lines, reader, handler, view, counts>>

EventThread ==
  \/ HandleEvent \/ NextRequest \/ StartStep \/ EndStep \/ PrintResponse \/ Stop
  \/ InTransport(SendUsbFrame) \/ InTransport(Receive) \/ InTransport(TimeOut)

Environment ==
  \/ \E r \in Requests : PushRequest(r)
  \/ HandleClientConnected \/ Enter \/ HandleKeepAliveTimer
  \/ InTransport(Unplug)

Next == EventThread \/ PostInput \/ InTransport(Device) \/ Environment

Spec == Init /\ [][Next]_vars

(***************************************************************************)
(* Properties.                                                             *)
(***************************************************************************)
Step == [for : {"main", "init", "alive", "open", "enter", "settings",
                "command", "load", "respond", "read", "readOld"}, q : Questions]
Line == [id : 1..sent, command : {"profiles", "getName", "setName"} \cup ChangeOps,
         slot : Nat, profile : Profiles]

\* An index of a profile comes from the GUI unchecked: it may name no slot.
TypeOK ==
  /\ TransportTypeOK
  /\ app \in {"running", "stopping", "stopped"} /\ closed = (app = "stopped")
  /\ events \in Seq({Input, "shape", "error"})
  /\ lines \in Seq(Line) /\ batch \in Seq(Line) /\ steps \in Seq(Step)
  /\ screen \in [size : Nat \ {0}, slot : Nat, profile : Profiles]
  /\ told \in Nat /\ sent \in Nat /\ answers \subseteq 1..sent

\* A reply that had arrived when a command was sent is never taken for that
\* command's: a wrong one was still on its way (sendUsbFrame discards input).
OnlyInFlightMisleads == outcome.ok /\ ~outcome.own => owed

\* Between handlers the screen uses the settings, and a valid size, of the
\* profile that is active on the device, though replies to changes,
\* keep-alives and names came too late or an earlier one was taken for
\* them, as long as every profile read got its own reply (handleRequests,
\* loadActiveProfile).
ShowsActive ==
  LET p == device.profiles[device.active]
  IN Free /\ lost \cap (ReadOps \cup {"hello"}) = {} /\ device.plugged =>
       /\ screen.slot = device.active /\ screen.profile = p
       /\ SizeOf[p] \in {0, screen.size}

\* The stronger form the comment in sendUsbFrame promises: no command takes
\* the reply to an earlier one as its own.
NeverMisled == outcome.ok => outcome.own

\* A connected server has the screen's size, or the event that makes the
\* client send it is waiting (applyActiveProfile).
ServerKnowsSize ==
  told \in {0, screen.size} \/ \E i \in DOMAIN events : events[i] = "shape"

\* Device, screen and server agree on the profile, through every handler that
\* changes it, and every variable has its type.
ScreenAgrees == TypeOK /\ ShowsActive /\ ServerKnowsSize

\* A successful response to a request that lists the profiles lists what the
\* device holds, if only keep-alives and names lost their replies.
AnswersTrue ==
  (/\ steps = <<Respond>> /\ fields.ok /\ lost \subseteq ConfigOps /\ device.plugged
   /\ Head(batch).command \in {"profiles"} \cup ChangeOps) =>
     /\ fields.active = device.active
     /\ \A i \in DOMAIN fields.profiles :
          i - 1 \in Slots => fields.profiles[i] = device.profiles[i - 1]
     /\ Len(fields.profiles) >= Total

\* While the queue holds a line, the event that empties it is waiting or
\* about to be posted (readStdinCommands, Queue::takeAll).
Woken ==
  lines # <<>> => closed \/ reader # NoLine
                        \/ \E i \in DOMAIN events : events[i] = Input
=============================================================================
