# A verification project for deskflow / dshare-hid

The program shares one keyboard and mouse among several computers. A *server*
(the primary computer) captures the input and relays it to the *client* the
cursor is on, over a message protocol on TCP or TLS; the HID fork adds *bridge
clients*, which drive a USB dongle instead of the local desktop. This directory
holds TLA+ models of the code, the TLC configurations that check them and the
proofs that hold for every value of the constants.

Contents: 1 inventory, 2 plan, 3 the modules, 4 runs and bounds, 5 fairness,
6 proofs, 7 where the code and its documentation part, 8 what is not modelled.

## 1. Inventory

Paths are under `src/src/lib/`. "Hard" names what makes the part difficult to
test; PROJECT.json lists each hazard at its line.

| Part | State | Operations | Hard behaviour | What makes it correct |
| --- | --- | --- | --- | --- |
| Server core (`server/Server.cpp`) | `m_clients`, `m_clientSet`, `m_oldClients`, `m_active`, `m_activeSaver`, lock, options, switch tests | adopt, refuse, close and lose clients; edge pushes, hot keys, screen saver, reload | any order of disconnects, timers, saver and reloads; raw pointers kept across events | the focus is on one connected computer, entered exactly once; a pending switch has a live target; a lock holds |
| Clipboards (`Server.cpp`, `ClientProxy1_0.cpp`, `Client.cpp`, `ServerProxy.cpp`, `StreamChunker.cpp`) | owner, sequence number, dirty flags, chunk assembly | grab, changed, send on enter | grabs and data cross on the wire, owners disconnect | the last grab wins; only the owner's data is stored |
| Keys and buttons (`Server.cpp`, `InputFilter.cpp`, `PrimaryClient.cpp`) | broadcast set, filter conditions | key down, up, repeat, broadcast | focus moves between down and up | no key stays down on a computer |
| Configuration (`server/Config.cpp`, `server/DisplayEdges.cpp`) | names, aliases, links, options | read, rename, connect | read over the object in use | links are disjoint and between known names |
| Listener and handshake (`server/ClientListener.cpp`, `ClientProxyUnknown.cpp`, `net/TCPListenSocket.cpp`, `client/Client.cpp`) | new, waiting and unknown clients, timers | accept, hello, hello back, reject | time-out, hang-up and success queued for one client | each socket and stream is deleted once |
| Sessions (`server/ClientProxy1_*.cpp`, `client/ServerProxy*.cpp`) | keep-alive alarms, ignore-mouse flag, parser in use | message handlers | late answers, version differences | a dead peer is noticed, a live one is not dropped |
| Framing (`deskflow/PacketStreamFilter.cpp`, `ProtocolUtil.cpp`, `io/StreamBuffer.cpp`) | partial packet | read, write | any split of the byte stream | packets come out as they went in |
| Event queue (`base/EventQueue.cpp`) | pending and saved events, timers, handlers | add, get, dispatch, timers | posted from several threads, handlers removed meanwhile | every event is delivered once, in order |
| Socket multiplexer (`net/SocketMultiplexer.cpp`) | job list, map, two-stage lock | add, remove, service | two threads and a poll that sleeps | the list has one user; each job gets its own poll result |
| TCP and TLS sockets (`net/TCPSocket.cpp`, `SecureSocket.cpp`) | buffers, flags, job | read, write, flush, shut down, connect | state read without the lock | buffered output is written, one disconnect |
| Bridge transport (`platform/bridge/CdcTransport.cpp`, `BridgeRequests.cpp`, `HidFrame.cpp`) | port, input buffer, handshake | open, hello, authenticate, send, query | late or lost replies, reconnect | a reply belongs to its command |
| Bridge screen (`BridgePlatformScreen.cpp`, `BridgeKeyboard.cpp`) | six key slots, modifiers, buttons, profile | enter, leave, key, button | partial sends | leaving releases everything |
| Application and GUI (`deskflow/ServerApp.cpp`, `ClientApp.cpp`, `gui/core/*`, `ipc`) | start and retry state, processes | start, stop, retry, restart | timers that fire after a stop | one core process, and the one asked for |
| Platform back ends, settings, dialogs, layout | | operating system I/O | | not modelled: environment or presentation |

How they interact. One event thread runs every handler of the server and of the
client, in the order `EventQueue` gives; handlers call each other directly
(`Server` -> `ClientProxy` -> stream). Sockets are serviced by a second thread
inside `SocketMultiplexer`, which shares the job list and each socket's buffers
with the event thread and posts events to the queue. Timers are events. The
bridge adds a request queue served on the screen's thread and a blocking serial
port. The GUI starts the core as a child process and talks to it over a local
socket.

## 2. Plan

The order of the work, most important behaviour first; a + marks a proof module,
an arrow what a module extends.

| | Modules | State |
| --- | --- | --- |
| 1 | `Server` + : registry, focus, pending switches, saver, reload | done |
| 2 | `SocketMultiplexer` + : the lock protocol of the job list | done |
| 3 | `EventQueue` + , which refines `EventFIFO` | done; timers and the handler table are left |
| 4 | `TCPSocket` <- `PacketStreamFilter` + : the two threads on one socket, packets over it | done |
| 5 | `CdcTransport` <- `BridgePlatformScreen` + : a line with late replies, and the screen on it | done |
| 6 | `ClientListener` + : from accept to adoption, who deletes what | done |
| 7 | `Session` + : a client and its connections, again and again | done |
| 8 | `ClipboardSharing`: grabs, data and switches | done |
| 9 | `BridgeClientManager`, `CoreProcess` <- `DeskflowHidExtension` + : the GUI and its processes | done |
| 10 | `KeyState`, `BridgeKeyboard` <- `KeyRelay`: keys across focus changes | done |
| 11 | Proofs about 8 and 10: `CopyArrives` and `Releasable`, with the argument over loops that 9 uses for the filter of events and the fold of reports | open |
| 12 | `Geometry`: neighbour walk and its termination, corners, the clear zone, display edges, against reference definitions | open |

## 3. The modules

### Server

`Server.tla` models `Server.cpp` with what it calls in `ClientListener`,
`ClientProxy1_0::disconnect`, `Config` (name lookup) and
`ServerApp::reloadConfig`. Handlers run to completion on the event thread, so
each is one action; the order of events is what varies.

| Variables | Code |
| --- | --- |
| `cfg`, `opt`, `locked` | `*m_config`, the members set by `processOptions`, `m_lockedToComputer` |
| `clients`, `clientSet`, `oldClients` | `m_clients`, `m_clientSet`, the keys of `m_oldClients` (each has its close timer) |
| `waiting`, `hungUp`, `deleted` | `ClientListener::m_waitingClients`, queued disconnect events, destroyed proxies |
| `active`, `entered` | `m_active`, and which connected computers were last told to enter |
| `activeSaver`, `saverOn`, `saverTold` | `m_activeSaver`, the saver, who was told |
| `sw` | `m_switchDir`, `m_switchComputer`, the wait timer and its position, the two-tap members |

Actions: `ClientWaits`, `HangUp`, `WaitingClientDisconnected`, `AdoptClient`,
`RefuseClient`, `HandleClientDisconnected`, `HandleClientCloseTimeout`,
`ReloadConfig`, `Disconnect` for the registry; `OnMouseMovePrimary`,
`OnMouseMoveSecondary`, `HandleSwitchWaitTimeout`, `TwoTapLate` and the four hot
keys for the focus; the two screen saver handlers. `SwitchComputer` and
`ForceLeave` are the operators they share, as `switchComputer` and
`forceLeaveClient` are the functions.

Abstractions. Pixels become the side pushed against and a spot along it. A
computer's answers (a button is held, `leave()` refuses, the jump skips a small
screen) are nondeterministic. `sw.waitAt` remembers which computer the recorded
wait position was computed for. A proxy object is never born twice, so a stale
pointer shows as a deleted member. A handler that would use a deleted proxy has
no step: what comes after undefined behaviour is not explored, the invariants
report the state before it. Two configurations are enough for every reload to
add, drop or rename.

### SocketMultiplexer

`SocketMultiplexer.tla` models `SocketMultiplexer.cpp` and the one caller that
runs inside it (`TCPListenSocket::serviceListening`, whose error path closes the
socket). Each section under `m_mutex` is one action of one thread; `pc` is the
place of the thread between them. Collecting, running one job and purging are
steps of the thread that has the list.

| Variables | Code |
| --- | --- |
| `reserver`, `locker` | `m_jobListLockLocker`, `m_jobListLocker`, each with its flag |
| `jobs` | `m_socketJobs` in order, with the socket `m_socketJobMap` maps to the place |
| `live` | job objects allocated and not deleted |
| `jobsReady`, `update` | `m_jobsReady`, `m_update` |
| `pfds`, `ready`, `pos`, `next` | `pfds`, the sockets the poll reported, the cursor, `i` |
| `unblock`, `cancelled` | a byte in the unblock pipe, the cancel flag |

A job is an address (used again once freed) and what `run` returns: the job, a
new one or none. A socket is added and removed by one owner thread, as the
sockets of the program are. `pollSocket` returns when a socket is ready, when
the pipe has a byte, or with an error; it empties the pipe when it returns
(`ArchNetworkBSD.cpp:285-297`).

### EventFIFO and EventQueue

`EventFIFO.tla` is what the queue promises its users: each thread's events are
handled once, in the order in which the thread added them; a new buffer discards
what waits. It says nothing about the order of two threads' events. The events that
wait are the set of their numbers, and the least is handled first.

`EventQueue.tla` models `EventQueue.cpp` with the buffer it is created with,
`SimpleEventQueueBuffer`. A section under a mutex is one action; between them
the other threads run.

| Variables | Code |
| --- | --- |
| `at` | where the main thread is: set-up, the three places of `loop`'s start, `getEvent`, a handler |
| `call`, `posted` | the branch of `addEvent` each thread took and has not finished; how many events it has added |
| `ready`, `pending` | `*m_readyCondVar`, `m_pending` |
| `events`, `oldIDs` | `m_events`, `m_oldEventIDs` as a set: which identifier is reused is left open |
| `buffer`, `taken` | the buffer's identifiers; the one got from it and not yet looked up in the table |
| `handled`, `discarded` | what became of the events |

`AddEvent` is the look at the ready flag and `PushPending` or
`AddEventToBuffer` what follows it, as the flag is read without its mutex. Two
pushes at once may lose one of the events, as `m_pending` is not guarded.
`RemoveEvent` hands the event to a handler; a handler that quits does not return
to the loop, one that changes the screen adopts its buffer (`AdoptBuffer`), the
others `Return`. `Early` is the set of threads that do not wait until the queue
is ready.

The refinement mapping of `EachThreadInOrder` takes, for each thread, the
numbers of its events in the identifier on its way out, in the buffer and, while
`loop` has not emptied it, in `m_pending`; the event just copied to the buffer and
not yet popped counts once.

### CdcTransport and BridgePlatformScreen

`CdcTransport.tla` models `CdcTransport.cpp`: a command sends one control frame and
waits for one reply with a deadline. A reply does not say which frame it answers.

| Variables | Code |
| --- | --- |
| `device`, `asked` | external: the firmware's profiles and the active one; the frames it has not answered |
| `arrived` | the kernel's buffer and `m_rxBuffer` |
| `open`, `handshake`, `config` | `m_fd`, `m_handshakeComplete`, `m_deviceConfig` |
| `todo`, `waiting`, `outcome` | the frames of the call, whether the head awaits its reply, what the call returned |
| `late`, `lost`, `owed` | histories: missed deadlines, commands without their own reply, whether a late one was on its way |

`BridgePlatformScreen.tla` composes it with the bridge client: the stdin thread
(`PostInput`) pushes a line and posts an event in two steps; the event thread takes
the lines and works through `steps`, one command of the transport after the other,
with `fields` the answer so far. `screen` and `told` are the size that the client
uses and the one the server knows.

### TCPSocket and PacketStreamFilter

`TCPSocket.tla` models `TCPSocket.cpp` with the accept, connect, read and write
of `SecureSocket.cpp`. The service thread runs the socket's job under the mutex
(`ServiceConnected` and the others) and installs what it returned (`Install`); the
event thread writes under the mutex, then computes a job without it (`TestJob`,
`ReadFields`, `SetJob` are three steps). `net` is the other end, which reads,
sends, closes or breaks. Bytes are counted. `PacketStreamFilter.tla` adds the
filter (`filter` has `m_buffer`, `m_size`, `m_inputShutdown`) and the handlers of
the event thread, client or server by `end`. The other end sends when it likes, also
before it is asked: a server takes one packet for the handshake, and what stands
behind it in the filter has been told to nobody (`BehindGreeting`, section 7).

### ClientListener

`ClientListener.tla` models what becomes of a connection from accept to adoption
and to its end: `ClientListener.cpp`, `ClientProxyUnknown.cpp`, the constructor,
destructor and disconnect of `ClientProxy1_0.cpp`, and the parts of `Server.cpp` and
`ServerApp.cpp` that adopt, delete and stop. `conn[c]` says which of the heap
objects of a connection are alive and what the unknown client holds; `on[c]` is the
event queue's handler table for them; `waiting`, `members` and `leaving` are the
owners. Every handler takes its event from the head of `queue`. A use of a deleted
object sets `app` to "aborted".

### Session

`Session.tla` is one client over several connections: `Client.cpp`,
`ServerProxy.cpp`, `ClientApp.cpp`, and the server's end of the exchange in
`ClientProxyUnknown.cpp`, `ClientProxy1_0.cpp` and `Server.cpp`. `client` has the
client's stream, proxy, timers and suspend flags; `mouse` the two members that hold
motion back; `inbox`, `up`, `down` the messages read, and in flight each way;
`events` what the client posts to itself. The shape of the screen is a version
number, and a position carries the version it was computed for, which is what
`OnlyUnackedMisleads` compares. A motion with more input behind it waits in
`mouse.compress` and is obeyed at the end of the input or before a leave
(`flushCompressedMouse`), whatever was acknowledged meanwhile; `mouse.unacked` is a
history, what was unacknowledged when it was read. An alarm may run out whenever it
is set. What was
posted to a stream that has gone stays in `events`, marked, and is taken without a
handler (`Unheard`).

### ClipboardSharing

`ClipboardSharing.tla` models one of the two clipboards: the server's side in
`Server.cpp`, `PrimaryClient.cpp`, `ClientProxy1_0.cpp`, `ClientProxy1_6.cpp`, a
client's in `Client.cpp`, `ServerProxy.cpp`. `s` and `c[k]` are the fields of the two
ends; the n-th copy of a run is the number n. Grabs are written at once, data goes
through the event queue: a grab may overtake data. A bridge takes the focus and has
no clipboard. `claim` is a history: the last copy, if it was made on the active
computer, fits, and found the owner settled (`Settled`: nothing under way, and no
client that takes itself for the owner because the server ignored its grab). A user
who goes on to a third computer before the grab is known ends it.

### BridgeClientManager, CoreProcess, DeskflowHidExtension

The GUI's thread runs one handler at a time. `BridgeClientManager.tla` and
`CoreProcess.tla` are operators on records, `DeskflowHidExtension.tla` composes them:
`g` holds the manager's `clients` and `deviceToConfig`, the processes and their
device locks, the widgets, the list of cores to resume and whether the tool has
suspended the bridge clients; `core` is the server's
core with its retry timer, its check for a process of before and its IPC client;
`udev` and `tracked` are the monitor's events and devices; `retries` the timers that
start a bridge core again. Devices and paths are numbers in the order in which the
maps of the code have them, and a loop over them (`ForEach`) is a recursive function
whose turn has a name of its own: `StopOne`, `ResumeOne`, `AutoConnectOne`,
`UpdateOne`. A turn works on what the turns before it left. A device has one config
and is plugged in at any free port, and there is always a process object left for a
core that starts, as `new` has. `current` is a history: so far every config has kept
its own serial number, and every path that leads to a config is its path
(`Current`). It ends when `setDeviceAvailable` takes a config for the device that
came to its old path, and when the tool hid a change of ports (section 7).

### KeyState, BridgeKeyboard, KeyRelay

`KeyState.tla` has the tables of `KeyState.cpp` (`m_serverKeys`,
`m_syntheticKeys`) and the keys the operating system has down; `BridgeKeyboard.tla`
the tables of `BridgeKeyboard.cpp`, whose operations also give the reports sent, and
what a report does to a device. `KeyRelay.tla` composes both with the server's relay
(`onKeyDown`, `onKeyUp`, `onKeyRepeat`, keystroke actions, broadcasting, switches)
and a connection to each client that delivers in order and may be lost with its
last messages. `stray` is a history of the keys whose client cannot release them
any more, for the reasons `Releasable` names.

### Proof and MC modules

`ServerProofs`, `SocketMultiplexerProofs`, `EventQueueProofs`,
`PacketStreamFilterProofs`, `BridgePlatformScreenProofs`, `ClientListenerProofs`,
`SessionProofs` and `DeskflowHidExtensionProofs` hold the theorems about the module
each is named after. Those with a queue begin with the lemmas on sequences they need:
what taking the first, appending and concatenating do to types, and how many
messages of a type there are. The MC modules give the constants.
A definition marked `mutant` or named `X_...` is a plausible bug; PROJECT.json says
which definition it replaces and which property must then fail.

## 4. Runs and bounds

| Run | Question | Bound |
| --- | --- | --- |
| `server_two_tap` | with immediate and two-tap switching, can the focus or the registry go wrong? | 3 proxies, two with one name; 2 configurations, one of which drops a client |
| `server_saver` | with delayed switching and the screen saver: does the lock hold, can losing clients leave a lost computer to return to, does a client told to close go? | 2 proxies, a configuration that disables the lock and the delay, fair timers |
| `multiplexer` | one user of the list, polls matched to jobs, removal complete; does every wait end and is every job polled? | 2 callers with a socket each, one of which may listen and fail; 2 job addresses |
| `event_queue` | is each saved event in the buffer once, is a thread's order kept, is every event handled? | the main thread and 2 others, 2 events each, others wait until ready |
| `packet_stream` | no lost wakeup, the end of the input last, a plain flush ends, a lost peer is noticed | both ends, with and without TLS; 4 bytes sent, 1 or 2 in a buffer |
| `listener` | are the objects of a connection alive while they can be called, and does every handshake end? | 2 connections with TLS, 2 packets each |
| `session` | do the ends agree when nothing is under way, is the client never stranded? | 2 connections, 2 changes of the shape, 1 suspend, 3 messages each way |
| `bridge` | which commands can take another's reply; do device, screen and server agree? | 2 slots, 3 profiles, one of an invalid size; 1 missed deadline, 2 requests |
| `clipboard` | does a copy arrive, is a client taken to have the data in possession of it? | 2 clients and a bridge, 3 copies, the first above the size limit, 5 switches, of which a lost connection takes 2; the user acts with at most one message or event under way |
| `bridge_gui` | can every bridge core be found and stopped, and is it when it must be? | 2 devices, 2 ports, 4 process objects, 2 changes of what is plugged, 2 of the server's core, 1 retry |
| `key_relay` | does a client hold a key it does not know, or one nobody presses? | a client with a keyboard and one with a device; 3 keystroke actions that share a button, 1 modifier key; 1 message under way, 1 lost connection or report |
| `waiting_hangup` | the comment on the deletion of a waiting client: section 7 | 1 connection without TLS |

Why these bounds suffice for the questions asked. In `server_two_tap` three
proxies are one with the focus, one that is the target or the saved computer, and a
third that takes the name of the first while that is closing; a fourth would only
repeat a role. In `server_saver` one computer has the focus or the pending switch
while the other is saved, lost or connects late. Objects are not reused, so the
number of proxies also bounds the number of connections; nothing else is bounded.
In the multiplexer two callers contend for the reservation while the service thread
has the list, which is every role the lock has; two addresses make a freed address
come back while the other job is in the list. In the queue two events of each
of three threads are enough to have one in `m_pending` or between buffer and table
while another thread adds a second and an identifier is reused.
Four bytes with a payload of one are two packets, so one can be whole in the
filter, one partial in the socket. The listener runs with TLS because its accept has
one more step in which to go; without TLS the server aborts in the way
`waiting_hangup` shows. Two connections of a session let an event of the first one
arrive during the second. One missed deadline suffices for a late reply, and
the change, the read-back and the keep-alive that may take it are then all in reach of
two requests. In `clipboard` the primary's first copy is too large, a client's is
ignored or makes it the owner, and the third is claimed after either, with switches
enough to go to the client, over a bridge and to the other. Few messages are under way
when the user acts, but their consequences are not bounded; with 2 copies and 4
switches the properties also pass without that bound. In `bridge_gui` either
device may be in either port, so one change suffices for a device to come to the
other's, and every start of a core has a process object: the invariant of section 6
allows one for each config and one for each path. In `key_relay` three actions on one
button are a key and a media key held at once, in either order, with a key's repeat.
The symmetries exchange proxies of one name, connections, or clients; no liveness
run uses symmetry. The proofs of section 6 remove the bounds for the properties they
cover. `key_relay` also passes with `AsPressed = TRUE`.

`CHECK_DEADLOCK FALSE` is set throughout: a server whose proxies are used up
may have nothing left to do, the multiplexer ends after its destructor, the
queue waits once every thread has added its events, and the bounded inputs of the
others run out.

## 5. Fairness

- `Server!LiveSpec`: the event loop delivers expired timers (the close timers
  and the switch timer); nothing is assumed of clients, users or the network.
  `EventQueue::getEvent` looks at the timers whenever the buffer is empty, and
  a handler always returns.
- `SocketMultiplexer!LiveSpec`: threads run (waits wake up ten times a second,
  `ArchMultithreadPosix::waitCondVar`, so each is retried); no caller need call,
  no socket need become ready. It adds strong fairness of `lockJobListLock`: a
  thread does not lose every race for the reservation. The code has no queue, so
  this is an assumption about the scheduler. The service thread's own turn and
  `JobsPolled` need it; a caller that has the reservation does not.
- `EventQueue!LiveSpec`: the loop runs and a handler returns to it or quits; a
  thread that has begun `addEvent` finishes it. Nobody need add an event.
- `PacketStreamFilter!LiveSpec`: both threads go on; the event loop comes back to its
  queue between the writes of its handlers; a thread that adds or removes a job
  gets the list in the end, which is what `multiplexer` shows; keep-alives are
  written; the other end reads while it is there, and what is sent to one that has
  gone breaks the connection, as TCP does.

The other modules state safety only.

## 6. Proofs

Checked by TLAPS, for every value of the constants that the named assumptions of the
modules allow. Each safety property is proved from an inductive invariant that TLC has
checked first, on the bounds of the run; a theorem that needs more than the
assumptions of its module says so in an ASSUME, given here with its reason.

**Server** (`ServerProofs`)

- `TypeCorrect`: `Spec => []TypeOK`. The inductive invariant is `Typed`: TypeOK with
  the closure facts a step needs (`clients` is a function, the pending switch is
  tidy). `PendingSwitchHolds` follows from it: a timer or a tap always has a target,
  so `handleSwitchWaitTimeout` never passes `nullptr` to `switchComputer`.
- `RegistryHolds`: `Registry` is inductive given `Typed` and `StableNames`, the
  assumption that no reload changes the canonical name of a computer. Without it the
  property is false (section 7, renamed), so the assumption says what the code lacks.
- `SaverStays`: no step from a good state leaves a lost computer as the one to return
  to. No assumption is needed.
- `SaverSyncedHolds`: while there is a computer to return to, every connected client
  has been told of the saver, given `StableNames`: the saver tells the clients of
  `m_clients`, so it needs `Registry` to reach those of `m_clientSet`.
- `LockAlwaysHolds`: the lemma `LockedSideTest` shows that a locked test never allows
  a switch, for each edge test and the timer.
- `TwoTapHolds`: an edge is crossed only by a second tap in time, for every
  configuration and every reload between the taps. `WaitDelayed` (a wait timer runs
  only with the switch delay) is what keeps the timer out of the way.
- `FocusHolds`: `Focused`, the computer with the focus is connected and the only one
  entered, if names are stable, no configuration sets the switch delay and the screen
  saver is off. Each hypothesis removes one of the defects of section 7 (the target
  that is gone, the saver); the inductive invariant `FInv` adds to Typed and Registry
  that no wait timer runs.

**Socket multiplexer** (`SocketMultiplexerProofs`)

- `ExclusiveHolds`, `OneAtTheListHolds`: the two-stage lock excludes, for any number
  of callers. The inductive invariant `Locking` is `Exclusive` itself (where a thread
  is determines which lock it has) and that `pc` is a function on the threads.
- `JobsOwnedHolds`, `RemovedIsQuietHolds`: each job belongs to one place of the list
  or to one call, poll results go to the jobs they were asked for, and a socket has no
  job once `removeSocket` has returned. `JobsInv` adds to `Locking` that a socket has
  one place in the list (`SocketsOnce`), that a thread is where its call says, for a
  socket of its own (`Calls`), and that the poll entries are those of the list unless
  `m_update` is set (`Fresh`). The last is what makes `Aligned` inductive: the service
  thread keeps an index into a list that others change, and only the lock and
  `m_update` keep the two together.

**Event queue** (`EventQueueProofs`)

- `SavedOnceHolds`, `NoneOverwrittenHolds`: for any number of threads and events, and
  whether or not they wait until the queue is ready, every saved event is in the
  buffer exactly once and `saveEvent` overwrites none. An event can only be lost in
  `m_pending`. The inductive invariant `TableOK` is `SavedOnce` and `Compact`: the
  identifiers in use and those kept for reuse are disjoint and together the first n
  numbers. It is needed because a new identifier is the size of the table, which is
  free only when no smaller number is.
- `TypeOKHolds`: the types, and with them that the table grows no faster than events
  are added. That takes `AddedOnce`: an event is at one place of the table or of
  `m_pending`, except while it is copied, so no more are saved than were added.
- `EachThreadInOrderHolds`: `EventQueue` implements `EventFIFO`, step by step, if
  `Early` is empty. `OrderOK` says that the numbers of a thread's events rise along
  the way they take, through `m_pending`, the buffer and the event just got from it
  (`InTurn`), and that `m_pending` has only the main thread's, from set-up
  (`InSetup`). Without the hypothesis the theorem is false: section 7, the event added
  while `loop` begins.

**Sockets and packets** (`PacketStreamFilterProofs`)

- `NoLostWakeupHolds`: what a plain socket has to write is watched for by its job or
  by one that a thread is about to install, and what has come in is announced. The job
  that `newJob` computes without the mutex may be out of date; `Watched` says at which
  place of the event thread, or of the service thread, what is made or returned still
  asks for it. The one exception is a packet behind the hello on a server
  (`BehindGreeting`): nobody is told of it, as section 7 says.
- `ShutdownLastHolds`: the end of the input closes a plain connection that did not
  break only when every whole packet sent has been read. `Bytes` accounts for each
  byte (on the wire, in the socket, in the filter, consumed), `Announced` has an
  `InputReady` in the queue ahead of any `InputShutdown` while input waits, `Ended`
  says what the peer's end and the filter's flag mean for what can still come.
- `PacketInvHolds` states both with the stages of dialling and of the TLS handshake
  (`Stages`), which decide what a job may poll for.

**Listener** (`ClientListenerProofs`)

- `LifetimesHold`, `GoneIsHeardHolds`, `HandshakeEndsHolds`, for any number of
  connections with any number of packets: who can be called is alive, a hang-up has a
  handler, a handshake ends in a timer or an event. All but the queue is said of one
  connection at a time (`Kept`: each object has one owner and the handlers that are
  registered are its owner's); `Fresh` and `Single` say that a connection is handled
  once, and `Announced` counts one `ListenerAccepted` for each client that waits.
  After a use of a deleted object (`app = "aborted"`, section 7) the invariant keeps
  the types and `GoneIsHeard`, which is all that the properties say of it.

**Session** (`SessionProofs`)

- `AllUnderstoodHolds`, `OnlyUnackedMisleadsHolds`, `EndsAgreeHolds`,
  `NeverStrandedHolds`: for any number of changes of shape, messages, suspends and
  reconnections. `SessionInv` is a statement about all that the client will still
  read, `inbox \o down`: in which order the types may come (`Ordered`), that a
  position of another shape has fewer acknowledgments ahead of it than are expected
  (`Shapes`), and that reading all of it leaves the cursor where the server has it
  (`Cursor`). `Placed` says the same of a motion that waits: it is for the present
  shape, or something was unacknowledged when it was read. `Connected` says how the parts of a connection go together, `WillRetry`
  and `Watched` what will end a wait: a client without a stream has a retry or an
  event that leads to one.

**Bridge** (`BridgePlatformScreenProofs`)

- `OnlyInFlightMisleadsHolds`: a command takes another's reply only if one was on its
  way when it was sent. `Marks` says which frame and which reply are the awaited
  one's, and `InFlight` that without an owed reply there is no other.
- `ScreenAgreesHolds`: profile, size and settings are those of the active slot between
  two handlers, until an answer to a read is lost. In the middle of a handler that is
  false, so `Agree` allows it only as long as a load is still to come among `steps`.
- `WokenHolds`: a line of the GUI has an event that will have it read.
- `AnswersTrueHolds`: a successful response lists what the device holds, if the device
  reports how many profiles it has or has no more than the bridge assumes
  (`kFallbackProfileCount`, `BridgeRequests.cpp:46`). The hypothesis is needed: of a
  device with more, and old firmware, the rest is not listed, which TLC shows with
  `Reported = 0` and `Fallback = 1`. `AnswerInv` follows the list as it is read: the
  entries got so far are right, and what is left to read is the rest of the range.

**GUI** (`DeskflowHidExtensionProofs`)

- `CoresAreReachable`: a running bridge core holds its path alone, and while the
  tables are current it is the process of its config and its path leads to the config;
  `OnlyServed`: none is started while the firmware tool has the devices or without a
  server, and while the tables are current none runs on; `TimeoutsSpare`: while the
  tables are current a connection timer stops no core that has reached the server. For
  any number of devices, ports, retries, starts of the server's core and changes of
  what is plugged in where.
- The inductive invariant `IInv` has a part for every state and one for current
  tables. `Anywhere`: a process that runs has its path's lock, and nothing waits to be
  resumed while the server is ready. That is all the code guarantees once devices have
  exchanged ports, and it is enough for two cores never to share a device and for
  none to be started when it must not be.
- While `current`, `Clients` says how the tables that the handlers keep lead to each
  other. `Linked`: a path leads to a config that has the path, and so does what a
  widget shows, what is available and what is to be resumed. `Held`: the running
  processes are those of the configs, one for each, and each is the owner of its path;
  a timer belongs to a core that runs and is not established, which is
  `TimeoutSpares`. `Quiet` while suspended or disconnected is `OnlyWhileServed`.
  Every handler is a chain of operators, and each has a lemma that says what it
  keeps; `StopForConnect` is the one that needs all of `Held`, since it looks for what
  to stop by device, by config and by owner.
- A step that ends `current` owes nothing to `Clients`, so the lemmas of the handlers
  assume that the tables are current after the step. That is not enough for
  `CloseTool`, whose loop could leave them and come back: `UpdateMoved` shows that it
  does not, since two configs that have become one (`Dup`) stay so.
- Loops over all devices or paths are handled by three lemmas: `Iterates` (the
  function of a loop is what its turns say), `Stays` (what each turn keeps holds after
  all of them) and `Turns`. They argue from the least turn that fails, since the
  library's induction theorems cannot be instantiated here.
- `Quiet` while suspended is inductive only because the suspend flag is part of the
  record that the handlers pass on: the flag is set before `openEsp32HidTools` stops
  the cores and cleared before it connects again (`DeskflowHidExtension.cpp:231`), so
  each handler must see the flag as the one before it left it.

Only model-checked:

- `CopyArrives` and `CleanAgrees` (`ClipboardSharing`), where losing a client filters
  its events from the queue, and `Releasable` and `NothingStuck` (`KeyRelay`), where a
  device's state is the fold of the reports it was sent. What these compute for every
  input would need, for each, an argument like that of the loops above.
- Liveness, in all modules: TLAPS does not reason about ENABLED here.

## 7. Where the code and its documentation part

One is a run. `waiting_hangup`: a client without TLS that hangs up between its
handshake and its adoption. `ClientListener.cpp:220` says that the socket is pulled
out before the client is deleted; what is pulled out is the packet filter, which the
client deletes as well.

The others are definitions that do not hold; the named configuration with the line
`INVARIANT X` (or `PROPERTY X`) added shows the behaviour.

| Where | What | Shown by |
| --- | --- | --- |
| `Server.cpp:2061` | "stop waiting to switch to this client": a target that is not the active computer stays the target | `SwitchTargetConnected`, `MCServer_saver.cfg` |
| `Server.h:455`, `Server.cpp:822` | "all tests are always trying to reach the same computer": with two neighbours on a side, the delayed switch goes to the first at the place of the second | `SwitchTargetFits`, `MCServer_saver.cfg` |
| `Server.cpp:2057` | while the saver runs, the loss of the computer that has the cursor is not noticed | `ActiveConnected`, `MCServer_saver.cfg` |
| `Server.cpp:2076` | "unless we already have because of the screen saver": the primary becomes active without being entered | `PrimaryEntered`, `MCServer_saver.cfg` |
| `Server.cpp:2009`, `1966` | a reload that renames a connected client: the entry is looked up by the new name and stays | `Registry`, `MCServer_twotap.cfg` with `Configs <- RenamingConfigs` |
| `TCPListenSocket.cpp:129` | a listening socket that sees an error closes itself in the service thread, which waits for the list it holds itself | `WaitsForItself` is reachable in `multiplexer` and excepted in its properties |
| `EventQueue.cpp:208`, `IEventQueue.h:77` | an event added while `loop` begins goes into `m_pending` after it was emptied and is never handled | `Delivered`, `MCEventQueue.cfg` with `Early = {p}` |
| `CdcTransport.cpp:632` | discarding input before a command does not help when the late reply is still on its way | `NeverMisled`, `MCBridgePlatformScreen.cfg` |
| `SecureSocket.cpp:630`, `IStream.h:58` | a TLS socket that breaks does not wake `flush`, which waits for good | `SecureFlushEnds`, `MCPacketStreamFilter.cfg` |
| `ClientProxyUnknown.cpp:237`, `PacketStreamFilter.cpp:149` | "if we weren't ready before but now we are": a packet that came with the reply to the hello is told to nobody, and those after it neither. A client may send one, since it hears of shapes and grabs from the hello on (`Client.cpp:491`) | `PacketsAnnounced`, `MCPacketStreamFilter.cfg` |
| `ServerProxy.cpp:350` | "until we receive acknowledgment of our info change": that of an earlier change ends it; and a motion that was recorded between two of them is obeyed at the end of the input, for a shape that has gone | `IgnoredUntilAck`, `MCSession.cfg` |
| `Server.cpp:1473` | the assertion that data comes from the owner: the primary may have grabbed meanwhile | `ExpectedSender`, `MCClipboardSharing.cfg` |
| `DeskflowHidExtension.cpp:1050`, `BridgeClientManager.cpp:169` | "check if process is running for this CONFIGURATION (Serial), even if device path differs": a device that comes to the port another one had takes its config over as well, serial number and all, and the core of that config is found neither by path nor by serial | `AlwaysReachable`, `MCDeskflowHidExtension.cfg` |
| `CoreProcess.cpp:292`, `317` | "so we never hang in the Stopping state": `stop` during `RetryPending` waits for a process that has ended | `NeverHangs`, `MCDeskflowHidExtension.cfg` |
| `Server.h:465`, `Server.cpp:1571` | "the computers to which we should send broadcasted keys": a key event's list is never null (1251), so with broadcasting on an ordinary key goes to nobody | `BroadcastReaches`, `MCKeyRelay.cfg` |

Met without a definition of their own, and part of the models:

- `adoptClient` tests `m_activeSaver` to see whether the saver is on, so a client
  that connects after the saved computer has left is not told of it; `SaverSynced`
  states what does hold.
- `Server.cpp:209` says a configuration without the primary is refused, but
  `ServerApp::reloadConfig` (line 128) has read the file over the object in use.
- A bridge keeps modifiers that come from a key's mask and not from a key of their
  own: a repeat, or a key held on leaving, sets them and no report clears them
  (`BridgeKeyboard.cpp:789-817`). A client that was not entered keeps the keys of
  keystroke actions when its connection is lost (`Computer.cpp:117`). Keystroke
  actions all are button 0, so of two held at once on a bridge one is not released
  (`BridgeKeyboard.cpp:694`, `752`). `stray` holds these.
- Data that arrives after the user has copied on the active client overwrites the
  copy; `forceLeaveClient` sends no clipboard to the primary; a client whose
  connection was lost while it was active still takes itself for active when it
  has reconnected (`Client.cpp:660`). `CopyArrives` says what holds despite them.
- Once a grab has been ignored, the client goes on as the owner: its data, sent when
  it is left, has the number of that visit and is taken (`Server.cpp:1467`). The way
  from a computer over a bridge reads the primary's clipboard if the server takes the
  primary for the owner (`Server.cpp:479`), over what such a client has sent: with the
  primary's copy too large, nothing arrives. A former owner that is left before it
  has heard of a grab sends its old data with a newer number, too, so a user who
  crosses two computers within the delay of the network finds the older copy.
  `Settled`, and the end of `claim` in `SwitchComputer`, keep these out of
  `CopyArrives`.
- Two devices that exchange ports, or one that comes to the port another had, end
  `current`: two configs have one serial number, or an entry of `deviceToConfig` or of
  the cores to resume leads to a config that is elsewhere. From then on
  `stopAllBridgeClients`, which goes by path, may leave a core running while the tool
  is open or the server is gone, and a timer, which goes by the config's path, may stop
  another config's core. A core can still not be started twice on one path.
- A stop during a restart is followed by the start all the same.

## 8. What is not modelled

PROJECT.json lists every component with its status.

Geometry: pixel positions and relative motion in `Server`, where a position is the
side it touches; so the walk over links among computers that are not connected
(`getNeighbor`, `Server.cpp:615`, which promises to stop at its source and compares with
nothing), the bottom border's sign (`Server.cpp:1848`), the position that is set before
`leave()` can fail (`Server.cpp:449`), and `DisplayEdges.cpp`.

Left out of the modelled parts: mouse buttons and the wheel, the conditions of
`InputFilter` and a reload while a hot key is held, the key map and the modifiers it
presses around a key, dead keys and AltGr of the bridge keyboard, the second
clipboard and the bytes of its chunks, the timers and the table of handlers of the event
queue, the Windows poll, the fingerprint database, the GUI's configuration files, the
daemon's process mode.

Not modelled at all: the configuration parser and the intervals of links
(`Config.cpp`), the formats of `ProtocolUtil.cpp`, the daemon and the server side of the
IPC, settings, dialogs and layout. They compute or store; what they decide appears as a
constant or a nondeterministic answer. Operating system calls behind the platform
back ends, threads and mutexes, OpenSSL and Qt are the environment of the models.
