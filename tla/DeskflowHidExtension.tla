----------------------- MODULE DeskflowHidExtension -----------------------
(***************************************************************************)
(* The GUI's bridge clients: one core process for each device, started and *)
(* stopped as devices are plugged in and unplugged, the server's core      *)
(* starts and stops, cores end, timers run out, the user clicks and the    *)
(* firmware tool takes the devices (src/lib/gui/DeskflowHidExtension.cpp,  *)
(* core/BridgeClientManager.cpp, core/BridgeClientProcess.cpp,             *)
(* core/CoreProcess.cpp, devices/LinuxUdevMonitor.cpp).                    *)
(*                                                                         *)
(* Everything runs in the GUI's thread: a handler is a step, and handlers  *)
(* transform the record g.  Every device has its config file, and tells    *)
(* its serial when it is plugged in: creating, renaming and deleting       *)
(* configs, expired trials and the probing of devices are left out.        *)
(***************************************************************************)
EXTENDS BridgeClientManager, CoreProcess, Sequences, FiniteSets

CONSTANTS Processes,  \* bound: BridgeClientProcess objects at a time
          MaxMoves,   \* bound: changes of what is plugged in, over the run
          MaxServer,  \* bound: starts, restarts and exits of the server's core, over the run
          MaxRetries  \* bound: retry timers of a config at a time
ASSUME ExtensionAssumption ==
  /\ {MaxMoves, MaxServer, MaxRetries} \subseteq Nat /\ Processes \subseteq Nat
  /\ IsFiniteSet(Processes) /\ Cardinality(Processes) >= DeviceCount + PathCount

VARIABLES
  g,          \* the extension's, the manager's and the processes' data: clients,
              \* deviceToConfig, process, owner (s_deviceOwners), widget, auto (the
              \* config's AutoConnect), resume (m_resumeConnectionAfterServerRestart),
              \* suspended (m_bridgeClientsSuspended: the firmware tool is open)
  retries,    \* retries[c]: the two-second timers of a config that have not fired
  core,       \* the server's core
  plugged,    \* plugged[d]: the path of a device, or none
  udev,       \* the monitor's events
  tracked,    \* the monitor's m_connectedDevices
  used,       \* bounds: [moves, server] so far
  current     \* history: the manager's tables have been current so far

vars == <<g, retries, core, plugged, udev, tracked, used, current>>

NoProcess == [running |-> FALSE, path |-> none, config |-> none, established |-> FALSE]

Init ==
  /\ g = [clients |-> [c \in Devices |-> NewClient(c)],
          deviceToConfig |-> [p \in Paths |-> none],
          process |-> [p \in Processes |-> NoProcess],
          owner |-> [p \in Paths |-> none],
          widget |-> [c \in Devices |-> [path |-> none, connected |-> FALSE]],
          auto |-> [c \in Devices |-> TRUE],
          resume |-> [p \in Paths |-> none],
          suspended |-> FALSE]
  /\ retries = [c \in Devices |-> 0] /\ core = NewCore
  /\ plugged = [d \in Devices |-> none] /\ udev = <<>> /\ tracked = [p \in Paths |-> none]
  /\ used = [moves |-> 0, server |-> 0] /\ current = TRUE

\* isServerReady
Ready(c) == IsStarted(c) /\ c.connection = "Listening"

\* A loop over 1..count, in this order.
ForEach(Do(_, _), count, s) ==
  LET after[n \in 0..count] == IF n = 0 THEN s ELSE Do(after[n - 1], n)
  IN after[count]

(***************************************************************************)
(* BridgeClientProcess                                                     *)
(***************************************************************************)

\* stop(): none of its output or its exit is reported any more.
StopProcess(s, p) ==
  LET path == s.process[p].path
  IN IF ~s.process[p].running THEN s
     ELSE [s EXCEPT !.process[p] = NoProcess,
                    !.owner[path] = IF @ = p THEN none ELSE @]

\* Objects that nothing refers to can be used again.
Free(s) == {p \in Processes : ~s.process[p].running
                              /\ \A c \in Devices : s.clients[c].process # p}
StartProcess(s, p, path, c) ==
  [s EXCEPT !.process[p] = [running |-> TRUE, path |-> path, config |-> c, established |-> FALSE],
            !.owner[path] = p]

(***************************************************************************)
(* DeskflowHidExtension                                                    *)
(***************************************************************************)
SetConnected(s, c, on) == [s EXCEPT !.widget[c].connected = on]
SetPath(s, c, path) == [s EXCEPT !.widget[c].path = path]

StopBridgeClient(s, path) ==
  LET c == ByDevice(s, path)
      stopped == IF Running(s, c) THEN StopProcess(s, s.clients[c].process) ELSE s
  IN IF c = none THEN s ELSE SetConnected(HandleConnectionFinished(stopped, path), c, FALSE)

StopOne(s, c) == IF Running(s, c) THEN StopBridgeClient(s, s.clients[c].path) ELSE s
StopAllBridgeClients(s) ==
  LET stopped == ForEach(StopOne, DeviceCount, s)
  IN [stopped EXCEPT !.widget = [c \in Devices |-> [stopped.widget[c] EXCEPT !.connected = FALSE]]]

X_HolderStays(s, path, c) ==
  LET device == IF Running(s, ByDevice(s, path)) THEN StopBridgeClient(s, path) ELSE s
  IN IF Running(device, c) THEN StopBridgeClient(device, device.clients[c].path) ELSE device

\* What runs for the device, for the config or on the path is stopped first.
StopForConnect(s, path, c) ==
  LET device == IF Running(s, ByDevice(s, path)) THEN StopBridgeClient(s, path) ELSE s
      config == IF Running(device, c) THEN StopBridgeClient(device, device.clients[c].path) ELSE device
  IN IF config.owner[path] = none THEN config ELSE StopProcess(config, config.owner[path])

\* bridgeClientConnectToggled, to connect
ConnectBridgeClient(s, path, c, failing) ==
  LET manual == SetManuallyDisconnected(s, c, FALSE)
      stopped == StopForConnect(manual, path, c)
      p == Min(Free(stopped))
      started == UpdateTimer(UpdateProcess(StartProcess(stopped, p, path, c), c, p), c, path)
  IN IF s.suspended THEN s
     ELSE IF path = none THEN manual
     ELSE IF c \in failing
       THEN SetConnected(UpdateTimer(UpdateProcess(stopped, c, none), c, none), c, FALSE)
     ELSE SetConnected(started, c, TRUE)

DisconnectBridgeClient(s, path, c) ==
  StopBridgeClient(SetConnected(SetManuallyDisconnected(s, c, TRUE), c, FALSE), path)

\* processConnectionRequests: what a restart of the server interrupted, then
\* what connects by itself.
ResumeOne(s, path, failing) ==
  IF s.resume[path] = none THEN s ELSE ConnectBridgeClient(s, path, s.resume[path], failing)
AutoConnectOne(s, c, failing) ==
  LET path == s.widget[c].path
      known == ByDevice(s, path)
  IN IF /\ path # none /\ s.auto[c] /\ known # none
        /\ ~s.clients[known].manual /\ ~Running(s, known)
     THEN ConnectBridgeClient(s, path, c, failing) ELSE s
ProcessConnectionRequests(s, failing) ==
  LET resume(r, path) == ResumeOne(r, path, failing)
      auto(r, c) == AutoConnectOne(r, c, failing)
      resumed == [ForEach(resume, PathCount, s) EXCEPT !.resume = [p \in Paths |-> none]]
  IN ForEach(auto, DeviceCount, resumed)

\* onServerConnectionStateChanged(Disconnected)
ServerLost(s) ==
  LET running == {c \in Devices : Running(s, c)}
      at(p) == {c \in running : s.clients[c].path = p}
      noted == [s EXCEPT !.resume = [p \in Paths |-> IF at(p) = {} THEN s.resume[p] ELSE LastOf(at(p))]]
  IN StopAllBridgeClients(noted)

(***************************************************************************)
(* The server's core.  A handler of its states runs the extension's.       *)
(***************************************************************************)

\* What a change of the connection state does to the bridge clients.
Follow(s, before, after, failing) ==
  IF Ready(after) /\ ~Ready(before) THEN ProcessConnectionRequests(s, failing) ELSE s
Lost(s, before) == IF before.connection = "Disconnected" THEN s ELSE ServerLost(s)
CountServer == used.server < MaxServer /\ used' = [used EXCEPT !.server = @ + 1]
ServerUnchanged == UNCHANGED <<retries, plugged, udev, tracked>>

\* The tool's dialog is modal: nothing else of the window can be used.
StartCore ==
  /\ CountServer /\ ~g.suspended /\ core.state \in {"Stopped", "Stopping"}
  /\ \E fails \in BOOLEAN : core' = Start(core, fails)
  /\ g' = g /\ ServerUnchanged

StopCore ==
  /\ ~g.suspended /\ core.state \in {"Started", "RetryPending"}
  /\ core' = Stop(core) /\ g' = Lost(g, core) /\ UNCHANGED used /\ ServerUnchanged

RestartCore ==
  /\ CountServer /\ ~g.suspended /\ core.state \in {"Started", "RetryPending"}
  /\ core' = Restart(core, FALSE) /\ g' = Lost(g, core) /\ ServerUnchanged

CoreFinished ==
  /\ CountServer /\ core.running
  /\ \E code \in {"success", "failure", "duplicate"} : core' = OnProcessFinished(core, code, FALSE)
  /\ g' = Lost(g, core) /\ ServerUnchanged

CoreRetryTimeout ==
  /\ core.retry /\ core' = RetryTimeout(core, FALSE)
  /\ UNCHANGED <<g, used>> /\ ServerUnchanged

CheckExisting ==
  /\ core.checking /\ core' \in {ExistingStopped(core), ExistingStays(core)}
  /\ UNCHANGED <<g, used>> /\ ServerUnchanged

\* A second after the start; what a core said may still be queued when it has
\* gone.
CoreIpc ==
  /\ \/ core.state = "Started" /\ core.running /\ core.ipc # "connected" /\ core' = ConnectIpc(core)
     \/ core.ipc = "closed" /\ core' = ShutDownIpc(core)
  /\ UNCHANGED <<g, used>> /\ ServerUnchanged

CoreListening(failing) ==
  /\ core.ipc # "none" /\ core.connection # "Listening"
  /\ core' = [core EXCEPT !.connection = "Listening"]
  /\ g' = Follow(g, core, core', failing) /\ UNCHANGED used /\ ServerUnchanged

(***************************************************************************)
(* USB devices, as udev tells of them.                                     *)
(***************************************************************************)
CoreUnchanged == UNCHANGED core

Plug(d, path) ==
  /\ used.moves < MaxMoves /\ used' = [used EXCEPT !.moves = @ + 1]
  /\ plugged[d] = none /\ \A e \in Devices : plugged[e] # path
  /\ plugged' = [plugged EXCEPT ![d] = path]
  /\ udev' = IF g.suspended THEN udev ELSE Append(udev, <<"add", path, d>>)
  /\ UNCHANGED <<g, retries, tracked>> /\ CoreUnchanged

Unplug(d) ==
  /\ plugged[d] # none /\ plugged' = [plugged EXCEPT ![d] = none]
  /\ udev' = IF g.suspended THEN udev ELSE Append(udev, <<"remove", plugged[d], d>>)
  /\ UNCHANGED <<g, retries, tracked, used>> /\ CoreUnchanged

UsbDeviceConnected(s, path, d, failing) ==
  LET known == SetPath(SetDeviceAvailable(s, path, d, TRUE), d, path)
      ready == ClearAttempts(SetManuallyDisconnected(known, d, FALSE), d)
  IN IF /\ ready.auto[d] /\ ~ManuallyDisconnected(ready, d) /\ Ready(core)
        /\ ~Running(ready, ByDevice(ready, path))
     THEN ConnectBridgeClient(ready, path, d, failing) ELSE ready

X_NotStopped(s, path, d) ==
  LET c == ByDevice(s, path)
      hidden == IF c = none THEN s ELSE SetPath(s, c, none)
  IN [SetDeviceAvailable(hidden, path, d, FALSE) EXCEPT !.resume[path] = none]

UsbDeviceDisconnected(s, path, d) ==
  LET c == ByDevice(s, path)
      stopped == IF Running(s, c) THEN StopBridgeClient(s, path) ELSE s
      hidden == IF c = none THEN stopped ELSE SetPath(stopped, c, none)
  IN [SetDeviceAvailable(hidden, path, d, FALSE) EXCEPT !.resume[path] = none]

HandleUdevEvent(failing) ==
  /\ udev # <<>> /\ udev' = Tail(udev)
  /\ LET event == Head(udev)
         path == event[2]
     IN IF event[1] = "add"
        THEN /\ tracked' = [tracked EXCEPT ![path] = event[3]]
             /\ g' = UsbDeviceConnected(g, path, event[3], failing)
        ELSE /\ tracked' = [tracked EXCEPT ![path] = none]
             /\ g' = IF tracked[path] = none THEN g
                     ELSE UsbDeviceDisconnected(g, path, tracked[path])
  /\ UNCHANGED <<retries, plugged, used>> /\ CoreUnchanged

\* updateBridgeClientDeviceStates
UpdateOne(s, c, failing) ==
  LET path == plugged[c]
      found == IF path = none THEN s ELSE SetDeviceAvailable(s, path, c, TRUE)
  IN IF /\ path # none /\ ByDevice(found, path) = none /\ s.auto[c] /\ Ready(core)
        /\ ~ManuallyDisconnected(found, c) /\ ~Running(found, c)
     THEN ConnectBridgeClient(SetPath(found, c, path), path, c, failing)
     ELSE SetPath(found, c, path)
UpdateDeviceStates(s, failing) ==
  LET update(r, c) == UpdateOne(r, c, failing) IN ForEach(update, DeviceCount, s)

(***************************************************************************)
(* The bridge clients' cores, the timers and the user.                     *)
(***************************************************************************)
BridgeUnchanged == UNCHANGED <<core, plugged, udev, tracked, used>>

\* The core reached the server: the connection timer stops.
ConnectionEstablished(p) ==
  /\ g.process[p].running /\ ~g.process[p].established
  /\ g' = [HandleConnectionEstablished(g, g.process[p].path) EXCEPT !.process[p].established = TRUE]
  /\ UNCHANGED retries /\ BridgeUnchanged

\* handleHandshakeFailure: not our firmware, do not try again.
HandshakeFailed(p) ==
  LET c == ByDevice(g, g.process[p].path)
  IN /\ g.process[p].running /\ ~g.process[p].established /\ c # none
     /\ g' = SetConnected(SetManuallyDisconnected([g EXCEPT !.auto[c] = FALSE], c, TRUE), c, FALSE)
     /\ UNCHANGED retries /\ BridgeUnchanged

\* A failed core is started again three times in a row.
MayRetry(s, c) == s.clients[c].attempts < 3

\* bridgeClientProcessFinished
ProcessFinished(p, error) ==
  LET path == g.process[p].path
      c == ByDevice(g, path)
      ended == HandleConnectionFinished(StopProcess(g, p), path)
      shown == SetConnected(ended, c, FALSE)
      again == error /\ g.auto[c] /\ ~g.clients[c].manual
      here == \E d \in Devices : plugged[d] = path
  IN /\ g.process[p].running
     /\ IF c = none THEN g' = StopProcess(g, p) /\ UNCHANGED retries
        ELSE IF again /\ ~here THEN g' = SetPath(shown, c, none) /\ UNCHANGED retries
        ELSE IF again /\ (g.suspended \/ ~Ready(core)) THEN g' = shown /\ UNCHANGED retries
        ELSE IF again /\ MayRetry(shown, c)
          THEN /\ retries[c] < MaxRetries /\ retries' = [retries EXCEPT ![c] = @ + 1]
               /\ g' = IncrementAttempts(shown, c)
        ELSE g' = ClearAttempts(shown, c) /\ UNCHANGED retries
     /\ BridgeUnchanged

RetryTimer(c, failing) ==
  /\ retries[c] > 0 /\ retries' = [retries EXCEPT ![c] = @ - 1]
  /\ g' = IF Ready(core) /\ ~g.clients[c].manual /\ g.clients[c].available
          THEN ConnectBridgeClient(g, g.clients[c].path, c, failing) ELSE g
  /\ BridgeUnchanged

\* The 120 seconds of a connection.
ConnectionTimeout(c) ==
  LET path == g.clients[c].timer
      fired == UpdateTimer(g, c, none)
  IN /\ path # none
     /\ g' = IF Running(fired, ByDevice(fired, path)) THEN StopBridgeClient(fired, path) ELSE fired
     /\ UNCHANGED retries /\ BridgeUnchanged

\* The button is enabled while the device is there and the server is ready,
\* or to disconnect.
Toggle(c, failing) ==
  LET w == g.widget[c]
  IN /\ ~g.suspended /\ w.path # none /\ (Ready(core) \/ w.connected)
     /\ g' = IF w.connected THEN DisconnectBridgeClient(g, w.path, c)
             ELSE ConnectBridgeClient(g, w.path, c, failing)
     /\ UNCHANGED retries /\ BridgeUnchanged

\* openEsp32HidTools, before and after its dialog.
OpenTool ==
  /\ ~g.suspended /\ udev' = <<>> /\ g' = StopAllBridgeClients([g EXCEPT !.suspended = TRUE])
  /\ UNCHANGED <<retries, core, plugged, tracked, used>>

CloseTool(failing) ==
  /\ g.suspended
  /\ tracked' = [p \in Paths |-> IF \E d \in Devices : plugged[d] = p
                                  THEN CHOOSE d \in Devices : plugged[d] = p ELSE tracked[p]]
  /\ LET updated == UpdateDeviceStates([g EXCEPT !.suspended = FALSE], failing)
     IN g' = IF Ready(core) THEN ProcessConnectionRequests(updated, failing) ELSE updated
  /\ UNCHANGED <<retries, core, plugged, udev, used>>

CoreNext == \/ StartCore \/ StopCore \/ RestartCore \/ CoreFinished \/ CoreRetryTimeout
            \/ CheckExisting \/ CoreIpc \/ \E failing \in SUBSET Devices : CoreListening(failing)
UsbNext == \/ \E d \in Devices : Unplug(d) \/ \E path \in Paths : Plug(d, path)
           \/ \E failing \in SUBSET Devices : HandleUdevEvent(failing)
BridgeNext ==
  \/ \E p \in Processes : \/ ConnectionEstablished(p) \/ HandshakeFailed(p)
                          \/ \E error \in BOOLEAN : ProcessFinished(p, error)
  \/ \E c \in Devices : \/ ConnectionTimeout(c)
                        \/ \E failing \in SUBSET {c} : RetryTimer(c, failing) \/ Toggle(c, failing)
  \/ OpenTool \/ \E failing \in SUBSET Devices : CloseTool(failing)

\* Every serial number is the config's own, and what a path leads to, or what
\* is to be resumed on it, is a config that has the path.  It ends when
\* setDeviceAvailable takes a config for the device that came to its old path,
\* and when the tool hid a device's change of ports.
Current(s) ==
  /\ \A c \in Devices : s.clients[c].serial = c
  /\ \A path \in Paths : s.deviceToConfig[path] # none => s.clients[s.deviceToConfig[path]].path = path
  /\ \A path \in Paths : s.resume[path] # none => s.deviceToConfig[path] = s.resume[path]

Next == (CoreNext \/ UsbNext \/ BridgeNext) /\ current' = (current /\ Current(g'))

Spec == Init /\ [][Next]_vars

(***************************************************************************)
(* Properties                                                              *)
(***************************************************************************)

ClientState == [path : Paths \cup {none}, serial : Devices, available : BOOLEAN, manual : BOOLEAN,
                attempts : 0..3, process : Processes \cup {none}, timer : Paths \cup {none}]
ProcessData == [running : BOOLEAN, path : Paths \cup {none}, config : Devices \cup {none},
                established : BOOLEAN]
ExtensionData == [clients : [Devices -> ClientState], deviceToConfig : [Paths -> Devices \cup {none}],
                  process : [Processes -> ProcessData], owner : [Paths -> Processes \cup {none}],
                  widget : [Devices -> [path : Paths \cup {none}, connected : BOOLEAN]],
                  auto : [Devices -> BOOLEAN], resume : [Paths -> Devices \cup {none}],
                  suspended : BOOLEAN]

\* The types of the variables; a config is never tried more than three times
\* in a row (bridgeClientProcessFinished).
TypeOK ==
  /\ g \in ExtensionData /\ retries \in [Devices -> 0..MaxRetries]
  /\ core.state \in ProcessStates
  /\ core.connection \in {"Disconnected", "Connecting", "Listening"}
  /\ plugged \in [Devices -> Paths \cup {none}]

\* A running bridge core holds its path alone, wherever the devices went: a
\* core that is started for a path replaces the one that holds it, also one
\* that the manager lost (DeskflowHidExtension.cpp:1050-1065,
\* BridgeClientProcess::forDevice).  While the tables are current, it is also
\* the process of its config, and its path leads to the config: unplugging the
\* device, disconnecting it, stopping the server and opening the tool all find
\* the core through these three tables, which different handlers keep.
CoresReachable ==
  /\ TypeOK
  /\ \A p \in Processes : g.process[p].running =>
       LET it == g.process[p]
       IN /\ g.owner[it.path] = p
          /\ current => g.clients[it.config].process = p /\ g.deviceToConfig[it.path] = it.config

\* No bridge core is started while the firmware tool has the devices
\* (openEsp32HidTools) or the server is not ready, whatever becomes ready or
\* runs out meanwhile; and while the tables are current none goes on when the
\* tool opens or the server's connection is lost
\* (onServerConnectionStateChanged).
OnlyWhileServed ==
  /\ [][\A p \in Processes :
          ~g.process[p].running /\ g'.process[p].running => ~g'.suspended /\ Ready(core')]_vars
  /\ [](current /\ (g.suspended \/ core.connection = "Disconnected") =>
          \A p \in Processes : ~g.process[p].running)

\* The connection timer, which is stopped by the handler of another event,
\* never stops a core that has reached the server, while the tables are
\* current (bridgeClientConnectionTimeout, handleConnectionEstablished).
TimeoutSpares ==
  [][\A c \in Devices, p \in Processes :
       current /\ g.process[p].established /\ ConnectionTimeout(c) => g'.process[p].running]_vars

\* Whatever happens to the ports, a core that runs can be found by its path:
\* "CRITICAL: Also check if process is running for this CONFIGURATION (Serial),
\* even if device path differs" (DeskflowHidExtension.cpp:1050).  Does not
\* hold: setDeviceAvailable overwrites the serial of a config that was on the
\* path before.
AlwaysReachable ==
  \A p \in Processes : g.process[p].running => g.deviceToConfig[g.process[p].path] = g.process[p].config

\* "so we never hang in the Stopping state" (CoreProcess.cpp:292): while the
\* server's core is Stopping, there is a process that will end or a timer.
\* Does not hold: stop() during RetryPending has nothing to wait for.
NeverHangs ==
  core.state = "Stopping" => core.running \/ core.retry \/ core.checking
=============================================================================
