------------------------ MODULE BridgeClientManager ------------------------
(***************************************************************************)
(* What the GUI knows of its bridge clients                                *)
(* (src/lib/gui/core/BridgeClientManager.cpp), as operators on a record g  *)
(* that has m_clients and m_deviceToConfig among its fields.               *)
(*                                                                         *)
(* Every device has one config file, so a number stands for a device, for  *)
(* its serial number and for its config; numbers are in the order of the   *)
(* files.  Several configs for one serial, and so the serial locks, are    *)
(* left out, and so is the profile, which only the layout asks for.        *)
(***************************************************************************)
EXTENDS Naturals, FiniteSetsExt

CONSTANTS DeviceCount, PathCount, none
ASSUME ManagerAssumption == {DeviceCount, PathCount} \subseteq Nat /\ none \notin Nat

Devices == 1..DeviceCount  \* the numbers of devices, of their serials and of their configs
Paths == 1..PathCount      \* device paths

\* BridgeClientState
NewClient(c) ==
  [path |-> none, serial |-> c, available |-> FALSE, manual |-> FALSE, attempts |-> 0,
   process |-> none, timer |-> none]

\* clientStateByDevice
ByDevice(g, path) == IF path = none THEN none ELSE g.deviceToConfig[path]
Running(g, c) == c # none /\ g.clients[c].process # none

\* A config is meant by the serial number, or else by the path.
Meant(g, path, serial) ==
  {c \in Devices : g.clients[c].serial = serial \/ g.clients[c].path = path}
LastOf(configs) == Max(configs)

SetDeviceAvailable(g, path, serial, available) ==
  LET meant == Meant(g, path, serial)
  IN [g EXCEPT
       !.clients = [c \in Devices |-> IF c \notin meant THEN g.clients[c]
                      ELSE [g.clients[c] EXCEPT !.path = path, !.serial = serial, !.available = available]],
       !.deviceToConfig[path] =
         IF meant = {} THEN @ ELSE IF available THEN LastOf(meant) ELSE none]

SetManuallyDisconnected(g, serial, on) ==
  [g EXCEPT !.clients = [c \in Devices |->
     IF g.clients[c].serial # serial THEN g.clients[c]
     ELSE [g.clients[c] EXCEPT !.manual = on, !.attempts = IF on THEN 0 ELSE @]]]

\* isSerialNumberManuallyDisconnected
ManuallyDisconnected(g, serial) ==
  \E c \in Devices : g.clients[c].serial = serial /\ g.clients[c].manual

X_TimerRunsOn(g, path) ==
  IF ByDevice(g, path) = none THEN g
  ELSE [g EXCEPT !.clients[ByDevice(g, path)].attempts = 0]

HandleConnectionEstablished(g, path) ==
  IF ByDevice(g, path) = none THEN g
  ELSE [g EXCEPT !.clients[ByDevice(g, path)].attempts = 0,
                 !.clients[ByDevice(g, path)].timer = none]

HandleConnectionFinished(g, path) ==
  IF ByDevice(g, path) = none THEN g
  ELSE [g EXCEPT !.clients[ByDevice(g, path)].process = none,
                 !.clients[ByDevice(g, path)].timer = none]

UpdateProcess(g, c, process) == [g EXCEPT !.clients[c].process = process]
UpdateTimer(g, c, timer) == [g EXCEPT !.clients[c].timer = timer]
IncrementAttempts(g, c) == [g EXCEPT !.clients[c].attempts = @ + 1]
ClearAttempts(g, c) == [g EXCEPT !.clients[c].attempts = 0]
=============================================================================
