------------------------------ MODULE KeyRelay ------------------------------
(***************************************************************************)
(* The server's keyboard on other computers: the keys it relays, to the    *)
(* computer with the focus, to those a hot key names or to those it        *)
(* broadcasts to (src/lib/server/Server.cpp, InputFilter.cpp,              *)
(* PrimaryClient.cpp), and what the clients hold down for it               *)
(* (src/lib/client/Client.cpp, src/lib/deskflow/Computer.cpp), with a      *)
(* keyboard of their own (KeyState) or a device's (BridgeKeyboard).        *)
(*                                                                         *)
(* Messages to a client arrive in order; a connection that is lost loses   *)
(* the last of them.  How the focus moves is Server's; here it just moves. *)
(***************************************************************************)
EXTENDS KeyState, BridgeKeyboard

CONSTANTS Locals, Bridges,  \* the clients, by the keyboard they have
          Primary,
          HotKeys,          \* keystroke actions: [id, mask, to], to = {} by default
          MaxWire,          \* bound: messages under way to one client
          MaxFaults         \* bound: lost connections and reports, over the run

Clients == Locals \cup Bridges
ASSUME RelayAssumption ==
  /\ Primary \notin Clients /\ Locals \cap Bridges = {}
  /\ NoUsage \notin Keys /\ Modifiers \cap Media = {} /\ Modifiers \cup Media \subseteq Keys
  /\ IdOf \in [Buttons \ {0} -> Keys] /\ AsPressed \in BOOLEAN
  /\ HotKeys \subseteq [id : Keys, mask : SUBSET Modifiers, to : SUBSET Clients]
  /\ {MaxWire, MaxFaults} \subseteq Nat

VARIABLES
  pressed,    \* the buttons of the server's keyboard that are down
  hot,        \* the hot keys that are down
  active,     \* m_active
  connected,  \* m_clients, without the primary
  broadcast,  \* m_keyboardBroadcasting
  wire,       \* what has been written to each client and not read
  up,         \* whether each client thinks it is connected (m_ready)
  entered,    \* Computer::m_entered
  keys,       \* each client's keyboard: KeyState's record, or BridgeKeyboard's
  device,     \* what the device of each bridge holds down
  stray,      \* history: keys whose client cannot or need not release them any more
  faults      \* connections and reports lost so far

server == <<pressed, hot, active, connected, broadcast>>
client == <<up, entered, keys, device, stray>>
vars == <<server, wire, client, faults>>

Init ==
  /\ pressed = {} /\ hot = {} /\ active = Primary /\ connected = Clients
  /\ broadcast = FALSE /\ wire = [c \in Clients |-> <<>>]
  /\ up = [c \in Clients |-> TRUE] /\ entered = [c \in Clients |-> FALSE]
  /\ keys = [c \in Clients |-> IF c \in Bridges THEN NoActive ELSE NoKeys]
  /\ device = [c \in Bridges |-> {}] /\ stray = [c \in Clients |-> {}]
  /\ faults = 0

(***************************************************************************)
(* The server                                                              *)
(***************************************************************************)
\* The computers a key goes to.  A key event without a list has an empty one,
\* which is never null: while broadcasting, such a key goes nowhere.
Targets(to) == IF ~broadcast /\ to = {} THEN {active} ELSE to

\* Server.h:465, as its comment has it: the computers "to which we should send
\* broadcasted keys" get them.
BroadcastReaches == broadcast /\ pressed # {} => Targets({}) # {}

\* The primary ignores the keys it is sent.
Send(to, message) ==
  /\ \A c \in to \cap connected : Len(wire[c]) < MaxWire
  /\ wire' = [c \in Clients |-> IF c \in to \cap connected THEN Append(wire[c], message)
                                ELSE wire[c]]
  /\ UNCHANGED <<client, faults>>

Down(id, mask, button) == [type |-> "down", id |-> id, mask |-> mask, button |-> button]
Up(button) == [type |-> "up", button |-> button]
Repeat(id, mask, button) == [type |-> "repeat", id |-> id, mask |-> mask, button |-> button]
Mask == {IdOf[b] : b \in pressed} \cap Modifiers

OnKeyDown(b) ==
  /\ b \notin pressed
  /\ pressed' = pressed \cup {b}
  /\ Send(Targets({}), Down(IdOf[b], Mask, b))
  /\ UNCHANGED <<hot, active, connected, broadcast>>

OnKeyRepeat(b) ==
  /\ b \in pressed
  /\ Send({active}, Repeat(IdOf[b], Mask, b))
  /\ UNCHANGED server

OnKeyUp(b) ==
  /\ b \in pressed
  /\ pressed' = pressed \ {b}
  /\ Send(Targets({}), Up(b))
  /\ UNCHANGED <<hot, active, connected, broadcast>>

\* KeystrokeAction::perform, when the hot key goes down and when it goes up.
HotKeyDown(h) ==
  /\ h \notin hot
  /\ hot' = hot \cup {h}
  /\ Send(Targets(h.to), Down(h.id, h.mask, 0))
  /\ UNCHANGED <<pressed, active, connected, broadcast>>

HotKeyUp(h) ==
  /\ h \in hot
  /\ hot' = hot \ {h}
  /\ Send(Targets(h.to), Up(0))
  /\ UNCHANGED <<pressed, active, connected, broadcast>>

HandleKeyboardBroadcast ==
  /\ broadcast' = ~broadcast
  /\ UNCHANGED <<pressed, hot, active, connected, wire, client, faults>>

\* switchComputer: the old computer is told to leave, the new one to enter.
SwitchComputer(c) ==
  /\ c # active
  /\ active' = c
  /\ \A k \in {c, active} \cap connected : Len(wire[k]) < MaxWire
  /\ wire' = [k \in Clients |-> IF k = active THEN Append(wire[k], [type |-> "leave"])
                                ELSE IF k = c THEN Append(wire[k], [type |-> "enter"])
                                ELSE wire[k]]
  /\ UNCHANGED <<pressed, hot, connected, broadcast, client, faults>>

\* A connection is lost with the messages after the first n; the server, which
\* may notice before or after the client, removes it and takes the focus back.
LoseConnection(c, n) ==
  /\ c \in connected /\ faults < MaxFaults
  /\ faults' = faults + 1
  /\ connected' = connected \ {c}
  /\ active' = IF active = c THEN Primary ELSE active
  /\ wire' = [wire EXCEPT ![c] = Append(SubSeq(@, 1, n), [type |-> "hangup"])]
  /\ UNCHANGED <<pressed, hot, broadcast, client>>

(***************************************************************************)
(* A client                                                                *)
(***************************************************************************)
Message(c) == Head(wire[c])
Read(c, types) ==
  /\ wire[c] # <<>> /\ Message(c).type \in types
  /\ wire' = [wire EXCEPT ![c] = Tail(@)]

DownKeys(c) == IF c \in Bridges THEN device[c] ELSE keys[c].down
Excuse(c, lost) == stray' = [stray EXCEPT ![c] = (@ \cup lost) \cap DownKeys(c)']

\* A client's own keyboard.  Keys of its that go unknown are stray.
Fake(c, next, lost) ==
  /\ keys' = [keys EXCEPT ![c] = next]
  /\ UNCHANGED device
  /\ Excuse(c, lost)
  /\ UNCHANGED faults

\* A bridge sends the reports; the device may not get one of them.  A repeat
\* ends there; the others go on.
Dropped(reports, i) ==
  IF i = 0 THEN reports
  ELSE IF Len(reports) > 1 /\ reports[1].press THEN SubSeq(reports, 1, i - 1)
  ELSE RemoveAt(reports, i)
SendReports(c, op, lost) ==
  \E i \in 0..Len(op.reports) :
    /\ i > 0 => faults < MaxFaults
    /\ faults' = IF i > 0 THEN faults + 1 ELSE faults
    /\ keys' = [keys EXCEPT ![c] = op.next]
    /\ device' = [device EXCEPT ![c] = ApplyAll(@, Dropped(op.reports, i))]
    /\ Excuse(c, lost \cup Borrowed(keys[c]) \cup Borrowed(op.next)
                    \cup (IF i > 0 THEN Keys ELSE {}))

\* The modifiers a repeat sets that no key of the bridge holds; and the keys of
\* a button that is pressed again, as all keystroke actions are button 0.
Unheld(op) == UNION {r.mods : r \in {q \in ToSet(op.reports) : "mods" \in DOMAIN q}}
                \ Held(op.next.active)
Shared(k, op, b) == IF Of(k, b) = {} THEN {} ELSE Of(k, b) \cup Of(op.next, b)

HandleKeyDown(c) ==
  /\ Read(c, {"down"})
  /\ LET m == Message(c)
         op == KeyDown(keys[c], m.id, m.mask, m.button)
     IN IF c \in Bridges
        THEN SendReports(c, op, Shared(keys[c], op, m.button))
        ELSE Fake(c, FakeKeyDown(keys[c], m.id, m.button), {})
  /\ UNCHANGED <<server, up, entered>>

HandleKeyRepeat(c) ==
  /\ Read(c, {"repeat"})
  /\ LET m == Message(c)
         op == KeyRepeat(keys[c], m.id, m.mask)
     IN IF c \in Bridges THEN SendReports(c, op, Unheld(op))
        ELSE Fake(c, FakeKeyRepeat(keys[c], m.id, m.button), {})
  /\ UNCHANGED <<server, up, entered>>

HandleKeyUp(c) ==
  /\ Read(c, {"up"})
  /\ IF c \in Bridges THEN SendReports(c, KeyUp(keys[c], Message(c).button), {})
     ELSE Fake(c, FakeKeyUp(keys[c], Message(c).button), {})
  /\ UNCHANGED <<server, up, entered>>

HandleEnter(c) ==
  /\ Read(c, {"enter"})
  /\ entered' = [entered EXCEPT ![c] = TRUE]
  /\ UNCHANGED <<server, up, keys, device, stray, faults>>

\* leaveSecondary: every key is released.
Leave(c) ==
  /\ entered' = [entered EXCEPT ![c] = FALSE]
  /\ IF c \in Bridges THEN SendReports(c, AllKeysUp(keys[c]), {})
     ELSE Fake(c, FakeAllKeysUp(keys[c]), {})

HandleLeave(c) == Read(c, {"leave"}) /\ Leave(c) /\ UNCHANGED <<server, up>>

\* cleanupComputer, Computer::disable: only a computer that is entered leaves.
HandleDisconnected(c) ==
  /\ Read(c, {"hangup"})
  /\ up' = [up EXCEPT ![c] = FALSE]
  /\ IF entered[c] THEN Leave(c)
     ELSE /\ UNCHANGED <<entered, keys, device, faults>>
          /\ Excuse(c, DownKeys(c))
  /\ UNCHANGED server

\* handshakeComplete, Computer::enable, and the server's adoptClient.
HandleConnected(c) ==
  /\ c \notin connected /\ ~up[c] /\ wire[c] = <<>>
  /\ up' = [up EXCEPT ![c] = TRUE] /\ connected' = connected \cup {c}
  /\ IF c \in Bridges THEN UNCHANGED <<keys, device, stray, faults>>
     ELSE Fake(c, UpdateKeyState(keys[c]), {})
  /\ UNCHANGED <<pressed, hot, active, broadcast, wire, entered>>

KeyboardMappingChanged(c) ==
  /\ up[c] /\ c \in Locals
  /\ Fake(c, RefreshKeyboard(keys[c]), {})
  /\ UNCHANGED <<server, wire, up, entered>>

Next ==
  \/ \E b \in Buttons \ {0} : OnKeyDown(b) \/ OnKeyRepeat(b) \/ OnKeyUp(b)
  \/ \E h \in HotKeys : HotKeyDown(h) \/ HotKeyUp(h)
  \/ HandleKeyboardBroadcast
  \/ \E c \in connected \cup {Primary} : SwitchComputer(c)
  \/ \E c \in Clients :
       \/ \E n \in 0..Len(wire[c]) : LoseConnection(c, n)
       \/ HandleKeyDown(c) \/ HandleKeyRepeat(c) \/ HandleKeyUp(c)
       \/ HandleEnter(c) \/ HandleLeave(c) \/ HandleDisconnected(c)
       \/ HandleConnected(c) \/ KeyboardMappingChanged(c)

Spec == Init /\ [][Next]_vars

(***************************************************************************)
(* Properties                                                              *)
(***************************************************************************)
TypeOK ==
  /\ pressed \subseteq Buttons \ {0} /\ hot \subseteq HotKeys
  /\ active \in connected \cup {Primary} /\ connected \subseteq Clients
  /\ \A c \in Clients : stray[c] \subseteq Keys /\ Len(wire[c]) <= MaxWire + 1
  /\ \A c \in Locals :
       /\ keys[c].server \in [Buttons -> Keys \cup {Unmapped}] /\ keys[c].down \subseteq Keys
       /\ keys[c].synthetic \in [Keys -> 0..Cardinality(Buttons)]
  /\ \A c \in Bridges : device[c] \subseteq Keys /\ Known(keys[c]) \subseteq Keys

\* Every key a client holds down is one it knows and would release on leaving,
\* and it counts each button once, however presses, repeats, refreshes of the
\* mapping and key ups of two sources interleave.  The keys it lost are: those
\* down when a connection was lost on a client without the focus, those of a
\* report that did not arrive, modifiers set without their key, and those of
\* two keystrokes held at once, which share a button (BridgeKeyboard.cpp:694).
Releasable ==
  /\ TypeOK
  /\ \A c \in Bridges : device[c] \subseteq Known(keys[c]) \cup stray[c]
  /\ \A c \in Locals :
       /\ keys[c].down \subseteq Releases(keys[c]) \cup stray[c]
       /\ \A k \in Keys :
            keys[c].synthetic[k] = Cardinality({b \in Buttons : keys[c].server[b] = k})

\* When nothing is pressed on the server and all messages have arrived, no
\* computer without the focus holds a key but a lost one: whoever was sent the
\* press got the release or was left (Server.cpp:1562-1606, 474).
NothingStuck ==
  pressed = {} /\ hot = {} =>
    \A c \in connected : wire[c] = <<>> /\ ~entered[c] => DownKeys(c) \subseteq stray[c]
=============================================================================
