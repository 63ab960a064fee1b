---------------------------- MODULE CdcTransport ----------------------------
(***************************************************************************)
(* The serial link between the bridge and its device, and the commands     *)
(* sent over it (src/lib/platform/bridge/CdcTransport.cpp).                *)
(*                                                                         *)
(* A command writes one control frame and waits for the reply with a       *)
(* deadline.  The device answers each frame once and in order, but a reply *)
(* does not say which frame it answers: after a deadline has passed, the   *)
(* late reply is still on its way when the next command is sent.           *)
(*                                                                         *)
(* The frames of a handshake (HELLO, then the name and the serial number)  *)
(* and the command that needed it are one program, `todo'.  A frame whose  *)
(* bytes have not arrived is in `asked', as its question; an arrived one   *)
(* is in `arrived' (the kernel's buffer and m_rxBuffer together).          *)
(***************************************************************************)
EXTENDS Integers, Sequences

CONSTANTS
  Total,        \* how many profiles the device holds, in slots 0, 1, ...
  Reported,     \* the number it reports: Total, or 0 from older firmware
  Profiles,     \* what a slot can hold
  Blank,        \* an erased slot
  Stored,       \* what the slots hold at first
  MaxLate       \* bound: how many waits may pass their deadline

Slots == 0..(Total - 1)

ASSUME DeviceAssumption ==
  /\ Total \in Nat \ {0} /\ Reported \in {0, Total}
  /\ Blank \in Profiles /\ Stored \in [Slots -> Profiles] /\ MaxLate \in Nat

VARIABLES
  device,       \* external: its profiles, the active one, plugged or not
  asked,        \* questions the device has not answered yet
  arrived,      \* replies that nothing has read yet
  open,         \* m_fd # -1
  handshake,    \* m_handshakeComplete
  config,       \* m_deviceConfig, and whether m_hasDeviceConfig is set
  todo,         \* the frames the current call has still to send
  waiting,      \* the head of todo is sent, its reply is awaited
  outcome,      \* what the last call returned
  late,         \* waits that have passed their deadline
  lost,         \* commands whose wait ended before their own reply came, but
                \* a read that took a bare success is no excuse
  owed          \* a late reply was on its way when the last frame was sent

link == <<asked, arrived>>
port == <<open, handshake, config>>
call == <<todo, waiting, outcome>>
waits == <<late, lost, owed>>
transport == <<device, link, port, call, waits>>

ConfigOps == {"getName", "setName", "getSerial", "keepAlive"}
ReadOps == {"get", "getActive"}
ChangeOps == {"switch", "set", "erase"}

Question(op, slot, profile) == [op |-> op, slot |-> slot, profile |-> profile]
Ask(op) == Question(op, 0, Blank)

\* A reply; `own' marks the one to the question that is waited for now.
Reply(form, op, status, slot, profile, own) ==
  [form |-> form, op |-> op, status |-> status, slot |-> slot,
   profile |-> profile, own |-> own]

NoConfig == [has |-> FALSE, active |-> 0, total |-> 0]
NoOutcome == [done |-> FALSE, ok |-> FALSE, own |-> FALSE,
              reply |-> Reply("none", "none", 0, 0, Blank, FALSE)]
Failed == [NoOutcome EXCEPT !.done = TRUE]

TransportInit ==
  /\ device \in [plugged : {TRUE}, active : Slots, profiles : {Stored}]
  /\ asked = <<>> /\ arrived = <<>>
  /\ open = FALSE /\ handshake = FALSE /\ config = NoConfig
  /\ todo = <<>> /\ waiting = FALSE /\ outcome = NoOutcome
  /\ late = 0 /\ lost = {} /\ owed = FALSE

Idle == todo = <<>>

(***************************************************************************)
(* A call: ensureOpen(), then the command's own frame.  Opening an open    *)
(* port only repeats a handshake that did not complete; a handshake that   *)
(* fails leaves the port open.                                             *)
(***************************************************************************)
Handshake == <<Ask("hello"), Ask("getName"), Ask("getSerial")>>

Call(q) ==
  /\ Idle
  /\ IF ~open /\ ~device.plugged
     THEN /\ outcome' = Failed
          /\ UNCHANGED <<port, todo>>
     ELSE /\ todo' = (IF open /\ handshake THEN <<>> ELSE Handshake) \o <<q>>
          /\ outcome' = NoOutcome
          /\ IF open THEN UNCHANGED port
             ELSE /\ open' = TRUE /\ handshake' = FALSE /\ config' = NoConfig
  /\ waiting' = FALSE
  /\ UNCHANGED <<device, link, waits>>

\* The end of the frame at the head of todo.  Only the name and the serial
\* number read in a handshake may fail without failing the call.
Finish(result) ==
  LET more == Len(todo) > 1 /\ (result.ok \/ Head(todo).op # "hello")
  IN /\ todo' = IF more THEN Tail(todo) ELSE <<>>
     /\ outcome' = IF more THEN NoOutcome ELSE result
     /\ waiting' = FALSE

Stale(seq) == [i \in 1..Len(seq) |-> [seq[i] EXCEPT !.own = FALSE]]

\* discardInput(), then writeAll().  A HID frame and the end of open() need
\* no reply; the first does not discard either.
Write(discard) ==
  /\ ~Idle /\ ~waiting
  /\ IF Head(todo).op \in {"open", "hid"}
     THEN /\ Finish([Failed EXCEPT !.own = TRUE,
                                !.ok = Head(todo).op = "open" \/ device.plugged])
          /\ UNCHANGED <<link, owed>>
     ELSE /\ owed' = (asked # <<>>)
          /\ arrived' = IF discard THEN <<>> ELSE arrived
          /\ IF device.plugged
             THEN /\ asked' = Append(asked, [q |-> Head(todo), own |-> TRUE])
                  /\ waiting' = TRUE
                  /\ UNCHANGED <<todo, outcome>>
             ELSE /\ Finish(Failed)
                  /\ UNCHANGED asked
  /\ UNCHANGED <<device, port, late, lost>>

Write_KeepsInput == Write(FALSE)
SendUsbFrame == Write(TRUE)

(***************************************************************************)
(* What each wait makes of a frame (waitForConfigResponse,                 *)
(* waitForControlMessage, requestProfile, performHandshake): it is skipped,*)
(* or it ends the wait well or badly.  A config response names the command *)
(* it answers, an acknowledgement does not.  Only a reply to its own HELLO *)
(* carries the signature a handshake checks, and its first byte, the       *)
(* protocol version, is no success to anything else.                       *)
(***************************************************************************)
Bare(r) == r.form = "ack" /\ r.status = 0

Skips_NotBare(q, r) ==
  IF q.op \in ConfigOps THEN r.form # "config" ELSE r.form = "config"

Skips(q, r) ==
  IF q.op \in ConfigOps THEN r.form # "config"
  ELSE r.form = "config" \/ (q.op \in ReadOps /\ Bare(r))

Accepts(q, r) ==
  /\ ~Skips(q, r) /\ r.status = 0
  /\ CASE q.op = "hello" -> r.form = "hello" /\ r.own
       [] q.op \in ConfigOps -> r.op = q.op
       [] q.op = "get" -> r.form = "profile"
       [] q.op = "getActive" ->
            r.form = "profile" /\ (config.total = 0 \/ r.slot < config.total)
       [] OTHER -> r.form # "hello"

Receive ==
  /\ waiting /\ arrived # <<>>
  /\ LET q == Head(todo)
         r == Head(arrived)
     IN IF Skips(q, r)
        THEN /\ arrived' = Tail(arrived)
             /\ UNCHANGED <<asked, port, call, lost>>
        ELSE /\ Finish([done |-> TRUE, ok |-> Accepts(q, r), own |-> r.own,
                        reply |-> r])
             /\ lost' = IF r.own \/ (q.op \in ReadOps /\ Bare(r)) THEN lost
                        ELSE lost \cup {q.op}
             /\ asked' = Stale(asked) /\ arrived' = Stale(Tail(arrived))
             /\ handshake' = (handshake \/ (q.op = "hello" /\ Accepts(q, r)))
             /\ config' =
                  IF ~Accepts(q, r) THEN config
                  ELSE CASE q.op = "hello" -> [has |-> TRUE, active |-> r.slot,
                                               total |-> Reported]
                         [] q.op = "getActive" -> [config EXCEPT !.active = r.slot]
                         [] q.op = "switch" -> [config EXCEPT !.active = q.slot]
                         [] OTHER -> config
             /\ UNCHANGED open
  /\ UNCHANGED <<device, late, owed>>

\* The deadline passes first: the reply will still come.
TimeOut ==
  /\ waiting /\ (late < MaxLate \/ ~device.plugged)
  /\ Finish(Failed)
  /\ asked' = Stale(asked) /\ arrived' = Stale(arrived)
  /\ late' = IF device.plugged THEN late + 1 ELSE late
  /\ lost' = lost \cup {Head(todo).op}
  /\ UNCHANGED <<device, port, owed>>

Close ==
  /\ open' = FALSE /\ handshake' = FALSE /\ config' = NoConfig
  /\ arrived' = <<>>
  /\ todo' = <<>> /\ waiting' = FALSE /\ outcome' = NoOutcome
  /\ UNCHANGED <<device, asked, waits>>

(***************************************************************************)
(* External: the device answers its questions in order; it may refuse to   *)
(* change anything.                                                        *)
(***************************************************************************)
Answer(q, own) ==
  LET d == device
      Done(form, new, slot, profile, status) ==
        /\ device' = new
        /\ arrived' = Append(arrived, Reply(form, q.op, status, slot, profile, own))
  IN CASE q.op = "hello" -> Done("hello", d, d.active, Blank, 0)
       [] q.op \in ConfigOps -> Done("config", d, 0, Blank, 0)
       [] q.op = "getActive" ->
            Done("profile", d, d.active, d.profiles[d.active], 0)
       [] q.op = "get" ->
            IF q.slot \in Slots
            THEN Done("profile", d, q.slot, d.profiles[q.slot], 0)
            ELSE Done("ack", d, 0, Blank, 1)
       [] OTHER ->
            \/ Done("ack", d, 0, Blank, 1)
            \/ /\ q.slot \in Slots
               /\ Done("ack",
                       CASE q.op = "switch" -> [d EXCEPT !.active = q.slot]
                         [] q.op = "set" -> [d EXCEPT !.profiles[q.slot] = q.profile]
                         [] q.op = "erase" -> [d EXCEPT !.profiles[q.slot] = Blank],
                       0, Blank, 0)

Device ==
  /\ device.plugged /\ asked # <<>>
  /\ Answer(Head(asked).q, Head(asked).own)
  /\ asked' = Tail(asked)
  /\ UNCHANGED <<port, call, waits>>

Unplug ==
  /\ device.plugged
  /\ device' = [device EXCEPT !.plugged = FALSE]
  /\ asked' = <<>>
  /\ UNCHANGED <<arrived, port, call, waits>>
-----------------------------------------------------------------------------
Ops == {"none", "open", "hid", "hello"} \cup ConfigOps \cup ReadOps \cup ChangeOps
Questions == [op : Ops, slot : Nat, profile : Profiles]
Frames == {q \in Questions : q.op \notin {"none", "open", "hid"}}
Replies == [form : {"none", "hello", "config", "profile", "ack"}, op : Ops, status : {0, 1},
            slot : Nat, profile : Profiles, own : BOOLEAN]

TransportTypeOK ==
  /\ device \in [plugged : BOOLEAN, active : Slots, profiles : [Slots -> Profiles]]
  /\ asked \in Seq([q : Frames, own : BOOLEAN]) /\ arrived \in Seq(Replies)
  /\ open \in BOOLEAN /\ handshake \in BOOLEAN /\ (handshake => open)
  /\ config \in [has : BOOLEAN, active : Nat, total : {0, Reported}]
  /\ todo \in Seq(Questions) /\ waiting \in BOOLEAN
  /\ outcome \in [done : BOOLEAN, ok : BOOLEAN, own : BOOLEAN, reply : Replies]
  /\ late \in 0..MaxLate /\ owed \in BOOLEAN
=============================================================================
