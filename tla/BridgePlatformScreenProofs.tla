---------------------- MODULE BridgePlatformScreenProofs ----------------------
(***************************************************************************)
(* The bridge client and its transport, for any device, any requests and   *)
(* any delays: whose reply a command takes, that every request is seen,    *)
(* that the screen uses what is active on the device, and that a response  *)
(* lists what the device holds.                                            *)
(***************************************************************************)
EXTENDS BridgePlatformScreen, TLAPS

(* How a call goes: its result is there only when it is over, and it is    *)
(* made for the step at hand, whose question is the last frame.            *)
Flow ==
  /\ waiting => ~Idle
  /\ ~Idle => open
  /\ ~Idle => outcome = NoOutcome
  /\ ~Idle \/ outcome.done =>
       app = "running" /\ steps # <<>> /\ Head(steps) # Respond
  /\ ~Idle => todo[Len(todo)] = Head(steps).q
  /\ \A i \in 1..(Len(todo) - 1) : todo[i] \in {Ask("hello"), Ask("getName"), Ask("getSerial")}
  /\ \A i \in DOMAIN todo : todo[i].op # "none"
  /\ config.has => open

(* Whose question and whose reply is marked as the awaited one: the last   *)
(* that was sent, while it is awaited, and what it says is still so.       *)
Truly(d, q, r) ==
  /\ q.op = "hello" => r.form = "hello" /\ r.status = 0 /\ r.slot = d.active
  /\ q.op = "getActive" =>
       /\ r.form = "profile" /\ r.status = 0 /\ r.slot = d.active
       /\ r.profile = d.profiles[d.active]
  /\ q.op = "get" /\ q.slot \in Slots =>
       /\ r.form = "profile" /\ r.status = 0 /\ r.slot = q.slot
       /\ r.profile = d.profiles[q.slot]

Marks ==
  /\ \A i \in DOMAIN asked : asked[i].own => waiting /\ i = Len(asked) /\ asked[i].q = Head(todo)
  /\ \A i \in DOMAIN arrived :
       arrived[i].own => waiting /\ asked = <<>> /\ i = Len(arrived) /\ Truly(device, Head(todo), arrived[i])

(* Unless a late reply was on its way, every frame there is is the awaited *)
(* one's.                                                                  *)
InFlight ==
  waiting /\ ~owed =>
    /\ \A i \in DOMAIN asked : asked[i].own
    /\ \A i \in DOMAIN arrived : arrived[i].own

(* What the steps of a handler are, and the order that matters: a change   *)
(* comes first and the active profile is loaded after it.                  *)
IsLoad(s) == s.for \in {"init", "load"}
LoadComing == \E i \in DOMAIN steps : IsLoad(steps[i])

Handlers ==
  /\ \A i \in DOMAIN steps :
       LET s == steps[i]
       IN /\ s.for \in {"main", "open", "enter"} => s.q.op = "open"
          /\ IsLoad(s) => s.q.op = "getActive"
          /\ s.for \in {"read", "readOld", "settings"} => s.q.op = "get"
          /\ s.for = "alive" => s.q.op = "keepAlive"
          /\ s.q.op = "none" => s = Respond /\ batch # <<>>
          /\ s.for \in {"enter", "settings"} => Len(steps) = 1
          /\ s.for = "settings" => config.has /\ app = "running"
          /\ s.for = "init" => told = 0
          /\ s.q.op \in ChangeOps => i = 1 /\ LoadComing

(* The screen agrees with the device unless a load is still to come; and   *)
(* the result of a load, or of the settings of a profile, is the truth.    *)
Told == lost \cap (ReadOps \cup {"hello"}) = {} /\ device.plugged /\ app = "running"

Matches ==
  LET p == device.profiles[device.active]
  IN /\ screen.slot = device.active /\ screen.profile = p
     /\ SizeOf[p] \in {0, screen.size}

Settled ==
  /\ \A i \in DOMAIN asked : asked[i].q.op \notin ChangeOps
  /\ \A i \in DOMAIN todo : todo[i].op \notin ChangeOps

ConfigTrue == config.has => config.active = device.active

Agree ==
  Told =>
    /\ LoadComing \/ (Matches /\ Settled /\ ConfigTrue)
    /\ outcome.done /\ IsLoad(Head(steps)) =>
         /\ outcome.ok /\ asked = <<>> /\ ConfigTrue
         /\ outcome.reply.slot = device.active
         /\ outcome.reply.profile = device.profiles[device.active]
    /\ steps # <<>> /\ Head(steps).for = "settings" =>
         /\ Head(steps).q.slot = device.active
         /\ outcome.ok => outcome.reply.profile = device.profiles[device.active]

ScreenInv ==
  /\ TypeOK /\ Flow /\ Marks /\ InFlight /\ Handlers /\ Agree
  /\ OnlyInFlightMisleads /\ ServerKnowsSize
-----------------------------------------------------------------------------
Outcomes == [done : BOOLEAN, ok : BOOLEAN, own : BOOLEAN, reply : Replies]
Asked == [q : Frames, own : BOOLEAN]

LEMMA Constants ==
  /\ NoOutcome \in Outcomes /\ Failed \in Outcomes
  /\ NoOutcome.done = FALSE /\ NoOutcome.ok = FALSE /\ NoOutcome.own = FALSE
  /\ Failed.done = TRUE /\ Failed.ok = FALSE /\ Failed.own = FALSE
  /\ \A op \in Ops : Ask(op) \in Questions /\ Ask(op).op = op
<1>1. Reply("none", "none", 0, 0, Blank, FALSE) \in Replies
  BY DeviceAssumption DEF Reply, Replies, Ops
<1>2. NoOutcome \in Outcomes
  BY <1>1 DEF NoOutcome, Outcomes
<1>3. Failed \in Outcomes /\ Failed.done = TRUE /\ Failed.ok = FALSE /\ Failed.own = FALSE
  BY <1>2 DEF Failed, NoOutcome, Outcomes
<1>4. \A op \in Ops : Ask(op) \in Questions /\ Ask(op).op = op
  BY DeviceAssumption DEF Ask, Question, Questions
<1> QED BY <1>2, <1>3, <1>4 DEF NoOutcome

LEMMA OneOrMore == \A n \in Nat : n # 0 => n > 1 \/ n = 1
OBVIOUS

LEMMA TailOfOne == ASSUME NEW T, NEW s \in Seq(T), Len(s) = 1 PROVE Tail(s) = <<>>
<1>1. s # <<>>
  <2>1. Len(<<>>) # Len(s)
    OBVIOUS
  <2> QED BY <2>1, Zenon
<1>2. Tail(s) \in Seq(T) /\ Len(Tail(s)) = 0
  BY <1>1
<1>3. \A t \in Seq(T) : Len(t) = 0 => t = <<>>
  OBVIOUS
<1> QED BY <1>2, <1>3

(* What the end of a frame leaves: the rest of the call, or its result.    *)
LEMMA FinishMeans ==
  ASSUME NEW result, todo \in Seq(Questions), todo # <<>>, Finish(result)
  PROVE  /\ waiting' = FALSE
         /\ \/ /\ Len(todo) > 1 /\ todo' = Tail(todo) /\ outcome' = NoOutcome
               /\ result.ok \/ Head(todo).op # "hello"
            \/ /\ todo' = <<>> /\ outcome' = result
               /\ Len(todo) = 1 \/ (~result.ok /\ Head(todo).op = "hello")
<1>1. Len(todo) > 1 \/ Len(todo) = 1
  <2>1. Len(todo) \in Nat /\ Len(todo) # 0
    OBVIOUS
  <2> QED BY <2>1, OneOrMore, Zenon
<1>2. CASE Len(todo) > 1 /\ (result.ok \/ Head(todo).op # "hello")
  BY <1>2 DEF Finish
<1>3. CASE ~(Len(todo) > 1 /\ (result.ok \/ Head(todo).op # "hello"))
  BY <1>1, <1>3 DEF Finish
<1> QED BY <1>2, <1>3

(* The three ways a frame is sent, or not.                                 *)
LEMMA SendMeans ==
  ASSUME TransportTypeOK, SendUsbFrame
  PROVE  /\ todo # <<>> /\ ~waiting /\ UNCHANGED <<device, port, late, lost>>
         /\ \/ /\ UNCHANGED <<link, owed>>
               /\ \E r \in Outcomes : r.done = TRUE /\ r.own = TRUE /\ Finish(r)
               /\ Head(todo).op \in {"open", "hid"}
            \/ /\ device.plugged /\ owed' = (asked # <<>>) /\ arrived' = <<>>
               /\ asked' = Append(asked, [q |-> Head(todo), own |-> TRUE])
               /\ waiting' = TRUE /\ UNCHANGED <<todo, outcome>>
            \/ /\ ~device.plugged /\ owed' = (asked # <<>>) /\ arrived' = <<>>
               /\ asked' = asked /\ Finish(Failed)
<1>1. CASE Head(todo).op \in {"open", "hid"}
  <2> DEFINE r == [Failed EXCEPT !.own = TRUE, !.ok = Head(todo).op = "open" \/ device.plugged]
  <2>1. r \in Outcomes /\ r.done = TRUE /\ r.own = TRUE
    BY Constants DEF Outcomes
  <2>2. Finish(r) /\ UNCHANGED <<link, owed>>
    BY <1>1 DEF SendUsbFrame, Write
  <2> HIDE DEF r
  <2> QED BY <1>1, <2>1, <2>2 DEF SendUsbFrame, Write, Idle
<1>2. CASE Head(todo).op \notin {"open", "hid"}
  BY <1>2 DEF SendUsbFrame, Write, Idle
<1> QED BY <1>1, <1>2

(* Giving up on a reply marks nothing as awaited any more.                 *)
Unown(x) == [x EXCEPT !.own = FALSE]

LEMMA UnownMeans ==
  /\ \A x \in Asked : Unown(x) \in Asked /\ Unown(x).own = FALSE /\ Unown(x).q = x.q
  /\ \A x \in Replies : Unown(x) \in Replies /\ Unown(x).own = FALSE
BY DEF Unown, Asked, Replies

LEMMA StaleMeans ==
  ASSUME NEW T, NEW s \in Seq(T), \A x \in T : Unown(x) \in T /\ Unown(x).own = FALSE
  PROVE  /\ Stale(s) \in Seq(T) /\ Len(Stale(s)) = Len(s) /\ DOMAIN Stale(s) = DOMAIN s
         /\ \A i \in DOMAIN s : Stale(s)[i] = Unown(s[i]) /\ Stale(s)[i].own = FALSE
<1>1. Stale(s) = [i \in 1..Len(s) |-> Unown(s[i])]
  BY DEF Stale, Unown
<1>2. Len(s) \in Nat /\ DOMAIN s = 1..Len(s) /\ \A i \in 1..Len(s) : s[i] \in T
  OBVIOUS
<1>3. \A i \in 1..Len(s) : Unown(s[i]) \in T /\ Unown(s[i]).own = FALSE
  BY <1>2
<1>4. Stale(s) \in [1..Len(s) -> T]
  BY <1>1, <1>3
<1> QED BY <1>1, <1>2, <1>3, <1>4

LEMMA StaleAsked ==
  ASSUME TransportTypeOK
  PROVE  /\ Stale(asked) \in Seq(Asked) /\ DOMAIN Stale(asked) = DOMAIN asked
         /\ (asked = <<>> <=> Stale(asked) = <<>>)
         /\ \A i \in DOMAIN asked : Stale(asked)[i].own = FALSE /\ Stale(asked)[i].q = asked[i].q
<1>1. asked \in Seq(Asked)
  BY DEF TransportTypeOK, Asked
<1>2. \A x \in Asked : Unown(x) \in Asked /\ Unown(x).own = FALSE /\ Unown(x).q = x.q
  BY UnownMeans
<1>3. /\ Stale(asked) \in Seq(Asked) /\ DOMAIN Stale(asked) = DOMAIN asked
      /\ Len(Stale(asked)) = Len(asked)
      /\ \A i \in DOMAIN asked : Stale(asked)[i] = Unown(asked[i])
  BY <1>1, <1>2, StaleMeans
<1>4. \A i \in DOMAIN asked : asked[i] \in Asked
  BY <1>1
<1> QED BY <1>1, <1>2, <1>3, <1>4

LEMMA StaleArrived ==
  ASSUME NEW s \in Seq(Replies)
  PROVE  Stale(s) \in Seq(Replies) /\ \A i \in DOMAIN Stale(s) : Stale(s)[i].own = FALSE
BY UnownMeans, StaleMeans

(* What reading a frame does: it is skipped, or it ends the wait.          *)
LEMMA ReceiveMeans ==
  ASSUME TransportTypeOK, Flow, Receive
  PROVE  LET q == Head(todo)
             r == Head(arrived)
             n == [done |-> TRUE, ok |-> Accepts(q, r), own |-> r.own, reply |-> r]
         IN /\ waiting /\ todo # <<>> /\ arrived # <<>> /\ UNCHANGED <<device, open, late, owed>>
            /\ q \in Questions /\ r \in Replies /\ n \in Outcomes
            /\ \/ /\ arrived' = Tail(arrived) /\ UNCHANGED <<asked, todo, waiting, outcome, lost, config, handshake>>
               \/ /\ ~Skips(q, r) /\ Finish(n)
                  /\ lost' = IF r.own THEN lost ELSE lost \cup {q.op}
                  /\ asked' = Stale(asked) /\ arrived' = Stale(Tail(arrived))
                  /\ handshake' = (handshake \/ (q.op = "hello" /\ Accepts(q, r)))
                  /\ config' \in [has : BOOLEAN, active : Nat, total : {0, Reported}]
                  /\ config'.has = (config.has \/ (q.op = "hello" /\ Accepts(q, r)))
                  /\ \/ ~Accepts(q, r) /\ config' = config
                     \/ Accepts(q, r) /\ q.op \in {"hello", "getActive"} /\ config'.active = r.slot
                     \/ Accepts(q, r) /\ q.op = "switch"
                     \/ q.op \notin {"hello", "getActive", "switch"} /\ config' = config
<1> DEFINE q == Head(todo)
           r == Head(arrived)
           n == [done |-> TRUE, ok |-> Accepts(q, r), own |-> r.own, reply |-> r]
<1>1. waiting /\ todo # <<>> /\ arrived # <<>> /\ UNCHANGED <<device, late, owed>>
  BY DEF Receive, Flow, Idle
<1>2. q \in Questions /\ r \in Replies
  BY <1>1 DEF TransportTypeOK
<1>3. n \in Outcomes
  <2>1. Accepts(q, r) \in BOOLEAN /\ r.own \in BOOLEAN
    BY <1>2 DEF Accepts, Replies
  <2> QED BY <1>2, <2>1 DEF Outcomes
<1>4. CASE Skips(q, r)
  BY <1>1, <1>2, <1>3, <1>4 DEF Receive, port, call
<1>5. CASE ~Skips(q, r)
  <2>1. /\ Finish(n) /\ UNCHANGED open
        /\ asked' = Stale(asked) /\ arrived' = Stale(Tail(arrived))
        /\ handshake' = (handshake \/ (q.op = "hello" /\ Accepts(q, r)))
    BY <1>5 DEF Receive
  <2>2. lost' = IF r.own THEN lost ELSE lost \cup {q.op}
    BY <1>5 DEF Receive, Skips, ConfigOps, ReadOps
  <2>3. /\ config' \in [has : BOOLEAN, active : Nat, total : {0, Reported}]
        /\ config'.has = (config.has \/ (q.op = "hello" /\ Accepts(q, r)))
        /\ \/ ~Accepts(q, r) /\ config' = config
           \/ Accepts(q, r) /\ q.op \in {"hello", "getActive"} /\ config'.active = r.slot
           \/ Accepts(q, r) /\ q.op = "switch"
           \/ q.op \notin {"hello", "getActive", "switch"} /\ config' = config
    <3>c. config \in [has : BOOLEAN, active : Nat, total : {0, Reported}]
      BY DEF TransportTypeOK
    <3>d. config' =
            IF ~Accepts(q, r) THEN config
            ELSE CASE q.op = "hello" -> [has |-> TRUE, active |-> r.slot, total |-> Reported]
                   [] q.op = "getActive" -> [config EXCEPT !.active = r.slot]
                   [] q.op = "switch" -> [config EXCEPT !.active = q.slot]
                   [] OTHER -> config
      BY <1>5 DEF Receive
    <3>e. r.slot \in Nat /\ q.slot \in Nat
      BY <1>2 DEF Questions, Replies
    <3> HIDE DEF q, r, n
    <3>1. CASE ~Accepts(q, r)
      BY <3>1, <3>c, <3>d
    <3>2. CASE Accepts(q, r) /\ q.op = "hello"
      BY <3>2, <3>c, <3>d, <3>e
    <3>3. CASE Accepts(q, r) /\ q.op = "getActive"
      BY <3>3, <3>c, <3>d, <3>e
    <3>4. CASE Accepts(q, r) /\ q.op = "switch"
      BY <3>4, <3>c, <3>d, <3>e
    <3>5. CASE Accepts(q, r) /\ q.op \notin {"hello", "getActive", "switch"}
      BY <3>5, <3>c, <3>d
    <3> QED BY <3>1, <3>2, <3>3, <3>4, <3>5
  <2> QED BY <1>1, <1>2, <1>3, <1>5, <2>1, <2>2, <2>3
<1> QED BY <1>4, <1>5

-----------------------------------------------------------------------------
LEMMA FinishType ==
  ASSUME NEW result \in Outcomes, todo \in Seq(Questions), todo # <<>>, Finish(result)
  PROVE  todo' \in Seq(Questions) /\ waiting' \in BOOLEAN /\ outcome' \in Outcomes
<1>1. Tail(todo) \in Seq(Questions)
  OBVIOUS
<1>2. /\ waiting' = FALSE
      /\ (todo' = Tail(todo) /\ outcome' = NoOutcome) \/ (todo' = <<>> /\ outcome' = result)
  BY FinishMeans
<1>3. <<>> \in Seq(Questions)
  OBVIOUS
<1> QED BY <1>1, <1>2, <1>3, Constants

(* What the device says is true of it when it says it.                     *)
LEMMA AnswerMeans ==
  ASSUME TransportTypeOK, NEW q \in Frames, NEW own \in BOOLEAN, Answer(q, own)
  PROVE  /\ \E r \in Replies :
              /\ arrived' = Append(arrived, r) /\ r.own = own
              /\ Truly(device, q, r)
         /\ q.op \notin ChangeOps => device' = device
         /\ device' \in [plugged : BOOLEAN, active : Slots, profiles : [Slots -> Profiles]]
         /\ device'.plugged = device.plugged
<1>t. /\ device \in [plugged : BOOLEAN, active : Slots, profiles : [Slots -> Profiles]]
      /\ device.active \in Slots /\ Slots \subseteq Nat /\ Blank \in Profiles
      /\ \A x \in Slots : device.profiles[x] \in Profiles
      /\ q.op \in Ops /\ q.slot \in Nat /\ q.profile \in Profiles
  BY DeviceAssumption DEF TransportTypeOK, Slots, Questions, Frames
<1> DEFINE Done(form, new, slot, profile, status) ==
        /\ device' = new
        /\ arrived' = Append(arrived, Reply(form, q.op, status, slot, profile, own))
<1>1. \A form \in {"none", "hello", "config", "profile", "ack"}, slot \in Nat, profile \in Profiles, status \in {0, 1} :
        LET r == Reply(form, q.op, status, slot, profile, own)
        IN /\ r \in Replies /\ r.own = own /\ r.form = form /\ r.slot = slot /\ r.profile = profile
           /\ r.status = status
  BY <1>t DEF Reply, Replies
<1>2. CASE q.op = "hello"
  <2>1. Done("hello", device, device.active, Blank, 0)
    BY <1>2 DEF Answer, ConfigOps
  <2> DEFINE r == Reply("hello", q.op, 0, device.active, Blank, own)
  <2>2. /\ r \in Replies /\ r.own = own /\ r.form = "hello" /\ r.status = 0 /\ r.slot = device.active
        /\ r.profile = Blank
    BY <1>1, <1>t
  <2>3. arrived' = Append(arrived, r) /\ device' = device
    BY <2>1
  <2> HIDE DEF r
  <2> QED BY <1>2, <1>t, <2>2, <2>3 DEF Truly
<1>3. CASE q.op \in ConfigOps
  <2>1. Done("config", device, 0, Blank, 0)
    BY <1>3 DEF Answer, ConfigOps
  <2> DEFINE r == Reply("config", q.op, 0, 0, Blank, own)
  <2>2. r \in Replies /\ r.own = own
    BY <1>t DEF Reply, Replies
  <2>3. arrived' = Append(arrived, r) /\ device' = device
    BY <2>1
  <2> HIDE DEF r
  <2>4. Truly(device, q, r)
    BY <1>3 DEF Truly, ConfigOps
  <2> QED BY <1>t, <2>2, <2>3, <2>4
<1>4. CASE q.op = "getActive"
  <2>1. Done("profile", device, device.active, device.profiles[device.active], 0)
    BY <1>4 DEF Answer, ConfigOps
  <2> DEFINE r == Reply("profile", q.op, 0, device.active, device.profiles[device.active], own)
  <2>2. /\ r \in Replies /\ r.own = own /\ r.form = "profile" /\ r.status = 0 /\ r.slot = device.active
        /\ r.profile = device.profiles[device.active]
    <3>1. device.active \in Nat /\ device.profiles[device.active] \in Profiles
      BY <1>t
    <3> QED BY <1>1, <3>1
  <2>3. arrived' = Append(arrived, r) /\ device' = device
    BY <2>1
  <2> HIDE DEF r
  <2> QED BY <1>4, <1>t, <2>2, <2>3 DEF Truly
<1>5. CASE q.op = "get" /\ q.slot \in Slots
  <2>1. Done("profile", device, q.slot, device.profiles[q.slot], 0)
    BY <1>5 DEF Answer, ConfigOps
  <2> QED BY <1>1, <1>5, <1>t, <2>1 DEF Truly, ChangeOps
<1>6. CASE q.op = "get" /\ q.slot \notin Slots
  <2>1. Done("ack", device, 0, Blank, 1)
    BY <1>6 DEF Answer, ConfigOps
  <2> QED BY <1>1, <1>6, <1>t, <2>1 DEF Truly, ChangeOps
<1>7. CASE q.op \in ChangeOps
  <2>1. \/ Done("ack", device, 0, Blank, 1)
        \/ /\ q.slot \in Slots
           /\ \/ q.op = "switch" /\ Done("ack", [device EXCEPT !.active = q.slot], 0, Blank, 0)
              \/ q.op = "set" /\ Done("ack", [device EXCEPT !.profiles[q.slot] = q.profile], 0, Blank, 0)
              \/ q.op = "erase" /\ Done("ack", [device EXCEPT !.profiles[q.slot] = Blank], 0, Blank, 0)
    BY <1>7 DEF Answer, ConfigOps, ChangeOps
  <2>2. \E r \in Replies : arrived' = Append(arrived, r) /\ r.own = own /\ Truly(device, q, r)
    <3>1. \A r : Truly(device, q, r)
      BY <1>7 DEF Truly, ChangeOps
    <3>2. PICK status \in {0, 1} : arrived' = Append(arrived, Reply("ack", q.op, status, 0, Blank, own))
      BY <2>1
    <3>3. LET r == Reply("ack", q.op, status, 0, Blank, own) IN r \in Replies /\ r.own = own
      BY <1>1, <1>t
    <3> QED BY <3>1, <3>2, <3>3
  <2>3. /\ device' \in [plugged : BOOLEAN, active : Slots, profiles : [Slots -> Profiles]]
        /\ device'.plugged = device.plugged
    BY <1>t, <2>1
  <2> QED BY <1>7, <2>2, <2>3
<1> QED BY <1>2, <1>3, <1>4, <1>5, <1>6, <1>7, <1>t DEF Ops, ReadOps, Frames, Questions

LEMMA DeviceMeans ==
  ASSUME TransportTypeOK, Device
  PROVE  LET a == Head(asked)
         IN /\ device.plugged /\ asked # <<>> /\ a \in Asked /\ asked' = Tail(asked)
            /\ UNCHANGED <<port, call, waits>>
            /\ \E r \in Replies : arrived' = Append(arrived, r) /\ r.own = a.own /\ Truly(device, a.q, r)
            /\ a.q.op \notin ChangeOps => device' = device
            /\ device' \in [plugged : BOOLEAN, active : Slots, profiles : [Slots -> Profiles]]
            /\ device'.plugged = device.plugged
<1>1. asked # <<>> /\ asked \in Seq(Asked)
  BY DEF Device, TransportTypeOK, Asked
<1>2. Head(asked) \in Asked
  BY <1>1
<1>3. Head(asked).q \in Frames /\ Head(asked).own \in BOOLEAN
  BY <1>2 DEF Asked
<1>4. Answer(Head(asked).q, Head(asked).own)
  BY DEF Device
<1> QED BY <1>1, <1>2, <1>3, <1>4, AnswerMeans DEF Device

LEMMA TimeOutMeans ==
  ASSUME TransportTypeOK, Flow, TimeOut
  PROVE  /\ waiting /\ todo # <<>> /\ Finish(Failed) /\ UNCHANGED <<device, port, owed>>
         /\ asked' = Stale(asked) /\ arrived' = Stale(arrived)
         /\ lost' = lost \cup {Head(todo).op} /\ late' \in 0..MaxLate
<1>1. late' \in 0..MaxLate
  BY DeviceAssumption DEF TimeOut, TransportTypeOK
<1> QED BY <1>1 DEF TimeOut, Flow, Idle

(* How a call starts: with a handshake unless one is complete.             *)
LEMMA CallMeans ==
  ASSUME TransportTypeOK, NEW q \in Questions, Call(q)
  PROVE  /\ todo = <<>> /\ waiting' = FALSE /\ UNCHANGED <<device, link, waits>>
         /\ \/ ~device.plugged /\ outcome' = Failed /\ UNCHANGED <<port, todo>>
            \/ /\ outcome' = NoOutcome
               /\ todo' = Handshake \o <<q>> \/ todo' = <<q>>
               /\ \/ UNCHANGED port
                  \/ ~open /\ open' = TRUE /\ handshake' = FALSE /\ config' = NoConfig
BY DEF Call, Idle

(* The type of the transport, action by action.                            *)
LEMMA TransportType ==
  ASSUME TransportTypeOK, Flow,
         \/ SendUsbFrame \/ Receive \/ TimeOut \/ Device \/ Unplug \/ Close
         \/ \E q \in Questions : Call(q)
         \/ outcome' = NoOutcome /\ UNCHANGED <<device, link, port, todo, waiting, waits>>
         \/ UNCHANGED transport
  PROVE  TransportTypeOK'
<1>t. /\ asked \in Seq(Asked) /\ arrived \in Seq(Replies) /\ todo \in Seq(Questions)
      /\ \A q \in Questions : q.op \notin {"none", "open", "hid"} => q \in Frames
  BY DEF TransportTypeOK, Asked, Frames
<1>c. NoConfig \in [has : BOOLEAN, active : Nat, total : {0, Reported}]
  BY DEF NoConfig
<1>1. ASSUME SendUsbFrame PROVE TransportTypeOK'
  <2>1. /\ todo # <<>> /\ UNCHANGED <<device, open, handshake, config, late>>
    BY <1>1, SendMeans DEF port
  <2>2. todo' \in Seq(Questions) /\ waiting' \in BOOLEAN /\ outcome' \in Outcomes
    <3>1. (waiting' = TRUE /\ UNCHANGED <<todo, outcome>>) \/ \E r \in Outcomes : Finish(r)
      BY <1>1, SendMeans, Constants
    <3>2. CASE waiting' = TRUE /\ UNCHANGED <<todo, outcome>>
      BY <1>t, <3>2 DEF TransportTypeOK, Outcomes
    <3>3. CASE \E r \in Outcomes : Finish(r)
      BY <1>t, <2>1, <3>3, FinishType
    <3> QED BY <3>1, <3>2, <3>3
  <2>3. asked' \in Seq(Asked)
    <3>1. CASE UNCHANGED asked
      BY <1>t, <3>1
    <3>2. CASE asked' = Append(asked, [q |-> Head(todo), own |-> TRUE]) /\ Head(todo).op \notin {"open", "hid"}
      <4>1. Head(todo) \in Questions /\ Head(todo).op # "none"
        BY <1>t, <2>1 DEF Flow
      <4>2. [q |-> Head(todo), own |-> TRUE] \in Asked
        BY <1>t, <3>2, <4>1 DEF Asked
      <4> QED BY <1>t, <3>2, <4>2
    <3> QED BY <1>1, <3>1, <3>2 DEF SendUsbFrame, Write, link
  <2>4. arrived' \in Seq(Replies) /\ owed' \in BOOLEAN
    <3>1. arrived' = arrived \/ arrived' = <<>>
      BY <1>1, SendMeans DEF link
    <3>2. owed' = owed \/ owed' = (asked # <<>>)
      BY <1>1, Zenon DEF SendUsbFrame, Write
    <3>3. owed \in BOOLEAN
      BY DEF TransportTypeOK
    <3>4. owed' \in BOOLEAN
      BY <3>2, <3>3, Zenon
    <3>5. CASE arrived' = arrived
      BY <1>t, <3>4, <3>5
    <3>6. CASE arrived' = <<>>
      BY <3>4, <3>6
    <3> QED BY <3>1, <3>5, <3>6
  <2> QED BY <2>1, <2>2, <2>3, <2>4 DEF TransportTypeOK, Outcomes, Asked
<1>2. ASSUME Receive PROVE TransportTypeOK'
  <2> DEFINE q == Head(todo)
             r == Head(arrived)
             n == [done |-> TRUE, ok |-> Accepts(q, r), own |-> r.own, reply |-> r]
  <2>1. /\ todo # <<>> /\ arrived # <<>> /\ UNCHANGED <<device, open, late, owed>> /\ n \in Outcomes
        /\ \/ /\ arrived' = Tail(arrived) /\ UNCHANGED <<asked, todo, waiting, outcome, lost, config, handshake>>
           \/ /\ Finish(n) /\ asked' = Stale(asked) /\ arrived' = Stale(Tail(arrived))
              /\ handshake' \in BOOLEAN
              /\ config' \in [has : BOOLEAN, active : Nat, total : {0, Reported}]
    BY <1>2, ReceiveMeans DEF TransportTypeOK
  <2> HIDE DEF n
  <2>2. Tail(arrived) \in Seq(Replies)
    BY <1>t, <2>1
  <2>3. CASE arrived' = Tail(arrived) /\ UNCHANGED <<asked, todo, waiting, outcome, lost, config, handshake>>
    BY <2>1, <2>2, <2>3 DEF TransportTypeOK
  <2>4. CASE /\ Finish(n) /\ asked' = Stale(asked) /\ arrived' = Stale(Tail(arrived))
             /\ handshake' \in BOOLEAN
             /\ config' \in [has : BOOLEAN, active : Nat, total : {0, Reported}]
    <3>1. todo' \in Seq(Questions) /\ waiting' \in BOOLEAN /\ outcome' \in Outcomes
      BY <1>t, <2>1, <2>4, FinishType
    <3>2. asked' \in Seq(Asked) /\ arrived' \in Seq(Replies)
      BY <2>2, <2>4, StaleAsked, StaleArrived
    <3>3. open' = TRUE
      BY <2>1 DEF Flow, Idle, TransportTypeOK
    <3> QED BY <2>1, <2>4, <3>1, <3>2, <3>3 DEF TransportTypeOK, Outcomes, Asked
  <2> QED BY <2>1, <2>3, <2>4
<1>3. ASSUME TimeOut PROVE TransportTypeOK'
  <2>1. todo # <<>> /\ Finish(Failed) /\ asked' = Stale(asked) /\ arrived' = Stale(arrived)
        /\ UNCHANGED <<device, open, handshake, config, owed>> /\ late' \in 0..MaxLate
    BY <1>3, TimeOutMeans DEF port
  <2>2. todo' \in Seq(Questions) /\ waiting' \in BOOLEAN /\ outcome' \in Outcomes
    BY <1>t, <2>1, FinishType, Constants
  <2>3. asked' \in Seq(Asked) /\ arrived' \in Seq(Replies)
    BY <1>t, <2>1, StaleAsked, StaleArrived
  <2> QED BY <2>1, <2>2, <2>3 DEF TransportTypeOK, Outcomes, Asked
<1>4. ASSUME Device PROVE TransportTypeOK'
  <2>1. /\ asked # <<>> /\ asked' = Tail(asked) /\ UNCHANGED <<port, call, waits>>
        /\ \E r \in Replies : arrived' = Append(arrived, r)
        /\ device' \in [plugged : BOOLEAN, active : Slots, profiles : [Slots -> Profiles]]
    BY <1>4, DeviceMeans
  <2>2. asked' \in Seq(Asked) /\ arrived' \in Seq(Replies)
    BY <1>t, <2>1
  <2> QED BY <2>1, <2>2 DEF TransportTypeOK, Asked, port, call, waits
<1>5. ASSUME Unplug \/ Close PROVE TransportTypeOK'
  <2>1. device' \in [plugged : BOOLEAN, active : Slots, profiles : [Slots -> Profiles]]
    BY <1>5 DEF Unplug, Close, TransportTypeOK
  <2>2. <<>> \in Seq(Replies) /\ <<>> \in Seq(Asked) /\ <<>> \in Seq(Questions)
    OBVIOUS
  <2> QED BY <1>5, <1>c, <2>1, <2>2, Constants DEF Unplug, Close, TransportTypeOK, Outcomes, Asked, port, call, waits
<1>6. ASSUME NEW q \in Questions, Call(q) PROVE TransportTypeOK'
  <2>1. /\ UNCHANGED <<device, asked, arrived, late, owed>> /\ waiting' = FALSE
        /\ outcome' \in Outcomes
        /\ \/ UNCHANGED port
           \/ open' = TRUE /\ handshake' = FALSE /\ config' = NoConfig
        /\ todo' \in {todo, Handshake \o <<q>>, <<q>>}
    BY <1>6, CallMeans, Constants DEF link, waits
  <2>2. todo' \in Seq(Questions)
    <3>1. Ask("hello") \in Questions /\ Ask("getName") \in Questions /\ Ask("getSerial") \in Questions
      BY Constants DEF Ops, ConfigOps
    <3>2. Handshake \in Seq(Questions) /\ <<q>> \in Seq(Questions)
      BY <3>1 DEF Handshake
    <3>3. Handshake \o <<q>> \in Seq(Questions)
      BY <3>2
    <3> QED BY <1>t, <2>1, <3>2, <3>3
  <2>3. open' \in BOOLEAN /\ handshake' \in BOOLEAN /\ (handshake' => open')
    <3>1. open \in BOOLEAN /\ handshake \in BOOLEAN /\ (handshake => open)
      BY DEF TransportTypeOK
    <3>2. CASE UNCHANGED port
      BY <3>1, <3>2, Zenon DEF port
    <3>3. CASE open' = TRUE /\ handshake' = FALSE
      BY <3>3
    <3> QED BY <2>1, <3>2, <3>3
  <2>4. config' \in [has : BOOLEAN, active : Nat, total : {0, Reported}]
    BY <1>c, <2>1 DEF TransportTypeOK, port
  <2>5. device \in [plugged : BOOLEAN, active : Slots, profiles : [Slots -> Profiles]]
    BY DEF TransportTypeOK
  <2> QED BY <1>t, <2>1, <2>2, <2>3, <2>4, <2>5 DEF TransportTypeOK, Outcomes, Asked
<1>7. ASSUME outcome' = NoOutcome /\ UNCHANGED <<device, link, port, todo, waiting, waits>> PROVE TransportTypeOK'
  BY <1>7, Constants DEF TransportTypeOK, Outcomes, link, port, waits
<1>8. ASSUME UNCHANGED transport PROVE TransportTypeOK'
  BY <1>8 DEF TransportTypeOK, transport, link, port, call, waits
<1> QED BY <1>1, <1>2, <1>3, <1>4, <1>5, <1>6, <1>7, <1>8

-----------------------------------------------------------------------------
(* What a handler still has to do, after each step.                        *)
Screens == [size : Nat \ {0}, slot : Nat, profile : Profiles]

LEMMA StepTypes ==
  /\ Load \in Step /\ Load.for = "load" /\ Load.q.op = "getActive"
  /\ Respond \in Step /\ Respond.for = "respond" /\ Respond.q.op = "none"
  /\ \A q \in Questions :
       \A for \in {"main", "init", "alive", "open", "enter", "settings", "command", "load", "respond", "read", "readOld"} :
         Do(for, q) \in Step /\ Do(for, q).for = for /\ Do(for, q).q = q
<1>1. Ask("getActive") \in Questions /\ Ask("none") \in Questions
      /\ Ask("getActive").op = "getActive" /\ Ask("none").op = "none"
  BY Constants DEF Ops, ReadOps
<1> QED BY <1>1 DEF Do, Load, Respond, Step

LEMMA ReadsMeans ==
  ASSUME TransportTypeOK
  PROVE  /\ Reads \in Seq(Step) /\ Len(Reads) = IF config.total > 0 THEN config.total ELSE Fallback
         /\ \A i \in DOMAIN Reads : IsReadStep(Reads[i]) /\ Reads[i].q.op = "get" /\ Reads[i].q.slot = i - 1
<1> DEFINE known == config.total > 0
           count == IF known THEN config.total ELSE Fallback
           read(i) == Do(IF known THEN "read" ELSE "readOld", Question("get", i - 1, Blank))
<1>1. count \in Nat
  BY DeviceAssumption, ScreenAssumption DEF TransportTypeOK
<1>2. \A i \in 1..count : read(i) \in Step /\ IsReadStep(read(i)) /\ read(i).q.op = "get" /\ read(i).q.slot = i - 1
  <2> TAKE i \in 1..count
  <2>1. i - 1 \in Nat
    BY <1>1
  <2>2. LET q == Question("get", i - 1, Blank) IN q \in Questions /\ q.op = "get" /\ q.slot = i - 1
    BY <2>1, DeviceAssumption DEF Question, Questions, Ops, ReadOps
  <2> QED BY <2>2, StepTypes DEF IsReadStep
<1>3. Reads = [i \in 1..count |-> read(i)]
  BY DEF Reads
<1>4. count = IF config.total > 0 THEN config.total ELSE Fallback
  OBVIOUS
<1> HIDE DEF count, read
<1>5. Reads \in [1..count -> Step]
  BY <1>2, <1>3
<1>6. Reads \in Seq(Step) /\ Len(Reads) = count /\ DOMAIN Reads = 1..count
  BY <1>1, <1>3, <1>5
<1> QED BY <1>2, <1>3, <1>4, <1>6

(* A handler goes on with its next step, or past the reads that follow;    *)
(* a change that succeeded puts the reads first, enter() the settings.     *)
Rest(k) ==
  /\ k \in 1..Len(steps) /\ Len(steps') = Len(steps) - k
  /\ \A i \in 1..Len(steps') : steps'[i] = steps[i + k]
  /\ k = 1 \/ \A i \in 1..k : IsReadStep(steps[i])

LEMMA EndMeans ==
  ASSUME TypeOK, Flow, Handlers, EndStep
  PROVE  /\ steps # <<>> /\ todo = <<>> /\ ~waiting /\ Head(steps) \in Step /\ Head(steps) = steps[1]
         /\ steps' \in Seq(Step)
         /\ \/ \E k \in 1..Len(steps) : Rest(k)
            \/ /\ Head(steps).for = "command" /\ Head(steps).q.op \in ChangeOps
               /\ steps' = Reads \o Tail(steps)
            \/ /\ Head(steps).for = "enter" /\ open /\ config.has
               /\ steps' = <<Do("settings", Question("get", config.active, Blank))>>
<1>1. steps # <<>> /\ todo = <<>> /\ ~waiting
  BY Constants DEF EndStep, Flow, Idle
<1>2. steps \in Seq(Step) /\ Len(steps) \in Nat /\ DOMAIN steps = 1..Len(steps)
  BY DEF TypeOK
<1>3. Head(steps) \in Step /\ Head(steps) = steps[1] /\ 1 \in 1..Len(steps)
  BY <1>1, <1>2
<1>4. ASSUME steps' = Tail(steps) PROVE steps' \in Seq(Step) /\ Rest(1)
  BY <1>1, <1>2, <1>4 DEF Rest
<1>5. ASSUME steps' \in WithoutReads, IsReadStep(Head(steps)) PROVE steps' \in Seq(Step) /\ \E k \in 1..Len(steps) : Rest(k)
  <2>1. PICK n \in DOMAIN steps : /\ steps' = SubSeq(steps, n, Len(steps)) /\ ~IsReadStep(steps[n])
                                 /\ \A i \in 1..(n - 1) : IsReadStep(steps[i])
    BY <1>5 DEF WithoutReads, IsReadStep
  <2>2. n # 1
    BY <1>3, <1>5, <2>1
  <2>3. n - 1 \in 1..Len(steps)
    BY <1>2, <2>1, <2>2
  <2>4. steps' \in Seq(Step) /\ Len(steps') = Len(steps) - (n - 1) /\ \A i \in 1..Len(steps') : steps'[i] = steps[i + (n - 1)]
    BY <1>2, <2>1
  <2> QED BY <2>1, <2>3, <2>4 DEF Rest
<1>6. CASE Head(steps).for \in {"main", "open", "init", "load", "alive"}
  BY <1>1, <1>3, <1>4, <1>6 DEF EndStep, EndOpen, EndLoad, EndAlive
<1>7. CASE Head(steps).for = "command"
  <2>1. EndCommand
    BY <1>7 DEF EndStep
  <2>2. <<>> \o Tail(steps) = Tail(steps) /\ Tail(steps) \in Seq(Step)
    BY <1>1, <1>2
  <2>3. steps' = Tail(steps) \/ (Head(steps).q.op \in ChangeOps /\ steps' = Reads \o Tail(steps))
    BY <2>1, <2>2 DEF EndCommand
  <2>4. Reads \o Tail(steps) \in Seq(Step)
    BY <2>2, ReadsMeans DEF TypeOK
  <2> QED BY <1>1, <1>3, <1>4, <1>7, <2>3, <2>4
<1>8. CASE Head(steps).for \in {"read", "readOld"}
  <2>1. steps' = Tail(steps) \/ steps' \in WithoutReads
    BY <1>8 DEF EndStep, EndRead
  <2> QED BY <1>1, <1>3, <1>4, <1>5, <1>8, <2>1 DEF IsReadStep
<1>9. CASE Head(steps).for = "enter"
  <2>1. EndEnter
    BY <1>9 DEF EndStep
  <2>2. Len(steps) = 1
    BY <1>2, <1>3, <1>9 DEF Handlers
  <2>3. Tail(steps) = <<>>
    BY <1>2, <2>2, TailOfOne
  <2>4. Question("get", config.active, Blank) \in Questions
    BY DeviceAssumption DEF TypeOK, TransportTypeOK, Question, Questions, Ops, ReadOps
  <2>5. <<Do("settings", Question("get", config.active, Blank))>> \in Seq(Step)
    BY <2>4, StepTypes
  <2> QED BY <1>1, <1>3, <1>4, <1>9, <2>1, <2>3, <2>5 DEF EndEnter
<1>10. CASE Head(steps).for = "settings"
  <2>1. steps' = <<>>
    BY <1>10 DEF EndStep, EndSettings
  <2>2. Len(steps) = 1
    BY <1>2, <1>3, <1>10 DEF Handlers
  <2>3. Tail(steps) = <<>>
    BY <1>2, <2>2, TailOfOne
  <2> QED BY <1>1, <1>3, <1>4, <2>1, <2>3
<1> QED BY <1>6, <1>7, <1>8, <1>9, <1>10 DEF EndStep

(* A change or a load of the profile changes only what it should.          *)
LEMMA LoadedMeans ==
  ASSUME TypeOK, NEW slot \in Nat, NEW profile \in Profiles
  PROVE  LET new == Loaded(slot, profile)
         IN new \in Screens /\ new.slot = slot /\ new.profile = profile /\ new.size = screen.size
BY DEF Loaded, TypeOK, Screens

LEMMA ActiveLoadedMeans ==
  ASSUME TypeOK
  PROVE  LET r == outcome.reply
         IN /\ ActiveLoaded \in Screens /\ ActiveLoaded.slot = r.slot /\ ActiveLoaded.profile = r.profile
            /\ SizeOf[r.profile] \in {0, ActiveLoaded.size}
<1> DEFINE r == outcome.reply
           new == Loaded(r.slot, r.profile)
<1>1. r \in Replies /\ r.slot \in Nat /\ r.profile \in Profiles
  BY DEF TypeOK, TransportTypeOK, Replies
<1>2. new \in Screens /\ new.slot = r.slot /\ new.profile = r.profile /\ new.size = screen.size
  BY <1>1, LoadedMeans
<1>3. ActiveLoaded = IF SizeOf[r.profile] \notin {0, screen.size} THEN [new EXCEPT !.size = SizeOf[r.profile]] ELSE new
  BY <1>2 DEF ActiveLoaded, ValidNewSize
<1>4. SizeOf[r.profile] \in Nat
  BY <1>1, ScreenAssumption
<1> HIDE DEF new, r
<1>5. /\ ActiveLoaded \in Screens /\ ActiveLoaded.slot = r.slot /\ ActiveLoaded.profile = r.profile
      /\ SizeOf[r.profile] \in {0, ActiveLoaded.size}
  <2>1. CASE SizeOf[r.profile] \notin {0, screen.size}
    BY <1>2, <1>3, <1>4, <2>1 DEF Screens
  <2>2. CASE SizeOf[r.profile] \in {0, screen.size}
    BY <1>2, <1>3, <2>2 DEF Screens
  <2> QED BY <2>1, <2>2
<1> QED BY <1>5 DEF r

LEMMA EndScreen ==
  ASSUME TypeOK, Flow, Handlers, EndStep
  PROVE  /\ screen' \in Screens /\ events' \in Seq({Input, "shape", "error"})
         /\ events' = events \/ \E e \in {"shape", "error"} : events' = Append(events, e)
         /\ \/ UNCHANGED screen /\ (~IsLoad(Head(steps)) \/ ~outcome.ok)
               /\ (Head(steps).for # "settings" \/ ~outcome.ok)
            \/ /\ IsLoad(Head(steps)) /\ outcome.ok /\ screen' = ActiveLoaded
               /\ Head(steps).for = "load" /\ screen'.size # screen.size => events' = Append(events, "shape")
            \/ /\ Head(steps).for = "settings" /\ outcome.ok
               /\ screen' = Loaded(config.active, outcome.reply.profile)
<1>1. screen \in Screens /\ events \in Seq({Input, "shape", "error"})
  BY DEF TypeOK, Screens
<1>2. Append(events, "shape") \in Seq({Input, "shape", "error"}) /\ Append(events, "error") \in Seq({Input, "shape", "error"})
  BY <1>1
<1>3. CASE IsLoad(Head(steps))
  <2>1. EndLoad
    BY <1>3 DEF EndStep, IsLoad
  <2>2. ActiveLoaded \in Screens
    BY ActiveLoadedMeans
  <2>3. CASE outcome.ok
    BY <1>1, <1>2, <1>3, <2>1, <2>2, <2>3 DEF EndLoad, Announce
  <2>4. CASE ~outcome.ok
    BY <1>1, <1>3, <2>1, <2>4 DEF EndLoad, IsLoad
  <2> QED BY <2>3, <2>4
<1>4. CASE Head(steps).for = "settings"
  <2>1. EndSettings
    BY <1>4 DEF EndStep
  <2>2. config.active \in Nat /\ outcome.reply.profile \in Profiles
    BY DEF TypeOK, TransportTypeOK, Replies
  <2>3. Loaded(config.active, outcome.reply.profile) \in Screens
    BY <2>2, LoadedMeans
  <2> QED BY <1>1, <1>4, <2>1, <2>3 DEF EndSettings, IsLoad
<1>5. CASE Head(steps).for = "alive"
  BY <1>1, <1>2, <1>5 DEF EndStep, EndAlive, IsLoad
<1>6. CASE Head(steps).for \in {"main", "open", "command", "read", "readOld", "enter"}
  BY <1>1, <1>6 DEF EndStep, EndOpen, EndCommand, EndRead, EndEnter, IsLoad
<1> QED BY <1>3, <1>4, <1>5, <1>6 DEF EndStep, IsLoad

LEMMA Joined ==
  ASSUME NEW T, NEW s \in Seq(T), NEW e \in T
  PROVE  /\ s \o <<e>> \in Seq(T) /\ Len(s \o <<e>>) = Len(s) + 1 /\ (s \o <<e>>)[Len(s) + 1] = e
         /\ \A i \in 1..Len(s) : (s \o <<e>>)[i] = s[i]
OBVIOUS

LEMMA ThreeParts ==
  \A m \in Nat, n \in {0, 1} : \A i \in 1..(m + n + 1) :
    i \in 1..m \/ (n = 1 /\ i = m + 1) \/ i = m + n + 1
OBVIOUS

LEMMA LastPart ==
  \A m \in Nat, n \in Nat : \A i \in 1..(m + n) : i \notin 1..m => i - m \in 1..n /\ i = m + (i - m)
OBVIOUS

LEMMA NonEmpty ==
  ASSUME NEW T, NEW s \in Seq(T), s # <<>>
  PROVE  Len(s) \in Nat /\ Len(s) # 0 /\ Head(s) = s[1] /\ 1 \in DOMAIN s
OBVIOUS

(* The steps of a request: its command or its reads, the load if the       *)
(* command changes anything, and the response.                             *)
Command(r) == Do("command", Question(r.command, r.slot, r.profile))
First(r) == IF r.command = "profiles" THEN Reads ELSE <<Command(r)>>

LEMMA RequestParts ==
  ASSUME TypeOK, NextRequest
  PROVE  LET r == Head(batch)
             n == Len(First(r))
             l == Len(ToLoad(r))
         IN /\ steps = <<>> /\ r \in Line
            /\ First(r) \in Seq(Step) /\ n \in Nat
            /\ \A i \in DOMAIN First(r) :
                 \/ /\ IsReadStep(First(r)[i]) /\ First(r)[i].q.op = "get" /\ r.command = "profiles"
                 \/ /\ i = 1 /\ First(r)[i].for = "command" /\ r.command # "profiles"
                    /\ First(r)[i].q.op = r.command /\ r.command \in {"getName", "setName"} \cup ChangeOps
            /\ r.command # "profiles" => n = 1
            /\ r.command \in ChangeOps <=> l = 1
            /\ l \in {0, 1} /\ Len(steps') = n + l + 1 /\ steps' \in Seq(Step)
            /\ \A i \in 1..n : steps'[i] = First(r)[i]
            /\ l = 1 => steps'[n + 1] = Load
            /\ steps'[n + l + 1] = Respond
<1> DEFINE r == Head(batch)
           first == First(r)
           l == ToLoad(r)
<1>1. steps' = (first \o l) \o <<Respond>> /\ steps = <<>> /\ batch # <<>>
  BY DEF NextRequest, First, Command
<1>2. r \in Line
  BY <1>1 DEF TypeOK
<1>3. r.command # "profiles" =>
        /\ Command(r) \in Step /\ Command(r).for = "command" /\ Command(r).q.op = r.command
        /\ r.command \in {"getName", "setName"} \cup ChangeOps
  <2> HAVE r.command # "profiles"
  <2>1. Question(r.command, r.slot, r.profile) \in Questions /\ Question(r.command, r.slot, r.profile).op = r.command
    BY <1>2 DEF Line, Question, Questions, Ops, ConfigOps
  <2> QED BY <1>2, <2>1, StepTypes DEF Line, Command
<1>4. /\ first \in Seq(Step) /\ (r.command # "profiles" => Len(first) = 1)
      /\ \A i \in DOMAIN first :
           \/ IsReadStep(first[i]) /\ first[i].q.op = "get" /\ r.command = "profiles"
           \/ /\ i = 1 /\ first[i].for = "command" /\ r.command # "profiles"
              /\ first[i].q.op = r.command /\ r.command \in {"getName", "setName"} \cup ChangeOps
  <2>1. CASE r.command = "profiles"
    BY <2>1, ReadsMeans DEF TypeOK, First
  <2>2. CASE r.command # "profiles"
    <3>1. first = <<Command(r)>>
      BY <2>2 DEF First
    <3> QED BY <1>3, <2>2, <3>1
  <2> QED BY <2>1, <2>2
<1>5. /\ l \in Seq(Step) /\ (l = <<>> \/ l = <<Load>>)
      /\ r.command \in ChangeOps <=> l = <<Load>>
      /\ Len(<<>>) = 0 /\ Len(<<Load>>) = 1
  BY StepTypes DEF ToLoad
<1> HIDE DEF first, l, r
<1>6. /\ Len(first) \in Nat /\ Len(l) \in {0, 1} /\ Len(steps') = Len(first) + Len(l) + 1
      /\ \A i \in 1..Len(first) : steps'[i] = first[i]
      /\ Len(l) = 1 => steps'[Len(first) + 1] = Load
      /\ steps'[Len(first) + Len(l) + 1] = Respond
      /\ steps' \in Seq(Step)
  <2>0. Len(first) \in Nat /\ first \in Seq(Step) /\ Load \in Step /\ Respond \in Step
        /\ steps' = (first \o l) \o <<Respond>>
    BY <1>1, <1>4, StepTypes
  <2>1. CASE l = <<>>
    <3>1. first \o <<>> = first /\ Len(l) = 0
      BY <2>0, <2>1
    <3>2. steps' = first \o <<Respond>>
      BY <2>0, <2>1, <3>1
    <3> QED BY <2>0, <3>1, <3>2
  <2>2. CASE l = <<Load>>
    <3> DEFINE f2 == first \o <<Load>>
    <3>1. /\ f2 \in Seq(Step) /\ Len(f2) = Len(first) + 1 /\ Len(l) = 1
          /\ f2[Len(first) + 1] = Load /\ \A i \in 1..Len(first) : f2[i] = first[i]
      BY <2>0, <2>2
    <3>2. steps' = f2 \o <<Respond>>
      BY <2>0, <2>2
    <3> HIDE DEF f2
    <3>3. /\ steps' \in Seq(Step) /\ Len(steps') = Len(f2) + 1 /\ steps'[Len(f2) + 1] = Respond
          /\ \A i \in 1..Len(f2) : steps'[i] = f2[i]
      <4>1. /\ f2 \o <<Respond>> \in Seq(Step) /\ Len(f2 \o <<Respond>>) = Len(f2) + 1
            /\ (f2 \o <<Respond>>)[Len(f2) + 1] = Respond
            /\ \A i \in 1..Len(f2) : (f2 \o <<Respond>>)[i] = f2[i]
        <5>1. f2 \in Seq(Step) /\ Respond \in Step
          BY <2>0, <3>1
        <5> QED BY <5>1, Joined
      <4> QED BY <3>2, <4>1, Zenon
    <3> QED BY <2>0, <3>1, <3>3
  <2> QED BY <1>5, <2>1, <2>2
<1>7. r.command \in ChangeOps <=> Len(l) = 1
  <2>1. (l = <<>> => Len(l) = 0) /\ (l = <<Load>> => Len(l) = 1)
    BY <1>5
  <2> QED BY <1>5, <2>1
<1> QED BY <1>1, <1>2, <1>4, <1>6, <1>7 DEF first, l, r

LEMMA RequestMeans ==
  ASSUME TypeOK, NextRequest
  PROVE  /\ steps = <<>> /\ steps' \in Seq(Step) /\ steps' # <<>>
         /\ \A i \in DOMAIN steps' :
              LET s == steps'[i]
              IN /\ s.for \in {"read", "readOld", "command", "load", "respond"}
                 /\ IsReadStep(s) => s.q.op = "get"
                 /\ s.for = "load" => s.q.op = "getActive"
                 /\ s.q.op = "none" => s = Respond
                 /\ s.q.op \in ChangeOps => i = 1 /\ \E j \in DOMAIN steps' : IsLoad(steps'[j])
<1> DEFINE r == Head(batch)
           first == First(r)
           l == ToLoad(r)
<1>1. steps = <<>> /\ first \in Seq(Step) /\ \A i \in DOMAIN first :
        \/ IsReadStep(first[i]) /\ first[i].q.op = "get"
        \/ /\ i = 1 /\ first[i].for = "command"
           /\ first[i].q.op = r.command /\ r.command \in {"getName", "setName"} \cup ChangeOps
  BY RequestParts
<1>2. r.command \in ChangeOps => Len(l) = 1
  BY RequestParts
<1>3. /\ Len(first) \in Nat /\ Len(l) \in {0, 1} /\ Len(steps') = Len(first) + Len(l) + 1
      /\ \A i \in 1..Len(first) : steps'[i] = first[i]
      /\ Len(l) = 1 => steps'[Len(first) + 1] = Load
      /\ steps'[Len(first) + Len(l) + 1] = Respond
      /\ steps' \in Seq(Step)
  BY RequestParts
<1> HIDE DEF first, l, r
<1>4. \A i \in DOMAIN steps' :
        \/ i \in DOMAIN first /\ steps'[i] = first[i]
        \/ steps'[i] = Load
        \/ steps'[i] = Respond
  <2> TAKE i \in DOMAIN steps'
  <2>1. i \in 1..(Len(first) + Len(l) + 1) /\ Len(first) \in Nat /\ Len(l) \in {0, 1}
    BY <1>3
  <2>2. i \in 1..Len(first) \/ (Len(l) = 1 /\ i = Len(first) + 1) \/ i = Len(first) + Len(l) + 1
    BY <2>1, ThreeParts, Zenon
  <2> QED BY <1>1, <1>3, <2>2
<1>5. r.command \in ChangeOps => \E j \in DOMAIN steps' : IsLoad(steps'[j])
  <2> HAVE r.command \in ChangeOps
  <2>1. Len(l) = 1
    BY <1>2
  <2>2. Len(first) + 1 \in DOMAIN steps' /\ steps'[Len(first) + 1] = Load
    BY <1>3, <2>1
  <2> QED BY <2>2, StepTypes DEF IsLoad
<1>6. steps' # <<>>
  BY <1>3
<1> QED
  <2> SUFFICES ASSUME NEW i \in DOMAIN steps'
               PROVE  LET s == steps'[i]
                      IN /\ s.for \in {"read", "readOld", "command", "load", "respond"}
                         /\ IsReadStep(s) => s.q.op = "get"
                         /\ s.for = "load" => s.q.op = "getActive"
                         /\ s.q.op = "none" => s = Respond
                         /\ s.q.op \in ChangeOps => i = 1 /\ \E j \in DOMAIN steps' : IsLoad(steps'[j])
    BY <1>1, <1>3, <1>6
  <2>1. CASE i \in DOMAIN first /\ steps'[i] = first[i]
    BY <1>1, <1>5, <2>1 DEF IsReadStep, ChangeOps
  <2>2. CASE steps'[i] = Load
    BY <2>2, StepTypes DEF IsReadStep, ChangeOps
  <2>3. CASE steps'[i] = Respond
    BY <2>3, StepTypes DEF IsReadStep, ChangeOps
  <2> QED BY <1>4, <2>1, <2>2, <2>3
-----------------------------------------------------------------------------
(* Every action keeps the types.                                           *)
TransportStep ==
  \/ InTransport(SendUsbFrame) \/ InTransport(Receive) \/ InTransport(TimeOut)
  \/ InTransport(Device) \/ InTransport(Unplug)

(* What no step of the transport touches, and the steps that touch nothing *)
(* of the transport.                                                       *)
LEMMA TransportMeans ==
  TransportStep =>
    /\ SendUsbFrame \/ Receive \/ TimeOut \/ Device \/ Unplug
    /\ UNCHANGED <<app, events, lines, closed, reader, batch, steps, fields, answers, screen, told, sent,
                   entered, alives>>
BY DEF TransportStep, InTransport, queue, handler, view, counts

ScreenStep ==
  \/ HandleEvent \/ HandleClientConnected \/ Enter \/ HandleKeepAliveTimer \/ NextRequest \/ PrintResponse
  \/ PostInput \/ (\E r \in Requests : PushRequest(r)) \/ UNCHANGED vars

LEMMA ScreenOnly == ScreenStep => UNCHANGED transport
BY DEF ScreenStep, HandleEvent, HandleInput, HandleShapeChanged, HandleError, HandleClientConnected, Enter,
       HandleKeepAliveTimer, NextRequest, PrintResponse, PostInput, PushRequest, vars

LEMMA StartMeans ==
  ASSUME TypeOK, StartStep
  PROVE  /\ app = "running" /\ steps # <<>> /\ Head(steps) # Respond /\ Head(steps) = steps[1]
         /\ Head(steps) \in Step /\ Head(steps).q \in Questions
         /\ Call(Head(steps).q)
         /\ UNCHANGED <<app, events, lines, closed, reader, batch, steps, fields, answers, screen, told, sent,
                        entered, alives>>
<1>1. Head(steps) \in Step /\ Head(steps) = steps[1]
  BY DEF TypeOK, StartStep
<1> QED BY <1>1 DEF StartStep, Step, queue, handler, view, counts

ScreenTypeOK ==
  /\ app \in {"running", "stopping", "stopped"} /\ closed = (app = "stopped")
  /\ events \in Seq({Input, "shape", "error"})
  /\ lines \in Seq(Line) /\ batch \in Seq(Line) /\ steps \in Seq(Step)
  /\ screen \in Screens
  /\ told \in Nat /\ sent \in Nat /\ answers \subseteq 1..sent

LEMMA TypeSplit == TypeOK <=> TransportTypeOK /\ ScreenTypeOK
BY DEF TypeOK, ScreenTypeOK, Screens

LEMMA PushType ==
  ASSUME TypeOK, NEW r \in Requests, PushRequest(r)
  PROVE  /\ TypeOK' /\ reader'.id = sent + 1
         /\ UNCHANGED <<transport, app, events, closed, handler, view, entered, alives>>
<1>1. /\ sent' = sent + 1 /\ lines' = Append(lines, reader') /\ reader'.id = sent + 1
      /\ reader' = [id |-> sent', command |-> r.command, slot |-> r.slot, profile |-> r.profile]
      /\ UNCHANGED <<transport, app, events, closed, handler, view, entered, alives>>
  BY DEF PushRequest
<1>2. sent \in Nat /\ sent' \in Nat /\ 1..sent \subseteq 1..sent' /\ sent' \in 1..sent'
  BY <1>1 DEF TypeOK
<1>3. Line \subseteq Line'
  <2> SUFFICES ASSUME NEW l \in Line PROVE l \in Line'
    OBVIOUS
  <2> QED BY <1>2 DEF Line
<1>4. reader' \in Line'
  BY <1>1, <1>2, ScreenAssumption DEF Line
<1>5. \A q \in Seq(Line) : q \in Seq(Line')
  BY <1>3
<1>6. lines' \in Seq(Line') /\ batch' \in Seq(Line') /\ (answers \subseteq 1..sent)'
  <2>1. lines \in Seq(Line') /\ batch \in Seq(Line') /\ answers \subseteq 1..sent
    BY <1>5 DEF TypeOK
  <2>2. UNCHANGED <<batch, answers>>
    BY <1>1 DEF handler
  <2> QED BY <1>1, <1>2, <1>4, <2>1, <2>2
<1>7. TransportTypeOK'
  BY <1>1 DEF TypeOK, TransportTypeOK, transport, link, port, call, waits
<1> QED BY <1>1, <1>2, <1>6, <1>7 DEF TypeOK, handler, view

LEMMA TypeStep ==
  ASSUME TypeOK, Flow, Handlers, [Next]_vars
  PROVE  TypeOK'
<1>t. TransportTypeOK /\ ScreenTypeOK
  BY TypeSplit
<1>s. /\ <<Do("open", Ask("open"))>> \in Seq(Step) /\ <<Do("enter", Ask("open"))>> \in Seq(Step)
      /\ <<Do("alive", Ask("keepAlive"))>> \in Seq(Step)
  <2>1. Ask("open") \in Questions /\ Ask("keepAlive") \in Questions
    BY Constants DEF Ops, ConfigOps
  <2>2. Do("open", Ask("open")) \in Step /\ Do("enter", Ask("open")) \in Step /\ Do("alive", Ask("keepAlive")) \in Step
    BY <2>1, StepTypes
  <2> QED BY <2>2
<1>1. ASSUME UNCHANGED transport, ScreenTypeOK' PROVE TypeOK'
  <2>1. TransportTypeOK'
    BY <1>t, <1>1, TransportType
  <2> QED BY <1>1, <2>1 DEF TypeOK, ScreenTypeOK, Screens
<1>2. ASSUME TransportStep PROVE TypeOK'
  <2>1. TransportTypeOK'
    BY <1>t, <1>2, TransportMeans, TransportType
  <2>2. ScreenTypeOK'
    BY <1>t, <1>2, TransportMeans DEF ScreenTypeOK, Line
  <2> QED BY <2>1, <2>2 DEF TypeOK, ScreenTypeOK, Screens
<1>3. ASSUME StartStep PROVE TypeOK'
  <2>1. TransportTypeOK'
    BY <1>t, <1>3, StartMeans, TransportType
  <2>2. ScreenTypeOK'
    BY <1>t, <1>3, StartMeans DEF ScreenTypeOK, Line
  <2> QED BY <2>1, <2>2 DEF TypeOK, ScreenTypeOK, Screens
<1>4. ASSUME EndStep PROVE TypeOK'
  <2>1. TransportTypeOK'
    <3>1. outcome' = NoOutcome /\ UNCHANGED <<device, link, port, todo, waiting, waits>>
      BY <1>4 DEF EndStep
    <3> QED BY <1>t, <3>1, TransportType
  <2>2. /\ steps' \in Seq(Step) /\ screen' \in Screens /\ events' \in Seq({Input, "shape", "error"})
        /\ UNCHANGED <<queue, batch, answers, told, counts>>
    BY <1>4, EndMeans, EndScreen DEF EndStep
  <2>3. app' \in {app, "stopping"} /\ app = "running"
    BY <1>4 DEF EndStep
  <2> QED BY <1>t, <2>1, <2>2, <2>3 DEF TypeOK, ScreenTypeOK, Screens, Line, queue, counts
<1>5. ASSUME Stop PROVE TypeOK'
  <2>1. TransportTypeOK'
    BY <1>t, <1>5, TransportType DEF Stop
  <2> QED BY <1>t, <1>5, <2>1 DEF Stop, TypeOK, ScreenTypeOK, Screens, Line, handler, view, counts
<1>6. ASSUME HandleEvent PROVE TypeOK'
  <2>1. Tail(events) \in Seq({Input, "shape", "error"}) /\ <<>> \in Seq(Line)
    BY <1>6 DEF HandleEvent, TypeOK
  <2>2. UNCHANGED <<transport, counts>> /\ events' = Tail(events) /\ app = "running"
    BY <1>6 DEF HandleEvent, HandleInput, HandleShapeChanged, HandleError, Free
  <2>3. CASE HandleInput
    <3> QED BY <1>1, <1>t, <2>1, <2>2, <2>3 DEF HandleInput, ScreenTypeOK, Line, view, counts
  <2>4. CASE HandleShapeChanged
    <3> QED BY <1>1, <1>t, <2>1, <2>2, <2>4 DEF HandleShapeChanged, ScreenTypeOK, Screens, Line, queue, handler, counts
  <2>5. CASE HandleError
    <3> QED BY <1>1, <1>t, <2>1, <2>2, <2>5 DEF HandleError, ScreenTypeOK, Line, queue, handler, view, counts
  <2> QED BY <1>6, <2>3, <2>4, <2>5 DEF HandleEvent
<1>7. ASSUME HandleClientConnected \/ Enter \/ HandleKeepAliveTimer PROVE TypeOK'
  <2>1. steps' \in Seq(Step)
    BY <1>7, <1>s DEF HandleClientConnected, Enter, HandleKeepAliveTimer
  <2>2. told' \in Nat
    BY <1>7, <1>t DEF HandleClientConnected, Enter, HandleKeepAliveTimer, ScreenTypeOK, Screens, view
  <2> QED BY <1>1, <1>t, <1>7, <2>1, <2>2
       DEF HandleClientConnected, Enter, HandleKeepAliveTimer, ScreenTypeOK, Line, queue, view, counts
<1>8. ASSUME NextRequest PROVE TypeOK'
  <2>1. steps' \in Seq(Step)
    BY <1>8, RequestMeans
  <2> QED BY <1>1, <1>t, <1>8, <2>1 DEF NextRequest, ScreenTypeOK, Line, queue, view, counts
<1>9. ASSUME PrintResponse PROVE TypeOK'
  <2>1. batch # <<>>
    <3>1. 1 \in DOMAIN steps /\ steps[1].q.op = "none"
      BY <1>9, StepTypes DEF PrintResponse
    <3> QED BY <3>1 DEF Handlers
  <2>2. Head(batch) \in Line /\ Tail(batch) \in Seq(Line)
    BY <2>1 DEF TypeOK
  <2>3. Head(batch).id \in 1..sent
    BY <2>2 DEF Line
  <2>4. /\ steps' = <<>> /\ batch' = Tail(batch) /\ answers' = answers \cup {Head(batch).id}
        /\ UNCHANGED <<transport, app, events, lines, closed, screen, told, sent>>
    BY <1>9 DEF PrintResponse, queue, view, counts
  <2>5. answers' \subseteq 1..sent
    BY <1>t, <2>3, <2>4 DEF ScreenTypeOK
  <2>6. <<>> \in Seq(Step)
    OBVIOUS
  <2> QED BY <1>1, <1>t, <2>2, <2>4, <2>5, <2>6 DEF ScreenTypeOK, Line
<1>10. ASSUME PostInput PROVE TypeOK'
  <2>1. events' \in Seq({Input, "shape", "error"})
    BY <1>10 DEF PostInput, TypeOK
  <2> QED BY <1>1, <1>t, <1>10, <2>1 DEF PostInput, ScreenTypeOK, Line, handler, view, counts
<1>11. ASSUME NEW r \in Requests, PushRequest(r) PROVE TypeOK'
  BY <1>11, PushType
<1>12. ASSUME UNCHANGED vars PROVE TypeOK'
  BY <1>1, <1>t, <1>12 DEF vars, ScreenTypeOK, Line, queue, handler, view, counts
<1> QED BY <1>2, <1>3, <1>4, <1>5, <1>6, <1>7, <1>8, <1>9, <1>10, <1>11, <1>12
     DEF Next, EventThread, Environment, TransportStep
-----------------------------------------------------------------------------
(* Flow: a call runs for the first of the steps, and nothing else does     *)
(* until it is over.                                                       *)
LEMMA HandshakeFirst ==
  ASSUME NEW q, NEW s \in {Handshake \o <<q>>, <<q>>}
  PROVE  /\ s # <<>> /\ s[Len(s)] = q /\ Len(s) \in Nat
         /\ DOMAIN s = 1..Len(s)
         /\ \A i \in 1..(Len(s) - 1) : s[i] \in {Ask("hello"), Ask("getName"), Ask("getSerial")}
         /\ \A i \in DOMAIN s : s[i] \in {q, Ask("hello"), Ask("getName"), Ask("getSerial")}
<1>1. CASE s = Handshake \o <<q>>
  <2>1. Len(s) = 4 /\ DOMAIN s = 1..4
    BY <1>1 DEF Handshake
  <2>2. s[4] = q /\ s[1] = Ask("hello") /\ s[2] = Ask("getName") /\ s[3] = Ask("getSerial")
    BY <1>1 DEF Handshake
  <2>3. s # <<>>
    BY <2>1
  <2>4. \A i \in 1..4 : i \in 1..3 \/ i = 4
    OBVIOUS
  <2>5. \A i \in 1..3 : i = 1 \/ i = 2 \/ i = 3
    OBVIOUS
  <2> QED BY <2>1, <2>2, <2>3, <2>4, <2>5
<1>2. CASE s = <<q>>
  BY <1>2
<1> QED BY <1>1, <1>2

LEMMA FlowFinish ==
  ASSUME TypeOK, Flow, todo # <<>>, NEW result, Finish(result), UNCHANGED <<app, steps, open>>, config'.has => open'
  PROVE  Flow'
<1>t. todo \in Seq(Questions) /\ Len(todo) \in Nat
  BY DEF TypeOK, TransportTypeOK
<1>1. open /\ app = "running" /\ steps # <<>> /\ Head(steps) # Respond /\ todo[Len(todo)] = Head(steps).q
  BY DEF Flow, Idle
<1>2. CASE Len(todo) > 1 /\ todo' = Tail(todo) /\ outcome' = NoOutcome /\ waiting' = FALSE
  <2>1. /\ Len(todo') = Len(todo) - 1 /\ todo' # <<>> /\ \A i \in 1..Len(todo') : todo'[i] = todo[i + 1]
    BY <1>t, <1>2
  <2>2. todo'[Len(todo')] = todo[Len(todo)]
    BY <1>t, <1>2, <2>1
  <2>3. /\ \A i \in 1..(Len(todo') - 1) : todo'[i] \in {Ask("hello"), Ask("getName"), Ask("getSerial")}
    BY <1>t, <1>2, <2>1 DEF Flow
  <2>4. \A i \in DOMAIN todo' : todo'[i].op # "none"
    BY <1>t, <1>2, <2>1 DEF Flow
  <2> QED BY <1>1, <1>2, <2>1, <2>2, <2>3, <2>4 DEF Flow, Idle
<1>3. CASE todo' = <<>> /\ outcome' = result /\ waiting' = FALSE
  BY <1>1, <1>3 DEF Flow, Idle
<1> QED BY <1>t, <1>2, <1>3, FinishMeans

LEMMA FlowSame ==
  ASSUME Flow, UNCHANGED <<todo, waiting, outcome, open, config>>,
         UNCHANGED <<app, steps>> \/ (todo = <<>> /\ ~outcome.done)
  PROVE  Flow'
<1>1. CASE UNCHANGED <<app, steps>>
  BY <1>1 DEF Flow, Idle
<1>2. CASE todo = <<>> /\ ~outcome.done
  BY <1>2 DEF Flow, Idle
<1> QED BY <1>1, <1>2

(* A handler that has nothing to do, or only a response to print, is not   *)
(* in a call.                                                              *)
LEMMA NotInCall ==
  ASSUME Flow, steps = <<>> \/ steps = <<Respond>> \/ app # "running"
  PROVE  todo = <<>> /\ ~waiting /\ ~outcome.done
BY DEF Flow, Idle

LEMMA FlowStep ==
  ASSUME TypeOK, Flow, Handlers, [Next]_vars
  PROVE  Flow'
<1>t. TransportTypeOK
  BY DEF TypeOK
<1>1. ASSUME InTransport(SendUsbFrame) PROVE Flow'
  <2>1. /\ todo # <<>> /\ UNCHANGED <<open, config, app, steps>>
        /\ (\E r : Finish(r)) \/ (waiting' = TRUE /\ UNCHANGED <<todo, outcome>>)
    BY <1>t, <1>1, SendMeans DEF InTransport, handler, port
  <2>2. CASE \E r : Finish(r)
    BY <2>1, <2>2, FlowFinish DEF Flow
  <2>3. CASE waiting' = TRUE /\ UNCHANGED <<todo, outcome>>
    BY <2>1, <2>3 DEF Flow, Idle
  <2> QED BY <2>1, <2>2, <2>3
<1>2. ASSUME InTransport(Receive) PROVE Flow'
  <2>1. /\ todo # <<>> /\ open /\ UNCHANGED <<open, app, steps>>
        /\ (\E r : Finish(r)) \/ UNCHANGED <<todo, waiting, outcome, config>>
    BY <1>t, <1>2, ReceiveMeans DEF InTransport, handler, Flow, Idle
  <2> QED BY <2>1, FlowFinish, FlowSame
<1>3. ASSUME InTransport(TimeOut) PROVE Flow'
  <2>1. todo # <<>> /\ UNCHANGED <<open, config, app, steps>> /\ Finish(Failed)
    BY <1>t, <1>3, TimeOutMeans DEF InTransport, handler, port
  <2> QED BY <2>1, FlowFinish DEF Flow
<1>4. ASSUME InTransport(Device) \/ InTransport(Unplug) PROVE Flow'
  BY <1>4, FlowSame DEF InTransport, Device, Unplug, handler, port, call
<1>5. ASSUME StartStep PROVE Flow'
  <2> DEFINE q == Head(steps).q
  <2>1. /\ app = "running" /\ steps # <<>> /\ Head(steps) # Respond /\ q \in Questions
        /\ Head(steps) = steps[1] /\ UNCHANGED <<app, steps>> /\ Call(q)
    BY <1>5, StartMeans
  <2>2. q.op # "none"
    <3>1. 1 \in DOMAIN steps
      BY <2>1 DEF TypeOK
    <3> QED BY <2>1, <3>1 DEF Handlers
  <2> HIDE DEF q
  <2>3. CASE ~device.plugged /\ outcome' = Failed /\ UNCHANGED <<port, todo>> /\ waiting' = FALSE /\ todo = <<>>
    BY <2>1, <2>3, Constants DEF Flow, Idle, port
  <2>4. CASE /\ outcome' = NoOutcome /\ waiting' = FALSE
             /\ todo' = Handshake \o <<q>> \/ todo' = <<q>>
             /\ open' = TRUE
    <3>1. /\ todo'[Len(todo')] = q /\ todo' # <<>>
          /\ \A i \in 1..(Len(todo') - 1) : todo'[i] \in {Ask("hello"), Ask("getName"), Ask("getSerial")}
      BY <2>4, HandshakeFirst
    <3>2. \A i \in DOMAIN todo' : todo'[i].op # "none"
      <4>1. \A i \in DOMAIN todo' : todo'[i] \in {q, Ask("hello"), Ask("getName"), Ask("getSerial")}
        BY <2>4, HandshakeFirst
      <4>2. Ask("hello").op # "none" /\ Ask("getName").op # "none" /\ Ask("getSerial").op # "none"
        BY DEF Ask, Question
      <4> QED BY <2>2, <4>1, <4>2
    <3> QED BY <2>1, <2>4, <3>1, <3>2, Constants DEF Flow, Idle, q
  <2>5. \/ ~device.plugged /\ outcome' = Failed /\ UNCHANGED <<port, todo>> /\ waiting' = FALSE /\ todo = <<>>
        \/ /\ outcome' = NoOutcome /\ waiting' = FALSE
           /\ todo' = Handshake \o <<q>> \/ todo' = <<q>>
           /\ open' = TRUE
    BY <1>t, <2>1 DEF Call, Idle, port, TransportTypeOK
  <2> QED BY <2>3, <2>4, <2>5
<1>6. ASSUME EndStep PROVE Flow'
  <2>1. todo = <<>> /\ ~waiting /\ UNCHANGED <<todo, waiting, open, config>> /\ outcome' = NoOutcome
    BY <1>6, EndMeans DEF EndStep, port
  <2> QED BY <2>1, Constants DEF Flow, Idle
<1>7. ASSUME Stop PROVE Flow'
  BY <1>7, Constants DEF Stop, Close, Flow, Idle, NoConfig
<1>8. ASSUME HandleEvent \/ HandleClientConnected \/ Enter \/ HandleKeepAliveTimer \/ NextRequest \/ PrintResponse
      PROVE  Flow'
  <2>1. UNCHANGED transport /\ (steps = <<>> \/ steps = <<Respond>>)
    BY <1>8 DEF HandleEvent, HandleInput, HandleShapeChanged, HandleError, HandleClientConnected, Enter,
                HandleKeepAliveTimer, NextRequest, PrintResponse, Free
  <2> QED BY <2>1, NotInCall, FlowSame DEF transport, port, call
<1>9. ASSUME PostInput \/ (\E r \in Requests : PushRequest(r)) \/ UNCHANGED vars PROVE Flow'
  BY <1>9, FlowSame DEF PostInput, PushRequest, vars, transport, port, call, handler
<1> QED BY <1>1, <1>2, <1>3, <1>4, <1>5, <1>6, <1>7, <1>8, <1>9 DEF Next, EventThread, Environment
-----------------------------------------------------------------------------
(* Handlers: the steps keep their shape and their order.                   *)
LEMMA HandlersSame ==
  ASSUME Handlers, UNCHANGED <<steps, told>>, batch # <<>> => batch' # <<>>,
         config.has /\ app = "running" => config'.has /\ app' = "running"
  PROVE  Handlers'
BY DEF Handlers, LoadComing, IsLoad

LEMMA HandlersRest ==
  ASSUME TypeOK, Handlers, NEW k \in 1..Len(steps), Rest(k), steps' \in Seq(Step),
         UNCHANGED <<batch, told, config>>
  PROVE  Handlers'
<1>1. /\ Len(steps) \in Nat /\ Len(steps') \in Nat /\ Len(steps') = Len(steps) - k /\ k \in Nat /\ k > 0
      /\ DOMAIN steps = 1..Len(steps) /\ DOMAIN steps' = 1..Len(steps')
  BY DEF TypeOK, Rest
<1>2. ASSUME NEW i \in DOMAIN steps'
      PROVE  i + k \in DOMAIN steps /\ steps'[i] = steps[i + k] /\ i + k # 1 /\ Len(steps) # 1
  BY <1>1, <1>2 DEF Rest
<1> QED BY <1>2 DEF Handlers, IsLoad

LEMMA ReadBack ==
  ASSUME TypeOK, steps # <<>>, steps' = Reads \o Tail(steps)
  PROVE  /\ \A i \in DOMAIN steps' :
              \/ IsReadStep(steps'[i]) /\ steps'[i].q.op = "get"
              \/ \E j \in DOMAIN steps : j # 1 /\ steps'[i] = steps[j] /\ Len(steps) # 1
         /\ \A j \in DOMAIN steps : j # 1 => \E i \in DOMAIN steps' : steps'[i] = steps[j]
<1> DEFINE rs == Reads
           rest == Tail(steps)
<1>1. /\ rs \in Seq(Step) /\ rest \in Seq(Step) /\ steps \in Seq(Step)
      /\ \A i \in DOMAIN rs : IsReadStep(rs[i]) /\ rs[i].q.op = "get"
  BY ReadsMeans DEF TypeOK
<1>2. /\ Len(steps) \in Nat /\ Len(steps) > 0 /\ Len(rest) = Len(steps) - 1 /\ DOMAIN steps = 1..Len(steps)
      /\ \A i \in 1..Len(rest) : rest[i] = steps[i + 1]
  BY <1>1
<1> HIDE DEF rs, rest
<1>3. /\ Len(rs) \in Nat /\ DOMAIN rs = 1..Len(rs) /\ DOMAIN (rs \o rest) = 1..(Len(rs) + Len(rest))
      /\ \A i \in 1..Len(rs) : (rs \o rest)[i] = rs[i]
      /\ \A i \in 1..Len(rest) : (rs \o rest)[Len(rs) + i] = rest[i]
  BY <1>1
<1>4. steps' = rs \o rest
  BY DEF rs, rest
<1>5. ASSUME NEW i \in DOMAIN steps'
      PROVE  \/ IsReadStep(steps'[i]) /\ steps'[i].q.op = "get"
             \/ \E j \in DOMAIN steps : j # 1 /\ steps'[i] = steps[j] /\ Len(steps) # 1
  <2>1. i \in 1..(Len(rs) + Len(rest)) /\ steps'[i] = (rs \o rest)[i]
    BY <1>3, <1>4, <1>5
  <2>2. CASE i \in 1..Len(rs)
    BY <1>1, <1>3, <2>1, <2>2
  <2>3. CASE i \notin 1..Len(rs)
    <3> DEFINE n == i - Len(rs)
    <3>1. n \in 1..Len(rest) /\ i = Len(rs) + n
      <4>1. Len(rs) \in Nat /\ Len(rest) \in Nat
        BY <1>2, <1>3
      <4> QED BY <2>1, <2>3, <4>1, LastPart, Zenon
    <3>2. n + 1 \in DOMAIN steps /\ n + 1 # 1 /\ Len(steps) # 1
      BY <1>2, <3>1
    <3>3. steps'[i] = steps[n + 1]
      BY <1>2, <1>3, <2>1, <3>1
    <3> QED BY <3>2, <3>3
  <2> QED BY <2>2, <2>3
<1>6. ASSUME NEW j \in DOMAIN steps, j # 1 PROVE \E i \in DOMAIN steps' : steps'[i] = steps[j]
  <2> DEFINE n == j - 1
  <2>1. n \in 1..Len(rest) /\ n + 1 = j
    BY <1>2, <1>6
  <2>2. Len(rs) + n \in 1..(Len(rs) + Len(rest))
    BY <1>2, <1>3, <2>1
  <2>3. (rs \o rest)[Len(rs) + n] = steps[j]
    BY <1>2, <1>3, <2>1
  <2> QED BY <1>3, <1>4, <2>2, <2>3
<1> QED BY <1>5, <1>6

LEMMA HandlersStep ==
  ASSUME TypeOK, Flow, Handlers, [Next]_vars
  PROVE  Handlers'
<1>t. TransportTypeOK /\ steps \in Seq(Step)
  BY DEF TypeOK
<1>1. ASSUME TransportStep PROVE Handlers'
  <2>1. UNCHANGED <<steps, told, batch, app>>
    BY <1>1, TransportMeans
  <2>2. config.has => config'.has
    <3>1. CASE Receive
      BY <1>t, <3>1, ReceiveMeans
    <3>2. CASE ~Receive
      BY <1>t, <1>1, <3>2, SendMeans, TransportMeans DEF TimeOut, Device, Unplug, port
    <3> QED BY <3>1, <3>2
  <2> QED BY <2>1, <2>2, HandlersSame
<1>2. ASSUME StartStep PROVE Handlers'
  <2>1. UNCHANGED <<steps, told, batch, app>> /\ (UNCHANGED config \/ ~open)
    BY <1>2, StartMeans DEF Call, port
  <2> QED BY <2>1, HandlersSame DEF Flow
<1>3. ASSUME EndStep PROVE Handlers'
  <2>1. UNCHANGED <<batch, told, config>> /\ app = "running" /\ (app' = app \/ Head(steps).for = "main")
    BY <1>3 DEF EndStep, port
  <2>2. steps' \in Seq(Step) /\ steps # <<>> /\ Head(steps) = steps[1] /\ 1 \in DOMAIN steps
    BY <1>t, <1>3, EndMeans
  <2>3. CASE \E k \in 1..Len(steps) : Rest(k)
    BY <2>1, <2>2, <2>3, HandlersRest
  <2>4. CASE Head(steps).for = "command" /\ steps' = Reads \o Tail(steps)
    <3>2. \A i \in DOMAIN steps' :
            \/ IsReadStep(steps'[i]) /\ steps'[i].q.op = "get"
            \/ \E j \in DOMAIN steps : j # 1 /\ steps'[i] = steps[j] /\ Len(steps) # 1
      BY <2>2, <2>4, ReadBack
    <3>3. ASSUME NEW i \in DOMAIN steps', IsReadStep(steps'[i]), steps'[i].q.op = "get"
          PROVE  LET s == steps'[i]
                 IN /\ s.for \notin {"main", "open", "enter", "init", "load", "settings", "alive"}
                    /\ s.q.op \notin {"none"} \cup ChangeOps
      BY <3>3 DEF IsReadStep, ChangeOps
    <3> QED BY <2>1, <3>2, <3>3 DEF Handlers, IsLoad, IsReadStep
  <2>5. CASE /\ Head(steps).for = "enter" /\ open /\ config.has
             /\ steps' = <<Do("settings", Question("get", config.active, Blank))>>
    <3>1. Question("get", config.active, Blank) \in Questions /\ Question("get", config.active, Blank).op = "get"
      BY DeviceAssumption, <1>t DEF TransportTypeOK, Question, Questions, Ops, ReadOps
    <3> DEFINE s == Do("settings", Question("get", config.active, Blank))
    <3>2. s.for = "settings" /\ s.q.op = "get"
      BY <3>1, StepTypes
    <3> HIDE DEF s
    <3>3. steps' = <<s>>
      BY <2>5 DEF s
    <3>4. Len(steps') = 1 /\ \A i \in DOMAIN steps' : steps'[i] = s
      BY <3>3
    <3>5. app' = "running" /\ config'.has
      BY <2>1, <2>5
    <3> QED BY <3>2, <3>4, <3>5 DEF Handlers, IsLoad, ChangeOps
  <2> QED BY <1>3, <2>3, <2>4, <2>5, EndMeans
<1>4. ASSUME Stop PROVE Handlers'
  BY <1>4, HandlersSame DEF Stop, handler, view
<1>5. ASSUME HandleEvent PROVE Handlers'
  BY <1>5 DEF HandleEvent, HandleInput, HandleShapeChanged, HandleError, Handlers, Free, handler
<1>6. ASSUME HandleClientConnected \/ Enter \/ HandleKeepAliveTimer PROVE Handlers'
  <2>1. PICK s \in {Do("open", Ask("open")), Do("enter", Ask("open")), Do("alive", Ask("keepAlive"))} : steps' = <<s>>
    BY <1>6 DEF HandleClientConnected, Enter, HandleKeepAliveTimer
  <2>2. /\ Ask("open") \in Questions /\ Ask("keepAlive") \in Questions
        /\ Ask("open").op = "open" /\ Ask("keepAlive").op = "keepAlive"
    BY Constants DEF Ops, ConfigOps
  <2>3. \/ s.for \in {"open", "enter"} /\ s.q.op = "open"
        \/ s.for = "alive" /\ s.q.op = "keepAlive"
    BY <2>1, <2>2, StepTypes
  <2>4. Len(steps') = 1 /\ \A i \in DOMAIN steps' : steps'[i] = s
    BY <2>1
  <2> QED BY <2>3, <2>4 DEF Handlers, IsLoad, ChangeOps
<1>7. ASSUME NextRequest PROVE Handlers'
  <2>1. batch' # <<>>
    BY <1>7 DEF NextRequest
  <2> QED BY <1>7, <2>1, RequestMeans DEF Handlers, LoadComing, IsLoad, IsReadStep
<1>8. ASSUME PrintResponse PROVE Handlers'
  <2>1. steps' = <<>>
    BY <1>8 DEF PrintResponse
  <2> QED BY <2>1 DEF Handlers
<1>9. ASSUME PostInput \/ (\E r \in Requests : PushRequest(r)) \/ UNCHANGED vars PROVE Handlers'
  BY <1>9, HandlersSame DEF PostInput, PushRequest, vars, transport, port, handler, view
<1> QED BY <1>1, <1>2, <1>3, <1>4, <1>5, <1>6, <1>7, <1>8, <1>9 DEF Next, EventThread, Environment, TransportStep
-----------------------------------------------------------------------------
(* Marks: whose question and whose reply is awaited.                       *)
NoMarks ==
  /\ \A i \in DOMAIN asked : asked[i].own = FALSE
  /\ \A i \in DOMAIN arrived : arrived[i].own = FALSE

LEMMA NoMarksHold == ASSUME NoMarks PROVE Marks
BY DEF NoMarks, Marks

LEMMA NotWaited == ASSUME TypeOK, Marks, ~waiting PROVE NoMarks
<1>1. /\ asked \in Seq(Asked) /\ arrived \in Seq(Replies)
      /\ \A x \in Asked : x.own \in BOOLEAN
      /\ \A x \in Replies : x.own \in BOOLEAN
  BY DEF TypeOK, TransportTypeOK, Asked, Replies
<1> QED BY <1>1 DEF Marks, NoMarks

LEMMA TrulySame ==
  ASSUME TypeOK, UNCHANGED device \/ device' = [device EXCEPT !.plugged = FALSE], NEW q, NEW r, Truly(device, q, r)
  PROVE  Truly(device', q, r)
<1>1. device'.active = device.active /\ device'.profiles = device.profiles
  BY DEF TypeOK, TransportTypeOK
<1> QED BY <1>1 DEF Truly

LEMMA MarksStep ==
  ASSUME TypeOK, Flow, Marks, InFlight, [Next]_vars
  PROVE  Marks' /\ InFlight'
<1>t. TransportTypeOK /\ asked \in Seq(Asked) /\ arrived \in Seq(Replies) /\ todo \in Seq(Questions)
  BY DEF TypeOK, TransportTypeOK, Asked
<1>1. ASSUME NoMarks', waiting' = FALSE PROVE Marks' /\ InFlight'
  <2>1. Marks'
    BY <1>1 DEF NoMarks, Marks
  <2> QED BY <1>1, <2>1 DEF InFlight
<1>2. ASSUME UNCHANGED <<device, asked, arrived, waiting, todo, owed>> PROVE Marks' /\ InFlight'
  BY <1>2 DEF Marks, InFlight, Truly
<1>3. ASSUME SendUsbFrame PROVE Marks' /\ InFlight'
  <2>1. NoMarks
    BY <1>t, <1>3, SendMeans, NotWaited
  <2>2. CASE UNCHANGED link /\ \E r : Finish(r)
    BY <1>1, <1>3, <1>t, <2>1, <2>2, SendMeans, FinishMeans DEF NoMarks, link
  <2>3. CASE asked' = asked /\ arrived' = <<>> /\ Finish(Failed)
    <3>1. DOMAIN arrived' = {}
      BY <2>3
    <3>2. waiting' = FALSE
      BY <2>3 DEF Finish
    <3> QED BY <1>1, <2>1, <2>3, <3>1, <3>2 DEF NoMarks
  <2>4. CASE /\ owed' = (asked # <<>>) /\ arrived' = <<>> /\ waiting' = TRUE /\ UNCHANGED todo
             /\ asked' = Append(asked, [q |-> Head(todo), own |-> TRUE])
    <3>1. /\ Len(asked') = Len(asked) + 1 /\ Len(asked) \in Nat /\ DOMAIN asked' = 1..Len(asked')
          /\ asked'[Len(asked')] = [q |-> Head(todo), own |-> TRUE]
          /\ \A i \in 1..Len(asked) : asked'[i] = asked[i] /\ asked'[i].own = FALSE
      BY <1>t, <2>1, <2>4 DEF NoMarks
    <3>2. \A i \in DOMAIN asked' : asked'[i].own => i = Len(asked') /\ asked'[i].q = Head(todo)
      BY <3>1
    <3>3. Marks'
      BY <2>4, <3>2 DEF Marks
    <3>4. ~owed' => \A i \in DOMAIN asked' : asked'[i].own
      <4>1. ~owed' => asked = <<>>
        BY <2>4, Zenon
      <4>2. asked = <<>> => Len(asked) = 0
        OBVIOUS
      <4> QED BY <3>1, <4>1, <4>2
    <3> QED BY <2>4, <3>3, <3>4 DEF InFlight
  <2> QED BY <1>t, <1>3, <2>2, <2>3, <2>4, SendMeans
<1>4. ASSUME Receive PROVE Marks' /\ InFlight'
  <2>1. Tail(arrived) \in Seq(Replies) /\ arrived # <<>> /\ todo # <<>> /\ UNCHANGED <<device, owed>>
    BY <1>t, <1>4, ReceiveMeans
  <2>2. CASE arrived' = Tail(arrived) /\ UNCHANGED <<asked, todo, waiting>>
    <3>1. /\ Len(arrived') = Len(arrived) - 1 /\ Len(arrived) \in Nat
          /\ \A i \in DOMAIN arrived' : i + 1 \in DOMAIN arrived /\ arrived'[i] = arrived[i + 1]
      BY <1>t, <2>1, <2>2
    <3>2. ASSUME NEW i \in DOMAIN arrived', arrived'[i].own
          PROVE  waiting' /\ asked' = <<>> /\ i = Len(arrived') /\ Truly(device', Head(todo'), arrived'[i])
      <4>1. waiting /\ asked = <<>> /\ i + 1 = Len(arrived) /\ Truly(device, Head(todo), arrived[i + 1])
        BY <3>1, <3>2 DEF Marks
      <4>2. i \in Nat /\ arrived'[i] = arrived[i + 1]
        BY <2>1, <2>2, <3>1, <3>2
      <4> QED BY <2>1, <2>2, <3>1, <4>1, <4>2 DEF Truly
    <3>3. Marks'
      BY <2>2, <3>2 DEF Marks
    <3> QED BY <2>1, <2>2, <3>1, <3>3 DEF InFlight
  <2>3. CASE /\ asked' = Stale(asked) /\ arrived' = Stale(Tail(arrived)) /\ \E n : Finish(n)
    BY <1>1, <1>t, <2>1, <2>3, StaleAsked, StaleArrived, FinishMeans DEF NoMarks
  <2> QED BY <1>t, <1>4, <2>2, <2>3, ReceiveMeans
<1>5. ASSUME TimeOut PROVE Marks' /\ InFlight'
  BY <1>1, <1>t, <1>5, TimeOutMeans, StaleAsked, StaleArrived, FinishMeans DEF NoMarks
<1>6. ASSUME Device PROVE Marks' /\ InFlight'
  <2> DEFINE a == Head(asked)
  <2>1. PICK r \in Replies :
          /\ arrived' = Append(arrived, r) /\ r.own = a.own /\ Truly(device, a.q, r)
          /\ asked # <<>> /\ a \in Asked /\ asked' = Tail(asked) /\ UNCHANGED <<port, call, waits>>
          /\ a.q.op \notin ChangeOps => device' = device
    BY <1>t, <1>6, DeviceMeans
  <2>2. a = asked[1] /\ Len(asked) \in Nat /\ Len(asked) > 0
    BY <1>t, <2>1
  <2> HIDE DEF a
  <2>3. UNCHANGED <<todo, waiting, owed>>
    BY <2>1 DEF call, waits
  <2>4. /\ Len(asked') = Len(asked) - 1
        /\ \A i \in DOMAIN asked' : i \in Nat /\ i + 1 \in DOMAIN asked /\ asked'[i] = asked[i + 1]
    BY <1>t, <2>1, <2>2
  <2>5. /\ Len(arrived') = Len(arrived) + 1 /\ Len(arrived) \in Nat /\ arrived'[Len(arrived')] = r
        /\ DOMAIN arrived' = 1..Len(arrived')
        /\ \A i \in 1..Len(arrived) : i \in DOMAIN arrived /\ arrived'[i] = arrived[i]
    BY <1>t, <2>1
  <2>6. ASSUME NEW i \in DOMAIN asked', asked'[i].own
        PROVE  waiting' /\ i = Len(asked') /\ asked'[i].q = Head(todo)'
    BY <2>2, <2>3, <2>4, <2>6 DEF Marks
  <2>7. \A i \in DOMAIN arrived : ~arrived[i].own
    BY <2>1 DEF Marks
  <2>8. a.own => waiting /\ Len(asked) = 1 /\ a.q = Head(todo)
    <3>1. 1 \in DOMAIN asked /\ asked[1] = a
      BY <1>t, <2>2
    <3> QED BY <3>1 DEF Marks
  <2>9. Truly(device', a.q, r)
    <3>1. CASE a.q.op \in ChangeOps
      BY <3>1 DEF Truly, ChangeOps
    <3>2. CASE a.q.op \notin ChangeOps
      BY <2>1, <3>2, TrulySame
    <3> QED BY <3>1, <3>2
  <2>10. a.own => asked' = <<>>
    BY <1>t, <2>1, <2>8, TailOfOne
  <2>11. ASSUME NEW i \in DOMAIN arrived', arrived'[i].own
         PROVE  waiting' /\ asked' = <<>> /\ i = Len(arrived') /\ Truly(device', Head(todo'), arrived'[i])
    <3>1. i = Len(arrived')
      BY <2>5, <2>7, <2>11
    <3>2. arrived'[i] = r /\ a.own
      BY <2>1, <2>5, <2>11, <3>1
    <3> QED BY <2>3, <2>8, <2>9, <2>10, <3>1, <3>2
  <2>12. Marks'
    BY <2>6, <2>11 DEF Marks
  <2>13. ASSUME waiting', ~owed'
         PROVE  /\ \A i \in DOMAIN asked' : asked'[i].own
                /\ \A i \in DOMAIN arrived' : arrived'[i].own
    <3>1. /\ \A i \in DOMAIN asked : asked[i].own
          /\ \A i \in DOMAIN arrived : arrived[i].own
      BY <2>3, <2>13 DEF InFlight
    <3>2. r.own
      BY <1>t, <2>1, <2>2, <3>1
    <3> QED BY <2>4, <2>5, <3>1, <3>2
  <2> QED BY <2>12, <2>13 DEF InFlight
<1>7. ASSUME Unplug PROVE Marks' /\ InFlight'
  <2>1. asked' = <<>> /\ UNCHANGED <<arrived, todo, waiting, owed>> /\ device' = [device EXCEPT !.plugged = FALSE]
    BY <1>7 DEF Unplug, call, waits
  <2>2. device'.active = device.active /\ device'.profiles = device.profiles
    BY <2>1 DEF TypeOK, TransportTypeOK
  <2> QED BY <2>1, <2>2 DEF Marks, InFlight, Truly
<1>8. ASSUME StartStep PROVE Marks' /\ InFlight'
  <2>1. todo = <<>> /\ waiting' = FALSE /\ UNCHANGED link
    BY <1>8 DEF StartStep, Call, Idle
  <2>2. NoMarks
    BY <2>1, NotWaited DEF Flow, Idle
  <2> QED BY <1>1, <2>1, <2>2 DEF NoMarks, link
<1>9. ASSUME Stop PROVE Marks' /\ InFlight'
  <2>1. UNCHANGED asked /\ arrived' = <<>> /\ waiting' = FALSE /\ app = "stopping"
    BY <1>9 DEF Stop, Close
  <2>2. NoMarks
    BY <2>1, NotInCall, NotWaited
  <2>3. DOMAIN arrived' = {}
    BY <2>1
  <2> QED BY <1>1, <2>1, <2>2, <2>3 DEF NoMarks
<1>10. ASSUME EndStep PROVE Marks' /\ InFlight'
  BY <1>2, <1>10 DEF EndStep, link, waits
<1>11. ASSUME UNCHANGED transport PROVE Marks' /\ InFlight'
  BY <1>2, <1>11 DEF transport, link, call, waits
<1> QED BY <1>3, <1>4, <1>5, <1>6, <1>7, <1>8, <1>9, <1>10, <1>11, ScreenOnly
     DEF Next, EventThread, Environment, InTransport, ScreenStep
-----------------------------------------------------------------------------
(* Whose reply was taken: the awaited one's, unless another was in flight. *)
LEMMA OwnStep ==
  ASSUME TypeOK, Flow, Handlers, InFlight, OnlyInFlightMisleads, [Next]_vars
  PROVE  OnlyInFlightMisleads'
<1>t. TransportTypeOK /\ todo \in Seq(Questions) /\ arrived \in Seq(Replies)
  BY DEF TypeOK, TransportTypeOK
<1>1. ASSUME ~outcome'.ok \/ outcome'.own PROVE OnlyInFlightMisleads'
  BY <1>1 DEF OnlyInFlightMisleads
<1>2. ASSUME UNCHANGED <<outcome, owed>> PROVE OnlyInFlightMisleads'
  BY <1>2 DEF OnlyInFlightMisleads
<1>3. ASSUME todo # <<>>, NEW result, Finish(result), result.ok /\ ~result.own => owed' PROVE OnlyInFlightMisleads'
  <2>1. outcome' = NoOutcome \/ outcome' = result
    BY <1>3, <1>t, FinishMeans
  <2> QED BY <1>3, <2>1, Constants DEF OnlyInFlightMisleads
<1>4. ASSUME SendUsbFrame PROVE OnlyInFlightMisleads'
  <2>1. todo # <<>>
    BY <1>t, <1>4, SendMeans
  <2>2. CASE \E r \in Outcomes : r.own = TRUE /\ Finish(r)
    BY <1>3, <2>1, <2>2
  <2>3. CASE Finish(Failed)
    BY <1>3, <2>1, <2>3, Constants
  <2>4. CASE UNCHANGED outcome
    BY <1>1, <2>1, <2>4, Constants DEF Flow, Idle
  <2> QED BY <1>t, <1>4, <2>2, <2>3, <2>4, SendMeans
<1>5. ASSUME Receive PROVE OnlyInFlightMisleads'
  <2> DEFINE r == Head(arrived)
             n == [done |-> TRUE, ok |-> Accepts(Head(todo), r), own |-> r.own, reply |-> r]
  <2>1. /\ waiting /\ todo # <<>> /\ arrived # <<>> /\ UNCHANGED owed
        /\ UNCHANGED outcome \/ Finish(n)
    BY <1>t, <1>5, ReceiveMeans
  <2>2. ~r.own => owed
    <3>1. 1 \in DOMAIN arrived /\ arrived[1] = r
      BY <1>t, <2>1
    <3> QED BY <2>1, <3>1 DEF InFlight
  <2>3. n.own = r.own
    OBVIOUS
  <2> HIDE DEF n, r
  <2> QED BY <1>2, <1>3, <2>1, <2>2, <2>3
<1>6. ASSUME TimeOut PROVE OnlyInFlightMisleads'
  BY <1>3, <1>t, <1>6, TimeOutMeans, Constants
<1>7. ASSUME Device \/ Unplug \/ UNCHANGED transport PROVE OnlyInFlightMisleads'
  BY <1>2, <1>7 DEF Device, Unplug, transport, call, waits
<1>8. ASSUME StartStep PROVE OnlyInFlightMisleads'
  <2>1. outcome' = Failed \/ outcome' = NoOutcome
    BY <1>8 DEF StartStep, Call
  <2> QED BY <1>1, <2>1, Constants
<1>9. ASSUME EndStep \/ Stop PROVE OnlyInFlightMisleads'
  <2>1. outcome' = NoOutcome
    BY <1>9 DEF EndStep, Stop, Close
  <2> QED BY <1>1, <2>1, Constants
<1> QED BY <1>4, <1>5, <1>6, <1>7, <1>8, <1>9, ScreenOnly
     DEF Next, EventThread, Environment, InTransport, ScreenStep
-----------------------------------------------------------------------------
(* Two facts about the events: a size the server does not have, and a line *)
(* no handler has taken.                                                   *)
Posted(e) == \E i \in DOMAIN events : events[i] = e

LEMMA PostedMeans ==
  ASSUME TypeOK, NEW e \in {Input, "shape"}
  PROVE  /\ \A f \in {Input, "shape", "error"} : events' = Append(events, f) => ((Posted(e) \/ f = e) => Posted(e)')
         /\ events # <<>> /\ events' = Tail(events) /\ Posted(e) /\ Head(events) # e => Posted(e)'
<1>t. events \in Seq({Input, "shape", "error"}) /\ Len(events) \in Nat /\ DOMAIN events = 1..Len(events)
  BY DEF TypeOK
<1>1. ASSUME NEW f \in {Input, "shape", "error"}, events' = Append(events, f), Posted(e) \/ f = e PROVE Posted(e)'
  <2>1. /\ DOMAIN events' = 1..(Len(events) + 1) /\ events'[Len(events) + 1] = f
        /\ \A i \in DOMAIN events : events'[i] = events[i]
    BY <1>t, <1>1
  <2>2. CASE f = e
    BY <1>t, <2>1, <2>2 DEF Posted
  <2>3. CASE Posted(e)
    <3>1. PICK i \in DOMAIN events : events[i] = e
      BY <2>3 DEF Posted
    <3>2. i \in DOMAIN events' /\ events'[i] = e
      BY <1>t, <2>1, <3>1
    <3> QED BY <3>2 DEF Posted
  <2> QED BY <1>1, <2>2, <2>3
<1>2. ASSUME events # <<>>, events' = Tail(events), Posted(e), Head(events) # e PROVE Posted(e)'
  <2>1. PICK i \in DOMAIN events : events[i] = e
    BY <1>2 DEF Posted
  <2>2. i # 1 /\ i - 1 \in DOMAIN events' /\ events'[i - 1] = e
    BY <1>t, <1>2, <2>1
  <2> QED BY <2>2 DEF Posted
<1> QED BY <1>1, <1>2

LEMMA SizeStep ==
  ASSUME TypeOK, Flow, Handlers, ServerKnowsSize, [Next]_vars
  PROVE  ServerKnowsSize'
<1>t. ServerKnowsSize <=> told \in {0, screen.size} \/ Posted("shape")
  BY DEF ServerKnowsSize, Posted
<1>p. ServerKnowsSize' <=> told' \in {0, screen'.size} \/ Posted("shape")'
  BY DEF ServerKnowsSize, Posted
<1>1. ASSUME UNCHANGED <<told, screen, events>> PROVE ServerKnowsSize'
  BY <1>1 DEF ServerKnowsSize
<1>2. ASSUME TransportStep \/ StartStep \/ Stop PROVE ServerKnowsSize'
  BY <1>1, <1>2, TransportMeans DEF StartStep, Stop, view
<1>3. ASSUME EndStep PROVE ServerKnowsSize'
  <2>1. UNCHANGED told /\ 1 \in DOMAIN steps /\ Head(steps) = steps[1]
    BY <1>3, EndMeans DEF EndStep, TypeOK
  <2>2. Posted("shape") => Posted("shape")'
    <3>1. events' = events \/ \E e \in {"shape", "error"} : events' = Append(events, e)
      BY <1>3, EndScreen
    <3> QED BY <3>1, PostedMeans DEF Posted
  <2>3. CASE screen'.size = screen.size
    BY <1>t, <1>p, <2>1, <2>2, <2>3
  <2>4. CASE screen'.size # screen.size
    <3>1. CASE Head(steps).for = "init"
      BY <1>p, <2>1, <3>1 DEF Handlers
    <3>2. CASE Head(steps).for = "load"
      <4>1. events' = Append(events, "shape")
        BY <1>3, <2>4, <3>2, EndScreen DEF IsLoad
      <4> QED BY <1>p, <4>1, PostedMeans
    <3>3. CASE ~IsLoad(Head(steps))
      <4>1. screen' = Loaded(config.active, outcome.reply.profile)
        BY <1>3, <2>4, <3>3, EndScreen
      <4> QED BY <2>4, <4>1 DEF Loaded, TypeOK
    <3> QED BY <3>1, <3>2, <3>3 DEF IsLoad
  <2> QED BY <2>3, <2>4
<1>4. ASSUME HandleEvent PROVE ServerKnowsSize'
  <2>1. events # <<>> /\ events' = Tail(events) /\ UNCHANGED screen
    BY <1>4 DEF HandleEvent, HandleInput, HandleShapeChanged, HandleError, view
  <2>2. CASE Head(events) = "shape"
    <3>1. HandleShapeChanged
      BY <1>4, <2>2 DEF HandleEvent, Input
    <3> QED BY <1>p, <2>1, <3>1 DEF HandleShapeChanged
  <2>3. CASE Head(events) # "shape"
    <3>1. UNCHANGED told
      BY <1>4, <2>3 DEF HandleEvent, HandleInput, HandleError, view
    <3>2. Posted("shape") => Posted("shape")'
      BY <2>1, <2>3, PostedMeans
    <3> QED BY <1>t, <1>p, <2>1, <3>1, <3>2
  <2> QED BY <2>2, <2>3
<1>5. ASSUME HandleClientConnected PROVE ServerKnowsSize'
  BY <1>5, <1>p DEF HandleClientConnected
<1>6. ASSUME PostInput PROVE ServerKnowsSize'
  <2>1. UNCHANGED <<told, screen>> /\ (events' = events \/ events' = Append(events, Input))
    BY <1>6 DEF PostInput, view
  <2>2. Posted("shape") => Posted("shape")'
    BY <2>1, PostedMeans DEF Posted
  <2> QED BY <1>t, <1>p, <2>1, <2>2
<1>7. ASSUME Enter \/ HandleKeepAliveTimer \/ NextRequest \/ PrintResponse \/ (\E r \in Requests : PushRequest(r)) \/ UNCHANGED vars
      PROVE  ServerKnowsSize'
  BY <1>1, <1>7 DEF Enter, HandleKeepAliveTimer, NextRequest, PrintResponse, PushRequest, vars, view
<1> QED BY <1>2, <1>3, <1>4, <1>5, <1>6, <1>7 DEF Next, EventThread, Environment, TransportStep

LEMMA WokenStep ==
  ASSUME TypeOK, Flow, Handlers, Woken, [Next]_vars
  PROVE  Woken'
<1>t. Woken <=> (lines # <<>> => closed \/ reader # NoLine \/ Posted(Input))
  BY DEF Woken, Posted
<1>p. Woken' <=> (lines' # <<>> => closed' \/ reader' # NoLine \/ Posted(Input)')
  BY DEF Woken, Posted
<1>1. ASSUME UNCHANGED <<lines, closed, reader, events>> PROVE Woken'
  BY <1>1 DEF Woken
<1>2. ASSUME TransportStep \/ StartStep PROVE Woken'
  BY <1>1, <1>2, TransportMeans, StartMeans
<1>3. ASSUME EndStep PROVE Woken'
  <2>1. UNCHANGED <<lines, closed, reader>>
    BY <1>3 DEF EndStep, queue
  <2>2. events' = events \/ \E e \in {"shape", "error"} : events' = Append(events, e)
    BY <1>3, EndScreen
  <2>3. Posted(Input) => Posted(Input)'
    BY <2>2, PostedMeans DEF Posted
  <2> QED BY <1>t, <1>p, <2>1, <2>3
<1>4. ASSUME Stop PROVE Woken'
  BY <1>4, <1>p DEF Stop
<1>5. ASSUME HandleEvent PROVE Woken'
  <2>1. events # <<>> /\ events' = Tail(events)
    BY <1>5 DEF HandleEvent
  <2>2. CASE Head(events) = Input
    BY <1>5, <1>p, <2>2 DEF HandleEvent, HandleInput, Input
  <2>3. CASE Head(events) # Input
    <3>1. UNCHANGED <<lines, closed, reader>>
      BY <1>5, <2>3 DEF HandleEvent, HandleShapeChanged, HandleError, queue
    <3>2. Posted(Input) => Posted(Input)'
      BY <2>1, <2>3, PostedMeans
    <3> QED BY <1>t, <1>p, <3>1, <3>2
  <2> QED BY <2>2, <2>3
<1>6. ASSUME PostInput PROVE Woken'
  <2>1. closed' = closed /\ (closed \/ events' = Append(events, Input))
    BY <1>6 DEF PostInput
  <2>2. events' = Append(events, Input) => Posted(Input)'
    BY PostedMeans
  <2> QED BY <1>p, <2>1, <2>2
<1>7. ASSUME NEW r \in Requests, PushRequest(r) PROVE Woken'
  <2>1. reader'.id = sent + 1 /\ sent \in Nat
    BY <1>7, PushType DEF TypeOK
  <2>2. reader' # NoLine
    BY <2>1 DEF NoLine
  <2> QED BY <1>p, <2>2
<1>8. ASSUME HandleClientConnected \/ Enter \/ HandleKeepAliveTimer \/ NextRequest \/ PrintResponse \/ UNCHANGED vars
      PROVE  Woken'
  BY <1>1, <1>8 DEF HandleClientConnected, Enter, HandleKeepAliveTimer, NextRequest, PrintResponse, vars, queue
<1> QED BY <1>2, <1>3, <1>4, <1>5, <1>6, <1>7, <1>8 DEF Next, EventThread, Environment, TransportStep
-----------------------------------------------------------------------------
(* Agree: the screen and the device.  What was told once can only be lost. *)
LEMMA Before ==
  ASSUME TypeOK, Flow, [Next]_vars
  PROVE  lost \subseteq lost' /\ (device'.plugged => device.plugged) /\ (app' = "running" => app = "running")
<1>t. TransportTypeOK
  BY DEF TypeOK
<1>1. lost \subseteq lost'
  <2>1. CASE Receive
    BY <1>t, <2>1, ReceiveMeans
  <2>2. CASE UNCHANGED transport
    BY <2>2 DEF transport, waits
  <2>3. CASE SendUsbFrame \/ TimeOut \/ Device \/ Unplug \/ StartStep \/ EndStep \/ Stop
    BY <2>3, <1>t, SendMeans DEF TimeOut, Device, Unplug, StartStep, Call, EndStep, Stop, Close, waits
  <2> QED BY <2>1, <2>2, <2>3, ScreenOnly DEF Next, EventThread, Environment, InTransport, ScreenStep
<1>2. device'.plugged => device.plugged
  <2>1. CASE Device
    BY <1>t, <2>1, DeviceMeans
  <2>2. CASE Receive
    BY <1>t, <2>2, ReceiveMeans
  <2>3. CASE Unplug
    BY <2>3 DEF Unplug
  <2>4. CASE UNCHANGED transport
    BY <2>4 DEF transport
  <2>5. CASE SendUsbFrame \/ TimeOut \/ StartStep \/ EndStep \/ Stop
    BY <2>5, <1>t, SendMeans DEF TimeOut, StartStep, Call, EndStep, Stop, Close
  <2> QED BY <2>1, <2>2, <2>3, <2>4, <2>5, ScreenOnly DEF Next, EventThread, Environment, InTransport, ScreenStep
<1>3. app' = "running" => app = "running"
  <2>1. CASE TransportStep
    BY <2>1, TransportMeans
  <2>2. CASE StartStep \/ EndStep \/ Stop \/ HandleEvent \/ NextRequest \/ PrintResponse
    BY <2>2 DEF StartStep, EndStep, Stop, HandleEvent, Free, NextRequest, PrintResponse
  <2>3. CASE HandleClientConnected \/ Enter \/ HandleKeepAliveTimer \/ PostInput \/ (\E r \in Requests : PushRequest(r)) \/ UNCHANGED vars
    BY <2>3 DEF HandleClientConnected, Enter, HandleKeepAliveTimer, PostInput, PushRequest, vars
  <2> QED BY <2>1, <2>2, <2>3 DEF Next, EventThread, Environment, TransportStep
<1> QED BY <1>1, <1>2, <1>3

LEMMA ToldBefore == ASSUME TypeOK, Flow, [Next]_vars, Told' PROVE Told
BY Before DEF Told

(* The last frame of a call asks what the step wants to know.              *)
LEMMA LastFrame ==
  ASSUME TypeOK, Flow, Handlers, Len(todo) = 1, todo # <<>>
  PROVE  /\ IsLoad(Head(steps)) => Head(todo).op = "getActive"
         /\ Head(steps).for = "settings" => Head(todo).op = "get" /\ Head(todo) = Head(steps).q
<1>1. Head(todo) = todo[1] /\ steps # <<>> /\ todo[1] = Head(steps).q
  BY DEF TypeOK, TransportTypeOK, Flow, Idle
<1>2. Head(steps) = steps[1] /\ 1 \in DOMAIN steps
  BY <1>1 DEF TypeOK
<1> QED BY <1>1, <1>2 DEF Handlers

(* The end of a frame, whatever its result, if the result of a load, and   *)
(* the settings if there is any, are what the device holds.                *)
LoadTrue(result) ==
  /\ result.ok /\ asked' = <<>> /\ ConfigTrue'
  /\ result.reply.slot = device.active
  /\ result.reply.profile = device.profiles[device.active]

LEMMA AgreeFinish ==
  ASSUME TypeOK, Flow, Handlers, Agree, Told, todo # <<>>,
         NEW result, Finish(result), UNCHANGED <<device, steps, screen>>,
         Settled => \A i \in DOMAIN asked' : asked'[i].q.op \notin ChangeOps,
         Settled /\ ConfigTrue => ConfigTrue',
         IsLoad(Head(steps)) /\ (Len(todo) = 1 \/ (~result.ok /\ Head(todo).op = "hello")) => LoadTrue(result),
         Head(steps).for = "settings" /\ result.ok /\ Len(todo) = 1 =>
           result.reply.profile = device.profiles[device.active]
  PROVE  Agree'
<1>t. todo \in Seq(Questions)
  BY DEF TypeOK, TransportTypeOK
<1>1. \/ todo' = Tail(todo) /\ outcome' = NoOutcome
      \/ /\ todo' = <<>> /\ outcome' = result
         /\ Len(todo) = 1 \/ (~result.ok /\ Head(todo).op = "hello")
  BY <1>t, FinishMeans
<1>2. (\A i \in DOMAIN todo : todo[i].op \notin ChangeOps) => \A i \in DOMAIN todo' : todo'[i].op \notin ChangeOps
  BY <1>t, <1>1
<1>3. LoadComing' \/ (Matches /\ Settled /\ ConfigTrue)'
  <2>1. CASE LoadComing
    BY <2>1 DEF LoadComing, IsLoad
  <2>2. CASE Matches /\ Settled /\ ConfigTrue
    <3>1. Settled' /\ ConfigTrue'
      BY <1>2, <2>2 DEF Settled
    <3>2. Matches'
      BY <2>2 DEF Matches
    <3> QED BY <3>1, <3>2
  <2> QED BY <2>1, <2>2 DEF Agree
<1>4. (outcome.done /\ IsLoad(Head(steps)))' =>
        /\ outcome'.ok /\ asked' = <<>> /\ ConfigTrue'
        /\ outcome'.reply.slot = device.active /\ outcome'.reply.profile = device.profiles[device.active]
  BY <1>1, Constants DEF LoadTrue, IsLoad
<1>5. (steps # <<>> /\ Head(steps).for = "settings")' =>
        /\ Head(steps').q.slot = device.active
        /\ outcome'.ok => outcome'.reply.profile = device.profiles[device.active]
  BY <1>1, Constants DEF Agree
<1> QED BY <1>3, <1>4, <1>5 DEF Agree

(* A step that changes neither what is known of the device nor a result.   *)
LEMMA AgreeSame ==
  ASSUME Agree, Told, UNCHANGED <<device, screen, config>>,
         LoadComing => LoadComing',
         Settled => Settled',
         ~outcome'.done /\ ~outcome'.ok,
         (steps # <<>> /\ Head(steps).for = "settings")' => Head(steps').q.slot = device.active
  PROVE  Agree'
<1>1. LoadComing' \/ (Matches' /\ Settled' /\ ConfigTrue')
  BY DEF Agree, LoadComing, Matches, ConfigTrue
<1> QED BY <1>1 DEF Agree

LEMMA AgreeSend ==
  ASSUME TypeOK, Flow, Handlers, Agree, Told, Told', SendUsbFrame, UNCHANGED <<steps, screen>>
  PROVE  Agree'
<1>t. TransportTypeOK /\ todo \in Seq(Questions) /\ asked \in Seq(Asked)
  BY DEF TypeOK, TransportTypeOK, Asked
<1>1. todo # <<>> /\ UNCHANGED <<device, open, handshake, config>> /\ Head(todo) = todo[1] /\ 1 \in DOMAIN todo
  BY <1>t, SendMeans DEF port
<1>2. CASE UNCHANGED link /\ Head(todo).op \in {"open", "hid"} /\ \E r \in Outcomes : Finish(r)
  <2>1. PICK r \in Outcomes : Finish(r)
    BY <1>2
  <2>2. Head(todo).op \notin {"hello", "getActive", "get"}
    BY <1>2
  <2>3. IsLoad(Head(steps)) /\ (Len(todo) = 1 \/ (~r.ok /\ Head(todo).op = "hello")) => LoadTrue(r)
    BY <1>1, <2>2, LastFrame
  <2>4. Head(steps).for = "settings" /\ r.ok /\ Len(todo) = 1 => r.reply.profile = device.profiles[device.active]
    BY <1>1, <2>2, LastFrame
  <2>5. Settled => \A i \in DOMAIN asked' : asked'[i].q.op \notin ChangeOps
    BY <1>2 DEF Settled, link
  <2>6. ConfigTrue => ConfigTrue'
    BY <1>1 DEF ConfigTrue
  <2> QED BY <1>1, <2>1, <2>3, <2>4, <2>5, <2>6, AgreeFinish
<1>3. CASE /\ arrived' = <<>> /\ waiting' = TRUE /\ UNCHANGED <<todo, outcome>>
           /\ asked' = Append(asked, [q |-> Head(todo), own |-> TRUE])
  <2>1. ~outcome'.done /\ ~outcome'.ok
    BY <1>1, <1>3, Constants DEF Flow, Idle
  <2>2. Settled => Settled'
    <3>1. \A i \in DOMAIN asked' : (i \in DOMAIN asked /\ asked'[i] = asked[i]) \/ asked'[i].q = Head(todo)
      BY <1>t, <1>3
    <3> QED BY <1>1, <1>3, <3>1 DEF Settled
  <2>3. LoadComing => LoadComing'
    BY DEF LoadComing, IsLoad
  <2>4. (steps # <<>> /\ Head(steps).for = "settings")' => Head(steps').q.slot = device.active
    BY DEF Agree
  <2> QED BY <1>1, <2>1, <2>2, <2>3, <2>4, AgreeSame
<1>4. device.plugged
  BY DEF Told
<1> QED BY <1>t, <1>2, <1>3, <1>4, SendMeans

LEMMA AgreeTimeOut ==
  ASSUME TypeOK, Flow, Handlers, Agree, Told, Told', TimeOut, UNCHANGED <<steps, screen>>
  PROVE  Agree'
<1>t. TransportTypeOK
  BY DEF TypeOK
<1>1. /\ todo # <<>> /\ Finish(Failed) /\ UNCHANGED <<device, config>> /\ asked' = Stale(asked)
      /\ lost' = lost \cup {Head(todo).op}
  BY <1>t, TimeOutMeans DEF port
<1>2. Head(todo).op \notin {"hello", "getActive", "get"}
  BY <1>1 DEF Told, ReadOps
<1>3. IsLoad(Head(steps)) /\ (Len(todo) = 1 \/ (~Failed.ok /\ Head(todo).op = "hello")) => LoadTrue(Failed)
  BY <1>1, <1>2, LastFrame
<1>4. Settled => \A i \in DOMAIN asked' : asked'[i].q.op \notin ChangeOps
  BY <1>t, <1>1, StaleAsked DEF Settled
<1>5. ConfigTrue => ConfigTrue'
  BY <1>1 DEF ConfigTrue
<1> QED BY <1>1, <1>3, <1>4, <1>5, AgreeFinish, Constants

(* A reply that ends a read without being lost is the device's own answer. *)
LEMMA AgreeReceive ==
  ASSUME TypeOK, Flow, Marks, Handlers, Agree, Told, Told', Receive, UNCHANGED <<steps, screen>>
  PROVE  Agree'
<1> DEFINE q == Head(todo)
           r == Head(arrived)
           n == [done |-> TRUE, ok |-> Accepts(q, r), own |-> r.own, reply |-> r]
<1>t. /\ TransportTypeOK /\ todo \in Seq(Questions) /\ arrived \in Seq(Replies)
      /\ device.active \in Slots /\ Slots \subseteq Nat
  BY DeviceAssumption DEF TypeOK, TransportTypeOK, Slots
<1>1. waiting /\ todo # <<>> /\ arrived # <<>> /\ UNCHANGED <<device, open, late, owed>>
  BY <1>t, ReceiveMeans
<1>2. q = todo[1] /\ 1 \in DOMAIN todo /\ r = arrived[1] /\ 1 \in DOMAIN arrived
  BY <1>t, <1>1
<1>3. CASE arrived' = Tail(arrived) /\ UNCHANGED <<asked, todo, waiting, outcome, lost, config, handshake>>
  <2>1. ~outcome'.done /\ ~outcome'.ok
    BY <1>1, <1>3, Constants DEF Flow, Idle
  <2>2. Settled => Settled'
    BY <1>3 DEF Settled
  <2>3. LoadComing => LoadComing'
    BY DEF LoadComing, IsLoad
  <2>4. (steps # <<>> /\ Head(steps).for = "settings")' => Head(steps').q.slot = device.active
    BY DEF Agree
  <2> QED BY <1>1, <1>3, <2>1, <2>2, <2>3, <2>4, AgreeSame
<1>4. CASE /\ ~Skips(q, r) /\ Finish(n) /\ asked' = Stale(asked)
           /\ lost' = IF r.own THEN lost ELSE lost \cup {q.op}
           /\ config' \in [has : BOOLEAN, active : Nat, total : {0, Reported}]
           /\ config'.has = (config.has \/ (q.op = "hello" /\ Accepts(q, r)))
           /\ \/ ~Accepts(q, r) /\ config' = config
              \/ Accepts(q, r) /\ q.op \in {"hello", "getActive"} /\ config'.active = r.slot
              \/ Accepts(q, r) /\ q.op = "switch"
              \/ q.op \notin {"hello", "getActive", "switch"} /\ config' = config
  <2>n. n.ok = Accepts(q, r) /\ n.reply = r
    OBVIOUS
  <2> HIDE DEF n, q, r
  <2>1. q.op \in {"hello", "getActive", "get"} => r.own
    BY <1>4 DEF Told, ReadOps
  <2>2. r.own => asked = <<>> /\ Truly(device, q, r)
    BY <1>2 DEF Marks, q
  <2>3. q.op = "hello" => Accepts(q, r) /\ r.slot = device.active
    BY <1>4, <2>1, <2>2 DEF Truly, Accepts, ConfigOps
  <2>4. q.op = "getActive" => /\ Accepts(q, r) /\ r.slot = device.active
                              /\ r.profile = device.profiles[device.active]
    <3> HAVE q.op = "getActive"
    <3>1. r.form = "profile" /\ r.status = 0 /\ r.slot = device.active /\ r.profile = device.profiles[device.active]
      BY <2>1, <2>2 DEF Truly
    <3>2. config.total = 0 \/ r.slot < config.total
      <4>1. config.total = 0 \/ config.total = Total
        BY <1>t, DeviceAssumption DEF TransportTypeOK
      <4>2. r.slot < Total
        BY <1>t, <3>1, DeviceAssumption DEF Slots
      <4> QED BY <4>1, <4>2
    <3> QED BY <1>4, <3>1, <3>2 DEF Accepts, ConfigOps
  <2>5. Settled => \A i \in DOMAIN asked' : asked'[i].q.op \notin ChangeOps
    BY <1>t, <1>4, StaleAsked DEF Settled
  <2>6. Settled /\ ConfigTrue => ConfigTrue'
    <3> HAVE Settled /\ ConfigTrue
    <3>1. q.op # "switch"
      BY <1>2 DEF Settled, ChangeOps
    <3>2. CASE config' = config
      BY <1>1, <3>2 DEF ConfigTrue
    <3>3. CASE q.op \in {"hello", "getActive"} /\ config'.active = r.slot
      BY <1>1, <2>3, <2>4, <3>3 DEF ConfigTrue
    <3> QED BY <1>4, <3>1, <3>2, <3>3
  <2>7. ASSUME IsLoad(Head(steps)), Len(todo) = 1 \/ (~n.ok /\ q.op = "hello")
        PROVE  LoadTrue(n)
    <3>1. q.op = "getActive"
      BY <1>1, <2>3, <2>7, <2>n, LastFrame DEF q
    <3>2. asked' = <<>>
      BY <1>t, <1>4, <2>1, <2>2, <3>1, StaleAsked
    <3>3. ConfigTrue'
      <4>1. config'.active = r.slot
        BY <1>4, <2>4, <3>1
      <4> QED BY <1>1, <2>4, <3>1, <4>1 DEF ConfigTrue
    <3> QED BY <2>4, <2>n, <3>1, <3>2, <3>3 DEF LoadTrue
  <2>8. ASSUME Head(steps).for = "settings", n.ok, Len(todo) = 1
        PROVE  n.reply.profile = device.profiles[device.active]
    <3>1. q.op = "get" /\ q = Head(steps).q /\ steps # <<>>
      BY <1>1, <2>8, LastFrame DEF q, Flow, Idle
    <3>2. q.slot = device.active
      BY <2>8, <3>1 DEF Agree
    <3> QED BY <1>t, <2>1, <2>2, <2>n, <3>1, <3>2 DEF Truly
  <2> QED BY <1>1, <1>4, <2>5, <2>6, <2>7, <2>8, AgreeFinish DEF q
<1> QED BY <1>t, <1>3, <1>4, ReceiveMeans

LEMMA AgreeDevice ==
  ASSUME TypeOK, Flow, Handlers, Agree, Told, Told', Device, UNCHANGED <<steps, screen>>
  PROVE  Agree'
<1> DEFINE a == Head(asked)
<1>t. TransportTypeOK /\ asked \in Seq(Asked)
  BY DEF TypeOK, TransportTypeOK, Asked
<1>1. /\ asked # <<>> /\ a \in Asked /\ asked' = Tail(asked) /\ UNCHANGED <<port, call, waits>>
      /\ a.q.op \notin ChangeOps => device' = device
  BY <1>t, DeviceMeans
<1>2. UNCHANGED <<config, todo, outcome>> /\ a = asked[1] /\ 1 \in DOMAIN asked
  BY <1>t, <1>1 DEF port, call
<1> HIDE DEF a
<1>3. Settled => Settled' /\ device' = device
  <2>1. \A i \in DOMAIN asked' : i + 1 \in DOMAIN asked /\ asked'[i] = asked[i + 1]
    BY <1>t, <1>1
  <2> QED BY <1>1, <1>2, <2>1 DEF Settled
<1>4. ~(outcome.done /\ IsLoad(Head(steps)))
  BY <1>1 DEF Agree
<1>5. steps # <<>> /\ Head(steps).for = "settings" => ~LoadComing
  <2> HAVE steps # <<>> /\ Head(steps).for = "settings"
  <2>1. Head(steps) = steps[1] /\ 1 \in DOMAIN steps /\ DOMAIN steps = 1..Len(steps)
    BY DEF TypeOK
  <2>2. Len(steps) = 1
    BY <2>1 DEF Handlers
  <2> QED BY <2>1, <2>2 DEF LoadComing, IsLoad
<1>6. CASE LoadComing
  <2>1. LoadComing'
    BY <1>6 DEF LoadComing, IsLoad
  <2> QED BY <1>2, <1>4, <1>5, <1>6, <2>1 DEF Agree, IsLoad
<1>7. CASE ~LoadComing
  <2>1. Matches /\ Settled /\ ConfigTrue
    BY <1>7 DEF Agree
  <2>2. Settled' /\ device' = device
    BY <1>3, <2>1
  <2>3. Matches' /\ ConfigTrue'
    BY <1>2, <2>1, <2>2 DEF Matches, ConfigTrue
  <2> QED BY <1>2, <1>4, <2>2, <2>3 DEF Agree, IsLoad
<1> QED BY <1>6, <1>7

LEMMA AgreeStart ==
  ASSUME TypeOK, Flow, Handlers, Agree, Told, Told', StartStep
  PROVE  Agree'
<1> DEFINE q == Head(steps).q
<1>t. TransportTypeOK
  BY DEF TypeOK
<1>1. /\ Head(steps) = steps[1] /\ 1 \in DOMAIN steps /\ q \in Questions /\ Call(q) /\ UNCHANGED <<steps, screen>>
  BY <1>t, StartMeans DEF TypeOK
<1>2. /\ todo = <<>> /\ UNCHANGED <<device, asked>> /\ outcome' = NoOutcome
      /\ todo' \in {Handshake \o <<q>>, <<q>>} /\ (config' = config \/ config' = NoConfig)
  BY <1>t, <1>1, CallMeans DEF Told, link, port
<1>3. LoadComing => LoadComing'
  BY <1>1 DEF LoadComing, IsLoad
<1>4. ~LoadComing => q.op \notin ChangeOps
  BY <1>1 DEF Handlers
<1> HIDE DEF q
<1>5. Settled /\ ~LoadComing => Settled'
  <2> HAVE Settled /\ ~LoadComing
  <2>1. \A i \in DOMAIN todo' : todo'[i] \in {q, Ask("hello"), Ask("getName"), Ask("getSerial")}
    BY <1>2, HandshakeFirst
  <2>2. Ask("hello").op \notin ChangeOps /\ Ask("getName").op \notin ChangeOps /\ Ask("getSerial").op \notin ChangeOps
    BY DEF Ask, Question, ChangeOps
  <2> QED BY <1>2, <1>4, <2>1, <2>2 DEF Settled
<1>6. Matches => Matches'
  BY <1>1, <1>2 DEF Matches
<1>7. ConfigTrue => ConfigTrue'
  BY <1>2 DEF ConfigTrue, NoConfig
<1>8. (steps # <<>> /\ Head(steps).for = "settings")' => Head(steps').q.slot = device.active
  BY <1>1 DEF Agree
<1>9. ~outcome'.done /\ ~outcome'.ok
  BY <1>2, Constants
<1>10. LoadComing' \/ (Matches' /\ Settled' /\ ConfigTrue')
  BY <1>3, <1>5, <1>6, <1>7 DEF Agree
<1> QED BY <1>2, <1>8, <1>9, <1>10 DEF Agree

LEMMA LoadRest ==
  ASSUME TypeOK, NEW k \in 1..Len(steps), Rest(k), steps' \in Seq(Step), LoadComing, ~IsLoad(Head(steps)), Head(steps) = steps[1]
  PROVE  LoadComing'
<1>t. /\ Len(steps) \in Nat /\ DOMAIN steps = 1..Len(steps) /\ k \in Nat
      /\ Len(steps') = Len(steps) - k
  BY DEF TypeOK, Rest
<1>1. PICK i \in DOMAIN steps : IsLoad(steps[i])
  BY DEF LoadComing
<1>2. i > k
  <2>1. CASE k = 1
    BY <1>t, <1>1, <2>1
  <2>2. CASE \A j \in 1..k : IsReadStep(steps[j])
    BY <1>t, <1>1, <2>2 DEF IsReadStep, IsLoad
  <2> QED BY <2>1, <2>2 DEF Rest
<1>3. i - k \in 1..Len(steps') /\ (i - k) + k = i
  BY <1>t, <1>1, <1>2
<1>4. steps'[i - k] = steps[i]
  BY <1>3 DEF Rest
<1>5. i - k \in DOMAIN steps'
  BY <1>3
<1> QED BY <1>1, <1>4, <1>5 DEF LoadComing, IsLoad

LEMMA RestSettings ==
  ASSUME TypeOK, Handlers, NEW k \in 1..Len(steps), Rest(k), steps' \in Seq(Step), steps' # <<>>
  PROVE  Head(steps').for # "settings"
<1>1. /\ Len(steps) \in Nat /\ DOMAIN steps = 1..Len(steps) /\ k \in Nat /\ k > 0
      /\ Len(steps') = Len(steps) - k
  BY DEF TypeOK, Rest
<1>2. Len(steps') \in Nat /\ Len(steps') # 0 /\ Head(steps') = steps'[1]
  BY NonEmpty
<1>3. 1 \in 1..Len(steps') /\ 1 + k \in DOMAIN steps /\ Len(steps) # 1
  <2>1. \A m \in Nat, n \in Nat : n = m - k /\ n # 0 => 1 \in 1..n /\ 1 + k \in 1..m /\ m # 1
    BY <1>1
  <2> QED BY <1>1, <1>2, <2>1, Zenon
<1>4. Head(steps') = steps[1 + k]
  BY <1>2, <1>3 DEF Rest
<1> QED BY <1>3, <1>4 DEF Handlers

(* The end of a step, where the results are used.                          *)
LEMMA AgreeEnd ==
  ASSUME TypeOK, Flow, Handlers, Agree, Told, Told', EndStep
  PROVE  Agree'
<1>1. /\ steps # <<>> /\ todo = <<>> /\ Head(steps) \in Step /\ Head(steps) = steps[1] /\ 1 \in DOMAIN steps
      /\ steps' \in Seq(Step) /\ outcome.done /\ outcome' = NoOutcome
      /\ UNCHANGED <<device, asked, config, todo>> /\ steps \in Seq(Step)
  BY EndMeans DEF EndStep, link, port, TypeOK
<1>2. ~outcome'.done /\ ~outcome'.ok
  BY <1>1, Constants
<1>3. Settled => Settled'
  BY <1>1 DEF Settled
<1>4. CASE IsLoad(Head(steps))
  <2>1. /\ outcome.ok /\ asked = <<>> /\ ConfigTrue
        /\ outcome.reply.slot = device.active /\ outcome.reply.profile = device.profiles[device.active]
    BY <1>1, <1>4 DEF Agree
  <2>2. screen' = ActiveLoaded
    BY <1>4, <2>1, EndScreen DEF IsLoad
  <2>3. Matches'
    BY <1>1, <2>1, <2>2, ActiveLoadedMeans DEF Matches
  <2>4. Settled' /\ ConfigTrue'
    BY <1>1, <2>1 DEF Settled, ConfigTrue
  <2>5. steps' # <<>> => Head(steps').for # "settings"
    <3>1. PICK k \in 1..Len(steps) : Rest(k)
      BY <1>4, EndMeans DEF IsLoad
    <3> QED BY <1>1, <3>1, RestSettings
  <2> QED BY <1>2, <2>3, <2>4, <2>5 DEF Agree
<1>5. CASE ~IsLoad(Head(steps)) /\ Head(steps).for # "settings"
  <2>1. UNCHANGED screen
    BY <1>5, EndScreen
  <2>2. CASE \E k \in 1..Len(steps) : Rest(k)
    <3>1. PICK k \in 1..Len(steps) : Rest(k)
      BY <2>2
    <3>2. LoadComing => LoadComing'
      BY <1>1, <1>5, <3>1, LoadRest
    <3>3. steps' # <<>> => Head(steps').for # "settings"
      BY <1>1, <3>1, RestSettings
    <3> QED BY <1>1, <1>2, <1>3, <2>1, <3>2, <3>3, AgreeSame
  <2>3. CASE Head(steps).for = "command" /\ steps' = Reads \o Tail(steps)
    <3>1. LoadComing => LoadComing'
      BY <1>1, <1>5, <2>3, ReadBack DEF LoadComing, IsLoad
    <3>2. steps' # <<>> => Head(steps').for # "settings"
      <4> HAVE steps' # <<>>
      <4>1. 1 \in DOMAIN steps' /\ Head(steps') = steps'[1]
        BY <1>1
      <4> QED BY <1>1, <2>3, <4>1, ReadBack DEF Handlers, IsReadStep
    <3> QED BY <1>1, <1>2, <1>3, <2>1, <3>1, <3>2, AgreeSame
  <2>4. CASE /\ Head(steps).for = "enter" /\ open /\ config.has
             /\ steps' = <<Do("settings", Question("get", config.active, Blank))>>
    <3>1. Len(steps) = 1
      BY <1>1, <2>4 DEF Handlers
    <3>2. ~LoadComing
      BY <1>1, <1>5, <3>1 DEF LoadComing
    <3>3. Settled /\ ConfigTrue
      BY <3>2 DEF Agree
    <3>4. Head(steps').q.slot = config.active
      BY <2>4 DEF Do, Question
    <3> QED BY <1>1, <1>2, <1>3, <2>1, <2>4, <3>2, <3>3, <3>4, AgreeSame DEF ConfigTrue
  <2> QED BY <1>3, <2>2, <2>3, <2>4, EndMeans
<1>6. CASE Head(steps).for = "settings"
  <2>1. Len(steps) = 1 /\ config.has
    BY <1>1, <1>6 DEF Handlers
  <2>2. ~LoadComing
    BY <1>1, <1>6, <2>1 DEF LoadComing, IsLoad
  <2>3. Matches /\ Settled /\ ConfigTrue /\ config.active = device.active
    BY <2>1, <2>2 DEF Agree, ConfigTrue
  <2>4. steps' = <<>>
    BY <1>1, <1>6 DEF EndStep, EndSettings
  <2>5. Matches'
    <3>1. CASE outcome.ok
      <4>1. screen' = Loaded(config.active, outcome.reply.profile)
        BY <1>6, <3>1, EndScreen DEF IsLoad
      <4>2. outcome.reply.profile = device.profiles[device.active]
        BY <1>1, <1>6, <3>1 DEF Agree
      <4>3. config.active \in Nat /\ outcome.reply.profile \in Profiles
        BY DEF TypeOK, TransportTypeOK, Replies
      <4> QED BY <1>1, <2>3, <4>1, <4>2, <4>3, LoadedMeans DEF Matches
    <3>2. CASE ~outcome.ok
      <4>1. UNCHANGED screen
        BY <1>6, <3>2, EndScreen DEF IsLoad
      <4> QED BY <1>1, <2>3, <4>1 DEF Matches
    <3> QED BY <3>1, <3>2
  <2>6. ConfigTrue'
    BY <1>1, <2>3 DEF ConfigTrue
  <2> QED BY <1>2, <1>3, <2>3, <2>4, <2>5, <2>6 DEF Agree
<1> QED BY <1>4, <1>5, <1>6

(* The steps of the screen that leave the transport alone: those that start*)
(* or end a handler find the screen agreeing, and leave it so.             *)
LEMMA AgreeScreen ==
  ASSUME TypeOK, Flow, Handlers, Agree, Told, Told', ScreenStep
  PROVE  Agree'
<1>1. UNCHANGED <<device, asked, config, todo, outcome>>
  BY ScreenOnly DEF transport, link, port, call
<1>2. ASSUME UNCHANGED <<steps, screen>> PROVE Agree'
  BY <1>1, <1>2 DEF Agree, LoadComing, IsLoad, Matches, Settled, ConfigTrue
<1>3. ASSUME steps = <<>> \/ steps = <<Respond>>, UNCHANGED screen,
             steps' # <<>> => Head(steps').for # "settings"
      PROVE  Agree'
  <2>1. ~LoadComing
    BY <1>3, StepTypes DEF LoadComing, IsLoad
  <2>2. Matches' /\ Settled' /\ ConfigTrue'
    BY <1>1, <1>3, <2>1 DEF Agree, Matches, Settled, ConfigTrue
  <2>3. ~outcome'.done
    BY <1>1, <1>3, NotInCall
  <2> QED BY <1>3, <2>2, <2>3 DEF Agree
<1>4. ASSUME HandleEvent \/ PostInput \/ (\E r \in Requests : PushRequest(r)) \/ UNCHANGED vars PROVE Agree'
  BY <1>2, <1>4 DEF HandleEvent, HandleInput, HandleShapeChanged, HandleError, PostInput, PushRequest, vars,
                    handler, view
<1>5. ASSUME HandleClientConnected \/ Enter \/ HandleKeepAliveTimer PROVE Agree'
  <2>1. PICK s \in {Do("open", Ask("open")), Do("enter", Ask("open")), Do("alive", Ask("keepAlive"))} : steps' = <<s>>
    BY <1>5 DEF HandleClientConnected, Enter, HandleKeepAliveTimer
  <2>2. Head(steps') = s /\ s.for # "settings"
    BY <2>1 DEF Do
  <2>3. steps = <<>> /\ UNCHANGED screen
    BY <1>5 DEF HandleClientConnected, Enter, HandleKeepAliveTimer, Free, view
  <2> QED BY <1>3, <2>2, <2>3
<1>6. ASSUME NextRequest PROVE Agree'
  <2>1. steps = <<>> /\ UNCHANGED screen /\ steps' \in Seq(Step)
    BY <1>6, RequestMeans DEF NextRequest, view
  <2>2. steps' # <<>> => Head(steps').for # "settings"
    <3> HAVE steps' # <<>>
    <3>1. 1 \in DOMAIN steps' /\ Head(steps') = steps'[1]
      BY <2>1
    <3> QED BY <1>6, <3>1, RequestMeans
  <2> QED BY <1>3, <2>1, <2>2
<1>7. ASSUME PrintResponse PROVE Agree'
  BY <1>3, <1>7 DEF PrintResponse, view
<1> QED BY <1>4, <1>5, <1>6, <1>7 DEF ScreenStep

LEMMA AgreeStep ==
  ASSUME TypeOK, Flow, Marks, Handlers, Agree, [Next]_vars
  PROVE  Agree'
<1>1. CASE ~Told'
  BY <1>1 DEF Agree
<1>2. CASE Told'
  <2>1. Told
    BY <1>2, ToldBefore
  <2>2. CASE TransportStep
    <3>1. UNCHANGED <<steps, screen>> /\ (SendUsbFrame \/ Receive \/ TimeOut \/ Device \/ Unplug)
      BY <2>2, TransportMeans
    <3>2. ~Unplug
      BY <1>2 DEF Told, Unplug, TypeOK, TransportTypeOK
    <3> QED BY <1>2, <2>1, <3>1, <3>2, AgreeSend, AgreeReceive, AgreeTimeOut, AgreeDevice
  <2>3. CASE StartStep
    BY <1>2, <2>1, <2>3, AgreeStart
  <2>4. CASE EndStep
    BY <1>2, <2>1, <2>4, AgreeEnd
  <2>5. CASE ScreenStep
    BY <1>2, <2>1, <2>5, AgreeScreen
  <2>6. ~Stop
    BY <1>2 DEF Told, Stop
  <2> QED BY <2>2, <2>3, <2>4, <2>5, <2>6 DEF Next, EventThread, Environment, TransportStep, ScreenStep
<1> QED BY <1>1, <1>2
-----------------------------------------------------------------------------
LEMMA ScreenInvInit == Init => ScreenInv /\ Woken
<1> SUFFICES ASSUME Init PROVE ScreenInv /\ Woken
  OBVIOUS
<1> DEFINE main == Do("main", Ask("open"))
           init == Do("init", Ask("getActive"))
           alive == Do("alive", Ask("keepAlive"))
<1>1. /\ TransportInit /\ app = "running" /\ events = <<>> /\ lines = <<>> /\ closed = FALSE
      /\ reader = NoLine /\ batch = <<>> /\ answers = {}
      /\ steps = <<main, init, alive>>
      /\ screen = [size |-> GivenSize, slot |-> 0, profile |-> Blank]
      /\ told = 0 /\ sent = 0
  BY DEF Init
<1>2. /\ main \in Step /\ main.for = "main" /\ main.q.op = "open"
      /\ init \in Step /\ init.for = "init" /\ init.q.op = "getActive"
      /\ alive \in Step /\ alive.for = "alive" /\ alive.q.op = "keepAlive"
  <2>1. /\ Ask("open") \in Questions /\ Ask("getActive") \in Questions /\ Ask("keepAlive") \in Questions
        /\ Ask("open").op = "open" /\ Ask("getActive").op = "getActive" /\ Ask("keepAlive").op = "keepAlive"
    BY Constants DEF Ops, ConfigOps, ReadOps
  <2> QED BY <2>1, StepTypes
<1> HIDE DEF main, init, alive
<1>3. /\ steps \in Seq(Step) /\ steps # <<>> /\ Head(steps) = main /\ DOMAIN steps = {1, 2, 3} /\ Len(steps) = 3
      /\ steps[1] = main /\ steps[2] = init /\ steps[3] = alive
  BY <1>1, <1>2
<1>4. /\ device \in [plugged : BOOLEAN, active : Slots, profiles : [Slots -> Profiles]]
      /\ asked = <<>> /\ arrived = <<>> /\ open = FALSE /\ handshake = FALSE /\ config = NoConfig
      /\ todo = <<>> /\ waiting = FALSE /\ outcome = NoOutcome /\ late = 0 /\ owed = FALSE
  BY <1>1, DeviceAssumption DEF TransportInit
<1>5. TransportTypeOK
  <2>1. config \in [has : BOOLEAN, active : Nat, total : {0, Reported}]
    BY <1>4 DEF NoConfig
  <2>2. asked \in Seq([q : Frames, own : BOOLEAN]) /\ arrived \in Seq(Replies) /\ todo \in Seq(Questions)
    BY <1>4
  <2>3. outcome \in [done : BOOLEAN, ok : BOOLEAN, own : BOOLEAN, reply : Replies]
    BY <1>4, Constants DEF Outcomes
  <2>4. late \in 0..MaxLate
    BY <1>4, DeviceAssumption
  <2> QED BY <1>4, <2>1, <2>2, <2>3, <2>4 DEF TransportTypeOK
<1>6. TypeOK
  <2>1. screen \in Screens
    BY <1>1, DeviceAssumption, ScreenAssumption DEF Screens
  <2>2. events \in Seq({Input, "shape", "error"}) /\ lines \in Seq(Line) /\ batch \in Seq(Line)
    BY <1>1
  <2> QED BY <1>1, <1>3, <1>5, <2>1, <2>2 DEF TypeOK, Screens
<1>7. Flow
  <2>1. main # Respond
    BY <1>2, StepTypes
  <2> QED BY <1>1, <1>3, <1>4, <2>1, Constants DEF Flow, Idle, NoConfig
<1>8. Marks /\ InFlight
  BY <1>4 DEF Marks, InFlight
<1>9. LoadComing
  BY <1>2, <1>3 DEF LoadComing, IsLoad
<1>10. Handlers
  BY <1>1, <1>2, <1>3, <1>9 DEF Handlers, IsLoad, ChangeOps
<1>11. Agree
  BY <1>2, <1>3, <1>4, <1>9, Constants DEF Agree
<1>12. OnlyInFlightMisleads /\ ServerKnowsSize /\ Woken
  BY <1>1, <1>4, Constants DEF OnlyInFlightMisleads, ServerKnowsSize, Woken
<1> QED BY <1>6, <1>7, <1>8, <1>10, <1>11, <1>12 DEF ScreenInv

(* The inductive invariant.                                                *)
LEMMA ScreenInvStep == ScreenInv /\ [Next]_vars => ScreenInv'
<1> SUFFICES ASSUME ScreenInv, [Next]_vars PROVE ScreenInv'
  OBVIOUS
<1>1. TypeOK /\ Flow /\ Marks /\ InFlight /\ Handlers /\ Agree /\ OnlyInFlightMisleads /\ ServerKnowsSize
  BY DEF ScreenInv
<1>2. TypeOK' /\ Flow' /\ Handlers'
  BY <1>1, TypeStep, FlowStep, HandlersStep
<1>3. Marks' /\ InFlight' /\ OnlyInFlightMisleads'
  BY <1>1, MarksStep, OwnStep
<1>4. Agree' /\ ServerKnowsSize'
  BY <1>1, AgreeStep, SizeStep
<1> QED BY <1>2, <1>3, <1>4 DEF ScreenInv

LEMMA ScreenInvHolds == Spec => []ScreenInv
BY ScreenInvInit, ScreenInvStep, PTL DEF Spec

(* Whatever the delays, a command takes a reply that is not its own only   *)
(* if that reply was still on its way when the command was sent: what had  *)
(* arrived by then is discarded (CdcTransport::sendUsbFrame).              *)
THEOREM OnlyInFlightMisleadsHolds == Spec => []OnlyInFlightMisleads
<1>1. ScreenInv => OnlyInFlightMisleads
  BY DEF ScreenInv
<1> QED BY <1>1, ScreenInvHolds, PTL

(* Between handlers the screen uses the profile that is active on the      *)
(* device, as long as no read and no hello lost its reply, and a connected *)
(* server has the screen's size or will be told it; every variable has its *)
(* type (handleRequests, loadActiveProfile, applyActiveProfile).           *)
THEOREM ScreenAgreesHolds == Spec => []ScreenAgrees
<1>1. ScreenInv => ScreenAgrees
  <2> SUFFICES ASSUME ScreenInv PROVE ScreenAgrees
    OBVIOUS
  <2>1. TypeOK /\ Agree /\ ServerKnowsSize
    BY DEF ScreenInv
  <2>2. ShowsActive
    <3> SUFFICES ASSUME Free, Told PROVE Matches
      BY DEF ShowsActive, Matches, Told, Free
    <3>1. ~LoadComing
      BY DEF Free, LoadComing
    <3> QED BY <2>1, <3>1 DEF Agree
  <2> QED BY <2>1, <2>2 DEF ScreenAgrees
<1> QED BY <1>1, ScreenInvHolds, PTL

(* No request is left lying: while the queue holds a line, the event that  *)
(* takes it is in the event queue or about to be posted, unless the queue  *)
(* is closed (readStdinCommands, Queue::takeAll).                          *)
THEOREM WokenHolds == Spec => []Woken
<1>1. ScreenInv /\ Woken /\ [Next]_vars => Woken'
  BY WokenStep DEF ScreenInv
<1> QED BY <1>1, ScreenInvInit, ScreenInvHolds, PTL DEF Spec

-----------------------------------------------------------------------------
(***************************************************************************)
(* What a response lists.                                                  *)
(***************************************************************************)
Timely == lost \subseteq ConfigOps /\ device.plugged /\ app = "running"

Heading(for) == steps # <<>> /\ Head(steps).for = for

(* Which handler the steps are of, and that of a request is the batch's.   *)
Batched ==
  /\ fields \in [ok : BOOLEAN, active : Nat, profiles : Seq(Profiles)]
  /\ app # "running" => batch = <<>>
  /\ \A i \in DOMAIN steps :
       LET s == steps[i]
       IN /\ s.for \in {"main", "init", "open", "enter", "settings", "alive"} => batch = <<>>
          /\ s.for = "command" => i = 1 /\ batch # <<>> /\ s.q.op = Head(batch).command
          /\ s.q.op \in ChangeOps => s.for = "command"
  /\ Heading("command") => \A i \in DOMAIN steps : ~IsReadStep(steps[i])

(* In time: only what keep-alives and names asked is ever still on its way *)
(* when it is awaited no more, and the awaited reply is one to its frame.  *)
Fits(d, q, r) ==
  /\ q.op \in ConfigOps <=> r.form = "config"
  /\ q.op \in ChangeOps => r.form = "ack"
  /\ q.op = "switch" /\ r.status = 0 => d.active = q.slot

Punctual ==
  /\ \A i \in DOMAIN asked : asked[i].own = FALSE => asked[i].q.op \in ConfigOps
  /\ \A i \in DOMAIN arrived :
       /\ arrived[i].own => Fits(device, Head(todo), arrived[i])
       /\ arrived[i].own = FALSE => arrived[i].form = "config"

(* The first call completes a handshake.                                   *)
Started ==
  /\ config.has = handshake
  /\ config.has => config.total = Reported
  /\ ~config.has => /\ Heading("main")
                    /\ Idle => ~outcome.done
                    /\ ~Idle => Head(todo).op = "hello"

(* The active slot is known, but for the reply to a switch.                *)
Switched ==
  Head(todo).op = "switch" /\ \E i \in DOMAIN arrived : arrived[i].own /\ arrived[i].status = 0
ActiveKnown == config.has => config.active = device.active \/ Switched

(* A profile that was read is the one in its slot.                         *)
Got ==
  LET q == Head(steps).q
  IN outcome.done /\ q.op = "get" /\ q.slot \in Slots =>
       outcome.ok /\ outcome.reply.profile = device.profiles[q.slot]

(* The answer so far, and the reads that complete it.                      *)
ReadsLeft(k) ==
  /\ k \in Nat
  /\ \A i \in DOMAIN steps : IsReadStep(steps[i]) <=> i <= k
  /\ \A i \in DOMAIN steps : i <= k => steps[i].q.slot = Len(fields.profiles) + (i - 1)
  /\ Len(fields.profiles) + k >= Total
ListTrue ==
  /\ fields.active = device.active
  /\ \A i \in DOMAIN fields.profiles :
       i - 1 \in Slots => fields.profiles[i] = device.profiles[i - 1]
  /\ \E k \in Nat : ReadsLeft(k)
Listing ==
  (/\ batch # <<>> /\ Head(batch).command \in {"profiles"} \cup ChangeOps
   /\ steps # <<>> /\ ~Heading("command") /\ fields.ok) => ListTrue

AnswerInv ==
  Batched /\ (Timely => Punctual /\ Started /\ ActiveKnown /\ Got /\ Listing)
-----------------------------------------------------------------------------
LEMMA OpsApart ==
  /\ \A op \in ConfigOps : op \notin ChangeOps /\ op \notin {"hello", "get", "getActive", "open", "hid", "none"}
  /\ \A op \in ChangeOps : op \notin ConfigOps /\ op \notin {"hello", "get", "getActive", "open", "hid", "none"}
  /\ "switch" \in ChangeOps
  /\ "profiles" \notin Ops
BY DEF ConfigOps, ChangeOps, Ops, ReadOps

(* The form of a reply tells what kind of frame it answers, and a change   *)
(* is done exactly when the reply says so.                                 *)
LEMMA AnswerFits ==
  ASSUME TransportTypeOK, NEW q \in Frames, NEW own \in BOOLEAN, Answer(q, own)
  PROVE  /\ \E r \in Replies :
              /\ arrived' = Append(arrived, r) /\ r.own = own
              /\ Fits(device', q, r)
              /\ device'.active = device.active \/ (q.op = "switch" /\ r.status = 0)
         /\ q.op \notin ChangeOps => device' = device
<1>t. /\ device \in [plugged : BOOLEAN, active : Slots, profiles : [Slots -> Profiles]]
      /\ device.active \in Slots /\ Slots \subseteq Nat /\ Blank \in Profiles
      /\ \A x \in Slots : device.profiles[x] \in Profiles
      /\ q.op \in Ops /\ q.slot \in Nat /\ q.profile \in Profiles
  BY DeviceAssumption DEF TransportTypeOK, Slots, Questions, Frames
<1> DEFINE Done(form, new, slot, profile, status) ==
        /\ device' = new
        /\ arrived' = Append(arrived, Reply(form, q.op, status, slot, profile, own))
<1>1. \A form \in {"none", "hello", "config", "profile", "ack"}, slot \in Nat, profile \in Profiles, status \in {0, 1} :
        LET r == Reply(form, q.op, status, slot, profile, own)
        IN r \in Replies /\ r.own = own /\ r.form = form /\ r.status = status
  BY <1>t DEF Reply, Replies
<1>2. ASSUME NEW form \in {"hello", "config", "profile", "ack"}, NEW slot \in Nat, NEW profile \in Profiles,
             NEW status \in {0, 1}, Done(form, device, slot, profile, status),
             q.op \in ConfigOps <=> form = "config",
             q.op \in ChangeOps => form = "ack" /\ status = 1
      PROVE  \E r \in Replies :
              /\ arrived' = Append(arrived, r) /\ r.own = own /\ Fits(device', q, r)
              /\ device'.active = device.active \/ (q.op = "switch" /\ r.status = 0)
  <2> DEFINE r == Reply(form, q.op, status, slot, profile, own)
  <2>1. r \in Replies /\ r.own = own /\ r.form = form /\ r.status = status
    BY <1>1
  <2>2. arrived' = Append(arrived, r) /\ device' = device
    BY <1>2
  <2> HIDE DEF r
  <2>3. Fits(device', q, r)
    BY <1>2, <2>1, OpsApart DEF Fits
  <2> QED BY <2>1, <2>2, <2>3
<1>3. CASE q.op = "hello"
  <2>1. Done("hello", device, device.active, Blank, 0)
    BY <1>3 DEF Answer, ConfigOps
  <2> QED BY <1>2, <1>3, <1>t, <2>1, OpsApart
<1>4. CASE q.op \in ConfigOps
  <2>1. Done("config", device, 0, Blank, 0)
    BY <1>4 DEF Answer, ConfigOps
  <2> QED BY <1>2, <1>4, <1>t, <2>1, OpsApart
<1>5. CASE q.op = "getActive"
  <2>1. Done("profile", device, device.active, device.profiles[device.active], 0)
    BY <1>5 DEF Answer, ConfigOps
  <2>2. device.active \in Nat /\ device.profiles[device.active] \in Profiles
    BY <1>t
  <2> QED BY <1>2, <1>5, <2>1, <2>2, OpsApart
<1>6. CASE q.op = "get"
  <2>1. \/ Done("profile", device, q.slot, device.profiles[q.slot], 0) /\ q.slot \in Slots
        \/ Done("ack", device, 0, Blank, 1)
    BY <1>6 DEF Answer, ConfigOps
  <2> QED BY <1>2, <1>6, <1>t, <2>1, OpsApart
<1>7. CASE q.op \in ChangeOps
  <2>1. \/ Done("ack", device, 0, Blank, 1)
        \/ q.op = "switch" /\ Done("ack", [device EXCEPT !.active = q.slot], 0, Blank, 0)
        \/ q.op = "set" /\ Done("ack", [device EXCEPT !.profiles[q.slot] = q.profile], 0, Blank, 0)
        \/ q.op = "erase" /\ Done("ack", [device EXCEPT !.profiles[q.slot] = Blank], 0, Blank, 0)
    BY <1>7 DEF Answer, ConfigOps, ChangeOps
  <2> DEFINE r == Reply("ack", q.op, 0, 0, Blank, own)
  <2>2. r \in Replies /\ r.own = own /\ r.form = "ack" /\ r.status = 0
    BY <1>1, <1>t
  <2>3. CASE Done("ack", device, 0, Blank, 1)
    BY <1>2, <1>7, <1>t, <2>3, OpsApart
  <2>4. CASE q.op = "switch" /\ Done("ack", [device EXCEPT !.active = q.slot], 0, Blank, 0)
    <3>1. device'.active = q.slot /\ arrived' = Append(arrived, r)
      BY <1>t, <2>4
    <3> HIDE DEF r
    <3>2. Fits(device', q, r)
      BY <2>2, <2>4, <3>1, OpsApart DEF Fits
    <3> QED BY <1>7, <2>2, <2>4, <3>1, <3>2
  <2>5. CASE \/ q.op = "set" /\ Done("ack", [device EXCEPT !.profiles[q.slot] = q.profile], 0, Blank, 0)
             \/ q.op = "erase" /\ Done("ack", [device EXCEPT !.profiles[q.slot] = Blank], 0, Blank, 0)
    <3>1. device'.active = device.active /\ arrived' = Append(arrived, r) /\ q.op # "switch"
      BY <1>t, <2>5
    <3> HIDE DEF r
    <3>2. Fits(device', q, r)
      BY <1>7, <2>2, <3>1, OpsApart DEF Fits
    <3> QED BY <1>7, <2>2, <3>1, <3>2
  <2> QED BY <2>1, <2>3, <2>4, <2>5
<1>8. q.op \notin ChangeOps => device' = device
  BY AnswerMeans
<1> QED BY <1>3, <1>4, <1>5, <1>6, <1>7, <1>8, <1>t DEF Ops, ReadOps, Frames, Questions

(* What Receive does to the port's memory.                                 *)
LEMMA ReceiveConfig ==
  ASSUME TransportTypeOK, Flow, Receive, ~Skips(Head(todo), Head(arrived))
  PROVE  LET q == Head(todo)
             r == Head(arrived)
         IN /\ config'.total = IF q.op = "hello" /\ Accepts(q, r) THEN Reported ELSE config.total
            /\ config'.active =
                 IF ~Accepts(q, r) THEN config.active
                 ELSE IF q.op \in {"hello", "getActive"} THEN r.slot
                 ELSE IF q.op = "switch" THEN q.slot ELSE config.active
<1> DEFINE q == Head(todo)
           r == Head(arrived)
<1>1. config \in [has : BOOLEAN, active : Nat, total : {0, Reported}]
  BY DEF TransportTypeOK
<1>2. config' =
        IF ~Accepts(q, r) THEN config
        ELSE CASE q.op = "hello" -> [has |-> TRUE, active |-> r.slot, total |-> Reported]
               [] q.op = "getActive" -> [config EXCEPT !.active = r.slot]
               [] q.op = "switch" -> [config EXCEPT !.active = q.slot]
               [] OTHER -> config
  BY DEF Receive
<1> HIDE DEF q, r
<1> SUFFICES /\ config'.total = IF q.op = "hello" /\ Accepts(q, r) THEN Reported ELSE config.total
             /\ config'.active =
                  IF ~Accepts(q, r) THEN config.active
                  ELSE IF q.op \in {"hello", "getActive"} THEN r.slot
                  ELSE IF q.op = "switch" THEN q.slot ELSE config.active
  BY DEF q, r
<1>3. CASE ~Accepts(q, r)
  BY <1>2, <1>3
<1>4. CASE Accepts(q, r) /\ q.op = "hello"
  BY <1>1, <1>2, <1>4
<1>5. CASE Accepts(q, r) /\ q.op = "getActive"
  BY <1>1, <1>2, <1>5
<1>6. CASE Accepts(q, r) /\ q.op = "switch"
  BY <1>1, <1>2, <1>6
<1>7. CASE Accepts(q, r) /\ q.op \notin {"hello", "getActive", "switch"}
  BY <1>2, <1>7
<1> QED BY <1>3, <1>4, <1>5, <1>6, <1>7

LEMMA DeviceFits ==
  ASSUME TransportTypeOK, Device
  PROVE  LET a == Head(asked)
         IN /\ asked # <<>> /\ a = asked[1] /\ 1 \in DOMAIN asked /\ a \in Asked /\ asked' = Tail(asked)
            /\ UNCHANGED <<port, call, waits>>
            /\ \E r \in Replies :
                 /\ arrived' = Append(arrived, r) /\ r.own = a.own /\ Fits(device', a.q, r)
                 /\ device'.active = device.active \/ (a.q.op = "switch" /\ r.status = 0)
            /\ a.q.op \notin ChangeOps => device' = device
<1>1. asked # <<>> /\ asked \in Seq(Asked)
  BY DEF Device, TransportTypeOK, Asked
<1>2. Head(asked) \in Asked /\ Head(asked) = asked[1] /\ 1 \in DOMAIN asked
  BY <1>1
<1>3. Head(asked).q \in Frames /\ Head(asked).own \in BOOLEAN
  BY <1>2 DEF Asked
<1>4. Answer(Head(asked).q, Head(asked).own)
  BY DEF Device
<1> QED BY <1>1, <1>2, <1>3, <1>4, AnswerFits DEF Device

LEMMA StaleForms ==
  ASSUME NEW s \in Seq(Replies)
  PROVE  /\ DOMAIN Stale(s) = DOMAIN s
         /\ \A i \in DOMAIN s : Stale(s)[i].own = FALSE /\ Stale(s)[i].form = s[i].form
<1>1. /\ DOMAIN Stale(s) = DOMAIN s
      /\ \A i \in DOMAIN s : Stale(s)[i] = Unown(s[i]) /\ Stale(s)[i].own = FALSE
  BY UnownMeans, StaleMeans
<1>2. \A x \in Replies : Unown(x).form = x.form
  BY DEF Unown, Replies
<1>3. \A i \in DOMAIN s : s[i] \in Replies
  OBVIOUS
<1> QED BY <1>1, <1>2, <1>3

(* The frames of a call but the last are those of a handshake.             *)
LEMMA FrameKinds ==
  ASSUME TypeOK, Flow, todo # <<>>
  PROVE  /\ Head(todo) \in Questions /\ Head(todo) = todo[1] /\ steps # <<>> /\ Len(todo) \in Nat /\ Len(todo) # 0
         /\ Head(steps) = steps[1] /\ 1 \in DOMAIN steps /\ app = "running" /\ ~outcome.done
         /\ Head(todo).op \notin {"hello"} \cup ConfigOps => Len(todo) = 1
         /\ Len(todo) = 1 => Head(todo) = Head(steps).q
<1>1. /\ todo \in Seq(Questions) /\ steps \in Seq(Step)
  BY DEF TypeOK, TransportTypeOK
<1>2. /\ Head(todo) \in Questions /\ Head(todo) = todo[1] /\ Len(todo) \in Nat /\ Len(todo) # 0
  BY <1>1
<1>3. steps # <<>> /\ app = "running" /\ ~outcome.done /\ todo[Len(todo)] = Head(steps).q
  BY Constants DEF Flow, Idle
<1>4. Head(steps) = steps[1] /\ 1 \in DOMAIN steps
  BY <1>1, <1>3
<1>5. Head(todo).op \notin {"hello"} \cup ConfigOps => Len(todo) = 1
  <2> SUFFICES ASSUME Len(todo) # 1 PROVE Head(todo).op \in {"hello"} \cup ConfigOps
    OBVIOUS
  <2>1. 1 \in 1..(Len(todo) - 1)
    <3>1. \A n \in Nat : n # 0 /\ n # 1 => 1 \in 1..(n - 1)
      OBVIOUS
    <3> QED BY <1>2, <3>1, Zenon
  <2>2. Head(todo) \in {Ask("hello"), Ask("getName"), Ask("getSerial")}
    BY <1>2, <2>1 DEF Flow
  <2> QED BY <2>2 DEF Ask, Question, ConfigOps
<1> QED BY <1>2, <1>3, <1>4, <1>5

LEMMA TimelyBefore == ASSUME TypeOK, Flow, [Next]_vars, Timely' PROVE Timely
BY Before DEF Timely

-----------------------------------------------------------------------------
(* Punctual.                                                               *)
LEMMA PunctualSame ==
  ASSUME TypeOK, Marks, Punctual, UNCHANGED <<device, asked, arrived>>, UNCHANGED todo \/ ~waiting
  PROVE  Punctual'
<1>1. CASE UNCHANGED todo
  BY <1>1 DEF Punctual
<1>2. CASE ~waiting
  BY <1>2, NotWaited DEF NoMarks, Punctual
<1> QED BY <1>1, <1>2

(* A reply that is taken for an answer, but to a keep-alive or a name, is  *)
(* the frame's own.                                                        *)
LEMMA OwnTaken ==
  ASSUME TypeOK, Flow, Marks, Punctual, Receive, ~Skips(Head(todo), Head(arrived)), Head(todo).op \notin ConfigOps
  PROVE  /\ Head(arrived).own /\ Head(arrived) = arrived[1] /\ 1 \in DOMAIN arrived
         /\ Len(arrived) = 1 /\ asked = <<>>
         /\ Truly(device, Head(todo), Head(arrived)) /\ Fits(device, Head(todo), Head(arrived))
<1>1. TransportTypeOK /\ arrived \in Seq(Replies) /\ arrived # <<>>
  BY ReceiveMeans DEF TypeOK, TransportTypeOK
<1>2. Head(arrived) = arrived[1] /\ 1 \in DOMAIN arrived /\ Head(arrived) \in Replies
  BY <1>1
<1>3. Head(arrived).own
  <2>1. Head(arrived).own \in BOOLEAN
    BY <1>2 DEF Replies
  <2>2. Head(arrived).form # "config"
    BY DEF Skips
  <2> QED BY <1>2, <2>1, <2>2 DEF Punctual
<1>4. Len(arrived) = 1 /\ asked = <<>> /\ Truly(device, Head(todo), Head(arrived))
  BY <1>2, <1>3 DEF Marks
<1> QED BY <1>2, <1>3, <1>4 DEF Punctual

LEMMA PunctualStale ==
  ASSUME TypeOK, Marks, Punctual,
         Head(todo).op \in ConfigOps,
         NEW s \in Seq(Replies), \A i \in DOMAIN s : \E j \in DOMAIN arrived : s[i] = arrived[j],
         asked' = Stale(asked), arrived' = Stale(s)
  PROVE  Punctual'
<1>1. TransportTypeOK /\ asked \in Seq(Asked) /\ \A x \in Asked : x.own \in BOOLEAN
  BY DEF TypeOK, TransportTypeOK, Asked
<1>2. ASSUME NEW i \in DOMAIN asked' PROVE asked'[i].own = FALSE /\ asked'[i].q.op \in ConfigOps
  <2>1. i \in DOMAIN asked /\ asked'[i].own = FALSE /\ asked'[i].q = asked[i].q
    BY <1>1, <1>2, StaleAsked
  <2>2. asked[i].own \/ asked[i].own = FALSE
    BY <1>1, <2>1
  <2> QED BY <2>1, <2>2 DEF Marks, Punctual
<1>3. ASSUME NEW i \in DOMAIN arrived' PROVE arrived'[i].own = FALSE /\ arrived'[i].form = "config"
  <2>1. i \in DOMAIN s /\ arrived'[i].own = FALSE /\ arrived'[i].form = s[i].form
    BY <1>3, StaleForms
  <2>2. PICK j \in DOMAIN arrived : s[i] = arrived[j]
    BY <2>1
  <2>3. arrived[j] \in Replies
    BY DEF TypeOK, TransportTypeOK
  <2>4. arrived[j].own \in BOOLEAN
    BY <2>3 DEF Replies
  <2> QED BY <2>1, <2>2, <2>4 DEF Punctual, Fits
<1> QED BY <1>2, <1>3 DEF Punctual

LEMMA PunctualStep ==
  ASSUME TypeOK, Flow, Marks, Handlers, Timely', Punctual, [Next]_vars
  PROVE  Punctual'
<1>t. /\ TransportTypeOK /\ asked \in Seq(Asked) /\ arrived \in Seq(Replies) /\ todo \in Seq(Questions)
      /\ \A x \in Asked : x.own \in BOOLEAN
  BY DEF TypeOK, TransportTypeOK, Asked
<1>1. ASSUME SendUsbFrame PROVE Punctual'
  <2>1. ~waiting /\ UNCHANGED device /\ device.plugged
    BY <1>t, <1>1, SendMeans DEF Timely
  <2>2. CASE UNCHANGED link
    BY <2>1, <2>2, PunctualSame DEF link
  <2>3. CASE arrived' = <<>> /\ asked' = Append(asked, [q |-> Head(todo), own |-> TRUE])
    <3>1. DOMAIN arrived' = {}
      BY <2>3
    <3>2. \A i \in DOMAIN asked' : asked'[i].own = FALSE => i \in DOMAIN asked /\ asked'[i] = asked[i]
      BY <1>t, <2>3
    <3> QED BY <3>1, <3>2 DEF Punctual
  <2> QED BY <1>t, <1>1, <2>1, <2>2, <2>3, SendMeans
<1>2. ASSUME Receive PROVE Punctual'
  <2>1. /\ Tail(arrived) \in Seq(Replies) /\ UNCHANGED device
        /\ Len(Tail(arrived)) = Len(arrived) - 1
        /\ \A i \in DOMAIN Tail(arrived) : i + 1 \in DOMAIN arrived /\ Tail(arrived)[i] = arrived[i + 1]
    <3>1. arrived # <<>> /\ UNCHANGED device
      BY <1>t, <1>2, ReceiveMeans
    <3> QED BY <1>t, <3>1
  <2>2. CASE arrived' = Tail(arrived) /\ UNCHANGED <<asked, todo>>
    BY <2>1, <2>2 DEF Punctual
  <2>3. CASE ~Skips(Head(todo), Head(arrived)) /\ asked' = Stale(asked) /\ arrived' = Stale(Tail(arrived))
    <3>1. CASE Head(todo).op \in ConfigOps
      BY <2>1, <2>3, <3>1, PunctualStale
    <3>2. CASE Head(todo).op \notin ConfigOps
      <4>1. Len(arrived) = 1 /\ asked = <<>>
        BY <1>2, <2>3, <3>2, OwnTaken
      <4>2. Tail(arrived) = <<>>
        BY <1>t, <4>1, TailOfOne
      <4>3. DOMAIN asked' = {} /\ DOMAIN arrived' = {}
        BY <2>3, <4>1, <4>2 DEF Stale
      <4> QED BY <4>3 DEF Punctual
    <3> QED BY <3>1, <3>2
  <2> QED BY <1>t, <1>2, <2>2, <2>3, ReceiveMeans
<1>3. ASSUME TimeOut PROVE Punctual'
  <2>1. /\ asked' = Stale(asked) /\ arrived' = Stale(arrived) /\ lost' = lost \cup {Head(todo).op}
    BY <1>t, <1>3, TimeOutMeans
  <2>2. Head(todo).op \in ConfigOps
    BY <2>1 DEF Timely
  <2> QED BY <1>t, <2>1, <2>2, PunctualStale
<1>4. ASSUME Device PROVE Punctual'
  <2> DEFINE a == Head(asked)
  <2>1. /\ a = asked[1] /\ 1 \in DOMAIN asked /\ a \in Asked /\ asked' = Tail(asked)
        /\ UNCHANGED todo /\ asked # <<>>
    BY <1>t, <1>4, DeviceFits DEF call
  <2>2. PICK r \in Replies : arrived' = Append(arrived, r) /\ r.own = a.own /\ Fits(device', a.q, r)
    BY <1>t, <1>4, DeviceFits
  <2> HIDE DEF a
  <2>3. ASSUME NEW i \in DOMAIN asked', asked'[i].own = FALSE PROVE asked'[i].q.op \in ConfigOps
    <3>1. i + 1 \in DOMAIN asked /\ asked'[i] = asked[i + 1]
      BY <1>t, <2>1, <2>3
    <3> QED BY <2>3, <3>1 DEF Punctual
  <2>4. ASSUME NEW i \in DOMAIN arrived'
        PROVE  /\ arrived'[i].own => Fits(device', Head(todo), arrived'[i])
               /\ arrived'[i].own = FALSE => arrived'[i].form = "config"
    <3>1. (i \in DOMAIN arrived /\ arrived'[i] = arrived[i]) \/ arrived'[i] = r
      BY <1>t, <2>2, <2>4
    <3>2. CASE i \in DOMAIN arrived /\ arrived'[i] = arrived[i]
      BY <2>1, <3>2 DEF Marks, Punctual
    <3>3. CASE arrived'[i] = r
      <4>1. CASE a.own
        BY <2>1, <2>2, <3>3, <4>1 DEF Marks
      <4>2. CASE a.own = FALSE
        BY <2>1, <2>2, <3>3, <4>2 DEF Punctual, Fits
      <4> QED BY <1>t, <2>1, <4>1, <4>2
    <3> QED BY <3>1, <3>2, <3>3
  <2> QED BY <2>1, <2>3, <2>4 DEF Punctual
<1>5. ASSUME StartStep PROVE Punctual'
  <2>1. todo = <<>> /\ UNCHANGED <<device, asked, arrived>>
    BY <1>5 DEF StartStep, Call, Idle, link
  <2>2. ~waiting
    BY <2>1 DEF Flow, Idle
  <2> QED BY <2>1, <2>2, PunctualSame
<1>6. ASSUME EndStep PROVE Punctual'
  BY <1>6, PunctualSame DEF EndStep, link
<1>7. ASSUME UNCHANGED transport PROVE Punctual'
  BY <1>7, PunctualSame DEF transport, link, call
<1>8. ~Unplug /\ ~Stop
  BY DEF Timely, Unplug, Stop, TypeOK, TransportTypeOK
<1> QED BY <1>1, <1>2, <1>3, <1>4, <1>5, <1>6, <1>7, <1>8, ScreenOnly
     DEF Next, EventThread, Environment, InTransport, ScreenStep

-----------------------------------------------------------------------------
(* Started and ActiveKnown.                                                *)
LEMMA FirstHello ==
  ASSUME NEW q
  PROVE  Handshake \o <<q>> # <<>> /\ Head(Handshake \o <<q>>).op = "hello"
BY DEF Handshake, Ask, Question

(* A handshake that was answered is accepted.                              *)
LEMMA HelloAccepted ==
  ASSUME TypeOK, Flow, Marks, Punctual, Receive, ~Skips(Head(todo), Head(arrived)), Head(todo).op = "hello"
  PROVE  Accepts(Head(todo), Head(arrived)) /\ Head(arrived).slot = device.active
<1>1. Head(arrived).own /\ Truly(device, Head(todo), Head(arrived))
  BY OwnTaken, OpsApart
<1>2. Head(arrived).form = "hello" /\ Head(arrived).status = 0 /\ Head(arrived).slot = device.active
  BY <1>1 DEF Truly
<1>3. Head(todo).op \notin ConfigOps
  BY OpsApart
<1> DEFINE q == Head(todo)
           r == Head(arrived)
<1>4. q.op = "hello" /\ q.op \notin ConfigOps /\ ~Skips(q, r) /\ r.status = 0 /\ r.form = "hello" /\ r.own
  BY <1>1, <1>2, <1>3
<1> HIDE DEF q, r
<1>5. Accepts(q, r)
  BY <1>4 DEF Accepts
<1> QED BY <1>2, <1>5 DEF q, r

LEMMA StartedStep ==
  ASSUME TypeOK, Flow, Marks, Handlers, Timely', Punctual, Started, [Next]_vars
  PROVE  Started'
<1>t. TransportTypeOK
  BY DEF TypeOK
<1>1. ASSUME SendUsbFrame, UNCHANGED steps PROVE Started'
  <2>1. todo # <<>> /\ UNCHANGED <<config, handshake, device>> /\ device.plugged
    BY <1>t, <1>1, SendMeans DEF port, Timely
  <2>2. CASE config.has
    BY <2>1, <2>2 DEF Started
  <2>3. CASE ~config.has
    <3>1. Head(todo).op = "hello" /\ Heading("main")
      BY <2>1, <2>3 DEF Started, Idle
    <3>2. UNCHANGED todo
      BY <1>t, <1>1, <2>1, <3>1, SendMeans
    <3> QED BY <1>1, <2>1, <2>3, <3>1, <3>2 DEF Started, Idle, Heading
  <2> QED BY <2>2, <2>3
<1>2. ASSUME Receive, UNCHANGED steps PROVE Started'
  <2>1. CASE UNCHANGED <<todo, outcome, config, handshake>>
    BY <1>2, <2>1 DEF Started, Idle, Heading
  <2>2. CASE /\ ~Skips(Head(todo), Head(arrived))
             /\ handshake' = (handshake \/ (Head(todo).op = "hello" /\ Accepts(Head(todo), Head(arrived))))
             /\ config'.has = (config.has \/ (Head(todo).op = "hello" /\ Accepts(Head(todo), Head(arrived))))
             /\ todo # <<>>
    <3>1. config.has \/ (Head(todo).op = "hello" /\ Accepts(Head(todo), Head(arrived)))
      BY <1>2, <2>2, HelloAccepted DEF Started, Idle
    <3>2. config'.total = Reported
      BY <1>t, <1>2, <2>2, <3>1, ReceiveConfig DEF Started
    <3>3. config'.has = TRUE /\ handshake' = TRUE
      BY <1>t, <2>2, <3>1 DEF Started, TransportTypeOK
    <3> QED BY <3>2, <3>3 DEF Started
  <2> QED BY <1>t, <1>2, <2>1, <2>2, ReceiveMeans
<1>3. ASSUME TimeOut, UNCHANGED steps PROVE Started'
  <2>1. todo # <<>> /\ UNCHANGED <<config, handshake>> /\ lost' = lost \cup {Head(todo).op}
    BY <1>t, <1>3, TimeOutMeans DEF port
  <2>2. config.has
    BY <2>1, OpsApart DEF Started, Idle, Timely
  <2> QED BY <2>1, <2>2 DEF Started
<1>4. ASSUME Device, UNCHANGED steps PROVE Started'
  BY <1>4 DEF Device, port, call, Started, Idle, Heading
<1>5. ASSUME StartStep PROVE Started'
  <2> DEFINE q == Head(steps).q
  <2>1. Call(q) /\ UNCHANGED steps /\ UNCHANGED device /\ device.plugged
    BY <1>5, <1>t, StartMeans DEF Call, Timely
  <2>2. CASE open /\ handshake
    BY <2>1, <2>2 DEF Call, port, Started
  <2>3. CASE ~(open /\ handshake)
    <3>1. ~config.has /\ todo' = Handshake \o <<q>>
      BY <2>1, <2>3 DEF Call, Started, Flow
    <3>2. ~config'.has /\ ~handshake'
      BY <2>1, <3>1 DEF Call, port, NoConfig, Started
    <3>3. handshake' = config'.has
      <4>1. CASE open
        BY <2>1, <2>3, <4>1 DEF Call, port, Started
      <4>2. CASE ~open
        <5>1. handshake' = FALSE /\ config' = NoConfig
          BY <2>1, <4>2 DEF Call
        <5>2. NoConfig.has = FALSE
          BY DEF NoConfig
        <5> QED BY <5>1, <5>2
      <4> QED BY <4>1, <4>2
    <3> HIDE DEF q
    <3>4. todo' # <<>> /\ Head(todo').op = "hello"
      BY <3>1, FirstHello
    <3> QED BY <2>1, <3>1, <3>2, <3>3, <3>4 DEF Started, Idle, Heading
  <2> QED BY <2>2, <2>3
<1>6. ASSUME EndStep PROVE Started'
  <2>1. todo = <<>> /\ outcome.done /\ UNCHANGED <<config, handshake>>
    BY <1>6, EndMeans DEF EndStep, port
  <2>2. config.has
    BY <2>1 DEF Started, Idle
  <2> QED BY <2>1, <2>2 DEF Started
<1>7. ASSUME ScreenStep PROVE Started'
  <2>1. UNCHANGED <<todo, outcome, config, handshake>>
    BY <1>7, ScreenOnly DEF transport, port, call
  <2>2. Heading("main") => UNCHANGED steps
    <3> SUFFICES ASSUME Heading("main") PROVE UNCHANGED steps
      OBVIOUS
    <3>1. steps # <<>> /\ steps # <<Respond>>
      BY StepTypes DEF Heading
    <3>2. CASE PostInput \/ (\E r \in Requests : PushRequest(r)) \/ UNCHANGED vars
      BY <3>2 DEF PostInput, PushRequest, vars, handler
    <3> QED BY <1>7, <3>1, <3>2 DEF ScreenStep, HandleEvent, HandleClientConnected, Enter, HandleKeepAliveTimer,
                                NextRequest, PrintResponse, Free
  <2> QED BY <2>1, <2>2 DEF Started, Idle, Heading
<1>8. ~Unplug /\ ~Stop
  BY DEF Timely, Unplug, Stop, TypeOK, TransportTypeOK
<1>9. TransportStep => UNCHANGED steps
  BY TransportMeans
<1> QED BY <1>1, <1>2, <1>3, <1>4, <1>5, <1>6, <1>7, <1>8, <1>9
     DEF Next, EventThread, Environment, InTransport, ScreenStep, TransportStep

LEMMA ActiveStep ==
  ASSUME TypeOK, Flow, Marks, Handlers, Timely', Punctual, Started, ActiveKnown, [Next]_vars
  PROVE  ActiveKnown'
<1>t. /\ TransportTypeOK /\ asked \in Seq(Asked) /\ arrived \in Seq(Replies) /\ todo \in Seq(Questions)
      /\ \A x \in Asked : x.own \in BOOLEAN
  BY DEF TypeOK, TransportTypeOK, Asked
<1>0. ~waiting => ~Switched
  BY NotWaited DEF NoMarks, Switched
<1>a. asked # <<>> => ~Switched
  BY DEF Marks, Switched
<1>1. ASSUME SendUsbFrame PROVE ActiveKnown'
  <2>1. ~waiting /\ UNCHANGED <<device, config>>
    BY <1>t, <1>1, SendMeans DEF port
  <2> QED BY <1>0, <2>1 DEF ActiveKnown
<1>2. ASSUME Receive PROVE ActiveKnown'
  <2> DEFINE q == Head(todo)
             r == Head(arrived)
  <2>1. UNCHANGED device /\ arrived # <<>> /\ r = arrived[1] /\ q \in Questions
    BY <1>t, <1>2, ReceiveMeans
  <2>2. CASE arrived' = Tail(arrived) /\ UNCHANGED <<todo, config>>
    <3>1. SUFFICES ASSUME Switched PROVE Switched'
      BY <2>1, <2>2 DEF ActiveKnown
    <3>2. PICK i \in DOMAIN arrived : arrived[i].own /\ arrived[i].status = 0
      BY <3>1 DEF Switched
    <3>3. q.op = "switch" /\ arrived[i].form = "ack"
      BY <3>1, <3>2, OpsApart DEF Switched, Punctual, Fits
    <3>4. i # 1
      <4> SUFFICES ASSUME i = 1 PROVE FALSE
        OBVIOUS
      <4>1. r.form = "ack" /\ q.op \in ChangeOps
        BY <2>1, <3>3, OpsApart
      <4>2. ~Skips(q, r)
        BY <4>1, OpsApart DEF Skips, ReadOps, ChangeOps
      <4>3. UNCHANGED arrived \/ arrived' = Stale(Tail(arrived))
        BY <1>2, <4>2 DEF Receive
      <4>4. waiting' = FALSE /\ UNCHANGED todo
        BY <1>2, <2>2, <4>2 DEF Receive, Finish
      <4>5. todo' # todo
        <5>1. todo # <<>> /\ Len(todo) = 1
          BY <1>t, <1>2, <3>3, ReceiveMeans, FrameKinds DEF ConfigOps
        <5>2. Finish([done |-> TRUE, ok |-> Accepts(q, r), own |-> r.own, reply |-> r])
          BY <1>2, <4>2 DEF Receive
        <5>3. todo' = <<>>
          BY <5>1, <5>2 DEF Finish
        <5> QED BY <5>1, <5>3
      <4> QED BY <4>4, <4>5
    <3>5. i - 1 \in DOMAIN arrived' /\ arrived'[i - 1] = arrived[i]
      BY <1>t, <2>1, <2>2, <3>2, <3>4
    <3> QED BY <2>2, <3>2, <3>3, <3>5 DEF Switched
  <2>3. CASE ~Skips(q, r) /\ config'.has = (config.has \/ (q.op = "hello" /\ Accepts(q, r)))
    <3>1. config'.active =
            IF ~Accepts(q, r) THEN config.active
            ELSE IF q.op \in {"hello", "getActive"} THEN r.slot
            ELSE IF q.op = "switch" THEN q.slot ELSE config.active
      BY <1>t, <1>2, <2>3, ReceiveConfig
    <3>2. q.op \in {"hello", "getActive", "switch"} => r.own /\ Truly(device, q, r) /\ Fits(device, q, r) /\ Len(arrived) = 1
      BY <1>2, <2>3, OwnTaken, OpsApart
    <3>3. q.op = "hello" => Accepts(q, r) /\ r.slot = device.active
      BY <1>2, <2>3, HelloAccepted
    <3>4. CASE q.op \in {"hello", "getActive"} /\ Accepts(q, r)
      <4>1. r.slot = device.active
        BY <3>2, <3>4 DEF Truly
      <4> QED BY <2>1, <3>1, <3>4, <4>1 DEF ActiveKnown
    <3>5. CASE q.op = "switch"
      <4>1. r.form = "ack" /\ (r.status = 0 => device.active = q.slot)
        BY <3>2, <3>5, OpsApart DEF Fits
      <4>2. CASE r.status = 0
        <5>1. Accepts(q, r)
          BY <2>3, <3>5, <4>1, <4>2, OpsApart DEF Accepts
        <5> QED BY <2>1, <3>1, <3>5, <4>1, <4>2, <5>1 DEF ActiveKnown
      <4>3. CASE r.status # 0
        <5>1. ~Accepts(q, r)
          BY <4>3 DEF Accepts
        <5>2. ~Switched
          <6>1. \A i \in DOMAIN arrived : i = 1
            BY <1>t, <3>2, <3>5
          <6> QED BY <2>1, <4>3, <6>1 DEF Switched
        <5> QED BY <2>1, <2>3, <3>1, <5>1, <5>2 DEF ActiveKnown
      <4> QED BY <4>2, <4>3
    <3>6. CASE q.op # "switch" /\ ~(q.op \in {"hello", "getActive"} /\ Accepts(q, r))
      <4>1. config'.active = config.active /\ (config'.has => config.has) /\ ~Switched
        BY <2>3, <3>1, <3>6 DEF Switched
      <4> QED BY <2>1, <4>1 DEF ActiveKnown
    <3> QED BY <3>4, <3>5, <3>6
  <2> QED BY <1>t, <1>2, <2>2, <2>3, ReceiveMeans
<1>3. ASSUME TimeOut PROVE ActiveKnown'
  <2>1. UNCHANGED <<config, device>> /\ lost' = lost \cup {Head(todo).op}
    BY <1>t, <1>3, TimeOutMeans DEF port
  <2>2. ~Switched
    BY <2>1, OpsApart DEF Switched, Timely
  <2> QED BY <2>1, <2>2 DEF ActiveKnown
<1>4. ASSUME Device PROVE ActiveKnown'
  <2> DEFINE a == Head(asked)
  <2>1. /\ a = asked[1] /\ 1 \in DOMAIN asked /\ a \in Asked
        /\ UNCHANGED <<todo, config>> /\ asked # <<>>
    BY <1>t, <1>4, DeviceFits DEF call, port
  <2>2. PICK r \in Replies : /\ arrived' = Append(arrived, r) /\ r.own = a.own /\ Fits(device', a.q, r)
                             /\ device'.active = device.active \/ (a.q.op = "switch" /\ r.status = 0)
    BY <1>t, <1>4, DeviceFits
  <2> HIDE DEF a
  <2>3. CASE device'.active = device.active
    BY <1>a, <2>1, <2>3 DEF ActiveKnown
  <2>4. CASE a.q.op = "switch" /\ r.status = 0
    <3>1. a.own
      BY <1>t, <2>1, <2>4, OpsApart DEF Punctual
    <3>2. a.q = Head(todo)
      BY <2>1, <3>1 DEF Marks
    <3>3. Len(arrived) + 1 \in DOMAIN arrived' /\ arrived'[Len(arrived) + 1] = r
      BY <1>t, <2>2
    <3> QED BY <2>1, <2>2, <2>4, <3>1, <3>2, <3>3 DEF ActiveKnown, Switched
  <2> QED BY <2>2, <2>3, <2>4
<1>5. ASSUME StartStep PROVE ActiveKnown'
  <2>1. todo = <<>> /\ UNCHANGED device /\ (config' = config \/ config' = NoConfig)
    BY <1>5 DEF StartStep, Call, Idle, port
  <2>2. ~waiting
    BY <2>1 DEF Flow, Idle
  <2> QED BY <1>0, <2>1, <2>2 DEF ActiveKnown, NoConfig
<1>6. ASSUME EndStep PROVE ActiveKnown'
  BY <1>6 DEF EndStep, link, port, ActiveKnown, Switched
<1>7. ASSUME UNCHANGED transport PROVE ActiveKnown'
  BY <1>7 DEF transport, link, port, call, ActiveKnown, Switched
<1>8. ~Unplug /\ ~Stop
  BY DEF Timely, Unplug, Stop, TypeOK, TransportTypeOK
<1> QED BY <1>1, <1>2, <1>3, <1>4, <1>5, <1>6, <1>7, <1>8, ScreenOnly
     DEF Next, EventThread, Environment, InTransport, ScreenStep
-----------------------------------------------------------------------------
(* Batched: the requests are carried out while the loop runs.              *)
Answered == [ok : BOOLEAN, active : Nat, profiles : Seq(Profiles)]

LEMMA NewFieldsMeans ==
  ASSUME TypeOK
  PROVE  /\ NewFields \in Answered /\ NewFields.ok = TRUE /\ NewFields.active = config.active
         /\ NewFields.profiles = <<>>
BY DEF TypeOK, TransportTypeOK, NewFields, Answered

LEMMA EndFields ==
  ASSUME TypeOK, Batched, EndStep
  PROVE  fields' \in Answered
<1>1. fields \in Answered
  BY DEF Batched, Answered
<1>2. CASE EndCommand
  <2>1. fields' = NewFields \/ fields' = [fields EXCEPT !.ok = FALSE]
    BY <1>2 DEF EndCommand
  <2> QED BY <1>1, <2>1, NewFieldsMeans DEF Answered
<1>3. CASE EndRead
  <2> DEFINE p == IF outcome.ok THEN outcome.reply.profile ELSE Blank
  <2>1. p \in Profiles
    BY DeviceAssumption DEF TypeOK, TransportTypeOK, Replies
  <2>2. \/ fields' = [fields EXCEPT !.profiles = Append(fields.profiles, p)]
        \/ fields' = [fields EXCEPT !.ok = FALSE]
    BY <1>3 DEF EndRead
  <2>3. Append(fields.profiles, p) \in Seq(Profiles)
    BY <1>1, <2>1 DEF Answered
  <2> HIDE DEF p
  <2> QED BY <1>1, <2>2, <2>3 DEF Answered
<1>4. CASE UNCHANGED fields
  BY <1>1, <1>4
<1> QED BY <1>2, <1>3, <1>4 DEF EndStep, EndOpen, EndLoad, EndEnter, EndSettings, EndAlive

LEMMA BatchedSame ==
  ASSUME Batched, UNCHANGED <<steps, batch, fields>>, app' = app \/ batch = <<>>
  PROVE  Batched'
BY DEF Batched, Heading

LEMMA BatchedNone ==
  ASSUME fields' \in Answered, steps' = <<>>, app' # "running" => batch' = <<>>
  PROVE  Batched'
BY DEF Batched, Heading, Answered

LEMMA BatchedStep ==
  ASSUME TypeOK, Flow, Handlers, Batched, [Next]_vars
  PROVE  Batched'
<1>t. TransportTypeOK /\ steps \in Seq(Step) /\ fields \in Answered
  BY DEF TypeOK, Batched, Answered
<1>1. ASSUME TransportStep PROVE Batched'
  BY <1>1, TransportMeans, BatchedSame
<1>2. ASSUME StartStep PROVE Batched'
  BY <1>2, StartMeans, BatchedSame
<1>3. ASSUME EndStep PROVE Batched'
  <2>1. /\ UNCHANGED batch /\ app = "running" /\ (app' = app \/ Head(steps).for = "main")
        /\ steps' \in Seq(Step) /\ steps # <<>> /\ Head(steps) = steps[1] /\ 1 \in DOMAIN steps
    BY <1>3, EndMeans DEF EndStep
  <2>2. fields' \in Answered
    BY <1>3, EndFields
  <2>3. app' # "running" => batch' = <<>>
    BY <2>1 DEF Batched
  <2> DEFINE Fine(st) ==
        /\ st.for \in {"main", "init", "open", "enter", "settings", "alive"} => batch = <<>>
        /\ st.for # "command" /\ st.q.op \notin ChangeOps
  <2>4. ASSUME \A i \in DOMAIN steps' : Fine(steps'[i]) PROVE Batched'
    <3>1. ~Heading("command")'
      BY <2>1, <2>4 DEF Heading
    <3> QED BY <2>1, <2>2, <2>3, <2>4, <3>1 DEF Batched, Answered
  <2>5. ASSUME NEW j \in DOMAIN steps, j # 1 PROVE Fine(steps[j])
    BY <2>5 DEF Batched
  <2>6. CASE \E k \in 1..Len(steps) : Rest(k)
    <3>1. PICK k \in 1..Len(steps) : Rest(k)
      BY <2>6
    <3>2. ASSUME NEW i \in DOMAIN steps' PROVE i + k \in DOMAIN steps /\ steps'[i] = steps[i + k] /\ i + k # 1
      BY <1>t, <2>1, <3>1, <3>2 DEF Rest
    <3>3. \A i \in DOMAIN steps' : Fine(steps'[i])
      BY <2>5, <3>2
    <3> QED BY <2>4, <3>3
  <2>7. CASE Head(steps).for = "command" /\ steps' = Reads \o Tail(steps)
    <3>1. ASSUME NEW i \in DOMAIN steps' PROVE Fine(steps'[i])
      <4>1. \/ IsReadStep(steps'[i]) /\ steps'[i].q.op = "get"
            \/ \E j \in DOMAIN steps : j # 1 /\ steps'[i] = steps[j]
        BY <2>1, <2>7, <3>1, ReadBack
      <4>2. CASE IsReadStep(steps'[i]) /\ steps'[i].q.op = "get"
        BY <4>2, OpsApart DEF IsReadStep
      <4> QED BY <2>5, <4>1, <4>2
    <3> QED BY <2>4, <3>1
  <2>8. CASE Head(steps).for = "enter" /\ steps' = <<Do("settings", Question("get", config.active, Blank))>>
    <3> DEFINE s == Do("settings", Question("get", config.active, Blank))
    <3>1. s.for = "settings" /\ s.q.op = "get"
      BY DEF Do, Question
    <3>2. batch = <<>>
      BY <2>1, <2>8 DEF Batched
    <3> HIDE DEF s
    <3>3. \A i \in DOMAIN steps' : steps'[i] = s
      BY <2>8 DEF s
    <3> QED BY <2>4, <3>1, <3>2, <3>3, OpsApart
  <2> QED BY <1>3, <2>6, <2>7, <2>8, EndMeans
<1>4. ASSUME Stop PROVE Batched'
  <2>1. batch = <<>>
    BY <1>4 DEF Stop, Batched
  <2> QED BY <1>4, <2>1, BatchedSame DEF Stop, handler
<1>5. ASSUME HandleEvent PROVE Batched'
  <2>1. steps' = <<>> /\ UNCHANGED fields /\ (app' # "running" => batch' = <<>>)
    BY <1>5 DEF HandleEvent, HandleInput, HandleShapeChanged, HandleError, Free, handler
  <2> QED BY <1>t, <2>1, BatchedNone
<1>6. ASSUME HandleClientConnected \/ Enter \/ HandleKeepAliveTimer PROVE Batched'
  <2>1. PICK s \in {Do("open", Ask("open")), Do("enter", Ask("open")), Do("alive", Ask("keepAlive"))} : steps' = <<s>>
    BY <1>6 DEF HandleClientConnected, Enter, HandleKeepAliveTimer
  <2>2. s.for \in {"open", "enter", "alive"} /\ s.q.op \notin ChangeOps
    BY <2>1, OpsApart DEF Do, Ask, Question, ConfigOps
  <2>3. batch' = <<>> /\ UNCHANGED fields
    BY <1>6 DEF HandleClientConnected, Enter, HandleKeepAliveTimer, Free
  <2>4. steps' # <<>> /\ Head(steps') = s /\ \A i \in DOMAIN steps' : steps'[i] = s
    BY <2>1
  <2> QED BY <1>t, <2>2, <2>3, <2>4 DEF Batched, Heading, Answered
<1>7. ASSUME NextRequest PROVE Batched'
  <2> DEFINE r == Head(batch)
             n == Len(First(r))
             l == Len(ToLoad(r))
  <2>1. /\ batch # <<>> /\ UNCHANGED batch /\ app' = "running" /\ fields' = NewFields
    BY <1>7 DEF NextRequest
  <2>2. /\ n \in Nat /\ l \in {0, 1} /\ Len(steps') = n + l + 1 /\ steps' \in Seq(Step)
        /\ First(r) \in Seq(Step)
        /\ \A i \in 1..n : steps'[i] = First(r)[i]
        /\ l = 1 => steps'[n + 1] = Load
        /\ steps'[n + l + 1] = Respond
        /\ r.command # "profiles" => n = 1
        /\ \A i \in DOMAIN First(r) :
             \/ IsReadStep(First(r)[i]) /\ First(r)[i].q.op = "get" /\ r.command = "profiles"
             \/ /\ i = 1 /\ First(r)[i].for = "command" /\ r.command # "profiles"
                /\ First(r)[i].q.op = r.command
    BY <1>7, RequestParts
  <2> HIDE DEF r, n, l
  <2>3. ASSUME NEW i \in DOMAIN steps'
        PROVE  \/ IsReadStep(steps'[i]) /\ steps'[i].q.op = "get" /\ r.command = "profiles"
               \/ i = 1 /\ steps'[i].for = "command" /\ steps'[i].q.op = r.command /\ r.command # "profiles"
               \/ steps'[i] \in {Load, Respond}
    <3>1. i \in 1..(n + l + 1)
      BY <2>2, <2>3
    <3>2. i \in 1..n \/ (l = 1 /\ i = n + 1) \/ i = n + l + 1
      BY <2>2, <3>1, ThreeParts, Zenon
    <3>3. i \in 1..n => i \in DOMAIN First(r)
      BY <2>2 DEF n
    <3> QED BY <2>2, <3>2, <3>3
  <2>4. \A st \in {Load, Respond} : ~IsReadStep(st) /\ st.for \in {"load", "respond"} /\ st.q.op \notin ChangeOps
    BY StepTypes, OpsApart DEF IsReadStep, ChangeOps
  <2>5. ASSUME Heading("command")' PROVE \A i \in DOMAIN steps' : ~IsReadStep(steps'[i])
    <3>1. Head(steps') = steps'[1] /\ 1 \in DOMAIN steps' /\ Head(steps').for = "command"
      BY <2>2, <2>5 DEF Heading
    <3>2. r.command # "profiles"
      BY <2>3, <2>4, <3>1 DEF IsReadStep
    <3> QED BY <2>3, <2>4, <3>2 DEF IsReadStep
  <2>6. ASSUME NEW i \in DOMAIN steps'
        PROVE  LET s == steps'[i]
               IN /\ s.for \in {"main", "init", "open", "enter", "settings", "alive"} => batch' = <<>>
                  /\ s.for = "command" => i = 1 /\ batch' # <<>> /\ s.q.op = Head(batch').command
                  /\ s.q.op \in ChangeOps => s.for = "command"
    <3>1. CASE IsReadStep(steps'[i]) /\ steps'[i].q.op = "get"
      BY <3>1, OpsApart DEF IsReadStep
    <3>2. CASE i = 1 /\ steps'[i].for = "command" /\ steps'[i].q.op = r.command
      BY <2>1, <3>2 DEF r
    <3>3. CASE steps'[i] \in {Load, Respond}
      BY <2>4, <3>3
    <3> QED BY <2>3, <3>1, <3>2, <3>3
  <2>7. fields' \in Answered
    BY <2>1, NewFieldsMeans
  <2> QED BY <2>1, <2>5, <2>6, <2>7 DEF Batched, Answered
<1>8. ASSUME PrintResponse PROVE Batched'
  <2>1. steps' = <<>> /\ fields' = NoFields /\ app' = "running"
    BY <1>8 DEF PrintResponse
  <2>2. fields' \in Answered
    BY <2>1 DEF NoFields, Answered
  <2> QED BY <2>1, <2>2, BatchedNone
<1>9. ASSUME PostInput \/ (\E r \in Requests : PushRequest(r)) \/ UNCHANGED vars PROVE Batched'
  BY <1>9, BatchedSame DEF PostInput, PushRequest, vars, handler
<1> QED BY <1>1, <1>2, <1>3, <1>4, <1>5, <1>6, <1>7, <1>8, <1>9 DEF Next, EventThread, Environment, TransportStep
-----------------------------------------------------------------------------
(* Got.                                                                    *)
LEMMA GotNone ==
  ASSUME ~outcome'.done
  PROVE  Got'
BY DEF Got

LEMMA GotStep ==
  ASSUME TypeOK, Flow, Marks, Batched, Timely', Punctual, Started, Got, [Next]_vars
  PROVE  Got'
<1>t. TransportTypeOK /\ asked \in Seq(Asked) /\ todo \in Seq(Questions) /\ \A x \in Asked : x.own \in BOOLEAN
  BY DEF TypeOK, TransportTypeOK, Asked
<1>1. ASSUME SendUsbFrame, UNCHANGED steps PROVE Got'
  <2>1. todo # <<>> /\ UNCHANGED device /\ device.plugged
    BY <1>t, <1>1, SendMeans DEF Timely
  <2>2. CASE UNCHANGED <<todo, outcome>>
    BY <1>1, <2>1, <2>2 DEF Got
  <2>3. CASE Head(todo).op \in {"open", "hid"}
    <3>1. Head(steps).q.op # "get"
      BY <2>1, <2>3, FrameKinds DEF ConfigOps
    <3> QED BY <1>1, <3>1 DEF Got
  <2> QED BY <1>t, <1>1, <2>1, <2>2, <2>3, SendMeans
<1>2. ASSUME Receive, UNCHANGED steps PROVE Got'
  <2> DEFINE q == Head(todo)
             r == Head(arrived)
             n == [done |-> TRUE, ok |-> Accepts(q, r), own |-> r.own, reply |-> r]
  <2>1. UNCHANGED device /\ todo # <<>> /\ n.ok = Accepts(q, r) /\ n.reply = r
    BY <1>t, <1>2, ReceiveMeans
  <2>2. CASE UNCHANGED outcome
    BY <1>2, <2>1, <2>2 DEF Got
  <2>3. CASE ~Skips(q, r) /\ Finish(n)
    <3>1. CASE outcome' = NoOutcome
      BY <3>1, Constants, GotNone
    <3>2. CASE outcome' = n /\ (Len(todo) = 1 \/ (~n.ok /\ q.op = "hello"))
      <4>1. Len(todo) = 1
        BY <1>2, <2>1, <2>3, <3>2, HelloAccepted
      <4>2. q = Head(steps).q
        BY <2>1, <4>1, FrameKinds
      <4> SUFFICES ASSUME q.op = "get", q.slot \in Slots PROVE n.ok /\ n.reply.profile = device.profiles[q.slot]
        BY <1>2, <2>1, <3>2, <4>2 DEF Got
      <4>3. Truly(device, q, r)
        BY <1>2, <2>3, OwnTaken, OpsApart
      <4>4. r.form = "profile" /\ r.status = 0 /\ r.profile = device.profiles[q.slot]
        BY <4>3 DEF Truly
      <4>5. q.op \notin ConfigOps
        BY OpsApart
      <4> HIDE DEF q, r, n
      <4>6. Accepts(q, r)
        BY <2>3, <4>4, <4>5 DEF Accepts
      <4> QED BY <2>1, <4>4, <4>6
    <3> HIDE DEF n
    <3>3. outcome' = NoOutcome \/ (outcome' = n /\ (Len(todo) = 1 \/ (~n.ok /\ q.op = "hello")))
      BY <1>t, <2>1, <2>3, FinishMeans
    <3> QED BY <3>1, <3>2, <3>3
  <2> QED BY <1>t, <1>2, <2>2, <2>3, ReceiveMeans
<1>3. ASSUME TimeOut, UNCHANGED steps PROVE Got'
  <2>1. todo # <<>> /\ Finish(Failed) /\ Head(todo).op \in ConfigOps
    BY <1>t, <1>3, TimeOutMeans DEF Timely
  <2>2. CASE outcome' = NoOutcome
    BY <2>2, Constants, GotNone
  <2>3. CASE Len(todo) = 1 \/ Head(todo).op = "hello"
    <3>1. Head(steps).q = Head(todo)
      BY <2>1, <2>3, FrameKinds, OpsApart
    <3>2. Head(steps).q.op # "get"
      BY <2>1, <3>1, OpsApart
    <3> QED BY <1>3, <3>2 DEF Got
  <2> QED BY <1>t, <2>1, <2>2, <2>3, FinishMeans
<1>4. ASSUME Device, UNCHANGED steps PROVE Got'
  <2> DEFINE a == Head(asked)
  <2>1. /\ a = asked[1] /\ 1 \in DOMAIN asked /\ a \in Asked /\ UNCHANGED <<todo, outcome>>
        /\ a.q.op \notin ChangeOps => device' = device
    BY <1>t, <1>4, DeviceFits DEF call
  <2>2. CASE device' = device
    BY <1>4, <2>1, <2>2 DEF Got
  <2>3. CASE a.q.op \in ChangeOps
    <3>1. a.own
      BY <1>t, <2>1, <2>3, OpsApart DEF Punctual
    <3>2. ~outcome.done
      BY <2>1, <3>1, Constants DEF Marks, Flow
    <3> QED BY <2>1, <3>2, GotNone
  <2> QED BY <2>1, <2>2, <2>3
<1>5. ASSUME StartStep PROVE Got'
  <2>1. outcome' = NoOutcome
    BY <1>5, <1>t, StartMeans DEF Call, Timely
  <2> QED BY <2>1, Constants, GotNone
<1>6. ASSUME EndStep PROVE Got'
  <2>1. outcome' = NoOutcome
    BY <1>6 DEF EndStep
  <2> QED BY <2>1, Constants, GotNone
<1>7. ASSUME ScreenStep PROVE Got'
  <2>1. UNCHANGED <<device, outcome>>
    BY <1>7, ScreenOnly DEF transport, call
  <2>2. CASE UNCHANGED steps
    BY <2>1, <2>2 DEF Got
  <2>3. CASE steps = <<>> \/ steps = <<Respond>>
    BY <2>1, <2>3, NotInCall, GotNone
  <2> QED BY <1>7, <2>2, <2>3 DEF ScreenStep, HandleEvent, HandleClientConnected, Enter, HandleKeepAliveTimer,
                                NextRequest, PrintResponse, Free, PostInput, PushRequest, vars, handler
<1>8. ~Unplug /\ ~Stop
  BY DEF Timely, Unplug, Stop, TypeOK, TransportTypeOK
<1>9. TransportStep => UNCHANGED steps
  BY TransportMeans
<1> QED BY <1>1, <1>2, <1>3, <1>4, <1>5, <1>6, <1>7, <1>8, <1>9
     DEF Next, EventThread, Environment, InTransport, ScreenStep, TransportStep
-----------------------------------------------------------------------------
(* Listing.                                                                *)
Listed == batch # <<>> /\ Head(batch).command \in {"profiles"} \cup ChangeOps

LEMMA ListingSame ==
  ASSUME Listing, UNCHANGED <<steps, batch, fields, device>>
  PROVE  Listing'
BY DEF Listing, Heading, ListTrue, ReadsLeft

(* The active slot when the reads begin.                                   *)
LEMMA ActiveNow ==
  ASSUME TypeOK, Flow, Marks, Started, ActiveKnown, todo = <<>>, ~Heading("main") \/ outcome.done
  PROVE  config.active = device.active /\ config.total = Reported
<1>1. config.has
  BY DEF Started, Idle
<1>2. ~waiting
  BY DEF Flow, Idle
<1>3. ~Switched
  BY <1>2, NotWaited DEF NoMarks, Switched
<1> QED BY <1>1, <1>3 DEF Started, ActiveKnown

LEMMA ManyReads ==
  ASSUME TypeOK, config.total = Reported, Reported = Total \/ Fallback >= Total
  PROVE  Len(Reads) \in Nat /\ Len(Reads) >= Total
<1>1. Len(Reads) = IF config.total > 0 THEN config.total ELSE Fallback
  BY ReadsMeans DEF TypeOK
<1>2. Total \in Nat \ {0} /\ Reported \in {0, Total} /\ Fallback \in Nat
  BY DeviceAssumption, ScreenAssumption
<1> QED BY <1>1, <1>2

LEMMA ListBegun ==
  ASSUME TypeOK, NEW rest \in Seq(Step), \A i \in DOMAIN rest : ~IsReadStep(rest[i]),
         steps' = Reads \o rest, fields' = NewFields, UNCHANGED device,
         config.active = device.active, Len(Reads) >= Total
  PROVE  ListTrue'
<1>0. /\ Reads \in Seq(Step)
      /\ \A i \in DOMAIN Reads : IsReadStep(Reads[i]) /\ Reads[i].q.slot = i - 1
  BY ReadsMeans DEF TypeOK
<1>1. PICK k \in Nat : k = Len(Reads)
  BY <1>0
<1>2. /\ fields'.active = device'.active /\ fields'.profiles = <<>> /\ Len(fields'.profiles) = 0
      /\ DOMAIN fields'.profiles = {}
  BY NewFieldsMeans
<1>3. /\ DOMAIN steps' = 1..(k + Len(rest)) /\ Len(rest) \in Nat
      /\ \A i \in 1..k : i \in DOMAIN Reads /\ steps'[i] = Reads[i]
      /\ \A i \in 1..Len(rest) : i \in DOMAIN rest /\ steps'[k + i] = rest[i]
  BY <1>0, <1>1
<1>4. ASSUME NEW i \in DOMAIN steps'
      PROVE  /\ IsReadStep(steps'[i]) <=> i <= k
             /\ i <= k => steps'[i].q.slot = Len(fields'.profiles) + (i - 1)
  <2>1. i \in 1..(k + Len(rest))
    BY <1>3, <1>4
  <2>2. CASE i \in 1..k
    BY <1>0, <1>1, <1>2, <1>3, <2>2
  <2>3. CASE i \notin 1..k
    <3>1. i - k \in 1..Len(rest) /\ i = k + (i - k)
      BY <1>1, <1>3, <2>1, <2>3, LastPart, Zenon
    <3>2. ~IsReadStep(steps'[i])
      <4>1. steps'[k + (i - k)] = rest[i - k] /\ i - k \in DOMAIN rest
        BY <1>3, <3>1
      <4> QED BY <3>1, <4>1
    <3>3. ~(i <= k)
      BY <1>1, <2>1, <2>3
    <3> QED BY <3>2, <3>3
  <2> QED BY <2>2, <2>3
<1>5. Len(fields'.profiles) + k >= Total
  BY <1>1, <1>2
<1>6. ReadsLeft(k)'
  BY <1>1, <1>4, <1>5 DEF ReadsLeft
<1> QED BY <1>1, <1>2, <1>6 DEF ListTrue

(* A profile that was read joins the answer.                               *)
LEMMA ListGrown ==
  ASSUME TypeOK, Batched, Got, NEW p, fields'.profiles = Append(fields.profiles, p), fields'.active = fields.active,
         steps # <<>>, steps' = Tail(steps), UNCHANGED device, ListTrue,
         IsReadStep(Head(steps)), Head(steps).q.op = "get", outcome.done,
         p = IF outcome.ok THEN outcome.reply.profile ELSE Blank
  PROVE  ListTrue'
<1> DEFINE ps == fields.profiles
<1>1. /\ ps \in Seq(Profiles) /\ Len(ps) \in Nat /\ DOMAIN ps = 1..Len(ps)
      /\ steps \in Seq(Step) /\ Head(steps) = steps[1] /\ 1 \in DOMAIN steps
      /\ \A i \in DOMAIN steps' : i \in Nat /\ i + 1 \in DOMAIN steps /\ steps'[i] = steps[i + 1]
  BY DEF Batched, TypeOK
<1>2. PICK k \in Nat : ReadsLeft(k)
  BY DEF ListTrue
<1>3. 1 <= k /\ Head(steps).q.slot = Len(ps) /\ k - 1 \in Nat
  <2>1. 1 <= k /\ Head(steps).q.slot = Len(ps) + (1 - 1)
    BY <1>1, <1>2 DEF ReadsLeft
  <2> QED BY <1>1, <2>1
<1>4. /\ Len(fields'.profiles) = Len(ps) + 1 /\ DOMAIN fields'.profiles = 1..(Len(ps) + 1)
      /\ \A i \in 1..Len(ps) : fields'.profiles[i] = ps[i]
      /\ fields'.profiles[Len(ps) + 1] = p
  <2>1. p \in Profiles
    BY DeviceAssumption DEF TypeOK, TransportTypeOK, Replies
  <2> QED BY <1>1, <2>1
<1>5. Len(ps) \in Slots => p = device.profiles[Len(ps)]
  BY <1>3 DEF Got
<1>6. ASSUME NEW i \in DOMAIN fields'.profiles, i - 1 \in Slots PROVE fields'.profiles[i] = device'.profiles[i - 1]
  <2>1. i \in 1..Len(ps) \/ (i = Len(ps) + 1 /\ i - 1 = Len(ps))
    BY <1>1, <1>4, <1>6
  <2>2. CASE i \in 1..Len(ps)
    BY <1>1, <1>4, <1>6, <2>2 DEF ListTrue
  <2>3. CASE i = Len(ps) + 1 /\ i - 1 = Len(ps)
    BY <1>4, <1>5, <1>6, <2>3
  <2> QED BY <2>1, <2>2, <2>3
<1> DEFINE ReadsNext(j) ==
      /\ \A i \in DOMAIN steps' : IsReadStep(steps'[i]) <=> i <= j
      /\ \A i \in DOMAIN steps' : i <= j => steps'[i].q.slot = Len(fields'.profiles) + (i - 1)
      /\ Len(fields'.profiles) + j >= Total
<1>7. PICK j \in Nat : j = k - 1
  BY <1>3
<1>8. ReadsNext(j)
  <2>1. ASSUME NEW i \in DOMAIN steps'
        PROVE  /\ IsReadStep(steps'[i]) <=> i <= j
               /\ i <= j => steps'[i].q.slot = Len(fields'.profiles) + (i - 1)
    <3>1. i \in Nat /\ i + 1 \in DOMAIN steps /\ steps'[i] = steps[i + 1]
      BY <1>1, <2>1
    <3>2. /\ IsReadStep(steps[i + 1]) <=> i + 1 <= k
          /\ i + 1 <= k => steps[i + 1].q.slot = Len(ps) + ((i + 1) - 1)
      BY <1>2, <3>1 DEF ReadsLeft
    <3>3. (i + 1 <= k <=> i <= j) /\ Len(ps) + ((i + 1) - 1) = Len(fields'.profiles) + (i - 1)
      BY <1>1, <1>4, <1>7, <3>1
    <3> QED BY <3>1, <3>2, <3>3
  <2>2. Len(fields'.profiles) + j >= Total
    <3>1. Len(ps) + k >= Total
      BY <1>2 DEF ReadsLeft
    <3> QED BY <1>1, <1>4, <1>7, <3>1, DeviceAssumption
  <2> QED BY <2>1, <2>2
<1>9. ReadsLeft(j)'
  BY <1>8 DEF ReadsLeft
<1>10. fields'.active = device'.active
  BY DEF ListTrue
<1> QED BY <1>6, <1>9, <1>10 DEF ListTrue

(* Nothing is left to read once a step is no read.                         *)
LEMMA ListRead ==
  ASSUME TypeOK, steps # <<>>, ~IsReadStep(Head(steps)), ListTrue
  PROVE  ReadsLeft(0) /\ \A i \in DOMAIN steps : ~IsReadStep(steps[i])
<1>1. PICK k \in Nat : ReadsLeft(k)
  BY DEF ListTrue
<1>2. Head(steps) = steps[1] /\ 1 \in DOMAIN steps /\ \A i \in DOMAIN steps : i \in Nat /\ i >= 1
  BY DEF TypeOK
<1>3. ~(1 <= k)
  BY <1>1, <1>2 DEF ReadsLeft
<1>4. k = 0
  BY <1>3
<1>5. ReadsLeft(0)
  BY <1>1, <1>4
<1>6. \A i \in DOMAIN steps : ~(i <= 0)
  BY <1>2
<1> QED BY <1>5, <1>6 DEF ReadsLeft

LEMMA ListingEnd ==
  ASSUME TypeOK, Flow, Marks, Handlers, Batched, Timely', Started, ActiveKnown, Got, Listing, EndStep,
         Reported = Total \/ Fallback >= Total
  PROVE  Listing'
<1>1. /\ UNCHANGED <<batch, device, config>> /\ outcome.done /\ todo = <<>>
      /\ steps' \in Seq(Step) /\ steps # <<>> /\ Head(steps) = steps[1] /\ 1 \in DOMAIN steps
      /\ steps \in Seq(Step)
  BY EndMeans DEF EndStep, port, TypeOK
<1>2. SUFFICES ASSUME Listed, steps' # <<>>, fields'.ok PROVE ListTrue'
  BY <1>1 DEF Listing, Listed
<1>3. Head(steps).for \notin {"main", "init", "open", "enter", "settings", "alive"}
  BY <1>1, <1>2 DEF Batched, Listed
<1>4. CASE Head(steps).for = "command"
  <2>1. EndCommand
    BY <1>4 DEF EndStep
  <2>2. Head(steps).q.op = Head(batch).command /\ Head(steps).q.op # "profiles"
    <3>1. Head(steps) \in Step
      BY EndMeans
    <3>2. Head(steps).q.op \in Ops
      BY <3>1 DEF Step, Questions
    <3> QED BY <1>1, <1>4, <3>2, OpsApart DEF Batched
  <2>3. Head(steps).q.op \in ChangeOps
    BY <1>2, <2>2 DEF Listed
  <2>4. outcome.ok
    <3> SUFFICES ASSUME ~outcome.ok PROVE FALSE
      OBVIOUS
    <3>1. fields' = [fields EXCEPT !.ok = FALSE] /\ fields \in Answered
      BY <2>1 DEF EndCommand, Batched, Answered
    <3> QED BY <1>2, <3>1 DEF Answered
  <2>5. steps' = Reads \o Tail(steps) /\ fields' = NewFields
    BY <2>1, <2>3, <2>4 DEF EndCommand
  <2>6. Tail(steps) \in Seq(Step) /\ \A i \in DOMAIN Tail(steps) : ~IsReadStep(Tail(steps)[i])
    <3>1. \A i \in DOMAIN steps : ~IsReadStep(steps[i])
      BY <1>1, <1>4 DEF Batched, Heading
    <3>2. Tail(steps) \in Seq(Step) /\ \A i \in DOMAIN Tail(steps) : i + 1 \in DOMAIN steps /\ Tail(steps)[i] = steps[i + 1]
      BY <1>1
    <3> QED BY <3>1, <3>2
  <2>7. config.active = device.active /\ config.total = Reported
    BY <1>1, ActiveNow
  <2>8. Len(Reads) >= Total
    BY <2>7, ManyReads
  <2> QED BY <1>1, <2>5, <2>6, <2>7, <2>8, ListBegun
<1>5. CASE IsReadStep(Head(steps))
  <2> DEFINE p == IF outcome.ok THEN outcome.reply.profile ELSE Blank
  <2>1. EndRead
    BY <1>5 DEF EndStep, IsReadStep
  <2>2. fields \in Answered
    BY DEF Batched, Answered
  <2>3. outcome.ok \/ Head(steps).for = "readOld"
    <3> SUFFICES ASSUME ~(outcome.ok \/ Head(steps).for = "readOld") PROVE FALSE
      OBVIOUS
    <3>1. fields' = [fields EXCEPT !.ok = FALSE]
      BY <2>1 DEF EndRead
    <3> QED BY <1>2, <2>2, <3>1 DEF Answered
  <2>4. steps' = Tail(steps) /\ fields' = [fields EXCEPT !.profiles = Append(@, p)]
    BY <2>1, <2>3 DEF EndRead
  <2> HIDE DEF p
  <2>5. fields'.profiles = Append(fields.profiles, p) /\ fields'.active = fields.active /\ fields'.ok = fields.ok
    BY <2>2, <2>4 DEF Answered
  <2>6. ListTrue
    BY <1>1, <1>2, <1>5, <2>5 DEF Listing, Listed, Heading, IsReadStep
  <2>7. Head(steps).q.op = "get"
    BY <1>1, <1>5 DEF Handlers, IsReadStep
  <2> QED BY <1>1, <1>5, <2>4, <2>5, <2>6, <2>7, ListGrown DEF p
<1>6. CASE Head(steps).for = "load"
  <2>1. steps' = Tail(steps) /\ UNCHANGED fields
    BY <1>6 DEF EndStep, EndLoad
  <2>2. ListTrue
    BY <1>1, <1>2, <1>6, <2>1 DEF Listing, Listed, Heading
  <2>3. ReadsLeft(0) /\ \A i \in DOMAIN steps : ~IsReadStep(steps[i])
    BY <1>1, <1>6, <2>2, ListRead DEF IsReadStep
  <2>4. \A i \in DOMAIN steps' : i \in Nat /\ i >= 1 /\ i + 1 \in DOMAIN steps /\ steps'[i] = steps[i + 1]
    BY <1>1, <2>1
  <2>5. \A i \in DOMAIN steps' : ~IsReadStep(steps'[i]) /\ ~(i <= 0)
    BY <2>3, <2>4
  <2>6. ReadsLeft(0)'
    BY <2>1, <2>3, <2>5 DEF ReadsLeft
  <2> QED BY <1>1, <2>1, <2>2, <2>6 DEF ListTrue
<1> QED BY <1>3, <1>4, <1>5, <1>6 DEF EndStep, IsReadStep

LEMMA ListingStep ==
  ASSUME TypeOK, Flow, Marks, Handlers, Batched, Timely', Punctual, Started, ActiveKnown, Got, Listing, [Next]_vars,
         Reported = Total \/ Fallback >= Total
  PROVE  Listing'
<1>t. TransportTypeOK /\ asked \in Seq(Asked) /\ \A x \in Asked : x.own \in BOOLEAN
  BY DEF TypeOK, TransportTypeOK, Asked
<1>1. ASSUME TransportStep PROVE Listing'
  <2>1. UNCHANGED <<steps, batch, fields>> /\ (SendUsbFrame \/ Receive \/ TimeOut \/ Device \/ Unplug)
    BY <1>1, TransportMeans
  <2>2. CASE UNCHANGED device
    BY <2>1, <2>2, ListingSame
  <2>3. CASE Device /\ ~UNCHANGED device
    <3> DEFINE a == Head(asked)
    <3>1. a = asked[1] /\ 1 \in DOMAIN asked /\ a \in Asked /\ a.q.op \in ChangeOps
      BY <1>t, <2>3, DeviceFits
    <3>2. a.own
      BY <1>t, <3>1, OpsApart DEF Punctual
    <3>3. a.q = Head(todo) /\ todo # <<>>
      BY <3>1, <3>2 DEF Marks, Flow, Idle
    <3>4. Head(steps).q.op \in ChangeOps /\ Head(steps) = steps[1] /\ 1 \in DOMAIN steps /\ steps # <<>>
      BY <3>1, <3>3, FrameKinds, OpsApart
    <3>5. Heading("command")
      BY <3>4 DEF Batched, Heading
    <3> QED BY <2>1, <3>5 DEF Listing, Heading
  <2>4. Receive \/ SendUsbFrame \/ TimeOut => UNCHANGED device
    BY <1>t, SendMeans, ReceiveMeans, TimeOutMeans
  <2>5. ~Unplug
    BY DEF Timely, Unplug, TypeOK, TransportTypeOK
  <2> QED BY <2>1, <2>2, <2>3, <2>4, <2>5
<1>2. ASSUME StartStep PROVE Listing'
  <2>1. UNCHANGED <<steps, batch, fields, device>>
    BY <1>2, StartMeans DEF Call
  <2> QED BY <2>1, ListingSame
<1>3. ASSUME EndStep PROVE Listing'
  BY <1>3, ListingEnd
<1>4. ASSUME HandleEvent \/ PrintResponse PROVE Listing'
  <2>1. steps' = <<>>
    BY <1>4 DEF HandleEvent, HandleInput, HandleShapeChanged, HandleError, PrintResponse, Free, handler
  <2> QED BY <2>1 DEF Listing
<1>5. ASSUME HandleClientConnected \/ Enter \/ HandleKeepAliveTimer PROVE Listing'
  <2>1. batch' = <<>>
    BY <1>5 DEF HandleClientConnected, Enter, HandleKeepAliveTimer, Free
  <2> QED BY <2>1 DEF Listing
<1>6. ASSUME NextRequest PROVE Listing'
  <2> DEFINE r == Head(batch)
  <2>1. /\ batch # <<>> /\ UNCHANGED <<batch, device>> /\ steps = <<>> /\ fields' = NewFields
        /\ steps' = (First(r) \o ToLoad(r)) \o <<Respond>>
    BY <1>6, ScreenOnly DEF NextRequest, ScreenStep, transport, First, Command
  <2>2. CASE r.command = "profiles"
    <3>1. ToLoad(r) = <<>> /\ First(r) = Reads /\ Reads \in Seq(Step)
      BY <2>2, ReadsMeans, OpsApart DEF ToLoad, First, ChangeOps, TypeOK
    <3>2. Reads \o <<>> = Reads
      BY <3>1
    <3>3. steps' = Reads \o <<Respond>>
      BY <2>1, <3>1, <3>2
    <3>4. ~IsReadStep(Respond) /\ <<Respond>> \in Seq(Step) /\ \A i \in DOMAIN <<Respond>> : <<Respond>>[i] = Respond
      BY StepTypes DEF IsReadStep
    <3>5. todo = <<>> /\ ~Heading("main")
      BY <2>1, NotInCall DEF Heading
    <3>6. config.active = device.active /\ Len(Reads) >= Total
      BY <3>5, ActiveNow, ManyReads
    <3>7. ListTrue'
      BY <2>1, <3>3, <3>4, <3>6, ListBegun
    <3> QED BY <3>7 DEF Listing
  <2>3. CASE r.command # "profiles"
    <3>1. /\ Len(First(r)) = 1 /\ steps'[1] = First(r)[1] /\ First(r)[1].for = "command"
          /\ steps' \in Seq(Step) /\ steps' # <<>>
      <4>1. /\ First(r) \in Seq(Step) /\ Len(First(r)) = 1 /\ steps' \in Seq(Step)
            /\ \A i \in 1..1 : steps'[i] = First(r)[i]
            /\ \A i \in DOMAIN First(r) : First(r)[i].for = "command"
        BY <1>6, <2>3, RequestParts
      <4>2. 1 \in 1..1 /\ 1 \in DOMAIN First(r)
        BY <4>1
      <4> QED BY <1>6, <4>1, <4>2, RequestMeans
    <3>2. Heading("command")'
      BY <3>1 DEF Heading
    <3> QED BY <3>2 DEF Listing
  <2> QED BY <2>2, <2>3
<1>7. ASSUME PostInput \/ (\E r \in Requests : PushRequest(r)) \/ UNCHANGED vars PROVE Listing'
  BY <1>7, ListingSame DEF PostInput, PushRequest, vars, handler, transport
<1>8. ~Stop
  BY DEF Timely, Stop
<1> QED BY <1>1, <1>2, <1>3, <1>4, <1>5, <1>6, <1>7, <1>8 DEF Next, EventThread, Environment, TransportStep
-----------------------------------------------------------------------------
LEMMA AnswerInvInit == Init => AnswerInv
<1> SUFFICES ASSUME Init PROVE AnswerInv
  OBVIOUS
<1>1. /\ asked = <<>> /\ arrived = <<>> /\ config = NoConfig /\ handshake = FALSE /\ todo = <<>>
      /\ outcome = NoOutcome /\ batch = <<>> /\ app = "running" /\ fields = NoFields
      /\ steps = <<Do("main", Ask("open")), Do("init", Ask("getActive")), Do("alive", Ask("keepAlive"))>>
  BY DEF Init, TransportInit
<1>2. /\ steps # <<>> /\ Head(steps) = Do("main", Ask("open")) /\ DOMAIN steps = {1, 2, 3}
      /\ steps[1] = Do("main", Ask("open")) /\ steps[2] = Do("init", Ask("getActive"))
      /\ steps[3] = Do("alive", Ask("keepAlive"))
  BY <1>1
<1>3. /\ Head(steps).for = "main"
      /\ \A i \in DOMAIN steps : /\ steps[i].for \in {"main", "init", "alive"}
                                 /\ steps[i].q.op \notin ChangeOps
  BY <1>2, OpsApart DEF Do, Ask, Question, ConfigOps
<1>4. fields \in Answered
  BY <1>1 DEF NoFields, Answered
<1>5. Batched
  BY <1>1, <1>3, <1>4 DEF Batched, Answered, Heading
<1>6. Punctual
  BY <1>1 DEF Punctual
<1>7. config.has = FALSE /\ ~outcome.done
  BY <1>1, Constants DEF NoConfig
<1>8. Started /\ ActiveKnown /\ Got /\ Listing
  BY <1>1, <1>2, <1>3, <1>7 DEF Started, ActiveKnown, Got, Listing, Heading, Idle
<1> QED BY <1>5, <1>6, <1>8 DEF AnswerInv

LEMMA AnswerInvStep ==
  ASSUME Reported = Total \/ Fallback >= Total, ScreenInv, AnswerInv, [Next]_vars
  PROVE  AnswerInv'
<1>1. TypeOK /\ Flow /\ Marks /\ Handlers /\ Batched
  BY DEF ScreenInv, AnswerInv
<1>2. Batched'
  BY <1>1, BatchedStep
<1>3. ASSUME Timely' PROVE Punctual' /\ Started' /\ ActiveKnown' /\ Got' /\ Listing'
  <2>1. Timely
    BY <1>1, <1>3, TimelyBefore
  <2>2. Punctual /\ Started /\ ActiveKnown /\ Got /\ Listing
    BY <2>1 DEF AnswerInv
  <2>3. Punctual'
    BY <1>1, <1>3, <2>2, PunctualStep
  <2>4. Started' /\ ActiveKnown'
    BY <1>1, <1>3, <2>2, StartedStep, ActiveStep
  <2>5. Got' /\ Listing'
    BY <1>1, <1>3, <2>2, GotStep, ListingStep
  <2> QED BY <2>3, <2>4, <2>5
<1> QED BY <1>2, <1>3 DEF AnswerInv

(* A successful response to a request that lists the profiles lists what   *)
(* the device holds, all of it, if only keep-alives and names lost their   *)
(* replies.  Firmware that reports no count has to hold no more profiles   *)
(* than kFallbackProfileCount, as BridgeRequests takes it to.              *)
THEOREM AnswersTrueHolds ==
  ASSUME Reported = Total \/ Fallback >= Total
  PROVE  Spec => []AnswersTrue
<1>1. ScreenInv /\ AnswerInv /\ [Next]_vars => AnswerInv'
  BY AnswerInvStep
<1>2. ScreenInv /\ AnswerInv => AnswersTrue
  <2> SUFFICES ASSUME ScreenInv, AnswerInv,
                      steps = <<Respond>>, fields.ok, lost \subseteq ConfigOps, device.plugged,
                      Head(batch).command \in {"profiles"} \cup ChangeOps
               PROVE  /\ fields.active = device.active
                      /\ \A i \in DOMAIN fields.profiles :
                           i - 1 \in Slots => fields.profiles[i] = device.profiles[i - 1]
                      /\ Len(fields.profiles) >= Total
    BY DEF AnswersTrue
  <2>1. TypeOK /\ Handlers /\ Batched
    BY DEF ScreenInv, AnswerInv
  <2>2. steps # <<>> /\ Head(steps) = Respond /\ steps[1] = Respond /\ 1 \in DOMAIN steps
    OBVIOUS
  <2>3. batch # <<>>
    BY <2>1, <2>2, StepTypes DEF Handlers
  <2>4. Timely
    BY <2>1, <2>3 DEF Timely, Batched
  <2>5. ~Heading("command") /\ ~IsReadStep(Head(steps))
    BY <2>2, StepTypes DEF Heading, IsReadStep
  <2>6. ListTrue
    BY <2>2, <2>3, <2>4, <2>5 DEF AnswerInv, Listing
  <2>7. ReadsLeft(0)
    BY <2>1, <2>2, <2>5, <2>6, ListRead
  <2>8. Len(fields.profiles) >= Total
    <3>1. Len(fields.profiles) \in Nat
      BY <2>1 DEF Batched
    <3> QED BY <2>7, <3>1 DEF ReadsLeft
  <2> QED BY <2>6, <2>8 DEF ListTrue
<1> QED BY <1>1, <1>2, AnswerInvInit, ScreenInvHolds, PTL DEF Spec
=============================================================================
