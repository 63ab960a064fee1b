------------------------ MODULE ClientListenerProofs ------------------------
(***************************************************************************)
(* How the server takes on any number of connections, each with any number *)
(* of packets: who owns what a connection is made of, who is called about  *)
(* it, and that no handshake is left without an end.                       *)
(***************************************************************************)
EXTENDS ClientListener, Integers, FiniteSetTheorems, SequenceTheorems, TLAPS

(***************************************************************************)
(* Sequences of events.                                                    *)
(***************************************************************************)
(* The number of messages of a type among the first n.                     *)
Among(s, type, n) == {i \in 1..n : s[i].type = type}
Count(s, type, n) == Cardinality(Among(s, type, n))

LEMMA TailOf ==
  ASSUME NEW S, NEW s \in Seq(S), s # <<>>
  PROVE  /\ Len(s) \in Nat \ {0} /\ DOMAIN s = 1..Len(s)
         /\ Head(s) = s[1] /\ s[1] \in S
         /\ Tail(s) \in Seq(S) /\ Len(Tail(s)) = Len(s) - 1
         /\ DOMAIN Tail(s) = 1..(Len(s) - 1)
         /\ \A i \in 1..(Len(s) - 1) : Tail(s)[i] = s[i + 1]
<1>1. Len(s) \in Nat \ {0} BY EmptySeq
<1>2. DOMAIN s = 1..Len(s) BY LenProperties
<1>3. Tail(s) \in Seq(S) /\ Len(Tail(s)) = Len(s) - 1 BY HeadTailProperties
<1>4. DOMAIN Tail(s) = 1..(Len(s) - 1) BY <1>3, LenProperties
<1>5. \A i \in 1..(Len(s) - 1) : Tail(s)[i] = s[i + 1] BY <1>3, HeadTailProperties
<1>6. Head(s) = s[1] OBVIOUS
<1>7. s[1] \in S BY <1>1, ElementOfSeq
<1> QED BY <1>1, <1>2, <1>3, <1>4, <1>5, <1>6, <1>7

LEMMA AppendTo ==
  ASSUME NEW S, NEW s \in Seq(S), NEW m \in S
  PROVE  /\ Append(s, m) \in Seq(S) /\ Append(s, m) # <<>>
         /\ Len(s) \in Nat /\ DOMAIN s = 1..Len(s)
         /\ Len(Append(s, m)) = Len(s) + 1
         /\ DOMAIN Append(s, m) = 1..(Len(s) + 1)
         /\ \A i \in 1..Len(s) : Append(s, m)[i] = s[i]
         /\ Append(s, m)[Len(s) + 1] = m
<1>1. Append(s, m) \in Seq(S) /\ Append(s, m) # <<>> /\ Len(Append(s, m)) = Len(s) + 1
  BY AppendProperties
<1>2. DOMAIN Append(s, m) = 1..(Len(s) + 1) BY <1>1, LenProperties
<1> QED BY <1>1, <1>2, AppendProperties, LenProperties

LEMMA NoMessage ==
  ASSUME NEW S
  PROVE  <<>> \in Seq(S) /\ Len(<<>>) = 0 /\ \A s \in Seq(S) : Len(s) = 0 => s = <<>>
BY EmptySeq

LEMMA AmongFinite ==
  ASSUME NEW s, NEW type, NEW n \in Int
  PROVE  IsFiniteSet(Among(s, type, n)) /\ Count(s, type, n) \in Nat
<1>1. IsFiniteSet(1..n) BY FS_Interval
<1>2. Among(s, type, n) \in SUBSET (1..n) BY DEF Among
<1>3. IsFiniteSet(Among(s, type, n)) BY <1>1, <1>2, FS_Subset
<1> QED BY <1>3, FS_CardinalityType DEF Count

LEMMA CountNone ==
  ASSUME NEW s, NEW type
  PROVE  Count(s, type, 0) = 0
<1>1. Among(s, type, 0) = {} BY DEF Among
<1> QED BY <1>1, FS_EmptySet DEF Count

LEMMA CountAppend ==
  ASSUME NEW S, NEW s \in Seq(S), NEW m \in S, NEW type
  PROVE  /\ \A n \in 0..Len(s) : Count(Append(s, m), type, n) = Count(s, type, n)
         /\ Count(Append(s, m), type, Len(s) + 1) =
              Count(s, type, Len(s)) + (IF m.type = type THEN 1 ELSE 0)
<1>1. /\ Len(s) \in Nat
      /\ \A i \in 1..Len(s) : Append(s, m)[i] = s[i]
      /\ Append(s, m)[Len(s) + 1] = m
  BY AppendTo
<1>2. \A n \in 0..Len(s) : Among(Append(s, m), type, n) = Among(s, type, n)
  BY <1>1 DEF Among
<1>3. Among(Append(s, m), type, Len(s) + 1) =
        Among(s, type, Len(s)) \cup (IF m.type = type THEN {Len(s) + 1} ELSE {})
  BY <1>1 DEF Among
<1>4. IsFiniteSet(Among(s, type, Len(s))) /\ Count(s, type, Len(s)) \in Nat
  BY <1>1, AmongFinite
<1>5. Len(s) + 1 \notin Among(s, type, Len(s)) BY <1>1 DEF Among
<1>6. CASE m.type = type
  <2>1. Among(Append(s, m), type, Len(s) + 1) = Among(s, type, Len(s)) \cup {Len(s) + 1}
    BY <1>3, <1>6
  <2>2. Cardinality(Among(s, type, Len(s)) \cup {Len(s) + 1}) = Count(s, type, Len(s)) + 1
    BY <1>4, <1>5, FS_AddElement DEF Count
  <2> QED BY <1>2, <1>6, <2>1, <2>2 DEF Count
<1>7. CASE m.type # type
  <2>1. Among(Append(s, m), type, Len(s) + 1) = Among(s, type, Len(s)) BY <1>3, <1>7
  <2> QED BY <1>2, <1>4, <1>7, <2>1 DEF Count
<1> QED BY <1>6, <1>7

LEMMA CountTail ==
  ASSUME NEW S, NEW s \in Seq(S), s # <<>>, NEW type, NEW n \in 0..(Len(s) - 1)
  PROVE  Count(s, type, n + 1) =
           Count(Tail(s), type, n) + (IF s[1].type = type THEN 1 ELSE 0)
<1>1. /\ Len(s) \in Nat \ {0}
      /\ \A i \in 1..(Len(s) - 1) : Tail(s)[i] = s[i + 1]
  BY TailOf
<1> DEFINE Later == {i \in 2..(n + 1) : s[i].type = type}
<1> DEFINE f == [i \in Among(Tail(s), type, n) |-> i + 1]
<1>2. f \in Bijection(Among(Tail(s), type, n), Later)
  <2>1. f \in [Among(Tail(s), type, n) -> Later] BY <1>1 DEF Among
  <2>2. \A i, j \in Among(Tail(s), type, n) : f[i] = f[j] => i = j BY DEF Among
  <2>3. \A j \in Later : \E i \in Among(Tail(s), type, n) : f[i] = j
    <3> TAKE j \in Later
    <3>1. j - 1 \in Among(Tail(s), type, n) /\ j - 1 + 1 = j BY <1>1 DEF Among
    <3> QED BY <3>1
  <2>4. f \in Surjection(Among(Tail(s), type, n), Later) BY <2>1, <2>3 DEF Surjection
  <2>5. f \in Injection(Among(Tail(s), type, n), Later) BY <2>1, <2>2 DEF Injection, IsInjective
  <2> QED BY <2>4, <2>5 DEF Bijection
<1>3. ExistsBijection(Among(Tail(s), type, n), Later) BY <1>2 DEF ExistsBijection
<1>4. IsFiniteSet(Among(Tail(s), type, n)) /\ Count(Tail(s), type, n) \in Nat BY AmongFinite
<1>5. IsFiniteSet(Later) /\ Cardinality(Later) = Count(Tail(s), type, n)
  <2> HIDE DEF f, Later
  <2> QED BY <1>3, <1>4, FS_Bijection DEF Count
<1>6. Among(s, type, n + 1) = Later \cup (IF s[1].type = type THEN {1} ELSE {})
  BY <1>1 DEF Among
<1>7. 1 \notin Later OBVIOUS
<1>8. CASE s[1].type = type
  <2>1. Among(s, type, n + 1) = Later \cup {1} BY <1>6, <1>8
  <2> HIDE DEF f, Later
  <2>2. Cardinality(Later \cup {1}) = Cardinality(Later) + 1 BY <1>5, <1>7, FS_AddElement
  <2> QED BY <1>5, <1>8, <2>1, <2>2 DEF Count
<1>9. CASE s[1].type # type
  <2>1. Among(s, type, n + 1) = Later BY <1>6, <1>9
  <2> HIDE DEF f, Later
  <2> QED BY <1>4, <1>5, <1>9, <2>1 DEF Count
<1> QED BY <1>8, <1>9
-----------------------------------------------------------------------------

(* The proxy of a connection with objects r has an owner: the unknown      *)
(* client, the listener (w), or the server (m, a member; l, leaving).      *)
Held(r) == r.unknown = "live" /\ r.holds = "proxy"

Ownership(r, w, m, l) ==
  /\ r.unknown = "live" => ~w /\ ~m /\ ~l
  /\ w => ~m /\ ~l
  /\ m => ~l
  /\ r.proxy \in {"live", "closed"} <=> Held(r) \/ w \/ m \/ l
  /\ r.holds # "nothing" => r.unknown = "live"
  /\ r.unknown = "live" /\ r.ready => r.holds = "proxy"
  /\ r.filter = "live" =>
       /\ r.socket \in {"open", "closed"}
       /\ r.proxy \in {"live", "closed"} \/ r.holds = "stream"

(* Who is called about them, h, is alive, and the news of a gone client go *)
(* to the owner.                                                           *)
Calls(r, h, w, m, l) ==
  /\ h.accept = "listener" => r = [NoConn EXCEPT !.socket = "open"]
  /\ h.timer = "unknown" => r.unknown = "live"
  /\ h.outcome = "listener" <=> r.unknown = "live"
  /\ h.stream # "nobody" => r.filter = "live" /\ r.socket \in {"open", "closed"}
  /\ h.stream = "unknown" => r.holds = "stream"
  /\ h.stream = "proxy" \/ h.alarm = "proxy" => r.proxy = "live"
  /\ h.ready = "unknown" => Held(r)
  /\ h.gone = IF Held(r) THEN "unknown" ELSE IF w THEN "listener"
              ELSE IF m \/ l THEN "server" ELSE "nobody"
  /\ h.close = "server" <=> l

InOrder(r, h, w, m, l) == Ownership(r, w, m, l) /\ Calls(r, h, w, m, l)

(* The events that wait: the news of a closed proxy, and the end of a      *)
(* handshake that has no timer any more.                                   *)
Pending(r, h, gone, over) ==
  /\ r.proxy = "closed" => gone
  /\ r.unknown = "live" => h.timer = "unknown" \/ over

Listed(type, c) == Event(type, c) \in Range(queue)
Over(c) == Listed("Success", c) \/ Listed("Failure", c)

Kept(c) ==
  /\ InOrder(conn[c], on[c], c \in Range(waiting), c \in members, c \in leaving)
  /\ Pending(conn[c], on[c], Listed("Gone", c), Over(c))

(* A connection that is not yet handled has nothing, and is handled once.  *)
Fresh(c) ==
  /\ net[c].peer = "away" => ~Listed("Connecting", c)
  /\ net[c].peer = "away" \/ Listed("Connecting", c) =>
       conn[c] = NoConn /\ on[c] = NoHandlers
Single(q) ==
  \A i, j \in DOMAIN q : q[i] = q[j] /\ q[i].type = "Connecting" => i = j

(* A client waits for each announcement of one, and waits once.            *)
Announced ==
  /\ Count(queue, "ListenerAccepted", Len(queue)) = Len(waiting)
  /\ \A i, j \in DOMAIN waiting : waiting[i] = waiting[j] => i = j

ListenerInv ==
  /\ TypeOK
  /\ app # "aborted" =>
       /\ \A c \in Conns : Kept(c) /\ Fresh(c)
       /\ Single(queue)
       /\ app # "stopped" => Announced
  /\ app = "aborted" => GoneIsHeard
-----------------------------------------------------------------------------
(***************************************************************************)
(* What the handlers do to one connection.                                 *)
(***************************************************************************)
LEMMA Nothing ==
  /\ NoConn \in Objects /\ NoHandlers \in Handlers
  /\ InOrder(NoConn, NoHandlers, FALSE, FALSE, FALSE)
BY DEF NoConn, NoHandlers, Objects, Handlers, States, InOrder, Ownership, Calls, Held

LEMMA WhenConnecting ==
  LET r == [NoConn EXCEPT !.socket = "open"]
      h == [NoHandlers EXCEPT !.accept = "listener"]
  IN  /\ r \in Objects /\ h \in Handlers /\ InOrder(r, h, FALSE, FALSE, FALSE)
      /\ r.proxy = "none" /\ r.unknown = "none"
BY DEF NoConn, NoHandlers, Objects, Handlers, States, InOrder, Ownership, Calls, Held

(* A connection that is accepted has no owner yet.                         *)
LEMMA WhenAccepted ==
  ASSUME NEW r \in Objects, NEW h \in Handlers, NEW w, NEW m, NEW l,
         InOrder(r, h, w, m, l), h.accept = "listener"
  PROVE  LET s == [r EXCEPT !.filter = "live", !.unknown = "live", !.holds = "stream"]
             g == [NoHandlers EXCEPT !.stream = "unknown", !.timer = "unknown",
                                     !.outcome = "listener"]
         IN  s \in Objects /\ g \in Handlers /\ InOrder(s, g, w, m, l)
             /\ s.proxy = "none" /\ g.timer = "unknown"
BY DEF NoConn, NoHandlers, Objects, Handlers, States, InOrder, Ownership, Calls, Held

LEMMA WhenRefused ==
  ASSUME NEW r \in Objects, NEW h \in Handlers, NEW w, NEW m, NEW l,
         InOrder(r, h, w, m, l), h.accept = "listener"
  PROVE  LET s == [r EXCEPT !.socket = "freed"]
             g == [h EXCEPT !.accept = "nobody"]
         IN  s \in Objects /\ g \in Handlers /\ InOrder(s, g, w, m, l)
             /\ s.proxy = "none" /\ s.unknown = "none"
BY DEF NoConn, Objects, Handlers, States, InOrder, Ownership, Calls, Held

LEMMA SilentTyped ==
  ASSUME NEW r, NEW h \in Handlers
  PROVE  UnknownSilent(h, r) \in Handlers
<1>1. ASSUME NEW stream \in {"nobody", "unknown", "proxy"}, NEW alarm \in {"nobody", "proxy"},
             NEW ready \in {"nobody", "unknown"},
             NEW gone \in {"nobody", "unknown", "listener", "server"}
      PROVE  [h EXCEPT !.stream = stream, !.alarm = alarm, !.ready = ready, !.gone = gone,
                       !.timer = "nobody", !.outcome = "nobody"] \in Handlers
  <2>1. \A k \in Handlers : [k EXCEPT !.stream = stream, !.alarm = alarm] \in Handlers
    BY DEF Handlers
  <2>2. \A k \in Handlers : [k EXCEPT !.ready = ready, !.gone = gone] \in Handlers
    BY DEF Handlers
  <2>3. \A k \in Handlers : [k EXCEPT !.timer = "nobody", !.outcome = "nobody"] \in Handlers
    BY DEF Handlers
  <2> DEFINE k1 == [h EXCEPT !.stream = stream, !.alarm = alarm]
             k2 == [k1 EXCEPT !.ready = ready, !.gone = gone]
  <2>4. [k2 EXCEPT !.timer = "nobody", !.outcome = "nobody"] \in Handlers
    <3>1. k1 \in Handlers BY <2>1
    <3> HIDE DEF k1
    <3>2. k2 \in Handlers BY <2>2, <3>1
    <3> HIDE DEF k2
    <3> QED BY <2>3, <3>2
  <2> QED BY <2>4
<1>2. /\ h.stream \in {"nobody", "unknown", "proxy"} /\ h.alarm \in {"nobody", "proxy"}
      /\ h.ready \in {"nobody", "unknown"}
      /\ h.gone \in {"nobody", "unknown", "listener", "server"}
  BY DEF Handlers
<1> DEFINE stream == IF r.holds = "nothing" THEN h.stream ELSE "nobody"
           alarm == IF r.holds = "proxy" THEN "nobody" ELSE h.alarm
           ready == IF r.holds = "proxy" THEN "nobody" ELSE h.ready
           gone == IF r.holds = "proxy" THEN "nobody" ELSE h.gone
           g == [h EXCEPT !.stream = stream, !.alarm = alarm, !.ready = ready, !.gone = gone,
                          !.timer = "nobody", !.outcome = "nobody"]
<1>3. g \in Handlers
  <2>1. stream \in {"nobody", "unknown", "proxy"} BY <1>2
  <2>2. alarm \in {"nobody", "proxy"} BY <1>2
  <2>3. ready \in {"nobody", "unknown"} BY <1>2
  <2>4. gone \in {"nobody", "unknown", "listener", "server"} BY <1>2
  <2> HIDE DEF stream, alarm, ready, gone
  <2> QED BY <1>1, <2>1, <2>2, <2>3, <2>4
<1> QED BY <1>3 DEF UnknownSilent

LEMMA WhenFailed ==
  ASSUME NEW r \in Objects, NEW h \in Handlers, NEW w, NEW m, NEW l,
         InOrder(r, h, w, m, l), r.unknown = "live"
  PROVE  LET s == [IF r.holds = "proxy" THEN [WithoutProxy(r) EXCEPT !.holds = "nothing"]
                   ELSE r EXCEPT !.ready = FALSE]
             g == [UnknownSilent(h, r) EXCEPT !.outcome = h.outcome]
         IN  s \in Objects /\ g \in Handlers /\ InOrder(s, g, w, m, l)
             /\ s.proxy # "closed"
<1> DEFINE b == IF r.holds = "proxy" THEN [WithoutProxy(r) EXCEPT !.holds = "nothing"] ELSE r
           s == [b EXCEPT !.ready = FALSE]
           g == [UnknownSilent(h, r) EXCEPT !.outcome = h.outcome]
<1>1. h.accept = "nobody" BY DEF InOrder, Calls, NoConn, Handlers, Objects
<1>2. b \in Objects BY DEF Objects, States, WithoutProxy
<1>3. UnknownSilent(h, r) \in Handlers BY SilentTyped
<1>4. s \in Objects /\ g \in Handlers
  <2>1. s \in Objects
    <3> HIDE DEF b
    <3> QED BY <1>2 DEF Objects
  <2>2. h.outcome \in {"nobody", "listener"} BY DEF Handlers
  <2>3. g \in Handlers BY <1>3, <2>2 DEF Handlers
  <2> QED BY <2>1, <2>3
<1>5. /\ s.unknown = "live" /\ ~s.ready /\ s.holds # "proxy" /\ s.socket = r.socket
      /\ r.holds = "proxy" => s.proxy = "freed" /\ s.filter = "freed" /\ s.holds = "nothing"
      /\ r.holds # "proxy" => s.proxy = r.proxy /\ s.filter = r.filter /\ s.holds = r.holds
  BY <1>2 DEF Objects, WithoutProxy
<1>6. /\ g.accept = h.accept /\ g.timer = "nobody" /\ g.outcome = h.outcome /\ g.close = h.close
      /\ g.stream = (IF r.holds = "nothing" THEN h.stream ELSE "nobody")
      /\ g.alarm = (IF r.holds = "proxy" THEN "nobody" ELSE h.alarm)
      /\ g.ready = (IF r.holds = "proxy" THEN "nobody" ELSE h.ready)
      /\ g.gone = (IF r.holds = "proxy" THEN "nobody" ELSE h.gone)
  BY <1>3 DEF Handlers, UnknownSilent
<1> HIDE DEF s, g
<1>7. Ownership(s, w, m, l)
  BY <1>4, <1>5 DEF InOrder, Ownership, Held, Objects, States
<1>8. Calls(s, g, w, m, l)
  BY <1>1, <1>4, <1>5, <1>6 DEF InOrder, Ownership, Calls, Held, Objects, Handlers, States
<1>9. s.proxy # "closed" BY <1>5 DEF InOrder, Ownership, Held
<1> QED BY <1>4, <1>7, <1>8, <1>9 DEF InOrder, s, g

LEMMA WhenAnswered ==
  ASSUME NEW r \in Objects, NEW h \in Handlers, NEW w, NEW m, NEW l,
         InOrder(r, h, w, m, l), h.stream = "unknown"
  PROVE  LET s == [r EXCEPT !.proxy = "live", !.holds = "proxy"]
             g == [h EXCEPT !.stream = "proxy", !.ready = "unknown", !.gone = "unknown"]
         IN  /\ s \in Objects /\ g \in Handlers /\ InOrder(s, g, w, m, l)
             /\ s.proxy = "live" /\ s.unknown = r.unknown /\ g.timer = h.timer
BY DEF NoConn, Objects, Handlers, States, InOrder, Ownership, Calls, Held

LEMMA WhenInformed ==
  ASSUME NEW r \in Objects, NEW h \in Handlers, NEW w, NEW m, NEW l, NEW info \in BOOLEAN,
         InOrder(r, h, w, m, l), h.stream = "proxy"
  PROVE  LET s == [r EXCEPT !.info = info]
             g == [h EXCEPT !.alarm = "proxy"]
         IN  /\ s \in Objects /\ g \in Handlers /\ InOrder(s, g, w, m, l)
             /\ InOrder(r, g, w, m, l)
             /\ s.proxy = r.proxy /\ s.unknown = r.unknown /\ g.timer = h.timer
BY DEF NoConn, Objects, Handlers, States, InOrder, Ownership, Calls, Held

LEMMA WhenClosed ==
  ASSUME NEW r \in Objects, NEW h \in Handlers, NEW w, NEW m, NEW l,
         InOrder(r, h, w, m, l), h.stream = "proxy" \/ h.alarm = "proxy"
  PROVE  LET s == [r EXCEPT !.proxy = "closed", !.socket = "closed"]
             g == ProxySilent(h)
         IN  /\ s \in Objects /\ g \in Handlers /\ InOrder(s, g, w, m, l)
             /\ s.unknown = r.unknown /\ g.timer = h.timer
BY DEF NoConn, Objects, Handlers, States, InOrder, Ownership, Calls, Held, ProxySilent

LEMMA WhenReady ==
  ASSUME NEW r \in Objects, NEW h \in Handlers, NEW w, NEW m, NEW l,
         InOrder(r, h, w, m, l), h.ready = "unknown"
  PROVE  LET s == [r EXCEPT !.ready = TRUE]
             g == [h EXCEPT !.timer = "nobody"]
         IN  /\ s \in Objects /\ g \in Handlers /\ InOrder(s, g, w, m, l)
             /\ s.proxy = r.proxy
BY DEF NoConn, Objects, Handlers, States, InOrder, Ownership, Calls, Held

(* The proxy goes from the unknown client to the listener.                 *)
LEMMA WhenWaiting ==
  ASSUME NEW r \in Objects, NEW h \in Handlers, NEW w, NEW m, NEW l,
         InOrder(r, h, w, m, l), h.outcome = "listener", r.ready
  PROVE  LET s == WithoutUnknown(Orphan(r))
             g == [h EXCEPT !.ready = "nobody", !.gone = "listener",
                            !.outcome = "nobody", !.timer = "nobody"]
         IN  /\ s \in Objects /\ g \in Handlers /\ InOrder(s, g, TRUE, m, l) /\ ~w
             /\ s.proxy = r.proxy /\ s.unknown = "freed"
<1> DEFINE s == WithoutUnknown(Orphan(r))
           g == [h EXCEPT !.ready = "nobody", !.gone = "listener",
                          !.outcome = "nobody", !.timer = "nobody"]
<1>1. /\ r.unknown = "live" /\ r.holds = "proxy" /\ r.proxy \in {"live", "closed"}
      /\ ~w /\ ~m /\ ~l /\ h.accept = "nobody"
  BY DEF InOrder, Ownership, Calls, Held, NoConn, Objects, Handlers
<1>2. s = [r EXCEPT !.holds = "nothing", !.unknown = "freed"]
  BY DEF WithoutUnknown, Orphan, Objects
<1> HIDE DEF s
<1>3. s \in Objects /\ g \in Handlers
  <2>1. s \in Objects BY <1>2 DEF Objects, States
  <2>2. g \in Handlers BY DEF Handlers
  <2> QED BY <2>1, <2>2
<1>4. /\ s.unknown = "freed" /\ s.holds = "nothing" /\ s.proxy = r.proxy
      /\ s.filter = r.filter /\ s.socket = r.socket
  BY <1>2 DEF Objects
<1>5. Ownership(s, TRUE, m, l)
  BY <1>1, <1>3, <1>4 DEF InOrder, Ownership, Held, Objects, States
<1>6. Calls(s, g, TRUE, m, l)
  BY <1>1, <1>3, <1>4 DEF InOrder, Calls, Held, Objects, Handlers, States
<1> QED BY <1>1, <1>3, <1>4, <1>5, <1>6 DEF InOrder, s

(* The unknown client is deleted with what it holds.                       *)
LEMMA WhenRemoved ==
  ASSUME NEW r \in Objects, NEW h \in Handlers, NEW w, NEW m, NEW l,
         InOrder(r, h, w, m, l), h.outcome = "listener",
         NEW end \in {"closed", "freed"}
  PROVE  LET s == WithoutUnknown(IF r.holds = "stream" THEN [r EXCEPT !.socket = end] ELSE r)
             g == UnknownSilent(h, r)
         IN  /\ s \in Objects /\ g \in Handlers /\ InOrder(s, g, w, m, l)
             /\ s.proxy # "closed" /\ s.unknown = "freed"
<1> DEFINE b == IF r.holds = "stream" THEN [r EXCEPT !.socket = end] ELSE r
           s == WithoutUnknown(b)
           g == UnknownSilent(h, r)
<1>1. r.unknown = "live" /\ h.accept = "nobody" /\ ~w /\ ~m /\ ~l
  BY DEF InOrder, Ownership, Calls, Held, NoConn, Objects, Handlers
<1>2. g \in Handlers BY SilentTyped
<1>3. /\ s \in Objects /\ s.unknown = "freed" /\ s.holds = "nothing"
      /\ r.holds = "nothing" => s.proxy = r.proxy /\ s.filter = r.filter /\ s.socket = r.socket
      /\ r.holds = "stream" => s.proxy = r.proxy /\ s.filter = "freed"
      /\ r.holds = "proxy" => s.proxy = "freed" /\ s.filter = "freed"
  <2>1. CASE r.holds = "nothing"
    <3>1. s = [r EXCEPT !.unknown = "freed", !.holds = "nothing"]
      BY <2>1 DEF WithoutUnknown
    <3> QED BY <2>1, <3>1 DEF Objects, States
  <2>2. CASE r.holds = "stream"
    <3>1. b = [r EXCEPT !.socket = end] /\ b.holds = "stream" BY <2>2 DEF Objects
    <3>2. s = [[b EXCEPT !.filter = "freed"] EXCEPT !.unknown = "freed", !.holds = "nothing"]
      BY <3>1 DEF WithoutUnknown
    <3>3. s = [r EXCEPT !.socket = end, !.filter = "freed", !.unknown = "freed",
                        !.holds = "nothing"]
      BY <3>1, <3>2 DEF Objects
    <3> HIDE DEF s
    <3> QED BY <2>2, <3>3 DEF Objects, States
  <2>3. CASE r.holds = "proxy"
    <3>1. s = [r EXCEPT !.proxy = "freed", !.filter = "freed", !.unknown = "freed",
                        !.holds = "nothing"]
      BY <2>3 DEF WithoutUnknown, WithoutProxy, Objects
    <3> HIDE DEF s
    <3> QED BY <2>3, <3>1 DEF Objects, States
  <2> QED BY <2>1, <2>2, <2>3 DEF Objects
<1>4. /\ g.accept = h.accept /\ g.timer = "nobody" /\ g.outcome = "nobody" /\ g.close = h.close
      /\ g.stream = (IF r.holds = "nothing" THEN h.stream ELSE "nobody")
      /\ g.alarm = (IF r.holds = "proxy" THEN "nobody" ELSE h.alarm)
      /\ g.ready = (IF r.holds = "proxy" THEN "nobody" ELSE h.ready)
      /\ g.gone = (IF r.holds = "proxy" THEN "nobody" ELSE h.gone)
  BY <1>2 DEF Handlers, UnknownSilent
<1> HIDE DEF s, g
<1>5. Ownership(s, w, m, l)
  BY <1>1, <1>3 DEF InOrder, Ownership, Held, Objects, States
<1>6. Calls(s, g, w, m, l)
  BY <1>1, <1>2, <1>3, <1>4 DEF InOrder, Ownership, Calls, Held, Objects, Handlers, States
<1>7. s.proxy # "closed" BY <1>1, <1>3 DEF InOrder, Ownership, Held, Objects
<1> QED BY <1>2, <1>3, <1>5, <1>6, <1>7 DEF InOrder, s, g, b

(* The proxy goes from the listener to the server.                         *)
LEMMA WhenAdopted ==
  ASSUME NEW r \in Objects, NEW h \in Handlers, NEW m, NEW l, NEW ok \in BOOLEAN,
         InOrder(r, h, TRUE, m, l)
  PROVE  LET g == [h EXCEPT !.gone = "server", !.close = IF ok THEN "nobody" ELSE "server"]
         IN  /\ g \in Handlers /\ InOrder(r, g, FALSE, ok, ~ok) /\ ~m /\ ~l
             /\ g.timer = h.timer
<1>1. CASE ok
  BY <1>1 DEF NoConn, Objects, Handlers, States, InOrder, Ownership, Calls, Held
<1>2. CASE ~ok
  BY <1>2 DEF NoConn, Objects, Handlers, States, InOrder, Ownership, Calls, Held
<1> QED BY <1>1, <1>2

LEMMA WhenTold ==
  ASSUME NEW r \in Objects, NEW h \in Handlers, NEW w, NEW l,
         InOrder(r, h, w, TRUE, l)
  PROVE  LET g == [h EXCEPT !.close = "server"]
         IN  g \in Handlers /\ InOrder(r, g, w, FALSE, TRUE) /\ ~l /\ g.timer = h.timer
BY DEF NoConn, Objects, Handlers, States, InOrder, Ownership, Calls, Held

LEMMA WhenDeleted ==
  ASSUME NEW r \in Objects, NEW h \in Handlers, NEW w, NEW m, NEW l,
         InOrder(r, h, w, m, l), m \/ l
  PROVE  LET s == WithoutProxy(r)
             g == [ProxySilent(h) EXCEPT !.gone = "nobody", !.close = "nobody"]
         IN  /\ s \in Objects /\ g \in Handlers /\ InOrder(s, g, w, FALSE, FALSE)
             /\ s.proxy = "freed" /\ s.unknown # "live"
BY DEF NoConn, Objects, Handlers, States, InOrder, Ownership, Calls, Held, ProxySilent,
       WithoutProxy

(* What the listener deletes when it stops.                                *)
LEMMA WhenStopped ==
  ASSUME TypeOK, NEW c \in Conns, Kept(c)
  PROVE  LET s == Deleted(c)
         IN  /\ s \in Objects /\ InOrder(s, NoHandlers, FALSE, FALSE, FALSE)
             /\ s.proxy # "closed" /\ s.unknown # "live"
             /\ conn[c] = NoConn => s = NoConn
<1> DEFINE r == conn[c]
           p == IF Owned(c) \/ c \in Range(waiting) THEN WithoutProxy(r) ELSE r
           u == IF p.unknown = "live" THEN WithoutUnknown(p) ELSE p
           s == [u EXCEPT !.socket = IF @ = "none" THEN @ ELSE "freed"]
<1>1. r \in Objects BY DEF TypeOK
<1>2. Ownership(r, c \in Range(waiting), c \in members, c \in leaving) BY DEF Kept, InOrder
<1>3. Owned(c) <=> c \in members \/ c \in leaving BY DEF Owned
<1> HIDE DEF r
<1>4. /\ p \in Objects /\ p.unknown = r.unknown /\ p.holds = r.holds /\ p.socket = r.socket
      /\ p.proxy \in {"live", "closed"} => p.unknown = "live" /\ p.holds = "proxy"
      /\ p.filter = "live" => p.unknown = "live" /\ p.holds # "nothing"
      /\ p.holds # "nothing" => p.unknown = "live"
  <2>1. CASE Owned(c) \/ c \in Range(waiting)
    <3>1. p = [r EXCEPT !.proxy = "freed", !.filter = "freed"] BY <2>1 DEF WithoutProxy
    <3> HIDE DEF p
    <3> QED BY <3>1, <1>1, <1>2 DEF Objects, Ownership, States
  <2>2. CASE ~(Owned(c) \/ c \in Range(waiting))
    <3>1. p = r BY <2>2
    <3> HIDE DEF p
    <3> QED BY <3>1, <2>2, <1>1, <1>2, <1>3 DEF Objects, Ownership, Held
  <2> QED BY <2>1, <2>2
<1> HIDE DEF p
<1>5. /\ u \in Objects /\ u.unknown # "live" /\ u.holds = "nothing" /\ u.socket = r.socket
      /\ u.proxy \notin {"live", "closed"} /\ u.filter # "live"
  <2>1. CASE p.unknown = "live" /\ p.holds = "proxy"
    <3>1. u = [p EXCEPT !.proxy = "freed", !.filter = "freed", !.unknown = "freed",
                        !.holds = "nothing"]
      BY <2>1, <1>4 DEF WithoutUnknown, WithoutProxy, Objects
    <3> HIDE DEF u
    <3> QED BY <3>1, <1>4 DEF Objects, States
  <2>2. CASE p.unknown = "live" /\ p.holds = "stream"
    <3>1. u = [p EXCEPT !.filter = "freed", !.unknown = "freed", !.holds = "nothing"]
      BY <2>2, <1>4 DEF WithoutUnknown, Objects
    <3> HIDE DEF u
    <3> QED BY <3>1, <2>2, <1>4 DEF Objects, States
  <2>3. CASE p.unknown = "live" /\ p.holds = "nothing"
    <3>1. u = [p EXCEPT !.unknown = "freed", !.holds = "nothing"]
      BY <2>3, <1>4 DEF WithoutUnknown, Objects
    <3> HIDE DEF u
    <3> QED BY <3>1, <2>3, <1>4 DEF Objects, States
  <2>4. CASE p.unknown # "live"
    <3>1. u = p BY <2>4
    <3> HIDE DEF u
    <3> QED BY <3>1, <2>4, <1>4 DEF Objects
  <2> QED BY <2>1, <2>2, <2>3, <2>4, <1>4 DEF Objects
<1> HIDE DEF u
<1>6. s \in Objects BY <1>5 DEF Objects
<1>7. InOrder(s, NoHandlers, FALSE, FALSE, FALSE)
  BY <1>5, <1>6 DEF InOrder, Ownership, Calls, Held, NoHandlers, Objects
<1>8. s.proxy # "closed" /\ s.unknown # "live" BY <1>5 DEF Objects
<1>9. ASSUME r = NoConn PROVE s = NoConn
  <2>1. r.proxy = "none" /\ r.unknown = "none" /\ r.holds = "nothing" /\ r.socket = "none"
    BY <1>9 DEF NoConn
  <2>2. ~Owned(c) /\ c \notin Range(waiting) BY <2>1, <1>2, <1>3 DEF Ownership, Held
  <2>3. p = r BY <2>2 DEF p
  <2>4. u = p BY <2>1, <2>3 DEF u
  <2> QED BY <1>1, <1>5, <2>1, <2>3, <2>4, <1>9 DEF Objects
<1> QED BY <1>6, <1>7, <1>8, <1>9 DEF Deleted, r, p, u

-----------------------------------------------------------------------------
(***************************************************************************)
(* What a handler does to the queue: it takes events of some types about   *)
(* connection c off it, and posts events of some types about c.            *)
(***************************************************************************)
Changed(q, s, c, lost, new) ==
  /\ s \in Seq(Events)
  /\ \A e \in Events : e.of # c => (e \in Range(s) <=> e \in Range(q))
  /\ \A e \in Events : e \in Range(s) => e \in Range(q) \/ e.type \in new
  /\ \A e \in Events : e \in Range(q) => e \in Range(s) \/ e.type \in lost
  /\ \A e \in Events : e.of = c /\ e.type \in new => e \in Range(s)
  /\ Count(s, "ListenerAccepted", Len(s)) =
       Count(q, "ListenerAccepted", Len(q))
       - (IF "ListenerAccepted" \in lost THEN 1 ELSE 0)
       + (IF "ListenerAccepted" \in new THEN 1 ELSE 0)
  /\ Single(q) /\ "Connecting" \notin new => Single(s)

LEMMA RangeTail ==
  ASSUME NEW S, NEW s \in Seq(S), s # <<>>
  PROVE  Range(s) = {s[1]} \cup Range(Tail(s))
<1>1. /\ Len(s) \in Nat \ {0} /\ DOMAIN s = 1..Len(s)
      /\ DOMAIN Tail(s) = 1..(Len(s) - 1)
      /\ \A i \in 1..(Len(s) - 1) : Tail(s)[i] = s[i + 1]
  BY TailOf
<1>2. ASSUME NEW x \in Range(s), x # s[1] PROVE x \in Range(Tail(s))
  <2>1. PICK i \in 1..Len(s) : x = s[i] BY <1>1 DEF Range
  <2>2. i - 1 \in 1..(Len(s) - 1) /\ i - 1 + 1 = i BY <1>1, <1>2, <2>1
  <2>3. Tail(s)[i - 1] = x BY <1>1, <2>1, <2>2
  <2> QED BY <1>1, <2>2, <2>3 DEF Range
<1>3. ASSUME NEW x \in Range(Tail(s)) PROVE x \in Range(s)
  <2>1. PICK i \in 1..(Len(s) - 1) : x = Tail(s)[i] BY <1>1, <1>3 DEF Range
  <2>2. i + 1 \in 1..Len(s) /\ x = s[i + 1] BY <1>1, <2>1
  <2> QED BY <1>1, <2>2 DEF Range
<1>4. s[1] \in Range(s) BY <1>1 DEF Range
<1> QED BY <1>2, <1>3, <1>4

LEMMA RangeAppend ==
  ASSUME NEW S, NEW s \in Seq(S), NEW m \in S
  PROVE  Range(Append(s, m)) = Range(s) \cup {m}
<1>1. /\ Len(s) \in Nat /\ DOMAIN s = 1..Len(s) /\ DOMAIN Append(s, m) = 1..(Len(s) + 1)
      /\ \A i \in 1..Len(s) : Append(s, m)[i] = s[i]
      /\ Append(s, m)[Len(s) + 1] = m
  BY AppendTo
<1>2. \A i \in 1..(Len(s) + 1) : i \in 1..Len(s) \/ i = Len(s) + 1 BY <1>1
<1>3. 1..Len(s) \subseteq 1..(Len(s) + 1) /\ Len(s) + 1 \in 1..(Len(s) + 1) BY <1>1
<1> QED BY <1>1, <1>2, <1>3 DEF Range

(* One event is taken; it was the only one if it was a connection.         *)
LEMMA Took ==
  ASSUME NEW q \in Seq(Events), q # <<>>, NEW type, NEW c, Head(q) = Event(type, c)
  PROVE  /\ Changed(q, Tail(q), c, {type}, {})
         /\ Event(type, c) \in Range(q)
         /\ Single(q) /\ type = "Connecting" => Event(type, c) \notin Range(Tail(q))
<1>1. /\ Len(q) \in Nat \ {0} /\ DOMAIN q = 1..Len(q)
      /\ Head(q) = q[1] /\ q[1] \in Events
      /\ Tail(q) \in Seq(Events) /\ Len(Tail(q)) = Len(q) - 1
      /\ DOMAIN Tail(q) = 1..(Len(q) - 1)
      /\ \A i \in 1..(Len(q) - 1) : Tail(q)[i] = q[i + 1]
  BY TailOf
<1>2. Range(q) = {Event(type, c)} \cup Range(Tail(q)) BY <1>1, RangeTail
<1>3. q[1].type = type /\ q[1].of = c BY <1>1 DEF Event
<1>4. Event(type, c).type = type /\ Event(type, c).of = c BY DEF Event
<1>5. Count(q, "ListenerAccepted", Len(q)) =
        Count(Tail(q), "ListenerAccepted", Len(Tail(q)))
        + (IF type = "ListenerAccepted" THEN 1 ELSE 0)
  <2>1. Len(q) - 1 \in 0..(Len(q) - 1) /\ Len(q) - 1 + 1 = Len(q) BY <1>1
  <2>2. Count(q, "ListenerAccepted", Len(q) - 1 + 1) =
          Count(Tail(q), "ListenerAccepted", Len(q) - 1)
          + (IF q[1].type = "ListenerAccepted" THEN 1 ELSE 0)
    BY <2>1, CountTail
  <2> QED BY <1>1, <1>3, <2>1, <2>2
<1>6. /\ Count(q, "ListenerAccepted", Len(q)) \in Nat
      /\ Count(Tail(q), "ListenerAccepted", Len(Tail(q))) \in Nat
  BY <1>1, AmongFinite
<1>7. Single(q) => Single(Tail(q))
  <2>1. SUFFICES ASSUME Single(q), NEW i \in 1..(Len(q) - 1), NEW j \in 1..(Len(q) - 1),
                        Tail(q)[i] = Tail(q)[j], Tail(q)[i].type = "Connecting"
                 PROVE  i = j
    BY <1>1 DEF Single
  <2>2. i + 1 \in DOMAIN q /\ j + 1 \in DOMAIN q BY <1>1
  <2>3. q[i + 1] = q[j + 1] /\ q[i + 1].type = "Connecting" BY <1>1, <2>1
  <2>4. i + 1 = j + 1 BY <2>1, <2>2, <2>3 DEF Single
  <2> QED BY <2>4
<1>8. Single(q) /\ type = "Connecting" => Event(type, c) \notin Range(Tail(q))
  <2>1. SUFFICES ASSUME Single(q), type = "Connecting", NEW i \in 1..(Len(q) - 1),
                        Tail(q)[i] = Event(type, c)
                 PROVE  FALSE
    BY <1>1 DEF Range
  <2>2. i + 1 \in DOMAIN q /\ 1 \in DOMAIN q /\ i + 1 # 1 BY <1>1
  <2>3. q[i + 1] = q[1] BY <1>1, <2>1
  <2> QED BY <1>3, <2>1, <2>2, <2>3 DEF Single
<1>9. \A e \in Events : e \in Range(q) => e \in Range(Tail(q)) \/ e.type \in {type}
  BY <1>2, <1>4
<1>10. \A e \in Events : e.of # c => (e \in Range(Tail(q)) <=> e \in Range(q))
  BY <1>2, <1>4
<1>11. \A e \in Events : e \in Range(Tail(q)) => e \in Range(q) BY <1>2
<1>12. Count(Tail(q), "ListenerAccepted", Len(Tail(q))) =
         Count(q, "ListenerAccepted", Len(q))
         - (IF "ListenerAccepted" \in {type} THEN 1 ELSE 0)
         + (IF "ListenerAccepted" \in {} THEN 1 ELSE 0)
  BY <1>5, <1>6
<1> QED BY <1>1, <1>2, <1>7, <1>8, <1>9, <1>10, <1>11, <1>12 DEF Changed

LEMMA Posted ==
  ASSUME NEW q \in Seq(Events), NEW type, NEW c, Event(type, c) \in Events
  PROVE  Changed(q, Append(q, Event(type, c)), c, {}, {type})
<1> DEFINE s == Append(q, Event(type, c))
<1>1. /\ s \in Seq(Events) /\ Len(q) \in Nat /\ DOMAIN q = 1..Len(q)
      /\ Len(s) = Len(q) + 1 /\ DOMAIN s = 1..(Len(q) + 1)
      /\ \A i \in 1..Len(q) : s[i] = q[i]
      /\ s[Len(q) + 1] = Event(type, c)
  BY AppendTo
<1>2. Range(s) = Range(q) \cup {Event(type, c)} BY RangeAppend
<1>3. Event(type, c).type = type /\ Event(type, c).of = c BY DEF Event
<1>4. Count(s, "ListenerAccepted", Len(s)) =
        Count(q, "ListenerAccepted", Len(q)) + (IF type = "ListenerAccepted" THEN 1 ELSE 0)
  BY <1>1, <1>3, CountAppend
<1>5. Count(q, "ListenerAccepted", Len(q)) \in Nat BY <1>1, AmongFinite
<1>6. Single(q) /\ type # "Connecting" => Single(s)
  <2>1. SUFFICES ASSUME Single(q), type # "Connecting", NEW i \in 1..(Len(q) + 1),
                        NEW j \in 1..(Len(q) + 1), s[i] = s[j], s[i].type = "Connecting"
                 PROVE  i = j
    BY <1>1 DEF Single
  <2>2. i # Len(q) + 1 /\ j # Len(q) + 1 BY <1>1, <1>3, <2>1
  <2>3. i \in DOMAIN q /\ j \in DOMAIN q BY <1>1, <2>2
  <2>4. q[i] = q[j] /\ q[i].type = "Connecting" BY <1>1, <2>1, <2>3
  <2> QED BY <2>1, <2>3, <2>4 DEF Single
<1> HIDE DEF s
<1>7. \A e \in Events : e.of # c => (e \in Range(s) <=> e \in Range(q)) BY <1>2, <1>3
<1>8. \A e \in Events : e \in Range(s) => e \in Range(q) \/ e.type \in {type} BY <1>2, <1>3
<1>9. \A e \in Events : e \in Range(q) => e \in Range(s) BY <1>2
<1>10. \A e \in Events : e.of = c /\ e.type \in {type} => e \in Range(s)
  <2>1. ASSUME NEW e \in Events, e.of = c, e.type = type PROVE e = Event(type, c)
    BY <2>1 DEF Event, Events
  <2> QED BY <1>2, <2>1
<1>11. Count(s, "ListenerAccepted", Len(s)) =
         Count(q, "ListenerAccepted", Len(q))
         - (IF "ListenerAccepted" \in {} THEN 1 ELSE 0)
         + (IF "ListenerAccepted" \in {type} THEN 1 ELSE 0)
  BY <1>4, <1>5
<1>12. Single(q) /\ "Connecting" \notin {type} => Single(s) BY <1>6
<1>13. Changed(q, s, c, {}, {type})
  BY <1>1, <1>7, <1>8, <1>9, <1>10, <1>11, <1>12 DEF Changed
<1> QED BY <1>13 DEF s

LEMMA Answered ==
  ASSUME NEW q \in Seq(Events), q # <<>>, NEW type, NEW new, NEW c,
         Head(q) = Event(type, c), Event(new, c) \in Events
  PROVE  Changed(q, Append(Tail(q), Event(new, c)), c, {type}, {new})
<1>1. Changed(q, Tail(q), c, {type}, {}) BY Took
<1>2. Tail(q) \in Seq(Events) BY <1>1 DEF Changed
<1>3. Changed(Tail(q), Append(Tail(q), Event(new, c)), c, {}, {new}) BY <1>2, Posted
<1> DEFINE t == Tail(q)
           s == Append(Tail(q), Event(new, c))
<1> HIDE DEF t, s
<1>4. Changed(q, t, c, {type}, {}) /\ Changed(t, s, c, {}, {new}) BY <1>1, <1>3 DEF t, s
<1>5. Len(q) \in Int BY LenProperties
<1>6. Count(q, "ListenerAccepted", Len(q)) \in Nat BY <1>5, AmongFinite
<1>7. Count(s, "ListenerAccepted", Len(s)) =
         Count(q, "ListenerAccepted", Len(q))
         - (IF "ListenerAccepted" \in {type} THEN 1 ELSE 0)
         + (IF "ListenerAccepted" \in {new} THEN 1 ELSE 0)
  BY <1>4, <1>6 DEF Changed
<1>8. Changed(q, s, c, {type}, {new})
  BY <1>4, <1>7 DEF Changed
<1> QED BY <1>8 DEF s

LEMMA PostedFirst ==
  ASSUME NEW q \in Seq(Events), q = <<>>, NEW type, NEW c, Event(type, c) \in Events
  PROVE  Changed(q, <<Event(type, c)>>, c, {}, {type})
<1>1. Append(q, Event(type, c)) = <<Event(type, c)>> OBVIOUS
<1> QED BY <1>1, Posted

LEMMA Untouched ==
  ASSUME NEW q \in Seq(Events), NEW c
  PROVE  Changed(q, q, c, {}, {})
<1>1. Len(q) \in Int BY LenProperties
<1>2. Count(q, "ListenerAccepted", Len(q)) \in Nat BY <1>1, AmongFinite
<1> QED BY <1>2 DEF Changed

-----------------------------------------------------------------------------
(***************************************************************************)
(* A step about one connection leaves the others as they were.             *)
(***************************************************************************)
Same(d) ==
  /\ conn'[d] = conn[d] /\ on'[d] = on[d]
  /\ net'[d].peer = "away" <=> net[d].peer = "away"
  /\ d \in Range(waiting') <=> d \in Range(waiting)
  /\ d \in members' <=> d \in members
  /\ d \in leaving' <=> d \in leaving

LEMMA EventTyped ==
  ASSUME NEW d \in Conns
  PROVE  /\ Event("Connecting", d) \in Events /\ Event("Connecting", d).of = d
         /\ Event("Connecting", d).type = "Connecting"
         /\ Event("Gone", d) \in Events /\ Event("Gone", d).of = d
         /\ Event("Gone", d).type = "Gone"
         /\ Event("Success", d) \in Events /\ Event("Success", d).of = d
         /\ Event("Success", d).type = "Success"
         /\ Event("Failure", d) \in Events /\ Event("Failure", d).of = d
         /\ Event("Failure", d).type = "Failure"
BY DEF Event, Events

Hears(d) ==
  \A type \in {"Connecting", "Gone", "Success", "Failure"} :
    Listed(type, d)' <=> Listed(type, d)

LEMMA Elsewhere ==
  ASSUME NEW d \in Conns, Hears(d), Same(d), Kept(d), Fresh(d)
  PROVE  Kept(d)' /\ Fresh(d)'
<1>1. /\ Listed("Connecting", d)' <=> Listed("Connecting", d)
      /\ Listed("Gone", d)' <=> Listed("Gone", d)
      /\ Over(d)' <=> Over(d)
  BY DEF Hears, Over
<1>2. InOrder(conn[d], on[d], d \in Range(waiting), d \in members, d \in leaving)'
  <2>1. InOrder(conn[d], on[d], d \in Range(waiting), d \in members, d \in leaving)
    BY DEF Kept
  <2> QED BY <2>1 DEF Same, InOrder, Ownership, Calls, Held
<1>3. Pending(conn[d], on[d], Listed("Gone", d), Over(d))'
  BY <1>1 DEF Kept, Same, Pending
<1>4. Fresh(d)' BY <1>1 DEF Fresh, Same
<1> QED BY <1>2, <1>3, <1>4 DEF Kept

LEMMA HearsStill ==
  ASSUME NEW c, NEW d \in Conns, d # c, NEW lost, NEW new,
         Changed(queue, queue', c, lost, new)
  PROVE  Hears(d)
<1>1. ASSUME NEW type \in {"Connecting", "Gone", "Success", "Failure"}
      PROVE  Listed(type, d)' <=> Listed(type, d)
  <2>1. Event(type, d) \in Events /\ Event(type, d).of = d BY DEF Event, Events
  <2>2. Event(type, d) \in Range(queue') <=> Event(type, d) \in Range(queue)
    BY <2>1 DEF Changed
  <2> QED BY <2>2 DEF Listed, Event
<1> QED BY <1>1 DEF Hears

(* A connection that has something keeps nothing of a first event.         *)
LEMMA StillFresh ==
  ASSUME NEW c \in Conns, NEW lost, NEW new, Changed(queue, queue', c, lost, new),
         "Connecting" \notin new, Fresh(c), net'[c].peer = "away" => net[c].peer = "away",
         \/ conn'[c] = conn[c] /\ on'[c] = on[c]
         \/ conn[c] # NoConn \/ on[c] # NoHandlers
  PROVE  Fresh(c)'
<1>1. Listed("Connecting", c)' => Listed("Connecting", c)
  <2> DEFINE first == Event("Connecting", c)
  <2>1. first \in Events /\ first.type \notin new BY DEF Event, Events
  <2>2. first \in Range(queue') => first \in Range(queue) BY <2>1 DEF Changed
  <2> QED BY <2>2 DEF Listed, Event
<1> QED BY <1>1 DEF Fresh

LEMMA OneStep ==
  ASSUME ListenerInv, app # "aborted", NEW c \in Conns, NEW lost, NEW new,
         Changed(queue, queue', c, lost, new), "Connecting" \notin new,
         \A d \in Conns \ {c} : Same(d),
         TypeOK', app' # "aborted", Kept(c)', Fresh(c)',
         app' # "stopped" => Announced'
  PROVE  ListenerInv'
<1>1. ASSUME NEW d \in Conns, d # c PROVE Kept(d)' /\ Fresh(d)'
  BY <1>1, HearsStill, Elsewhere DEF ListenerInv
<1>2. Single(queue)' BY DEF ListenerInv, Changed
<1> QED BY <1>1, <1>2 DEF ListenerInv

(* The types, when a step changes the objects and the handlers of one.     *)
LEMMA TypesKept ==
  ASSUME TypeOK, NEW c \in Conns, NEW r \in Objects, NEW h \in Handlers,
         conn' = [conn EXCEPT ![c] = r], on' = [on EXCEPT ![c] = h],
         queue' \in Seq(Events), net' \in [Conns -> Ends],
         UNCHANGED <<secure, waiting, members, leaving, app>>
  PROVE  /\ TypeOK' /\ conn'[c] = r /\ on'[c] = h
         /\ \A d \in Conns \ {c} : conn'[d] = conn[d] /\ on'[d] = on[d]
BY DEF TypeOK

(* A step of the kind most handlers are: an event about c goes, another    *)
(* may come, and the objects and the handlers of c change.                 *)
LEMMA Handled ==
  ASSUME ListenerInv, app # "aborted", NEW c \in Conns, NEW r \in Objects, NEW h \in Handlers,
         NEW lost, NEW new, Changed(queue, queue', c, lost, new),
         "Connecting" \notin new,
         "ListenerAccepted" \notin lost, "ListenerAccepted" \notin new,
         conn' = [conn EXCEPT ![c] = r], on' = [on EXCEPT ![c] = h],
         net' \in [Conns -> Ends], \A d \in Conns : net'[d].peer = "away" <=> net[d].peer = "away",
         UNCHANGED <<secure, waiting, members, leaving, app>>,
         InOrder(r, h, c \in Range(waiting), c \in members, c \in leaving),
         r.proxy = "closed" => "Gone" \in new \/ (Listed("Gone", c) /\ "Gone" \notin lost),
         \/ r.unknown # "live" \/ h.timer = "unknown"
         \/ "Success" \in new \/ "Failure" \in new
         \/ Over(c) /\ "Success" \notin lost /\ "Failure" \notin lost,
         (r = conn[c] /\ h = on[c]) \/ conn[c] # NoConn \/ on[c] # NoHandlers
  PROVE  ListenerInv'
<1>1. TypeOK BY DEF ListenerInv
<1>2. queue' \in Seq(Events) BY DEF Changed
<1>3. /\ TypeOK' /\ conn'[c] = r /\ on'[c] = h
      /\ \A d \in Conns \ {c} : conn'[d] = conn[d] /\ on'[d] = on[d]
  BY <1>1, <1>2, TypesKept
<1>4. \A d \in Conns \ {c} : Same(d) BY <1>3 DEF Same
<1>5. Fresh(c) BY DEF ListenerInv
<1>6. Fresh(c)' BY <1>3, <1>5, StillFresh
<1>7. /\ "Gone" \in new \/ (Listed("Gone", c) /\ "Gone" \notin lost) => Listed("Gone", c)'
      /\ \/ "Success" \in new \/ "Failure" \in new
         \/ Over(c) /\ "Success" \notin lost /\ "Failure" \notin lost
         => Over(c)'
  <2>1. ASSUME NEW type \in {"Gone", "Success", "Failure"},
               type \in new \/ (Listed(type, c) /\ type \notin lost)
        PROVE  Listed(type, c)'
    <3>1. Event(type, c) \in Events /\ Event(type, c).of = c /\ Event(type, c).type = type
      BY DEF Event, Events
    <3>2. Event(type, c) \in Range(queue') BY <2>1, <3>1 DEF Changed, Listed
    <3> QED BY <3>2 DEF Listed, Event
  <2> QED BY <2>1 DEF Over
<1>8. Pending(conn[c], on[c], Listed("Gone", c), Over(c))' BY <1>3, <1>7 DEF Pending
<1>9. InOrder(conn[c], on[c], c \in Range(waiting), c \in members, c \in leaving)'
  BY <1>3 DEF InOrder, Ownership, Calls, Held
<1>10. Kept(c)' BY <1>8, <1>9 DEF Kept
<1>11. app' # "stopped" => Announced'
  <2>1. Count(queue', "ListenerAccepted", Len(queue')) = Count(queue, "ListenerAccepted", Len(queue))
    <3>1. queue \in Seq(Events) BY <1>1 DEF TypeOK
    <3>2. Len(queue) \in Int BY <3>1, LenProperties
    <3>3. Count(queue, "ListenerAccepted", Len(queue)) \in Nat BY <3>2, AmongFinite
    <3> QED BY <3>3 DEF Changed
  <2> QED BY <2>1 DEF ListenerInv, Announced
<1> QED BY <1>3, <1>4, <1>6, <1>10, <1>11, OneStep

-----------------------------------------------------------------------------
(***************************************************************************)
(* The steps.                                                              *)
(***************************************************************************)
LEMMA Known ==
  ASSUME ListenerInv, app # "aborted", NEW c \in Conns
  PROVE  /\ queue \in Seq(Events) /\ waiting \in Seq(Conns)
         /\ conn \in [Conns -> Objects] /\ on \in [Conns -> Handlers]
         /\ net \in [Conns -> Ends]
         /\ conn[c] \in Objects /\ on[c] \in Handlers
         /\ InOrder(conn[c], on[c], c \in Range(waiting), c \in members, c \in leaving)
         /\ conn[c].proxy = "closed" => Listed("Gone", c)
         /\ conn[c].unknown = "live" => on[c].timer = "unknown" \/ Over(c)
         /\ Fresh(c) /\ Single(queue)
BY DEF ListenerInv, TypeOK, Kept, Pending

(* The handler of an event at the head of the queue.                       *)
LEMMA Taken ==
  ASSUME NEW q \in Seq(Events), NEW type, NEW c \in Conns, q # <<>>,
         Head(q) = Event(type, c)
  PROVE  /\ Changed(q, Tail(q), c, {type}, {})
         /\ \A new : Event(new, c) \in Events =>
              Changed(q, Append(Tail(q), Event(new, c)), c, {type}, {new})
BY Took, Answered

LEMMA StepDisconnectedOnAccept ==
  ASSUME ListenerInv, NEW c \in Conns, DisconnectedOnAccept(c)
  PROVE  ListenerInv'
<1> DEFINE r == [conn[c] EXCEPT !.socket = "freed"]
           h == [on[c] EXCEPT !.accept = "nobody"]
<1>1. app # "aborted" BY DEF DisconnectedOnAccept, At, Up
<1>2. r \in Objects /\ h \in Handlers /\ r.proxy = "none" /\ r.unknown = "none"
      /\ InOrder(r, h, c \in Range(waiting), c \in members, c \in leaving)
  <2>1. on[c].accept = "listener" BY DEF DisconnectedOnAccept
  <2> QED BY <1>1, <2>1, Known, WhenRefused
<1>3. Changed(queue, queue', c, {"DisconnectedOnAccept"}, {})
  BY <1>1, Known, Taken DEF DisconnectedOnAccept, At, Drop
<1>4. conn' = [conn EXCEPT ![c] = r] /\ on' = [on EXCEPT ![c] = h]
      /\ on[c] # NoHandlers /\ UNCHANGED <<secure, waiting, members, leaving, app, net>>
  BY DEF DisconnectedOnAccept, NoHandlers
<1>5. net' \in [Conns -> Ends] BY <1>1, <1>4, Known
<1> HIDE DEF r, h
<1> QED BY <1>1, <1>2, <1>3, <1>4, <1>5, Handled

LEMMA StepAccepted ==
  ASSUME ListenerInv, NEW c \in Conns, HandleClientAccepted(c)
  PROVE  ListenerInv'
<1> DEFINE r == [conn[c] EXCEPT !.filter = "live", !.unknown = "live", !.holds = "stream"]
           h == [NoHandlers EXCEPT !.stream = "unknown", !.timer = "unknown",
                                   !.outcome = "listener"]
<1>1. app # "aborted" BY DEF HandleClientAccepted, At, Up
<1>2. r \in Objects /\ h \in Handlers /\ r.proxy = "none" /\ h.timer = "unknown"
      /\ InOrder(r, h, c \in Range(waiting), c \in members, c \in leaving)
  <2>1. on[c].accept = "listener" BY DEF HandleClientAccepted
  <2> QED BY <1>1, <2>1, Known, WhenAccepted
<1>3. Changed(queue, queue', c, {"Accepted"}, {})
  BY <1>1, Known, Taken DEF HandleClientAccepted, At, Drop
<1>4. conn' = [conn EXCEPT ![c] = r] /\ on' = [on EXCEPT ![c] = h]
      /\ on[c] # NoHandlers /\ UNCHANGED <<secure, waiting, members, leaving, app, net>>
  BY DEF HandleClientAccepted, NoHandlers
<1>5. net' \in [Conns -> Ends] BY <1>1, <1>4, Known
<1> HIDE DEF r, h
<1> QED BY <1>1, <1>2, <1>3, <1>4, <1>5, Handled

(* The unknown client fails: after an event, or by its timer.              *)
LEMMA Failing ==
  ASSUME ListenerInv, app # "aborted", NEW c \in Conns, conn[c].unknown = "live",
         SendFailure(c, conn[c], on[c]),
         NEW lost, "ListenerAccepted" \notin lost,
         Changed(queue, queue', c, lost, {"Failure"}),
         net' \in [Conns -> Ends], \A d \in Conns : net'[d].peer = "away" <=> net[d].peer = "away",
         UNCHANGED <<secure, waiting, members, leaving, app>>
  PROVE  ListenerInv'
<1> DEFINE r == [IF conn[c].holds = "proxy"
                   THEN [WithoutProxy(conn[c]) EXCEPT !.holds = "nothing"]
                   ELSE conn[c] EXCEPT !.ready = FALSE]
           h == [UnknownSilent(on[c], conn[c]) EXCEPT !.outcome = on[c].outcome]
<1>1. r \in Objects /\ h \in Handlers /\ r.proxy # "closed"
      /\ InOrder(r, h, c \in Range(waiting), c \in members, c \in leaving)
  BY Known, WhenFailed
<1>2. conn' = [conn EXCEPT ![c] = r] /\ on' = [on EXCEPT ![c] = h] BY DEF SendFailure
<1>3. conn[c] # NoConn BY DEF NoConn
<1> HIDE DEF r, h
<1> QED BY <1>1, <1>2, <1>3, Handled

(* Nothing but the queue and what the other end sends changes.             *)
LEMMA Quiet ==
  ASSUME ListenerInv, app # "aborted", NEW c \in Conns, NEW lost, NEW new,
         Changed(queue, queue', c, lost, new), "Connecting" \notin new,
         "ListenerAccepted" \notin lost, "ListenerAccepted" \notin new,
         net' \in [Conns -> Ends],
         \A d \in Conns : net'[d].peer = "away" <=> net[d].peer = "away",
         UNCHANGED <<secure, conn, on, waiting, members, leaving, app>>,
         "Gone" \in lost => conn[c].proxy # "closed",
         "Success" \in lost \/ "Failure" \in lost => conn[c].unknown # "live"
  PROVE  ListenerInv'
<1> DEFINE r == conn[c]
           h == on[c]
<1>1. /\ r \in Objects /\ h \in Handlers
      /\ InOrder(r, h, c \in Range(waiting), c \in members, c \in leaving)
      /\ r.proxy = "closed" => Listed("Gone", c)
      /\ r.unknown = "live" => h.timer = "unknown" \/ Over(c)
  BY Known
<1>2. conn' = [conn EXCEPT ![c] = r] /\ on' = [on EXCEPT ![c] = h]
  BY Known
<1>3. r = conn[c] /\ h = on[c] OBVIOUS
<1>4. r.proxy = "closed" => Listed("Gone", c) /\ "Gone" \notin lost BY <1>1
<1>5. \/ r.unknown # "live" \/ h.timer = "unknown"
      \/ Over(c) /\ "Success" \notin lost /\ "Failure" \notin lost
  BY <1>1
<1>6. /\ ListenerInv /\ app # "aborted" /\ c \in Conns
      /\ Changed(queue, queue', c, lost, new) /\ "Connecting" \notin new
      /\ "ListenerAccepted" \notin lost /\ "ListenerAccepted" \notin new
      /\ net' \in [Conns -> Ends]
      /\ \A d \in Conns : net'[d].peer = "away" <=> net[d].peer = "away"
      /\ UNCHANGED <<secure, waiting, members, leaving, app>>
  OBVIOUS
<1> HIDE DEF r, h
<1> QED BY ONLY <1>1, <1>2, <1>3, <1>4, <1>5, <1>6, Handled

LEMMA StepSecureAccept ==
  ASSUME ListenerInv, NEW c \in Conns, SecureAccept(c)
  PROVE  ListenerInv'
<1>1. app # "aborted" BY DEF SecureAccept, Up
<1>2. PICK type \in {"Accepted", "DisconnectedOnAccept"} :
        queue' = Append(queue, Event(type, c))
  BY DEF SecureAccept
<1>3. Event(type, c) \in Events BY DEF Event, Events
<1>4. Changed(queue, queue', c, {}, {type}) BY <1>1, <1>2, <1>3, Known, Posted
<1>5. UNCHANGED <<secure, conn, on, waiting, members, leaving, app, net>> BY DEF SecureAccept
<1>6. net' \in [Conns -> Ends] BY <1>1, <1>5, Known
<1> QED BY <1>1, <1>4, <1>5, <1>6, Quiet

LEMMA StepSend ==
  ASSUME ListenerInv, NEW c \in Conns, Send(c)
  PROVE  ListenerInv'
<1>1. app # "aborted" BY DEF Send, Up
<1>2. net \in [Conns -> Ends] /\ queue \in Seq(Events) BY <1>1, Known
<1>3. PICK packet \in Packets :
        net' = [net EXCEPT ![c].sent = @ + 1, ![c].socket = Append(@, packet)]
  BY <1>2 DEF Send, Packets
<1>4. /\ net[c].sent + 1 \in 0..MaxPackets /\ Append(net[c].socket, packet) \in Seq(Packets)
      /\ net[c] \in Ends
  <2>1. net[c].sent \in 0..MaxPackets /\ net[c].socket \in Seq(Packets) BY <1>2 DEF Ends
  <2>2. net[c].sent < MaxPackets BY DEF Send
  <2> QED BY <1>2, <2>1, <2>2, ListenerAssumption
<1> DEFINE e == [net[c] EXCEPT !.sent = net[c].sent + 1,
                               !.socket = Append(net[c].socket, packet)]
<1>5. e \in Ends /\ e.peer = net[c].peer BY <1>4 DEF Ends
<1>6. net' = [net EXCEPT ![c] = e] BY <1>2, <1>3
<1> HIDE DEF e
<1>7. /\ net' \in [Conns -> Ends]
      /\ \A d \in Conns : net'[d].peer = "away" <=> net[d].peer = "away"
  BY <1>2, <1>5, <1>6
<1>8. UNCHANGED <<secure, conn, on, waiting, members, leaving, app>> BY DEF Send
<1>9. CASE net[c].socket = <<>>
  <2>1. queue' = Append(queue, Event("Input", c)) BY <1>9 DEF Send
  <2>2. Event("Input", c) \in Events BY DEF Event, Events
  <2>3. Changed(queue, queue', c, {}, {"Input"}) BY <1>2, <2>1, <2>2, Posted
  <2> QED BY <1>1, <1>7, <1>8, <2>3, Quiet
<1>10. CASE net[c].socket # <<>>
  <2>1. queue' = queue BY <1>10 DEF Send
  <2>2. Changed(queue, queue', c, {}, {}) BY <1>2, <2>1, Untouched
  <2> QED BY <1>1, <1>7, <1>8, <2>2, Quiet
<1> QED BY <1>9, <1>10

LEMMA StepHangUp ==
  ASSUME ListenerInv, NEW c \in Conns, HangUp(c)
  PROVE  ListenerInv'
<1>1. app # "aborted" BY DEF HangUp, Up
<1>2. net \in [Conns -> Ends] /\ queue \in Seq(Events) BY <1>1, Known
<1>3. PICK type \in {"End", "Error"}, peer \in {"gone", "reset"} :
        /\ net[c].peer # "away" /\ net' = [net EXCEPT ![c].peer = peer]
        /\ queue' = Append(queue, Event(type, c))
  BY DEF HangUp
<1>4. Event(type, c) \in Events BY DEF Event, Events
<1>5. Changed(queue, queue', c, {}, {type}) BY <1>2, <1>3, <1>4, Posted
<1>6. /\ net' \in [Conns -> Ends]
      /\ \A d \in Conns : net'[d].peer = "away" <=> net[d].peer = "away"
  BY <1>2, <1>3 DEF Ends
<1>7. UNCHANGED <<secure, conn, on, waiting, members, leaving, app>> BY DEF HangUp
<1> QED BY <1>1, <1>5, <1>6, <1>7, Quiet

LEMMA StepCloseServer ==
  ASSUME ListenerInv, NEW c \in Conns, CloseServer(c) \/ CloseServerTimeout(c)
  PROVE  ListenerInv'
<1>1. app # "aborted" BY DEF CloseServer, CloseServerTimeout
<1>2. Event("Quit", c) \in Events BY DEF Event, Events
<1>3. UNCHANGED <<secure, conn, on, waiting, members, leaving, app, net>>
  BY DEF CloseServer, CloseServerTimeout
<1>4. net' \in [Conns -> Ends] BY <1>1, <1>3, Known
<1>5. CASE CloseServer(c)
  <2>1. Changed(queue, queue', c, {"ServerDisconnected"}, {"Quit"})
    BY <1>1, <1>2, <1>5, Known, Taken DEF CloseServer, At, Post
  <2> QED BY <1>1, <1>3, <1>4, <2>1, Quiet
<1>6. CASE CloseServerTimeout(c)
  <2>1. Changed(queue, queue', c, {}, {"Quit"})
    BY <1>1, <1>2, <1>6, Known, PostedFirst DEF CloseServerTimeout
  <2> QED BY <1>1, <1>3, <1>4, <2>1, Quiet
<1> QED BY <1>5, <1>6

(* An event nobody hears is not one that its connection still needs.       *)
LEMMA StepUnheard ==
  ASSUME ListenerInv, NEW c \in Conns, Unheard(c)
  PROVE  ListenerInv'
<1>1. app # "aborted" BY DEF Unheard, At, Up
<1>2. PICK type \in {"Accepted", "DisconnectedOnAccept", "Ready", "Gone", "Success",
                     "Failure", "ServerDisconnected"} :
        /\ At(type, c)
        /\ type = "Gone" => on[c].gone = "nobody"
        /\ type \in {"Success", "Failure"} => on[c].outcome = "nobody"
  BY DEF Unheard
<1>3. Changed(queue, queue', c, {type}, {})
  BY <1>1, <1>2, Known, Taken DEF Unheard, At, Drop
<1>4. UNCHANGED <<secure, conn, on, waiting, members, leaving, app, net>> BY DEF Unheard
<1>5. net' \in [Conns -> Ends] BY <1>1, <1>4, Known
<1>6. on[c].gone = "nobody" => conn[c].proxy # "closed"
  BY <1>1, Known DEF InOrder, Ownership, Calls
<1>7. on[c].outcome = "nobody" => conn[c].unknown # "live"
  BY <1>1, Known DEF InOrder, Calls
<1> QED BY <1>1, <1>2, <1>3, <1>4, <1>5, <1>6, <1>7, Quiet

(***************************************************************************)
(* The unknown client.                                                     *)
(***************************************************************************)
LEMMA StepInput ==
  ASSUME ListenerInv, NEW c \in Conns, HandleInput(c)
  PROVE  ListenerInv'
<1> DEFINE all == net[c].inbox \o net[c].socket
           told == net[c].inbox = <<>> /\ all # <<>>
           who == IF conn[c].filter # "live" \/ ~told THEN "nobody" ELSE on[c].stream
           rest == CASE who = "unknown" -> Tail(all) [] who = "proxy" -> <<>> [] OTHER -> all
<1>1. app # "aborted" BY DEF HandleInput, At, Up
<1>2. /\ net \in [Conns -> Ends] /\ queue \in Seq(Events)
      /\ conn \in [Conns -> Objects] /\ on \in [Conns -> Handlers]
      /\ conn[c] \in Objects /\ on[c] \in Handlers
      /\ InOrder(conn[c], on[c], c \in Range(waiting), c \in members, c \in leaving)
  BY <1>1, Known
<1>3. /\ queue # <<>> /\ Head(queue) = Event("Input", c)
      /\ UNCHANGED <<secure, waiting, members, leaving, app>>
  BY DEF HandleInput, At
<1>4. all \in Seq(Packets) /\ (who = "unknown" => all # <<>>)
  <2>1. net[c].inbox \in Seq(Packets) /\ net[c].socket \in Seq(Packets) BY <1>2 DEF Ends
  <2> QED BY <2>1, ConcatProperties
<1>5. /\ net' = IF conn[c].filter # "live" THEN net
                ELSE [net EXCEPT ![c].inbox = rest, ![c].socket = <<>>]
      /\ CASE who = "unknown" -> ReadHello(c, Head(all))
           [] who = "proxy" -> ReadInfo(c, all)
           [] OTHER -> Drop /\ UNCHANGED <<conn, on>>
  BY DEF HandleInput
<1>6. /\ who \in {"nobody", "unknown", "proxy"}
      /\ who = "unknown" => on[c].stream = "unknown"
      /\ who = "proxy" => on[c].stream = "proxy"
  BY <1>2 DEF Handlers
<1> HIDE DEF all, who
<1>7. /\ net' \in [Conns -> Ends]
      /\ \A d \in Conns : net'[d].peer = "away" <=> net[d].peer = "away"
  <2>1. rest \in Seq(Packets)
    <3>1. who = "unknown" => Tail(all) \in Seq(Packets) BY <1>4, TailOf
    <3>2. <<>> \in Seq(Packets) BY NoMessage
    <3> QED BY <1>4, <3>1, <3>2
  <2> HIDE DEF rest
  <2> DEFINE e == [net[c] EXCEPT !.inbox = rest, !.socket = <<>>]
  <2>2. e \in Ends /\ e.peer = net[c].peer
    <3>1. net[c] \in Ends /\ <<>> \in Seq(Packets) BY <1>2, NoMessage
    <3> QED BY <2>1, <3>1 DEF Ends
  <2>3. net' = net \/ net' = [net EXCEPT ![c] = e] BY <1>2, <1>5
  <2> HIDE DEF e
  <2> QED BY <1>2, <2>2, <2>3
<1> HIDE DEF rest
<1>8. /\ Changed(queue, Tail(queue), c, {"Input"}, {})
      /\ Changed(queue, Append(Tail(queue), Event("Ready", c)), c, {"Input"}, {"Ready"})
      /\ Changed(queue, Append(Tail(queue), Event("Failure", c)), c, {"Input"}, {"Failure"})
  <2>1. Event("Ready", c) \in Events /\ Event("Failure", c) \in Events BY DEF Event, Events
  <2> QED BY <1>2, <1>3, <2>1, Taken
<1>9. CASE who = "unknown"
  <2>1. ReadHello(c, Head(all)) BY <1>5, <1>9
  <2>2. on[c].stream = "unknown" /\ conn[c].unknown = "live" /\ conn[c] # NoConn
    BY <1>2, <1>6, <1>9 DEF InOrder, Ownership, Calls, NoConn
  <2>3. CASE Head(all) = "hello"
    <3> DEFINE r == [conn[c] EXCEPT !.proxy = "live", !.holds = "proxy"]
               h == [on[c] EXCEPT !.stream = "proxy", !.ready = "unknown", !.gone = "unknown"]
    <3>1. /\ r \in Objects /\ h \in Handlers
          /\ InOrder(r, h, c \in Range(waiting), c \in members, c \in leaving)
          /\ r.proxy = "live" /\ r.unknown = conn[c].unknown /\ h.timer = on[c].timer
      BY <1>2, <2>2, WhenAnswered
    <3>2. conn' = [conn EXCEPT ![c] = r] /\ on' = [on EXCEPT ![c] = h] /\ queue' = Tail(queue)
      BY <2>1, <2>3 DEF ReadHello, Drop
    <3>3. h.timer = "unknown" \/ Over(c) BY <1>1, <2>2, <3>1, Known
    <3> HIDE DEF r, h
    <3> QED BY <1>1, <1>3, <1>7, <1>8, <2>2, <3>1, <3>2, <3>3, Handled
  <2>4. CASE Head(all) # "hello"
    <3>1. SendFailure(c, conn[c], on[c]) /\ queue' = Append(Tail(queue), Event("Failure", c))
      BY <2>1, <2>4 DEF ReadHello, Post
    <3> QED BY <1>1, <1>3, <1>7, <1>8, <2>2, <3>1, Failing
  <2> QED BY <2>3, <2>4
<1>10. CASE who = "proxy"
  <2>1. ReadInfo(c, all) BY <1>5, <1>10
  <2>2. on[c].stream = "proxy" /\ on[c] # NoHandlers BY <1>6, <1>10 DEF NoHandlers
  <2> DEFINE g == [on[c] EXCEPT !.alarm = "proxy"]
             s == [conn[c] EXCEPT !.info = TRUE]
  <2>3. /\ g \in Handlers /\ s \in Objects
        /\ InOrder(s, g, c \in Range(waiting), c \in members, c \in leaving)
        /\ InOrder(conn[c], g, c \in Range(waiting), c \in members, c \in leaving)
        /\ s.proxy = conn[c].proxy /\ s.unknown = conn[c].unknown /\ g.timer = on[c].timer
    BY <1>2, <2>2, WhenInformed
  <2>4. on' = [on EXCEPT ![c] = g] BY <2>1 DEF ReadInfo
  <2>5. /\ conn[c].proxy = "closed" => Listed("Gone", c)
        /\ conn[c].unknown = "live" => g.timer = "unknown" \/ Over(c)
    BY <1>1, <2>3, Known
  <2>6. \/ conn' = [conn EXCEPT ![c] = s] /\ queue' = Append(Tail(queue), Event("Ready", c))
        \/ conn' = [conn EXCEPT ![c] = conn[c]] /\ queue' = Tail(queue)
    BY <1>2, <2>1 DEF ReadInfo, Post, Drop
  <2> HIDE DEF g, s
  <2>7. CASE conn' = [conn EXCEPT ![c] = s] /\ queue' = Append(Tail(queue), Event("Ready", c))
    BY <1>1, <1>3, <1>7, <1>8, <2>2, <2>3, <2>4, <2>5, <2>7, Handled
  <2>8. CASE conn' = [conn EXCEPT ![c] = conn[c]] /\ queue' = Tail(queue)
    BY <1>1, <1>2, <1>3, <1>7, <1>8, <2>2, <2>3, <2>4, <2>5, <2>8, Handled
  <2> QED BY <2>6, <2>7, <2>8
<1>11. CASE who = "nobody"
  <2>1. queue' = Tail(queue) /\ UNCHANGED <<conn, on>> BY <1>5, <1>11 DEF Drop
  <2> QED BY <1>1, <1>3, <1>7, <1>8, <2>1, Quiet
<1> QED BY <1>6, <1>9, <1>10, <1>11

(* The proxy closes: after an event, or by its alarm.                      *)
LEMMA Closing ==
  ASSUME ListenerInv, app # "aborted", NEW c \in Conns,
         on[c].stream = "proxy" \/ on[c].alarm = "proxy",
         conn' = [conn EXCEPT ![c] = [@ EXCEPT !.proxy = "closed", !.socket = "closed"]],
         on' = [on EXCEPT ![c] = ProxySilent(@)],
         NEW lost, Changed(queue, queue', c, lost, {"Gone"}),
         lost \cap {"ListenerAccepted", "Success", "Failure"} = {},
         UNCHANGED <<secure, waiting, members, leaving, app, net>>
  PROVE  ListenerInv'
<1> DEFINE r == [conn[c] EXCEPT !.proxy = "closed", !.socket = "closed"]
           h == ProxySilent(on[c])
<1>1. /\ r \in Objects /\ h \in Handlers
      /\ InOrder(r, h, c \in Range(waiting), c \in members, c \in leaving)
      /\ r.unknown = conn[c].unknown /\ h.timer = on[c].timer
  BY Known, WhenClosed
<1>2. conn' = [conn EXCEPT ![c] = r] /\ on' = [on EXCEPT ![c] = h] OBVIOUS
<1>3. on[c] # NoHandlers BY DEF NoHandlers
<1>4. r.unknown = "live" => h.timer = "unknown" \/ Over(c) BY <1>1, Known
<1>5. net' \in [Conns -> Ends] BY Known
<1> HIDE DEF r, h
<1> QED BY <1>1, <1>2, <1>3, <1>4, <1>5, Handled

LEMMA StepStreamEnd ==
  ASSUME ListenerInv, NEW c \in Conns, HandleStreamEnd(c)
  PROVE  ListenerInv'
<1>1. app # "aborted" BY DEF HandleStreamEnd, At, Up
<1>2. PICK type \in {"End", "Error"} :
       /\ At(type, c)
       /\ IF type = "End" /\ conn[c].filter = "live" /\ net[c].inbox # <<>>
            THEN net' = [net EXCEPT ![c].shut = TRUE] /\ Drop /\ UNCHANGED <<conn, on>>
            ELSE /\ UNCHANGED net
                 /\ IF conn[c].filter = "live" THEN GiveUp(c) ELSE Drop /\ UNCHANGED <<conn, on>>
  BY DEF HandleStreamEnd
<1>3. /\ net \in [Conns -> Ends] /\ queue \in Seq(Events)
      /\ InOrder(conn[c], on[c], c \in Range(waiting), c \in members, c \in leaving)
      /\ on[c] \in Handlers
  BY <1>1, Known
<1>4. UNCHANGED <<secure, waiting, members, leaving, app>> BY DEF HandleStreamEnd
<1>5. queue # <<>> /\ Head(queue) = Event(type, c) BY <1>2 DEF At
<1>6. /\ Changed(queue, Tail(queue), c, {type}, {})
      /\ Changed(queue, Append(Tail(queue), Event("Gone", c)), c, {type}, {"Gone"})
      /\ Changed(queue, Append(Tail(queue), Event("Failure", c)), c, {type}, {"Failure"})
  <2>1. Event("Gone", c) \in Events /\ Event("Failure", c) \in Events BY DEF Event, Events
  <2> QED BY <1>3, <1>5, <2>1, Taken
<1>7. /\ net' \in [Conns -> Ends]
      /\ \A d \in Conns : net'[d].peer = "away" <=> net[d].peer = "away"
  <2>1. CASE net' = [net EXCEPT ![c].shut = TRUE] BY <1>3, <2>1 DEF Ends
  <2> QED BY <1>2, <1>3, <2>1
<1>8. CASE Drop /\ UNCHANGED <<conn, on>>
  BY <1>1, <1>4, <1>6, <1>7, <1>8, Quiet DEF Drop
<1>9. CASE GiveUp(c) /\ UNCHANGED net
  <2>1. CASE on[c].stream = "unknown"
    <3>1. SendFailure(c, conn[c], on[c]) /\ queue' = Append(Tail(queue), Event("Failure", c))
      BY <1>9, <2>1 DEF GiveUp, Post
    <3>2. conn[c].unknown = "live" BY <1>3, <2>1 DEF InOrder, Ownership, Calls
    <3> QED BY <1>1, <1>4, <1>6, <1>7, <3>1, <3>2, Failing
  <2>2. CASE on[c].stream = "proxy"
    <3>1. Disconnect(c) BY <1>9, <2>2 DEF GiveUp
    <3> QED BY <1>1, <1>4, <1>6, <1>9, <2>2, <3>1, Closing DEF Disconnect, Post
  <2>3. CASE on[c].stream = "nobody"
    <3>1. Drop /\ UNCHANGED <<conn, on>> BY <1>9, <2>3 DEF GiveUp
    <3> QED BY <1>8, <3>1
  <2> QED BY <1>3, <2>1, <2>2, <2>3 DEF Handlers
<1> QED BY <1>2, <1>8, <1>9

LEMMA StepSendSuccess ==
  ASSUME ListenerInv, NEW c \in Conns, SendSuccess(c)
  PROVE  ListenerInv'
<1> DEFINE r == [conn[c] EXCEPT !.ready = TRUE]
           h == [on[c] EXCEPT !.timer = "nobody"]
<1>1. app # "aborted" BY DEF SendSuccess, At, Up
<1>2. /\ r \in Objects /\ h \in Handlers /\ r.proxy = conn[c].proxy
      /\ InOrder(r, h, c \in Range(waiting), c \in members, c \in leaving)
  <2>1. on[c].ready = "unknown" BY DEF SendSuccess
  <2> QED BY <1>1, <2>1, Known, WhenReady
<1>3. Changed(queue, queue', c, {"Ready"}, {"Success"})
  <2>1. Event("Success", c) \in Events BY DEF Event, Events
  <2> QED BY <1>1, <2>1, Known, Taken DEF SendSuccess, At, Post
<1>4. conn' = [conn EXCEPT ![c] = r] /\ on' = [on EXCEPT ![c] = h]
      /\ on[c] # NoHandlers /\ UNCHANGED <<secure, waiting, members, leaving, app, net>>
  BY DEF SendSuccess, NoHandlers
<1>5. net' \in [Conns -> Ends] BY <1>1, <1>4, Known
<1>6. r.proxy = "closed" => Listed("Gone", c) BY <1>1, <1>2, Known
<1> HIDE DEF r, h
<1> QED BY <1>1, <1>2, <1>3, <1>4, <1>5, <1>6, Handled

LEMMA StepTimeout ==
  ASSUME ListenerInv, NEW c \in Conns, HandleTimeout(c)
  PROVE  ListenerInv'
<1>1. app # "aborted" BY DEF HandleTimeout, Up
<1>2. conn[c].unknown = "live" BY <1>1, Known DEF HandleTimeout, InOrder, Calls
<1>3. Changed(queue, queue', c, {}, {"Failure"})
  <2>1. Event("Failure", c) \in Events BY DEF Event, Events
  <2> QED BY <1>1, <2>1, Known, PostedFirst DEF HandleTimeout
<1>4. SendFailure(c, conn[c], on[c]) /\ UNCHANGED <<secure, waiting, members, leaving, app, net>>
  BY DEF HandleTimeout
<1>5. net' \in [Conns -> Ends] BY <1>1, <1>4, Known
<1> QED BY <1>1, <1>2, <1>3, <1>4, <1>5, Failing

LEMMA StepFlatline ==
  ASSUME ListenerInv, NEW c \in Conns, HandleFlatline(c)
  PROVE  ListenerInv'
<1>1. app # "aborted" BY DEF HandleFlatline, Up
<1>2. Changed(queue, queue', c, {}, {"Gone"})
  <2>1. Event("Gone", c) \in Events BY DEF Event, Events
  <2> QED BY <1>1, <2>1, Known, PostedFirst DEF HandleFlatline
<1> QED BY <1>1, <1>2, Closing DEF HandleFlatline

LEMMA StepGoneUnknown ==
  ASSUME ListenerInv, NEW c \in Conns, HandleGoneUnknown(c)
  PROVE  ListenerInv'
<1>1. app # "aborted" BY DEF HandleGoneUnknown, At, Up
<1>2. conn[c].unknown = "live" BY <1>1, Known DEF HandleGoneUnknown, InOrder, Calls, Held
<1>3. Changed(queue, queue', c, {"Gone"}, {"Failure"})
  <2>1. Event("Failure", c) \in Events BY DEF Event, Events
  <2> QED BY <1>1, <2>1, Known, Taken DEF HandleGoneUnknown, At, Post
<1>4. SendFailure(c, conn[c], on[c]) /\ UNCHANGED <<secure, waiting, members, leaving, app, net>>
  BY DEF HandleGoneUnknown
<1>5. net' \in [Conns -> Ends] BY <1>1, <1>4, Known
<1> QED BY <1>1, <1>2, <1>3, <1>4, <1>5, Failing

(* The unknown client is deleted after its failure, or after a success     *)
(* that its proxy's end has undone.                                        *)
LEMMA Removing ==
  ASSUME ListenerInv, app # "aborted", NEW c \in Conns, on[c].outcome = "listener",
         NEW type \in {"Success", "Failure"}, NEW end \in {"closed", "freed"},
         conn' = [conn EXCEPT ![c] = WithoutUnknown(
                    IF @.holds = "stream" THEN [@ EXCEPT !.socket = end] ELSE @)],
         on' = [on EXCEPT ![c] = UnknownSilent(@, conn[c])],
         Changed(queue, queue', c, {type}, {}),
         UNCHANGED <<secure, waiting, members, leaving, app, net>>
  PROVE  ListenerInv'
<1> DEFINE r == WithoutUnknown(IF conn[c].holds = "stream"
                                 THEN [conn[c] EXCEPT !.socket = end] ELSE conn[c])
           h == UnknownSilent(on[c], conn[c])
<1>1. /\ r \in Objects /\ h \in Handlers
      /\ InOrder(r, h, c \in Range(waiting), c \in members, c \in leaving)
      /\ r.proxy # "closed" /\ r.unknown = "freed"
  <2>1. /\ conn[c] \in Objects /\ on[c] \in Handlers
        /\ InOrder(conn[c], on[c], c \in Range(waiting), c \in members, c \in leaving)
    BY Known
  <2> QED BY <2>1, WhenRemoved
<1>2. conn' = [conn EXCEPT ![c] = r] /\ on' = [on EXCEPT ![c] = h] OBVIOUS
<1>3. on[c] # NoHandlers BY DEF NoHandlers
<1>4. net' \in [Conns -> Ends] BY Known
<1> HIDE DEF r, h
<1> QED BY <1>1, <1>2, <1>3, <1>4, Handled

LEMMA StepUnknownFailure ==
  ASSUME ListenerInv, NEW c \in Conns, HandleUnknownFailure(c)
  PROVE  ListenerInv'
<1>1. app # "aborted" BY DEF HandleUnknownFailure, At, Up
<1>2. Changed(queue, queue', c, {"Failure"}, {})
  BY <1>1, Known, Taken DEF HandleUnknownFailure, At, Drop
<1> QED BY <1>1, <1>2, Removing DEF HandleUnknownFailure

(***************************************************************************)
(* A proxy changes hands, or is deleted by the server.                     *)
(***************************************************************************)
LEMMA Moved ==
  ASSUME ListenerInv, app # "aborted", NEW c \in Conns, NEW r \in Objects, NEW h \in Handlers,
         NEW lost, NEW new, Changed(queue, queue', c, lost, new),
         "Connecting" \notin new, lost \subseteq {"Success", "Gone"},
         conn' = [conn EXCEPT ![c] = r], on' = [on EXCEPT ![c] = h],
         waiting' \in Seq(Conns), members' \subseteq Conns, leaving' \subseteq Conns,
         members' \cap leaving' = {},
         \A d \in Conns \ {c} :
           /\ d \in Range(waiting') <=> d \in Range(waiting)
           /\ d \in members' <=> d \in members
           /\ d \in leaving' <=> d \in leaving,
         UNCHANGED <<secure, app, net>>,
         InOrder(r, h, c \in Range(waiting'), c \in members', c \in leaving'),
         r.proxy = "closed" => Listed("Gone", c) /\ "Gone" \notin lost,
         r.unknown # "live",
         on[c] # NoHandlers,
         app # "stopped" => Announced'
  PROVE  ListenerInv'
<1>1. TypeOK BY DEF ListenerInv
<1>2. TypeOK' BY <1>1 DEF TypeOK, Changed
<1>3. /\ conn'[c] = r /\ on'[c] = h
      /\ \A d \in Conns \ {c} : conn'[d] = conn[d] /\ on'[d] = on[d]
  BY <1>1 DEF TypeOK
<1>4. \A d \in Conns \ {c} : Same(d) BY <1>3 DEF Same
<1>5. Fresh(c) BY DEF ListenerInv
<1>6. Fresh(c)' BY <1>3, <1>5, StillFresh
<1>7. Listed("Gone", c) /\ "Gone" \notin lost => Listed("Gone", c)'
  <2>1. Event("Gone", c) \in Events /\ Event("Gone", c).type = "Gone" BY EventTyped
  <2>2. Event("Gone", c) \in Range(queue) /\ "Gone" \notin lost =>
          Event("Gone", c) \in Range(queue')
    BY <2>1 DEF Changed
  <2> QED BY <2>2 DEF Listed, Event
<1>8. Pending(conn[c], on[c], Listed("Gone", c), Over(c))' BY <1>3, <1>7 DEF Pending
<1>9. InOrder(conn[c], on[c], c \in Range(waiting), c \in members, c \in leaving)'
  BY <1>3 DEF InOrder, Ownership, Calls, Held
<1>10. Kept(c)' BY <1>8, <1>9 DEF Kept
<1> QED BY <1>2, <1>4, <1>6, <1>10, OneStep

LEMMA StepUnknownClient ==
  ASSUME ListenerInv, NEW c \in Conns, HandleUnknownClient(c)
  PROVE  ListenerInv'
<1>1. app # "aborted" /\ app # "stopped" /\ on[c].outcome = "listener"
  BY DEF HandleUnknownClient, At, Up
<1>2. /\ queue \in Seq(Events) /\ queue # <<>> /\ Head(queue) = Event("Success", c)
      /\ waiting \in Seq(Conns) /\ conn[c] \in Objects /\ on[c] \in Handlers
      /\ InOrder(conn[c], on[c], c \in Range(waiting), c \in members, c \in leaving)
  BY <1>1, Known DEF HandleUnknownClient, At
<1>3. UNCHANGED <<secure, members, leaving, app, net>> BY DEF HandleUnknownClient
<1>4. CASE conn[c].ready
  <2> DEFINE r == WithoutUnknown(Orphan(conn[c]))
             h == [on[c] EXCEPT !.ready = "nobody", !.gone = "listener",
                                !.outcome = "nobody", !.timer = "nobody"]
  <2>1. /\ r \in Objects /\ h \in Handlers
        /\ InOrder(r, h, TRUE, c \in members, c \in leaving) /\ c \notin Range(waiting)
        /\ r.proxy = conn[c].proxy /\ r.unknown = "freed"
    <3> DEFINE k == conn[c]
               g == on[c]
               w == c \in Range(waiting)
               m == c \in members
               l == c \in leaving
    <3>1. /\ k \in Objects /\ g \in Handlers /\ InOrder(k, g, w, m, l)
          /\ g.outcome = "listener" /\ k.ready
      BY <1>1, <1>2, <1>4
    <3> HIDE DEF k, g, w, m, l
    <3>2. LET s == WithoutUnknown(Orphan(k))
              f == [g EXCEPT !.ready = "nobody", !.gone = "listener",
                             !.outcome = "nobody", !.timer = "nobody"]
          IN  /\ s \in Objects /\ f \in Handlers /\ InOrder(s, f, TRUE, m, l) /\ ~w
              /\ s.proxy = k.proxy /\ s.unknown = "freed"
      BY <3>1, WhenWaiting
    <3> QED BY <3>2 DEF k, g, w, m, l
  <2>2. Changed(queue, queue', c, {"Success"}, {"ListenerAccepted"})
    <3>1. Event("ListenerAccepted", c) \in Events BY DEF Event, Events
    <3>2. queue' = Append(Tail(queue), Event("ListenerAccepted", c))
      BY <1>4 DEF HandleUnknownClient, Post
    <3> QED BY <1>2, <3>1, <3>2, Taken
  <2>3. waiting' = Append(waiting, c) /\ conn' = [conn EXCEPT ![c] = r]
        /\ on' = [on EXCEPT ![c] = h] /\ on[c] # NoHandlers
    BY <1>1, <1>4 DEF HandleUnknownClient, NoHandlers
  <2>4. /\ waiting' \in Seq(Conns) /\ Len(waiting') = Len(waiting) + 1
        /\ Len(waiting) \in Nat /\ DOMAIN waiting = 1..Len(waiting)
        /\ DOMAIN waiting' = 1..(Len(waiting) + 1)
        /\ \A i \in 1..Len(waiting) : waiting'[i] = waiting[i]
        /\ waiting'[Len(waiting) + 1] = c
    BY <1>2, <2>3, AppendTo
  <2>5. Range(waiting') = Range(waiting) \cup {c} BY <1>2, <2>3, RangeAppend
  <2>6. Announced'
    <3>1. Announced BY <1>1 DEF ListenerInv
    <3>2. Count(queue', "ListenerAccepted", Len(queue')) = Len(waiting')
      BY <2>2, <2>4, <3>1 DEF Changed, Announced
    <3>3. \A i \in 1..Len(waiting) : waiting[i] # c BY <2>1, <2>4 DEF Range
    <3>4. ASSUME NEW i \in 1..(Len(waiting) + 1), NEW j \in 1..(Len(waiting) + 1),
                 waiting'[i] = waiting'[j]
          PROVE  i = j
      <4>1. CASE i = Len(waiting) + 1 \/ j = Len(waiting) + 1 BY <2>4, <3>3, <3>4, <4>1
      <4>2. CASE i \in 1..Len(waiting) /\ j \in 1..Len(waiting)
        BY <2>4, <3>1, <3>4, <4>2 DEF Announced
      <4> QED BY <2>4, <4>1, <4>2
    <3> QED BY <2>4, <3>2, <3>4 DEF Announced
  <2>7. InOrder(r, h, c \in Range(waiting'), c \in members', c \in leaving')
    <3>1. c \in Range(waiting') <=> TRUE BY <2>5
    <3> QED BY <1>3, <2>1, <3>1 DEF InOrder, Ownership, Calls
  <2>8. r.proxy = "closed" => Listed("Gone", c) BY <1>1, <2>1, Known
  <2>9. members' \subseteq Conns /\ leaving' \subseteq Conns /\ members' \cap leaving' = {}
    BY <1>3 DEF ListenerInv, TypeOK
  <2>10. \A d \in Conns \ {c} :
           /\ d \in Range(waiting') <=> d \in Range(waiting)
           /\ d \in members' <=> d \in members
           /\ d \in leaving' <=> d \in leaving
    BY <1>3, <2>5
  <2> HIDE DEF r, h
  <2>11. /\ "Connecting" \notin {"ListenerAccepted"} /\ "Gone" \notin {"Success"}
         /\ {"Success"} \subseteq {"Success", "Gone"} /\ r.unknown # "live"
         /\ waiting' \in Seq(Conns)
    BY <2>1, <2>4
  <2> DEFINE lost == {"Success"}
             new == {"ListenerAccepted"}
  <2>12. /\ Changed(queue, queue', c, lost, new) /\ "Connecting" \notin new
         /\ "Gone" \notin lost /\ lost \subseteq {"Success", "Gone"}
    BY <2>2, <2>11
  <2> HIDE DEF lost, new
  <2> QED BY <1>1, <1>3, <2>1, <2>3, <2>6, <2>7, <2>8, <2>9, <2>10, <2>11, <2>12, Moved
<1>5. CASE ~conn[c].ready
  <2>1. Changed(queue, queue', c, {"Success"}, {})
    BY <1>2, <1>5, Taken DEF HandleUnknownClient, Drop
  <2> QED BY <1>1, <1>3, <1>5, <2>1, Removing DEF HandleUnknownClient
<1> QED BY <1>4, <1>5

(* The server deletes a client that has gone, or that it told to go.       *)
LEMMA Deleting ==
  ASSUME ListenerInv, app # "aborted", app # "stopped", NEW c \in Conns,
         DeleteClient(c), c \in members \/ c \in leaving, on[c] # NoHandlers,
         NEW lost \in SUBSET {"Gone"}, NEW new \in SUBSET {"ServerDisconnected"},
         Changed(queue, queue', c, lost, new),
         UNCHANGED <<secure, waiting, app, net>>
  PROVE  ListenerInv'
<1> DEFINE r == WithoutProxy(conn[c])
           h == [ProxySilent(on[c]) EXCEPT !.gone = "nobody", !.close = "nobody"]
<1>1. /\ r \in Objects /\ h \in Handlers
      /\ InOrder(r, h, c \in Range(waiting), FALSE, FALSE)
      /\ r.proxy = "freed" /\ r.unknown # "live"
  <2>1. /\ conn[c] \in Objects /\ on[c] \in Handlers
        /\ InOrder(conn[c], on[c], c \in Range(waiting), c \in members, c \in leaving)
    BY Known
  <2> QED BY <2>1, WhenDeleted
<1>2. /\ conn' = [conn EXCEPT ![c] = r] /\ on' = [on EXCEPT ![c] = h]
      /\ members' = members \ {c} /\ leaving' = leaving \ {c}
  BY DEF DeleteClient
<1>3. InOrder(r, h, c \in Range(waiting'), c \in members', c \in leaving')
  <2>1. (c \in members' <=> FALSE) /\ (c \in leaving' <=> FALSE) BY <1>2
  <2> QED BY <1>1, <2>1 DEF InOrder, Ownership, Calls
<1>4. /\ waiting' \in Seq(Conns) /\ members' \subseteq Conns /\ leaving' \subseteq Conns
      /\ members' \cap leaving' = {}
  BY <1>2 DEF ListenerInv, TypeOK
<1>5. Announced'
  <2>1. Announced BY DEF ListenerInv
  <2>2. queue \in Seq(Events) BY Known
  <2>3. Len(queue) \in Int BY <2>2, LenProperties
  <2>4. Count(queue, "ListenerAccepted", Len(queue)) \in Nat BY <2>3, AmongFinite
  <2>5. "ListenerAccepted" \notin lost /\ "ListenerAccepted" \notin new OBVIOUS
  <2>6. Count(queue', "ListenerAccepted", Len(queue')) = Count(queue, "ListenerAccepted", Len(queue))
    BY <2>4, <2>5 DEF Changed
  <2> QED BY <2>1, <2>6 DEF Announced
<1>6. "Connecting" \notin new /\ lost \subseteq {"Success", "Gone"} OBVIOUS
<1>7. \A d \in Conns \ {c} :
        /\ d \in Range(waiting') <=> d \in Range(waiting)
        /\ d \in members' <=> d \in members
        /\ d \in leaving' <=> d \in leaving
  BY <1>2
<1> HIDE DEF r, h
<1> QED BY <1>1, <1>2, <1>3, <1>4, <1>5, <1>6, <1>7, Moved

LEMMA StepClientDisconnected ==
  ASSUME ListenerInv, NEW c \in Conns, HandleClientDisconnected(c)
  PROVE  ListenerInv'
<1>1. /\ app # "aborted" /\ app # "stopped" /\ on[c].gone = "server"
      /\ queue # <<>> /\ Head(queue) = Event("Gone", c)
  BY DEF HandleClientDisconnected, At, Up
<1>2. c \in members \/ c \in leaving BY <1>1, Known DEF InOrder, Calls
<1>3. Event("ServerDisconnected", c) \in Events /\ queue \in Seq(Events)
  BY <1>1, Known DEF Event, Events
<1>4. PICK new \in SUBSET {"ServerDisconnected"} : Changed(queue, queue', c, {"Gone"}, new)
  <2>1. CASE LastLeft(c)
    <3>1. Changed(queue, queue', c, {"Gone"}, {"ServerDisconnected"})
      BY <1>1, <1>3, <2>1, Taken DEF HandleClientDisconnected
    <3> QED BY <3>1
  <2>2. CASE ~LastLeft(c)
    <3>1. Changed(queue, queue', c, {"Gone"}, {})
      BY <1>1, <1>3, <2>2, Taken DEF HandleClientDisconnected
    <3> QED BY <3>1
  <2> QED BY <2>1, <2>2
<1>5. on[c] # NoHandlers BY <1>1 DEF NoHandlers
<1> QED BY <1>1, <1>2, <1>4, <1>5, Deleting DEF HandleClientDisconnected

LEMMA StepCloseTimeout ==
  ASSUME ListenerInv, NEW c \in Conns, HandleClientCloseTimeout(c)
  PROVE  ListenerInv'
<1>1. app # "aborted" /\ app # "stopped" /\ on[c].close = "server" /\ queue = <<>>
  BY DEF HandleClientCloseTimeout, Up
<1>2. c \in leaving BY <1>1, Known DEF InOrder, Calls
<1>3. Event("ServerDisconnected", c) \in Events /\ queue \in Seq(Events)
  BY <1>1, Known DEF Event, Events
<1>4. PICK new \in SUBSET {"ServerDisconnected"} : Changed(queue, queue', c, {}, new)
  <2>1. CASE LastLeft(c)
    <3>1. Changed(queue, queue', c, {}, {"ServerDisconnected"})
      BY <1>1, <1>3, <2>1, PostedFirst DEF HandleClientCloseTimeout
    <3> QED BY <3>1
  <2>2. CASE ~LastLeft(c)
    <3>1. queue' = queue BY <1>1, <2>2 DEF HandleClientCloseTimeout
    <3>2. Changed(queue, queue', c, {}, {}) BY <1>3, <3>1, Untouched
    <3> QED BY <3>2
  <2> QED BY <2>1, <2>2
<1>5. on[c] # NoHandlers BY <1>1 DEF NoHandlers
<1> QED BY <1>1, <1>2, <1>4, <1>5, Deleting DEF HandleClientCloseTimeout

(***************************************************************************)
(* A connection comes, and is taken from the listening socket.             *)
(***************************************************************************)
LEMMA StepConnect ==
  ASSUME ListenerInv, NEW c \in Conns, Connect(c)
  PROVE  ListenerInv'
<1>1. app # "aborted" /\ app # "stopped" BY DEF Connect, Up
<1>2. /\ queue \in Seq(Events) /\ net \in [Conns -> Ends] /\ Fresh(c) /\ Single(queue)
  BY <1>1, Known
<1>3. /\ net[c].peer = "away" /\ net' = [net EXCEPT ![c].peer = "here"]
      /\ queue' = Append(queue, Event("Connecting", c))
      /\ UNCHANGED <<secure, conn, on, waiting, members, leaving, app>>
  BY DEF Connect
<1>4. /\ Event("Connecting", c) \in Events /\ Event("Connecting", c).type = "Connecting"
      /\ Event("Connecting", c).of = c
  BY EventTyped
<1>5. Changed(queue, queue', c, {}, {"Connecting"}) BY <1>2, <1>3, <1>4, Posted
<1>6. net' \in [Conns -> Ends] /\ net'[c].peer = "here"
      /\ \A d \in Conns \ {c} : net'[d] = net[d]
  BY <1>2, <1>3 DEF Ends
<1>7. TypeOK' BY <1>3, <1>5, <1>6 DEF ListenerInv, TypeOK, Changed
<1>8. conn[c] = NoConn /\ on[c] = NoHandlers /\ ~Listed("Connecting", c)
  BY <1>2, <1>3 DEF Fresh
<1>9. Single(queue)'
  <2>1. /\ Len(queue) \in Nat /\ DOMAIN queue = 1..Len(queue)
        /\ DOMAIN queue' = 1..(Len(queue) + 1)
        /\ \A i \in 1..Len(queue) : queue'[i] = queue[i]
        /\ queue'[Len(queue) + 1] = Event("Connecting", c)
    BY <1>2, <1>3, <1>4, AppendTo
  <2>2. \A i \in 1..Len(queue) : queue[i] # Event("Connecting", c)
    BY <1>8, <2>1 DEF Listed, Range
  <2>3. ASSUME NEW i \in 1..(Len(queue) + 1), NEW j \in 1..(Len(queue) + 1),
               queue'[i] = queue'[j], queue'[i].type = "Connecting"
        PROVE  i = j
    <3>1. CASE i = Len(queue) + 1 \/ j = Len(queue) + 1 BY <2>1, <2>2, <2>3, <3>1
    <3>2. CASE i \in 1..Len(queue) /\ j \in 1..Len(queue)
      BY <1>2, <2>1, <2>3, <3>2 DEF Single
    <3> QED BY <2>1, <3>1, <3>2
  <2> QED BY <2>1, <2>3 DEF Single
<1>10. ASSUME NEW d \in Conns PROVE Kept(d)' /\ Fresh(d)'
  <2>1. Kept(d) /\ Fresh(d) BY <1>1 DEF ListenerInv
  <2>2. CASE d # c
    <3>1. Hears(d) BY <1>5, <2>2, HearsStill
    <3>2. Same(d) BY <1>3, <1>6, <2>2 DEF Same
    <3> QED BY <2>1, <3>1, <3>2, Elsewhere
  <2>3. CASE d = c
    <3>1. conn[c].proxy = "none" /\ conn[c].unknown = "none" BY <1>8 DEF NoConn
    <3>2. InOrder(conn[c], on[c], c \in Range(waiting), c \in members, c \in leaving)'
      BY <1>3, <2>1, <2>3 DEF Kept, InOrder, Ownership, Calls, Held
    <3>3. Kept(c)' BY <1>3, <3>1, <3>2 DEF Kept, Pending
    <3>4. Fresh(c)' BY <1>3, <1>6, <1>8 DEF Fresh
    <3> QED BY <2>3, <3>3, <3>4
  <2> QED BY <2>2, <2>3
<1>11. Announced'
  <2>1. Len(queue) \in Int BY <1>2, LenProperties
  <2>2. Count(queue, "ListenerAccepted", Len(queue)) \in Nat BY <2>1, AmongFinite
  <2> QED BY <1>1, <1>3, <1>5, <2>2 DEF Changed, Announced, ListenerInv
<1> QED BY <1>1, <1>3, <1>7, <1>9, <1>10, <1>11 DEF ListenerInv

LEMMA StepConnecting ==
  ASSUME ListenerInv, NEW c \in Conns, HandleClientConnecting(c)
  PROVE  ListenerInv'
<1> DEFINE r == [conn[c] EXCEPT !.socket = "open"]
           h == [on[c] EXCEPT !.accept = "listener"]
<1>1. /\ app # "aborted" /\ app # "stopped"
      /\ queue # <<>> /\ Head(queue) = Event("Connecting", c)
  BY DEF HandleClientConnecting, At, Up
<1>2. queue \in Seq(Events) /\ Fresh(c) /\ Single(queue) BY <1>1, Known
<1>3. /\ Event("Connecting", c) \in Range(queue)
      /\ Event("Connecting", c) \notin Range(Tail(queue))
  BY <1>1, <1>2, Took
<1>4. conn[c] = NoConn /\ on[c] = NoHandlers /\ net[c].peer # "away"
  BY <1>2, <1>3 DEF Fresh, Listed
<1>5. /\ conn' = [conn EXCEPT ![c] = r] /\ on' = [on EXCEPT ![c] = h]
      /\ UNCHANGED <<secure, waiting, members, leaving, app, net>>
  BY DEF HandleClientConnecting
<1>6. /\ r \in Objects /\ h \in Handlers /\ r.proxy = "none" /\ r.unknown = "none"
      /\ InOrder(r, h, FALSE, FALSE, FALSE)
  BY <1>4, WhenConnecting
<1>7. c \notin Range(waiting) /\ c \notin members /\ c \notin leaving
  BY <1>1, <1>4, Known DEF InOrder, Ownership, NoConn
<1>8. PICK new \in SUBSET {"Accepted"} :
        /\ Changed(queue, queue', c, {"Connecting"}, new)
        /\ Event("Connecting", c) \notin Range(queue')
  <2>1. Tail(queue) \in Seq(Events) BY <1>1, <1>2, TailOf
  <2>2. CASE secure
    <3>1. queue' = Tail(queue) BY <2>2 DEF HandleClientConnecting, Drop
    <3>2. Changed(queue, queue', c, {"Connecting"}, {}) BY <1>1, <1>2, <3>1, Taken
    <3> QED BY <1>3, <3>1, <3>2
  <2>3. CASE ~secure
    <3>1. queue' = Append(Tail(queue), Event("Accepted", c))
      BY <2>3 DEF HandleClientConnecting, Post
    <3>2. Event("Accepted", c) \in Events BY DEF Event, Events
    <3>3. Changed(queue, queue', c, {"Connecting"}, {"Accepted"})
      BY <1>1, <1>2, <3>1, <3>2, Taken
    <3>4. Range(queue') = Range(Tail(queue)) \cup {Event("Accepted", c)}
      <4> DEFINE t == Tail(queue)
      <4>1. t \in Seq(Events) /\ queue' = Append(t, Event("Accepted", c)) BY <2>1, <3>1
      <4> HIDE DEF t
      <4>2. Range(queue') = Range(t) \cup {Event("Accepted", c)}
        BY <3>2, <4>1, RangeAppend
      <4> QED BY <4>2 DEF t
    <3>5. Event("Accepted", c) # Event("Connecting", c) BY DEF Event
    <3> QED BY <1>3, <3>3, <3>4, <3>5
  <2> QED BY <2>2, <2>3
<1> HIDE DEF r, h
<1>9. TypeOK /\ queue' \in Seq(Events) BY <1>8 DEF ListenerInv, Changed
<1>10. net' \in [Conns -> Ends] BY <1>5, <1>9 DEF TypeOK
<1>11. /\ TypeOK' /\ conn'[c] = r /\ on'[c] = h
       /\ \A d \in Conns \ {c} : conn'[d] = conn[d] /\ on'[d] = on[d]
  BY <1>5, <1>6, <1>9, <1>10, TypesKept
<1>12. \A d \in Conns \ {c} : Same(d) BY <1>5, <1>11 DEF Same
<1>13. Kept(c)'
  <2>1. (c \in Range(waiting') <=> FALSE) /\ (c \in members' <=> FALSE) /\ (c \in leaving' <=> FALSE)
    BY <1>5, <1>7
  <2>2. InOrder(conn'[c], on'[c], c \in Range(waiting'), c \in members', c \in leaving')
    BY <1>6, <1>11, <2>1 DEF InOrder, Ownership, Calls
  <2> QED BY <1>6, <1>11, <2>2 DEF Kept, Pending
<1>14. Fresh(c)'
  <2>1. ~Listed("Connecting", c)' BY <1>8 DEF Listed, Event
  <2>2. net'[c].peer # "away" BY <1>4, <1>5
  <2> QED BY <2>1, <2>2 DEF Fresh
<1>15. Announced'
  <2>1. Len(queue) \in Int BY <1>2, LenProperties
  <2>2. Count(queue, "ListenerAccepted", Len(queue)) \in Nat BY <2>1, AmongFinite
  <2> QED BY <1>1, <1>5, <1>8, <2>2 DEF Changed, Announced, ListenerInv
<1>16. "Connecting" \notin new OBVIOUS
<1> QED BY <1>1, <1>5, <1>8, <1>11, <1>12, <1>13, <1>14, <1>15, <1>16, OneStep

(***************************************************************************)
(* A waiting client goes; the server takes a waiting client.               *)
(***************************************************************************)
LEMMA Heard ==
  ASSUME NEW d \in Conns, Kept(d), conn[d].proxy = "closed"
  PROVE  /\ Listed("Gone", d)
         /\ on[d].gone = IF conn[d].holds = "proxy" THEN "unknown"
                         ELSE IF d \in Range(waiting) THEN "listener" ELSE "server"
BY DEF Kept, InOrder, Ownership, Calls, Held, Pending

LEMMA StepGoneWaiting ==
  ASSUME ListenerInv, NEW c \in Conns, HandleGoneWaiting(c)
  PROVE  ListenerInv'
<1>1. /\ app # "aborted" /\ queue # <<>> /\ Head(queue) = Event("Gone", c)
      /\ app' = "aborted" /\ queue' = Tail(queue)
      /\ UNCHANGED <<secure, members, leaving, net>>
  BY DEF HandleGoneWaiting, At, Up, Drop
<1>2. /\ queue \in Seq(Events) /\ waiting \in Seq(Conns)
      /\ conn \in [Conns -> Objects] /\ on \in [Conns -> Handlers]
      /\ conn[c] \in Objects /\ on[c] \in Handlers
  BY <1>1, Known
<1>3. PICK i \in DOMAIN waiting : waiting[i] = c /\ waiting' = WithoutAt(waiting, i)
  BY DEF HandleGoneWaiting
<1>4. Changed(queue, queue', c, {"Gone"}, {}) BY <1>1, <1>2, Taken
<1>5. /\ Len(waiting) \in Nat /\ DOMAIN waiting = 1..Len(waiting) /\ i \in 1..Len(waiting)
      /\ \A j \in 1..Len(waiting) : waiting[j] \in Conns
  BY <1>2, <1>3, LenProperties, ElementOfSeq
<1>6. /\ waiting' \in Seq(Conns) /\ DOMAIN waiting' = 1..(Len(waiting) - 1)
      /\ \A j \in 1..(Len(waiting) - 1) :
           waiting'[j] = IF j < i THEN waiting[j] ELSE waiting[j + 1]
  <2>1. Len(waiting) - 1 \in Nat BY <1>5
  <2>2. \A j \in 1..(Len(waiting) - 1) :
          (IF j < i THEN waiting[j] ELSE waiting[j + 1]) \in Conns
    BY <1>5
  <2>3. waiting' \in [1..(Len(waiting) - 1) -> Conns] BY <1>3, <2>2 DEF WithoutAt
  <2>4. waiting' \in Seq(Conns) BY <2>1, <2>3, IsASeq
  <2> QED BY <1>3, <2>4 DEF WithoutAt
<1>7. ASSUME NEW d \in Conns, d # c
      PROVE  d \in Range(waiting') <=> d \in Range(waiting)
  <2>1. ASSUME d \in Range(waiting) PROVE d \in Range(waiting')
    <3>1. PICK k \in 1..Len(waiting) : waiting[k] = d BY <1>5, <2>1 DEF Range
    <3>2. k # i BY <1>3, <1>7, <3>1
    <3>3. CASE k < i
      <4>1. k \in 1..(Len(waiting) - 1) /\ waiting'[k] = d BY <1>5, <1>6, <3>1, <3>3
      <4> QED BY <1>6, <4>1 DEF Range
    <3>4. CASE k > i
      <4>1. k - 1 \in 1..(Len(waiting) - 1) /\ ~(k - 1 < i) /\ k - 1 + 1 = k
        BY <1>5, <3>1, <3>4
      <4>2. waiting'[k - 1] = d BY <1>6, <3>1, <4>1
      <4> QED BY <1>6, <4>1, <4>2 DEF Range
    <3> QED BY <1>5, <3>2, <3>3, <3>4
  <2>2. ASSUME d \in Range(waiting') PROVE d \in Range(waiting)
    <3>1. PICK k \in 1..(Len(waiting) - 1) : waiting'[k] = d BY <1>6, <2>2 DEF Range
    <3>2. k \in 1..Len(waiting) /\ k + 1 \in 1..Len(waiting) BY <1>5, <3>1
    <3>3. waiting[k] = d \/ waiting[k + 1] = d BY <1>6, <3>1
    <3> QED BY <1>5, <3>2, <3>3 DEF Range
  <2> QED BY <2>1, <2>2
<1> DEFINE r == WithoutProxy(conn[c])
           h == [on[c] EXCEPT !.gone = "nobody"]
<1>8. r \in Objects /\ h \in Handlers /\ r.proxy = "freed"
  BY <1>2 DEF Objects, Handlers, States, WithoutProxy
<1>9. conn' = [conn EXCEPT ![c] = r] /\ on' = [on EXCEPT ![c] = h]
  BY DEF HandleGoneWaiting
<1> HIDE DEF r, h
<1>10. TypeOK' BY <1>1, <1>4, <1>6, <1>8, <1>9 DEF ListenerInv, TypeOK, Changed
<1>11. GoneIsHeard'
  <2>1. SUFFICES ASSUME NEW d \in Conns, conn'[d].proxy = "closed"
                 PROVE  /\ Listed("Gone", d)'
                        /\ on'[d].gone = IF conn'[d].holds = "proxy" THEN "unknown"
                                         ELSE IF d \in Range(waiting') THEN "listener"
                                         ELSE "server"
    BY DEF GoneIsHeard, Listed
  <2>2. d # c BY <1>2, <1>8, <1>9, <2>1
  <2>3. conn'[d] = conn[d] /\ on'[d] = on[d] BY <1>2, <1>9, <2>2
  <2>4. Kept(d) BY <1>1 DEF ListenerInv
  <2>5. Hears(d) BY <1>4, <2>2, HearsStill
  <2> QED BY <1>7, <2>1, <2>2, <2>3, <2>4, <2>5, Heard DEF Hears
<1> QED BY <1>1, <1>10, <1>11 DEF ListenerInv

(* There is a waiting client for each announcement, so the head exists.    *)
LEMMA StepClientConnected ==
  ASSUME ListenerInv, NEW c \in Conns, HandleClientConnected(c)
  PROVE  ListenerInv'
<1>1. /\ app # "aborted" /\ app # "stopped"
      /\ queue # <<>> /\ Head(queue) = Event("ListenerAccepted", c) /\ queue' = Tail(queue)
      /\ UNCHANGED <<secure, conn, app, net>>
  BY DEF HandleClientConnected, At, Up, Drop
<1>2. /\ queue \in Seq(Events) /\ waiting \in Seq(Conns) /\ Single(queue)
      /\ on \in [Conns -> Handlers] /\ TypeOK
  BY <1>1, Known DEF ListenerInv
<1>3. Changed(queue, queue', c, {"ListenerAccepted"}, {}) BY <1>1, <1>2, Taken
<1>4. Announced BY <1>1 DEF ListenerInv
<1>5. /\ Count(queue, "ListenerAccepted", Len(queue)) \in Nat
      /\ Count(queue', "ListenerAccepted", Len(queue')) \in Nat
      /\ Count(queue', "ListenerAccepted", Len(queue')) =
           Count(queue, "ListenerAccepted", Len(queue)) - 1
  <2>1. queue' \in Seq(Events) BY <1>3 DEF Changed
  <2>2. Len(queue) \in Int /\ Len(queue') \in Int BY <1>2, <2>1, LenProperties
  <2>3. /\ Count(queue, "ListenerAccepted", Len(queue)) \in Nat
        /\ Count(queue', "ListenerAccepted", Len(queue')) \in Nat
    BY <2>2, AmongFinite
  <2> QED BY <1>3, <2>3 DEF Changed
<1>6. waiting # <<>>
  <2>1. Len(waiting) # 0 BY <1>4, <1>5 DEF Announced
  <2> QED BY <2>1
<1>7. Head(waiting) \in Conns BY <1>2, <1>6, TailOf
<1>8. PICK d \in Conns : d = Head(waiting) BY <1>7
<1>9. /\ Len(waiting) \in Nat \ {0} /\ DOMAIN waiting = 1..Len(waiting)
      /\ d = waiting[1]
      /\ Tail(waiting) \in Seq(Conns) /\ Len(Tail(waiting)) = Len(waiting) - 1
      /\ DOMAIN Tail(waiting) = 1..(Len(waiting) - 1)
      /\ \A i \in 1..(Len(waiting) - 1) : Tail(waiting)[i] = waiting[i + 1]
      /\ Range(waiting) = {waiting[1]} \cup Range(Tail(waiting))
  BY <1>2, <1>6, <1>8, TailOf, RangeTail
<1>10. PICK ok \in BOOLEAN : AdoptClient(d, ok) BY <1>8 DEF HandleClientConnected
<1>11. d \notin Range(Tail(waiting))
  <2>1. SUFFICES ASSUME NEW i \in 1..(Len(waiting) - 1), waiting[i + 1] = d PROVE FALSE
    BY <1>9 DEF Range
  <2>2. i + 1 \in 1..Len(waiting) /\ 1 \in 1..Len(waiting) BY <1>9
  <2>3. i + 1 = 1 BY <1>4, <1>9, <2>1, <2>2 DEF Announced
  <2> QED BY <2>3
<1>12. waiting' = Tail(waiting) BY <1>10 DEF AdoptClient
<1>13. Announced'
  <2>1. ASSUME NEW i \in 1..(Len(waiting) - 1), NEW j \in 1..(Len(waiting) - 1),
               Tail(waiting)[i] = Tail(waiting)[j]
        PROVE  i = j
    <3>1. i + 1 \in DOMAIN waiting /\ j + 1 \in DOMAIN waiting BY <1>9
    <3>2. i + 1 = j + 1 BY <1>4, <1>9, <2>1, <3>1 DEF Announced
    <3> QED BY <3>2
  <2> QED BY <1>4, <1>5, <1>9, <1>12, <2>1 DEF Announced
<1>14. InOrder(conn[d], on[d], TRUE, d \in members, d \in leaving)
  <2>1. d \in Range(waiting) <=> TRUE BY <1>9
  <2>2. InOrder(conn[d], on[d], d \in Range(waiting), d \in members, d \in leaving)
    BY <1>1, <1>9, Known
  <2> QED BY <2>1, <2>2 DEF InOrder, Ownership, Calls
<1> DEFINE g == [on[d] EXCEPT !.gone = "server", !.close = IF ok THEN "nobody" ELSE "server"]
<1>15. /\ g \in Handlers /\ InOrder(conn[d], g, FALSE, ok, ~ok)
       /\ d \notin members /\ d \notin leaving /\ g.timer = on[d].timer
  <2>1. conn[d] \in Objects /\ on[d] \in Handlers BY <1>1, <1>9, Known
  <2> DEFINE k == conn[d]
             f == on[d]
             m == d \in members
             l == d \in leaving
  <2>2. k \in Objects /\ f \in Handlers /\ InOrder(k, f, TRUE, m, l) BY <1>14, <2>1
  <2> HIDE DEF k, f, m, l
  <2>3. LET e == [f EXCEPT !.gone = "server", !.close = IF ok THEN "nobody" ELSE "server"]
        IN  /\ e \in Handlers /\ InOrder(k, e, FALSE, ok, ~ok) /\ ~m /\ ~l
            /\ e.timer = f.timer
    BY <2>2, WhenAdopted
  <2> QED BY <2>3 DEF k, f, m, l
<1>16. /\ on' = [on EXCEPT ![d] = g]
       /\ members' = IF ok THEN members \cup {d} ELSE members
       /\ leaving' = IF ok THEN leaving ELSE leaving \cup {d}
  BY <1>10 DEF AdoptClient
<1> HIDE DEF g
<1>17. TypeOK'
  BY <1>1, <1>2, <1>3, <1>9, <1>12, <1>15, <1>16 DEF TypeOK, Changed
<1>18. ASSUME NEW x \in Conns PROVE Hears(x)
  <2>1. ASSUME NEW type \in {"Connecting", "Gone", "Success", "Failure"}
        PROVE  Listed(type, x)' <=> Listed(type, x)
    <3>1. Event(type, x) \in Events /\ Event(type, x).type = type BY DEF Event, Events
    <3>2. Event(type, x) \in Range(queue') <=> Event(type, x) \in Range(queue)
      BY <1>3, <3>1 DEF Changed
    <3> QED BY <3>2 DEF Listed, Event
  <2> QED BY <2>1 DEF Hears
<1>19. ASSUME NEW x \in Conns PROVE Kept(x)' /\ Fresh(x)'
  <2>1. Kept(x) /\ Fresh(x) /\ Hears(x) BY <1>1, <1>18 DEF ListenerInv
  <2>2. CASE x # d
    <3>1. on'[x] = on[x] BY <1>2, <1>9, <1>16, <2>2
    <3>2. /\ x \in Range(waiting') <=> x \in Range(waiting)
          /\ x \in members' <=> x \in members
          /\ x \in leaving' <=> x \in leaving
      BY <1>9, <1>12, <1>16, <2>2
    <3>3. Same(x) BY <1>1, <3>1, <3>2 DEF Same
    <3> QED BY <2>1, <3>3, Elsewhere
  <2>3. CASE x = d
    <3>1. on'[d] = g /\ conn'[d] = conn[d] BY <1>1, <1>2, <1>9, <1>16
    <3>2. /\ d \in Range(waiting') <=> FALSE
          /\ d \in members' <=> ok
          /\ d \in leaving' <=> ~ok
      BY <1>11, <1>12, <1>15, <1>16
    <3>3. InOrder(conn'[d], on'[d], d \in Range(waiting'), d \in members', d \in leaving')
      BY <1>15, <3>1, <3>2 DEF InOrder, Ownership, Calls
    <3>4. Pending(conn[d], on[d], Listed("Gone", d), Over(d))'
      BY <1>15, <2>1, <2>3, <3>1 DEF Kept, Pending, Hears, Over
    <3>5. Kept(d)' BY <3>3, <3>4 DEF Kept
    <3>6. conn[d] # NoConn BY <1>14 DEF InOrder, Ownership, NoConn
    <3>7. Fresh(d)' BY <1>1, <2>1, <2>3, <3>6 DEF Fresh, Hears
    <3> QED BY <2>3, <3>5, <3>7
  <2> QED BY <2>2, <2>3
<1>20. Single(queue)' BY <1>2, <1>3 DEF Changed
<1> QED BY <1>1, <1>13, <1>17, <1>19, <1>20 DEF ListenerInv

(***************************************************************************)
(* The server tells its clients to go, and is deleted.                     *)
(***************************************************************************)
LEMMA StepStopServer ==
  ASSUME ListenerInv, NEW c \in Conns, StopServer(c)
  PROVE  ListenerInv'
<1>1. /\ app = "running" /\ app' = "closing" /\ members' = {}
      /\ UNCHANGED <<secure, conn, waiting, net>>
  BY DEF StopServer
<1>2. /\ app # "aborted" /\ app # "stopped" /\ TypeOK /\ queue \in Seq(Events)
      /\ members \subseteq Conns /\ leaving \subseteq Conns /\ on \in [Conns -> Handlers]
  BY <1>1 DEF ListenerInv, TypeOK
<1>3. /\ leaving' = leaving \cup members
      /\ on' = [d \in Conns |-> IF d \in members THEN [on[d] EXCEPT !.close = "server"] ELSE on[d]]
      /\ queue' = queue \/ queue' = Append(queue, Event("ServerDisconnected", c))
  <2>1. CASE members \cup leaving = {}
    <3>1. leaving' = leaving /\ on' = on
          /\ queue' = Append(queue, Event("ServerDisconnected", c))
      BY <2>1 DEF StopServer
    <3>2. members = {} BY <2>1
    <3>3. on = [d \in Conns |-> IF d \in members THEN [on[d] EXCEPT !.close = "server"] ELSE on[d]]
      BY <1>2, <3>2
    <3> QED BY <3>1, <3>2, <3>3
  <2>2. CASE members \cup leaving # {} BY <2>2 DEF StopServer
  <2> QED BY <2>1, <2>2
<1>4. PICK new \in SUBSET {"ServerDisconnected"} : Changed(queue, queue', c, {}, new)
  <2>1. Event("ServerDisconnected", c) \in Events BY DEF Event, Events
  <2>2. CASE queue' = queue
    <3>1. Changed(queue, queue', c, {}, {}) BY <1>2, <2>2, Untouched
    <3> QED BY <3>1
  <2>3. CASE queue' = Append(queue, Event("ServerDisconnected", c))
    <3>1. Changed(queue, queue', c, {}, {"ServerDisconnected"}) BY <1>2, <2>1, <2>3, Posted
    <3> QED BY <3>1
  <2> QED BY <1>3, <2>2, <2>3
<1>5. ASSUME NEW d \in Conns
      PROVE  /\ on'[d] \in Handlers /\ on'[d].timer = on[d].timer
             /\ InOrder(conn'[d], on'[d], d \in Range(waiting'), d \in members', d \in leaving')
             /\ d \notin members => on'[d] = on[d]
  <2>1. /\ conn[d] \in Objects /\ on[d] \in Handlers
        /\ InOrder(conn[d], on[d], d \in Range(waiting), d \in members, d \in leaving)
    BY <1>2, Known
  <2>2. CASE d \in members
    <3> DEFINE k == conn[d]
               f == on[d]
               w == d \in Range(waiting)
               l == d \in leaving
    <3>1. (d \in members <=> TRUE) /\ k \in Objects /\ f \in Handlers BY <2>1, <2>2
    <3>2. InOrder(k, f, w, TRUE, l) BY <2>1, <3>1 DEF InOrder, Ownership, Calls
    <3>3. /\ on'[d] = [f EXCEPT !.close = "server"] /\ conn'[d] = k
          /\ d \in Range(waiting') <=> w
          /\ d \in members' <=> FALSE
          /\ d \in leaving' <=> TRUE
      BY <1>1, <1>3, <2>2
    <3> HIDE DEF k, f, w, l
    <3>4. LET g == [f EXCEPT !.close = "server"]
          IN  g \in Handlers /\ InOrder(k, g, w, FALSE, TRUE) /\ g.timer = f.timer
      BY <3>1, <3>2, WhenTold
    <3>5. InOrder(conn'[d], on'[d], d \in Range(waiting'), d \in members', d \in leaving')
      BY <3>3, <3>4 DEF InOrder, Ownership, Calls
    <3>6. on'[d] \in Handlers /\ on'[d].timer = f.timer BY <3>3, <3>4
    <3> QED BY <2>2, <3>5, <3>6 DEF f
  <2>3. CASE d \notin members
    <3>1. /\ on'[d] = on[d] /\ conn'[d] = conn[d]
          /\ d \in Range(waiting') <=> d \in Range(waiting)
          /\ d \in members' <=> d \in members
          /\ d \in leaving' <=> d \in leaving
      BY <1>1, <1>3, <2>3
    <3> QED BY <2>1, <3>1 DEF InOrder, Ownership, Calls
  <2> QED BY <2>2, <2>3
<1>6. on' \in [Conns -> Handlers]
  <2>1. \A d \in Conns : on'[d] \in Handlers BY <1>5
  <2> QED BY <1>3, <2>1
<1>7. TypeOK' BY <1>1, <1>2, <1>3, <1>4, <1>6 DEF TypeOK, Changed
<1>8. ASSUME NEW d \in Conns PROVE Hears(d)
  <2>1. ASSUME NEW type \in {"Connecting", "Gone", "Success", "Failure"}
        PROVE  Listed(type, d)' <=> Listed(type, d)
    <3>1. Event(type, d) \in Events /\ Event(type, d).type = type BY DEF Event, Events
    <3>2. Event(type, d) \in Range(queue') <=> Event(type, d) \in Range(queue)
      BY <1>4, <3>1 DEF Changed
    <3> QED BY <3>2 DEF Listed, Event
  <2> QED BY <2>1 DEF Hears
<1>9. ASSUME NEW d \in Conns PROVE Kept(d)' /\ Fresh(d)'
  <2>1. Kept(d) /\ Fresh(d) BY <1>2 DEF ListenerInv
  <2>2. Pending(conn[d], on[d], Listed("Gone", d), Over(d))'
    BY <1>1, <1>5, <1>8, <2>1 DEF Kept, Pending, Hears, Over
  <2>3. d \in members => conn[d] # NoConn
    BY <2>1 DEF Kept, InOrder, Ownership, NoConn
  <2>4. Fresh(d)' BY <1>1, <1>5, <1>8, <2>1, <2>3 DEF Fresh, Hears
  <2> QED BY <1>5, <2>2, <2>4 DEF Kept
<1>10. Announced'
  <2>1. Len(queue) \in Int BY <1>2, LenProperties
  <2>2. Count(queue, "ListenerAccepted", Len(queue)) \in Nat BY <2>1, AmongFinite
  <2> QED BY <1>1, <1>2, <1>4, <2>2 DEF Changed, Announced, ListenerInv
<1>11. Single(queue)' BY <1>2, <1>4 DEF Changed, ListenerInv
<1> QED BY <1>1, <1>7, <1>9, <1>10, <1>11 DEF ListenerInv

LEMMA StepDeleteServer ==
  ASSUME ListenerInv, NEW c \in Conns, DeleteServer(c)
  PROVE  ListenerInv'
<1>1. /\ app # "aborted" /\ app' = "stopped"
      /\ queue # <<>> /\ Head(queue) = Event("Quit", c) /\ queue' = Tail(queue)
      /\ conn' = [d \in Conns |-> Deleted(d)] /\ on' = [d \in Conns |-> NoHandlers]
      /\ waiting' = <<>> /\ members' = {} /\ leaving' = {}
      /\ UNCHANGED <<secure, net>>
  BY DEF DeleteServer, At, Up, Drop
<1>2. queue \in Seq(Events) /\ TypeOK /\ \A d \in Conns : Kept(d) /\ Fresh(d)
  BY <1>1, Known DEF ListenerInv
<1>3. Changed(queue, queue', c, {"Quit"}, {}) BY <1>1, <1>2, Taken
<1>4. ASSUME NEW d \in Conns
      PROVE  /\ conn'[d] \in Objects /\ on'[d] = NoHandlers
             /\ InOrder(conn'[d], NoHandlers, FALSE, FALSE, FALSE)
             /\ conn'[d].proxy # "closed" /\ conn'[d].unknown # "live"
             /\ conn[d] = NoConn => conn'[d] = NoConn
  <2>1. conn'[d] = Deleted(d) /\ on'[d] = NoHandlers BY <1>1
  <2> QED BY <1>2, <2>1, WhenStopped
<1>5. waiting' \in Seq(Conns) /\ Range(waiting') = {}
  <2>1. <<>> \in Seq(Conns) /\ Len(<<>>) = 0 BY NoMessage
  <2>2. DOMAIN <<>> = {} OBVIOUS
  <2> QED BY <1>1, <2>1, <2>2 DEF Range
<1>6. conn' \in [Conns -> Objects] /\ on' \in [Conns -> Handlers]
  <2>1. NoHandlers \in Handlers BY Nothing
  <2>2. \A d \in Conns : conn'[d] \in Objects BY <1>4
  <2> QED BY <1>1, <2>1, <2>2
<1>7. TypeOK' BY <1>1, <1>2, <1>3, <1>5, <1>6 DEF TypeOK, Changed
<1>8. ASSUME NEW d \in Conns PROVE Kept(d)' /\ Fresh(d)'
  <2>1. /\ d \in Range(waiting') <=> FALSE
        /\ d \in members' <=> FALSE
        /\ d \in leaving' <=> FALSE
    BY <1>1, <1>5
  <2>2. InOrder(conn'[d], on'[d], d \in Range(waiting'), d \in members', d \in leaving')
    BY <1>4, <2>1 DEF InOrder, Ownership, Calls
  <2>3. Kept(d)' BY <1>4, <2>2 DEF Kept, Pending
  <2>4. Listed("Connecting", d)' <=> Listed("Connecting", d)
    <3>1. Event("Connecting", d) \in Events /\ Event("Connecting", d).type = "Connecting"
      BY EventTyped
    <3>2. Event("Connecting", d) \in Range(queue') <=> Event("Connecting", d) \in Range(queue)
      BY <1>3, <3>1 DEF Changed
    <3> QED BY <3>2 DEF Listed, Event
  <2>5. Fresh(d)' BY <1>1, <1>2, <1>4, <2>4 DEF Fresh
  <2> QED BY <2>3, <2>5
<1>9. Single(queue)' BY <1>1, <1>3 DEF Changed, ListenerInv
<1> QED BY <1>1, <1>7, <1>8, <1>9 DEF ListenerInv

LEMMA Initially ==
  ASSUME Init
  PROVE  ListenerInv
<1>1. /\ conn = [c \in Conns |-> NoConn] /\ on = [c \in Conns |-> NoHandlers]
      /\ waiting = <<>> /\ members = {} /\ leaving = {} /\ queue = <<>> /\ app = "running"
      /\ net = [c \in Conns |-> [sent |-> 0, socket |-> <<>>, inbox |-> <<>>, shut |-> FALSE,
                                 peer |-> "away"]]
      /\ secure \in BOOLEAN
  BY ListenerAssumption DEF Init
<1>2. queue \in Seq(Events) /\ waiting \in Seq(Conns) /\ Len(queue) = 0 /\ Len(waiting) = 0
  BY <1>1, NoMessage
<1>3. DOMAIN queue = {} /\ DOMAIN waiting = {} BY <1>1
<1>4. Range(queue) = {} /\ Range(waiting) = {} BY <1>3 DEF Range
<1>5. net \in [Conns -> Ends]
  <2>1. 0 \in 0..MaxPackets /\ <<>> \in Seq(Packets) BY ListenerAssumption, NoMessage
  <2> QED BY <1>1, <2>1 DEF Ends
<1>6. TypeOK BY <1>1, <1>2, <1>5, Nothing DEF TypeOK
<1>7. ASSUME NEW c \in Conns PROVE Kept(c) /\ Fresh(c)
  <2>1. conn[c] = NoConn /\ on[c] = NoHandlers BY <1>1
  <2>2. /\ c \in Range(waiting) <=> FALSE
        /\ c \in members <=> FALSE
        /\ c \in leaving <=> FALSE
    BY <1>1, <1>4
  <2>3. InOrder(conn[c], on[c], c \in Range(waiting), c \in members, c \in leaving)
    BY <2>1, <2>2, Nothing DEF InOrder, Ownership, Calls
  <2>4. conn[c].proxy = "none" /\ conn[c].unknown = "none" BY <2>1 DEF NoConn
  <2>5. ~Listed("Connecting", c) BY <1>4 DEF Listed
  <2> QED BY <2>1, <2>3, <2>4, <2>5 DEF Kept, Pending, Fresh
<1>8. Single(queue) BY <1>3 DEF Single
<1>9. Announced BY <1>2, <1>3, CountNone DEF Announced
<1> QED BY <1>1, <1>6, <1>7, <1>8, <1>9 DEF ListenerInv

-----------------------------------------------------------------------------
(***************************************************************************)
(* The theorems.                                                           *)
(***************************************************************************)
LEMMA Dispatched ==
  ASSUME ListenerInv, NEW c \in Conns, Dispatch(c)
  PROVE  ListenerInv'
<1>1. CASE HandleClientConnecting(c) BY <1>1, StepConnecting
<1>2. CASE DisconnectedOnAccept(c) BY <1>2, StepDisconnectedOnAccept
<1>3. CASE HandleClientAccepted(c) BY <1>3, StepAccepted
<1>4. CASE HandleInput(c) BY <1>4, StepInput
<1>5. CASE HandleStreamEnd(c) BY <1>5, StepStreamEnd
<1>6. CASE SendSuccess(c) BY <1>6, StepSendSuccess
<1>7. CASE HandleUnknownClient(c) BY <1>7, StepUnknownClient
<1>8. CASE HandleUnknownFailure(c) BY <1>8, StepUnknownFailure
<1>9. CASE HandleGoneUnknown(c) BY <1>9, StepGoneUnknown
<1>10. CASE HandleGoneWaiting(c) BY <1>10, StepGoneWaiting
<1>11. CASE HandleClientConnected(c) BY <1>11, StepClientConnected
<1>12. CASE HandleClientDisconnected(c) BY <1>12, StepClientDisconnected
<1>13. CASE Unheard(c) BY <1>13, StepUnheard
<1>14. CASE CloseServer(c) BY <1>14, StepCloseServer
<1>15. CASE DeleteServer(c) BY <1>15, StepDeleteServer
<1> QED BY <1>1, <1>2, <1>3, <1>4, <1>5, <1>6, <1>7, <1>8, <1>9, <1>10, <1>11, <1>12,
           <1>13, <1>14, <1>15 DEF Dispatch

LEMMA Preserved ==
  ASSUME ListenerInv, [Next]_vars
  PROVE  ListenerInv'
<1>1. CASE UNCHANGED vars
  <2>1. ListenerInv' <=> ListenerInv
    BY <1>1 DEF vars, ListenerInv, TypeOK, Kept, Fresh, Single, Announced, GoneIsHeard, InOrder,
       Ownership, Calls, Held, Pending, Listed, Over, Count, Among, Event
  <2> QED BY <2>1
<1>2. ASSUME NEW c \in Conns, Timers(c) PROVE ListenerInv'
  BY <1>2, StepTimeout, StepFlatline, StepCloseTimeout, StepCloseServer DEF Timers
<1>3. CASE Next
  <2>1. PICK c \in Conns : \/ Dispatch(c) \/ Timers(c) \/ Connect(c) \/ SecureAccept(c)
                           \/ StopServer(c) \/ Send(c) \/ HangUp(c)
    BY <1>3 DEF Next
  <2> QED BY <1>2, <2>1, Dispatched, StepConnect, StepSecureAccept, StepStopServer, StepSend,
             StepHangUp
<1> QED BY <1>1, <1>3

LEMMA Inductive == Spec => []ListenerInv
<1>1. Init => ListenerInv BY Initially
<1>2. ListenerInv /\ [Next]_vars => ListenerInv' BY Preserved
<1> QED BY <1>1, <1>2, PTL DEF Spec

LEMMA Owners ==
  ASSUME NEW r \in Objects, NEW w, NEW m, NEW l, Ownership(r, w, m, l)
  PROVE  LET owners == {o \in {"unknown", "waiting", "member", "old"} :
                          \/ o = "unknown" /\ r.holds = "proxy" /\ r.unknown = "live"
                          \/ o = "waiting" /\ w
                          \/ o = "member" /\ m
                          \/ o = "old" /\ l}
         IN  Cardinality(owners) = IF r.proxy \in {"live", "closed"} THEN 1 ELSE 0
<1> DEFINE owners == {o \in {"unknown", "waiting", "member", "old"} :
                        \/ o = "unknown" /\ r.holds = "proxy" /\ r.unknown = "live"
                        \/ o = "waiting" /\ w
                        \/ o = "member" /\ m
                        \/ o = "old" /\ l}
<1>1. CASE r.proxy \in {"live", "closed"}
  <2>1. \/ owners = {"unknown"} \/ owners = {"waiting"}
        \/ owners = {"member"} \/ owners = {"old"}
    BY <1>1 DEF Ownership, Held
  <2> HIDE DEF owners
  <2>2. Cardinality(owners) = 1 BY <2>1, FS_Singleton
  <2> QED BY <1>1, <2>2 DEF owners
<1>2. CASE r.proxy \notin {"live", "closed"}
  <2>1. owners = {} BY <1>2 DEF Ownership, Held
  <2> HIDE DEF owners
  <2>2. Cardinality(owners) = 0 BY <2>1, FS_EmptySet
  <2> QED BY <1>2, <2>2 DEF owners
<1> QED BY <1>1, <1>2

(* Whatever the order of the events of all connections, a live proxy has   *)
(* one owner, nobody is called who is gone, and what a handler uses still  *)
(* exists (orphanClientProxy, getNextClient, adoptClient, and the          *)
(* destructors of ClientProxyUnknown and ClientProxy1_0), until the        *)
(* listener deletes a packet filter twice.                                 *)
THEOREM LifetimesHold == Spec => []Lifetimes
<1>1. ASSUME ListenerInv PROVE Lifetimes
  <2>1. TypeOK BY <1>1 DEF ListenerInv
  <2>2. OneOwner
    <3>1. ASSUME NEW c \in Conns, app # "aborted"
          PROVE  LET owners == {o \in {"unknown", "waiting", "member", "old"} :
                     \/ o = "unknown" /\ conn[c].holds = "proxy" /\ conn[c].unknown = "live"
                     \/ o = "waiting" /\ c \in Range(waiting)
                     \/ o = "member" /\ c \in members
                     \/ o = "old" /\ c \in leaving}
                 IN  Cardinality(owners) = IF conn[c].proxy \in {"live", "closed"} THEN 1 ELSE 0
      <4> DEFINE r == conn[c]
                 w == c \in Range(waiting)
                 m == c \in members
                 l == c \in leaving
      <4>1. r \in Objects /\ Ownership(r, w, m, l)
        BY <1>1, <3>1 DEF ListenerInv, TypeOK, Kept, InOrder
      <4> HIDE DEF r, w, m, l
      <4>2. LET owners == {o \in {"unknown", "waiting", "member", "old"} :
                             \/ o = "unknown" /\ r.holds = "proxy" /\ r.unknown = "live"
                             \/ o = "waiting" /\ w
                             \/ o = "member" /\ m
                             \/ o = "old" /\ l}
            IN  Cardinality(owners) = IF r.proxy \in {"live", "closed"} THEN 1 ELSE 0
        BY <4>1, Owners
      <4> QED BY <4>2 DEF r, w, m, l
    <3> QED BY <3>1 DEF OneOwner
  <2>3. CalledAreLive
    BY <1>1 DEF ListenerInv, TypeOK, Objects, Handlers, Kept, InOrder, Ownership, Calls, Held,
       CalledAreLive
  <2> QED BY <2>1, <2>2, <2>3 DEF Lifetimes
<1> QED BY <1>1, Inductive, PTL

(* The news that a client has gone reach the owner its proxy has by then   *)
(* (ClientListener.cpp:64-73, 195-203; Server.cpp:252).                    *)
THEOREM GoneIsHeardHolds == Spec => []GoneIsHeard
<1>1. ASSUME ListenerInv PROVE GoneIsHeard
  <2>1. CASE app = "aborted" BY <1>1, <2>1 DEF ListenerInv
  <2>2. CASE app # "aborted" BY <1>1, <2>2, Heard DEF ListenerInv, GoneIsHeard, Listed
  <2> QED BY <2>1, <2>2
<1> QED BY <1>1, Inductive, PTL

(* No handshake is left without a timer or an event that ends it           *)
(* (ClientProxyUnknown.cpp:70-85, 254-270).                                *)
THEOREM HandshakeEndsHolds == Spec => []HandshakeEnds
<1>1. ASSUME ListenerInv PROVE HandshakeEnds
  <2>1. SUFFICES ASSUME NEW c \in Conns, conn[c].unknown = "live", app # "aborted"
                 PROVE  /\ on[c].timer = "unknown" \/ Over(c)
                        /\ on[c].outcome = "listener"
    BY DEF HandshakeEnds, Over, Listed
  <2> QED BY <1>1, <2>1 DEF ListenerInv, Kept, InOrder, Calls, Pending
<1> QED BY <1>1, Inductive, PTL

=============================================================================
