---------------------------- MODULE SessionProofs ----------------------------
(***************************************************************************)
(* A client and its connection to the server, for any number of changes of *)
(* the shape, messages in flight, suspends and reconnections: the client   *)
(* understands what it is sent, obeys no stale position without knowing,   *)
(* agrees with the server at rest, and never stops trying.                 *)
(***************************************************************************)
EXTENDS Session, Integers, FiniteSets, FiniteSetTheorems, SequenceTheorems, TLAPS

(***************************************************************************)
(* Sequences of messages.                                                  *)
(***************************************************************************)
(* There is a message of the type.                                         *)
HasType(s, type) == \E i \in DOMAIN s : s[i].type = type

(* The number of messages of a type among the first n.                     *)
Among(s, type, n) == {i \in 1..n : s[i].type = type}
Count(s, type, n) == Cardinality(Among(s, type, n))

LEMMA TailOf ==
  ASSUME NEW S, NEW s \in Seq(S), s # <<>>
  PROVE  /\ Len(s) \in Nat \ {0} /\ DOMAIN s = 1..Len(s)
         /\ Head(s) = s[1] /\ s[1] \in S
         /\ Tail(s) \in Seq(S) /\ Len(Tail(s)) = Len(s) - 1
         /\ DOMAIN Tail(s) = 1..(Len(s) - 1)
         /\ \A i \in 1..(Len(s) - 1) : Tail(s)[i] = s[i + 1]
<1>1. Len(s) \in Nat \ {0} BY EmptySeq
<1>2. DOMAIN s = 1..Len(s) BY LenProperties
<1>3. Tail(s) \in Seq(S) /\ Len(Tail(s)) = Len(s) - 1 BY HeadTailProperties
<1>4. DOMAIN Tail(s) = 1..(Len(s) - 1) BY <1>3, LenProperties
<1>5. \A i \in 1..(Len(s) - 1) : Tail(s)[i] = s[i + 1] BY <1>3, HeadTailProperties
<1>6. Head(s) = s[1] OBVIOUS
<1>7. s[1] \in S BY <1>1, ElementOfSeq
<1> QED BY <1>1, <1>2, <1>3, <1>4, <1>5, <1>6, <1>7

LEMMA AppendTo ==
  ASSUME NEW S, NEW s \in Seq(S), NEW m \in S
  PROVE  /\ Append(s, m) \in Seq(S) /\ Append(s, m) # <<>>
         /\ Len(s) \in Nat /\ DOMAIN s = 1..Len(s)
         /\ Len(Append(s, m)) = Len(s) + 1
         /\ DOMAIN Append(s, m) = 1..(Len(s) + 1)
         /\ \A i \in 1..Len(s) : Append(s, m)[i] = s[i]
         /\ Append(s, m)[Len(s) + 1] = m
<1>1. Append(s, m) \in Seq(S) /\ Append(s, m) # <<>> /\ Len(Append(s, m)) = Len(s) + 1
  BY AppendProperties
<1>2. DOMAIN Append(s, m) = 1..(Len(s) + 1) BY <1>1, LenProperties
<1> QED BY <1>1, <1>2, AppendProperties, LenProperties

LEMMA OneMore ==
  ASSUME NEW S, NEW s \in Seq(S), NEW m \in S
  PROVE  s \o <<m>> = Append(s, m)
BY AppendIsConcat

LEMMA NoMessage ==
  ASSUME NEW S
  PROVE  <<>> \in Seq(S) /\ Len(<<>>) = 0 /\ \A s \in Seq(S) : Len(s) = 0 => s = <<>>
BY EmptySeq

LEMMA ComingTyped ==
  ASSUME NEW S, NEW s \in Seq(S), NEW t \in Seq(S)
  PROVE  /\ s \o t \in Seq(S) /\ Len(s) \in Nat /\ Len(t) \in Nat
         /\ Len(s \o t) = Len(s) + Len(t)
         /\ s = <<>> => s \o t = t
         /\ t = <<>> => s \o t = s
         /\ s \o t = <<>> <=> s = <<>> /\ t = <<>>
BY ConcatProperties, ConcatEmptySeq, ConcatEqualIffEmpty, LenProperties

LEMMA ReadOne ==
  ASSUME NEW S, NEW s \in Seq(S), NEW t \in Seq(S), s # <<>>
  PROVE  /\ s \o t # <<>> /\ (s \o t)[1] = s[1]
         /\ Tail(s) \o t = Tail(s \o t)
<1>1. s \o t \in Seq(S) /\ s \o t # <<>> /\ Len(s \o t) = Len(s) + Len(t)
  BY ComingTyped
<1>2. /\ Len(s) \in Nat \ {0} /\ Len(t) \in Nat
      /\ Tail(s) \in Seq(S) /\ Len(Tail(s)) = Len(s) - 1
      /\ \A i \in 1..(Len(s) - 1) : Tail(s)[i] = s[i + 1]
  BY TailOf, LenProperties
<1>3. /\ Tail(s \o t) \in Seq(S) /\ Len(Tail(s \o t)) = Len(s) + Len(t) - 1
      /\ \A i \in 1..(Len(s) + Len(t) - 1) : Tail(s \o t)[i] = (s \o t)[i + 1]
  BY <1>1, TailOf
<1>4. \A i \in 1..(Len(s) + Len(t)) :
        (s \o t)[i] = IF i <= Len(s) THEN s[i] ELSE t[i - Len(s)]
  BY ConcatProperties
<1>5. /\ Tail(s) \o t \in Seq(S) /\ Len(Tail(s) \o t) = Len(s) - 1 + Len(t)
      /\ \A i \in 1..(Len(s) - 1 + Len(t)) :
           (Tail(s) \o t)[i] = IF i <= Len(s) - 1 THEN Tail(s)[i] ELSE t[i - (Len(s) - 1)]
  BY <1>2, ConcatProperties
<1>6. \A i \in 1..(Len(s) - 1 + Len(t)) : (Tail(s) \o t)[i] = Tail(s \o t)[i]
  <2> TAKE i \in 1..(Len(s) - 1 + Len(t))
  <2>1. Tail(s \o t)[i] = IF i + 1 <= Len(s) THEN s[i + 1] ELSE t[i + 1 - Len(s)]
    <3>1. i + 1 \in 1..(Len(s) + Len(t)) /\ i \in 1..(Len(s) + Len(t) - 1) BY <1>2
    <3> QED BY <3>1, <1>3, <1>4
  <2>2. (Tail(s) \o t)[i] = IF i + 1 <= Len(s) THEN Tail(s)[i] ELSE t[i - (Len(s) - 1)]
    BY <1>2, <1>5
  <2>3. i + 1 <= Len(s) => Tail(s)[i] = s[i + 1] BY <1>2
  <2>4. i - (Len(s) - 1) = i + 1 - Len(s) BY <1>2
  <2> QED BY <2>1, <2>2, <2>3, <2>4
<1>7. Tail(s) \o t = Tail(s \o t)
  <2>1. Len(Tail(s) \o t) = Len(Tail(s \o t)) BY <1>2, <1>3, <1>5
  <2>2. \A i \in 1..Len(Tail(s) \o t) : (Tail(s) \o t)[i] = Tail(s \o t)[i] BY <1>5, <1>6
  <2>3. Tail(s) \o t \in Seq(S) /\ Tail(s \o t) \in Seq(S) BY <1>3, <1>5
  <2> HIDE <1>1, <1>2, <1>3, <1>4, <1>5, <1>6
  <2> QED BY <2>1, <2>2, <2>3, SeqEqual
<1>8. (s \o t)[1] = s[1] BY <1>2, <1>4
<1> QED BY <1>1, <1>7, <1>8

LEMMA SendOne ==
  ASSUME NEW S, NEW s \in Seq(S), NEW t \in Seq(S), NEW m \in S
  PROVE  s \o (t \o <<m>>) = Append(s \o t, m)
<1>1. <<m>> \in Seq(S) OBVIOUS
<1>2. (s \o t) \o <<m>> = s \o (t \o <<m>>) BY <1>1, ConcatAssociative
<1>3. s \o t \in Seq(S) BY ComingTyped
<1> QED BY <1>2, <1>3, OneMore

LEMMA TakeSome ==
  ASSUME NEW S, NEW t \in Seq(S), NEW n \in 1..Len(t)
  PROVE  /\ SubSeq(t, 1, n) \in Seq(S)
         /\ SubSeq(t, n + 1, Len(t)) \in Seq(S)
         /\ Len(SubSeq(t, n + 1, Len(t))) <= Len(t)
         /\ SubSeq(t, 1, n) \o SubSeq(t, n + 1, Len(t)) = t
<1>1. Len(t) \in Nat /\ \A i \in 1..Len(t) : t[i] \in S BY LenProperties, ElementOfSeq
<1>2. n \in Int /\ n + 1 \in Int /\ Len(t) \in Int /\ 1 \in Int BY <1>1
<1>3. (\A i \in 1..n : t[i] \in S) /\ (\A i \in (n + 1)..Len(t) : t[i] \in S) BY <1>1
<1>4. SubSeq(t, 1, n) \in Seq(S) BY <1>2, <1>3, SubSeqProperties
<1>5. SubSeq(t, n + 1, Len(t)) \in Seq(S) BY <1>2, <1>3, SubSeqProperties
<1>6. Len(SubSeq(t, n + 1, Len(t))) = IF n + 1 <= Len(t) THEN Len(t) - (n + 1) + 1 ELSE 0
  BY <1>2, <1>3, SubSeqProperties
<1>7. SubSeq(t, 1, n) \o SubSeq(t, n + 1, Len(t)) = SubSeq(t, 1, Len(t))
  <2>1. 1 \in 1..(Len(t) + 1) /\ n \in (1 - 1)..Len(t) /\ Len(t) \in n..Len(t) BY <1>1
  <2> QED BY <2>1, ConcatAdjacentSubSeq
<1>8. SubSeq(t, 1, Len(t)) = t BY SubSeqFull
<1>9. Len(SubSeq(t, n + 1, Len(t))) <= Len(t) BY <1>1, <1>6
<1> QED BY <1>4, <1>5, <1>7, <1>8, <1>9

LEMMA AmongFinite ==
  ASSUME NEW s, NEW type, NEW n \in Int
  PROVE  IsFiniteSet(Among(s, type, n)) /\ Count(s, type, n) \in Nat
<1>1. IsFiniteSet(1..n) BY FS_Interval
<1>2. Among(s, type, n) \in SUBSET (1..n) BY DEF Among
<1>3. IsFiniteSet(Among(s, type, n)) BY <1>1, <1>2, FS_Subset
<1> QED BY <1>3, FS_CardinalityType DEF Count

LEMMA CountNone ==
  ASSUME NEW s, NEW type
  PROVE  Count(s, type, 0) = 0
<1>1. Among(s, type, 0) = {} BY DEF Among
<1> QED BY <1>1, FS_EmptySet DEF Count

LEMMA CountGrows ==
  ASSUME NEW s, NEW type, NEW k \in Int, NEW n \in Int, k <= n
  PROVE  Count(s, type, k) <= Count(s, type, n)
<1>1. Among(s, type, k) \in SUBSET Among(s, type, n) BY DEF Among
<1> QED BY <1>1, AmongFinite, FS_Subset DEF Count

LEMMA CountOne ==
  ASSUME NEW S, NEW s \in Seq(S), NEW type, HasType(s, type)
  PROVE  Count(s, type, Len(s)) >= 1
<1>1. Len(s) \in Nat /\ DOMAIN s = 1..Len(s) BY LenProperties
<1>2. PICK i \in 1..Len(s) : s[i].type = type BY <1>1 DEF HasType
<1>3. Among(s, type, Len(s)) # {} BY <1>2 DEF Among
<1>4. IsFiniteSet(Among(s, type, Len(s))) /\ Count(s, type, Len(s)) \in Nat
  BY <1>1, AmongFinite
<1>5. Count(s, type, Len(s)) # 0 BY <1>3, <1>4, FS_EmptySet DEF Count
<1> QED BY <1>4, <1>5

LEMMA CountAppend ==
  ASSUME NEW S, NEW s \in Seq(S), NEW m \in S, NEW type
  PROVE  /\ \A n \in 0..Len(s) : Count(Append(s, m), type, n) = Count(s, type, n)
         /\ Count(Append(s, m), type, Len(s) + 1) =
              Count(s, type, Len(s)) + (IF m.type = type THEN 1 ELSE 0)
<1>1. /\ Len(s) \in Nat
      /\ \A i \in 1..Len(s) : Append(s, m)[i] = s[i]
      /\ Append(s, m)[Len(s) + 1] = m
  BY AppendTo
<1>2. \A n \in 0..Len(s) : Among(Append(s, m), type, n) = Among(s, type, n)
  BY <1>1 DEF Among
<1>3. Among(Append(s, m), type, Len(s) + 1) =
        Among(s, type, Len(s)) \cup (IF m.type = type THEN {Len(s) + 1} ELSE {})
  BY <1>1 DEF Among
<1>4. IsFiniteSet(Among(s, type, Len(s))) /\ Count(s, type, Len(s)) \in Nat
  BY <1>1, AmongFinite
<1>5. Len(s) + 1 \notin Among(s, type, Len(s)) BY <1>1 DEF Among
<1>6. CASE m.type = type
  <2>1. Among(Append(s, m), type, Len(s) + 1) = Among(s, type, Len(s)) \cup {Len(s) + 1}
    BY <1>3, <1>6
  <2>2. Cardinality(Among(s, type, Len(s)) \cup {Len(s) + 1}) = Count(s, type, Len(s)) + 1
    BY <1>4, <1>5, FS_AddElement DEF Count
  <2> QED BY <1>2, <1>6, <2>1, <2>2 DEF Count
<1>7. CASE m.type # type
  <2>1. Among(Append(s, m), type, Len(s) + 1) = Among(s, type, Len(s)) BY <1>3, <1>7
  <2> QED BY <1>2, <1>4, <1>7, <2>1 DEF Count
<1> QED BY <1>6, <1>7

LEMMA CountTail ==
  ASSUME NEW S, NEW s \in Seq(S), s # <<>>, NEW type, NEW n \in 0..(Len(s) - 1)
  PROVE  Count(s, type, n + 1) =
           Count(Tail(s), type, n) + (IF s[1].type = type THEN 1 ELSE 0)
<1>1. /\ Len(s) \in Nat \ {0}
      /\ \A i \in 1..(Len(s) - 1) : Tail(s)[i] = s[i + 1]
  BY TailOf
<1> DEFINE Later == {i \in 2..(n + 1) : s[i].type = type}
<1> DEFINE f == [i \in Among(Tail(s), type, n) |-> i + 1]
<1>2. f \in Bijection(Among(Tail(s), type, n), Later)
  <2>1. f \in [Among(Tail(s), type, n) -> Later] BY <1>1 DEF Among
  <2>2. \A i, j \in Among(Tail(s), type, n) : f[i] = f[j] => i = j BY DEF Among
  <2>3. \A j \in Later : \E i \in Among(Tail(s), type, n) : f[i] = j
    <3> TAKE j \in Later
    <3>1. j - 1 \in Among(Tail(s), type, n) /\ j - 1 + 1 = j BY <1>1 DEF Among
    <3> QED BY <3>1
  <2>4. f \in Surjection(Among(Tail(s), type, n), Later) BY <2>1, <2>3 DEF Surjection
  <2>5. f \in Injection(Among(Tail(s), type, n), Later) BY <2>1, <2>2 DEF Injection, IsInjective
  <2> QED BY <2>4, <2>5 DEF Bijection
<1>3. ExistsBijection(Among(Tail(s), type, n), Later) BY <1>2 DEF ExistsBijection
<1>4. IsFiniteSet(Among(Tail(s), type, n)) /\ Count(Tail(s), type, n) \in Nat BY AmongFinite
<1>5. IsFiniteSet(Later) /\ Cardinality(Later) = Count(Tail(s), type, n)
  <2> HIDE DEF f, Later
  <2> QED BY <1>3, <1>4, FS_Bijection DEF Count
<1>6. Among(s, type, n + 1) = Later \cup (IF s[1].type = type THEN {1} ELSE {})
  BY <1>1 DEF Among
<1>7. 1 \notin Later OBVIOUS
<1>8. CASE s[1].type = type
  <2>1. Among(s, type, n + 1) = Later \cup {1} BY <1>6, <1>8
  <2> HIDE DEF f, Later
  <2>2. Cardinality(Later \cup {1}) = Cardinality(Later) + 1 BY <1>5, <1>7, FS_AddElement
  <2> QED BY <1>5, <1>8, <2>1, <2>2 DEF Count
<1>9. CASE s[1].type # type
  <2>1. Among(s, type, n + 1) = Later BY <1>6, <1>9
  <2> HIDE DEF f, Later
  <2> QED BY <1>4, <1>5, <1>9, <2>1 DEF Count
<1> QED BY <1>8, <1>9

LEMMA TypesOfTail ==
  ASSUME NEW S, NEW s \in Seq(S), s # <<>>, NEW type
  PROVE  HasType(s, type) <=> s[1].type = type \/ HasType(Tail(s), type)
<1>1. /\ Len(s) \in Nat \ {0} /\ DOMAIN s = 1..Len(s)
      /\ DOMAIN Tail(s) = 1..(Len(s) - 1)
      /\ \A i \in 1..(Len(s) - 1) : Tail(s)[i] = s[i + 1] /\ i + 1 \in DOMAIN s
  BY TailOf
<1>2. ASSUME NEW i \in DOMAIN s, i # 1
      PROVE  i - 1 \in DOMAIN Tail(s) /\ Tail(s)[i - 1] = s[i]
  <2>1. i - 1 \in 1..(Len(s) - 1) /\ i - 1 + 1 = i BY <1>1, <1>2
  <2> QED BY <1>1, <2>1
<1>3. 1 \in DOMAIN s BY <1>1
<1> QED BY <1>1, <1>2, <1>3 DEF HasType

LEMMA TypesOfAppend ==
  ASSUME NEW S, NEW s \in Seq(S), NEW m \in S, NEW type
  PROVE  HasType(Append(s, m), type) <=> m.type = type \/ HasType(s, type)
<1>1. /\ Len(s) \in Nat /\ DOMAIN s = 1..Len(s) /\ DOMAIN Append(s, m) = 1..(Len(s) + 1)
      /\ \A i \in 1..Len(s) : Append(s, m)[i] = s[i]
      /\ Append(s, m)[Len(s) + 1] = m
  BY AppendTo
<1>2. \A i \in DOMAIN Append(s, m) : i \in DOMAIN s \/ i = Len(s) + 1 BY <1>1
<1>3. Len(s) + 1 \in DOMAIN Append(s, m) /\ \A i \in DOMAIN s : i \in DOMAIN Append(s, m) BY <1>1
<1> QED BY <1>1, <1>2, <1>3 DEF HasType
-----------------------------------------------------------------------------

(* What the client will read, in this order.                               *)
Coming == inbox \o down

(* How the parts of a connection go together.                              *)
Connected ==
  /\ client.stream # "hello" => inbox = <<>> /\ down = <<>> /\ up = <<>>
  /\ client.stream # "hello" => client.proxy = "none"
  /\ link = "open" => client.stream = "hello" /\ server.phase # "none"
  /\ link = "closed" \/ link = "opening" => server.phase = "none"
  /\ client.stream = "connecting" => link = "opening"
  /\ client.stream = "none" => link = "closed"
  /\ client.proxy = "none" => up = <<>> /\ ~mouse.ignore /\ mouse.compress = 0
  /\ client.proxy # "ready" => ~screen.entered
  /\ link = "open" => (client.proxy = "none" => server.phase = "hello")
  /\ server.phase = "adopted" => ~server.old
  /\ server.active /\ server.phase # "adopted" => server.old

(* The order of what the client is sent: the greeting alone, nothing that  *)
(* needs an enabled screen before the options, no refusal after them, and  *)
(* nothing but acknowledgments after the last word.                        *)
OfReady == {"DMMV", "CENT", "COUT"}
Over == {"CBYE", "EBSY"}

Ordered(s, proxy) ==
  /\ proxy = "none" => s = <<>> \/ (Len(s) = 1 /\ s[1].type = "HELO")
  /\ proxy # "none" => ~HasType(s, "HELO")
  /\ \A i \in DOMAIN s : s[i].type \in OfReady =>
       proxy = "ready" \/ \E j \in 1..(i - 1) : s[j].type = "DSOP"
  /\ \A i \in DOMAIN s : s[i].type = "EBSY" =>
       proxy = "handshake" /\ \A j \in 1..(i - 1) : s[j].type # "DSOP"
  /\ \A i \in DOMAIN s : s[i].type \in Over =>
       \A j \in (i + 1)..Len(s) : s[j].type = "CIAK"

(* What the server has sent so far, by its phase; the answer to the        *)
(* greeting is the first thing it reads, in its first phase.               *)
SentSoFar ==
  /\ \A i \in DOMAIN up : up[i].type = "HelloBack" => i = 1
  /\ link = "open" =>
    /\ HasType(up, "HelloBack") => server.phase = "hello"
    /\ server.phase \in {"hello", "query", "known"} =>
         client.proxy # "ready" /\ ~HasType(Coming, "DSOP")
    /\ server.phase = "adopted" => client.proxy = "ready" \/ HasType(Coming, "DSOP")
    /\ server.phase # "closing" => ~HasType(Coming, "CBYE") /\ ~HasType(Coming, "EBSY")

(* Every change the client has told is under way, as such or acknowledged; *)
(* a position of another shape is preceded by fewer acknowledgments than   *)
(* are expected, and what the server knows is what was told last.          *)
Fresh(s, shape, expected) ==
  \A i \in DOMAIN s : s[i].type \in {"CENT", "DMMV"} =>
    s[i].version = shape \/ Count(s, "CIAK", i - 1) < expected

LastSays(s, shape) ==
  \A i \in DOMAIN s : s[i].type = "DINF" =>
    s[i].version = shape \/ \E j \in (i + 1)..Len(s) : s[j].type = "DINF"

Shapes ==
  /\ Count(Coming, "CIAK", Len(Coming)) + Count(up, "DINF", Len(up)) <= unacked
  /\ Fresh(Coming, screen.shape, unacked)
  /\ link = "open" =>
       /\ LastSays(up, screen.shape)
       /\ server.phase \in {"known", "adopted"} =>
            server.info = screen.shape \/ HasType(up, "DINF")
       /\ mouse.ignore /\ server.phase # "closing" =>
            HasType(up, "DINF") \/ HasType(Coming, "CIAK")

(* Where the cursor is when all that is under way has arrived.             *)
CursorAt(s, entered, active) ==
  /\ \A i \in DOMAIN s : s[i].type \in {"CENT", "COUT"} =>
       \/ \E j \in (i + 1)..Len(s) : s[j].type \in {"CENT", "COUT"}
       \/ s[i].type = (IF active THEN "CENT" ELSE "COUT")
  /\ ~HasType(s, "CENT") /\ ~HasType(s, "COUT") => entered = active

Cursor ==
  link = "open" /\ server.phase = "adopted" =>
    CursorAt(Coming, screen.entered, server.active)

(* Where the cursor was sent, and where it will be when a motion that waits *)
(* is obeyed: what is of another shape was read while an answer was missing. *)
Placed ==
  /\ OnlyUnackedMisleads
  /\ mouse.compress # 0 => mouse.compress = screen.shape \/ mouse.unacked # 0

SessionInv ==
  /\ TypeOK /\ Connected /\ WillRetry /\ Watched
  /\ Ordered(Coming, client.proxy) /\ SentSoFar
  /\ Shapes /\ Cursor /\ Placed
-----------------------------------------------------------------------------
(***************************************************************************)
(* What reading and sending one message do to the order, to the shapes     *)
(* and to the cursor.                                                      *)
(***************************************************************************)
LEMMA OrderedNothing == ASSUME NEW proxy PROVE Ordered(<<>>, proxy)
BY DEF Ordered, HasType

LEMMA OrderedTail ==
  ASSUME NEW S, NEW s \in Seq(S), s # <<>>, NEW proxy \in {"handshake", "ready"},
         Ordered(s, proxy)
  PROVE  /\ s[1].type # "HELO"
         /\ s[1].type \in OfReady => proxy = "ready"
         /\ s[1].type = "EBSY" => proxy = "handshake"
         /\ s[1].type # "DSOP" => Ordered(Tail(s), proxy)
         /\ s[1].type = "DSOP" => Ordered(Tail(s), "ready")
<1>1. /\ Len(s) \in Nat \ {0} /\ DOMAIN s = 1..Len(s)
      /\ DOMAIN Tail(s) = 1..(Len(s) - 1)
      /\ \A i \in 1..(Len(s) - 1) : Tail(s)[i] = s[i + 1] /\ i + 1 \in DOMAIN s
  BY TailOf
<1>2. 1 \in DOMAIN s BY <1>1
<1>3. s[1].type # "HELO" BY <1>2 DEF Ordered, HasType
<1>4. s[1].type \in OfReady => proxy = "ready" BY <1>2 DEF Ordered
<1>5. s[1].type = "EBSY" => proxy = "handshake" BY <1>2 DEF Ordered
<1>6. ~HasType(Tail(s), "HELO") BY <1>1 DEF Ordered, HasType
<1>7. ASSUME NEW i \in DOMAIN Tail(s), Tail(s)[i].type \in OfReady
      PROVE  \/ proxy = "ready" \/ s[1].type = "DSOP"
             \/ \E j \in 1..(i - 1) : Tail(s)[j].type = "DSOP"
  <2>1. i \in 1..(Len(s) - 1) /\ s[i + 1].type \in OfReady BY <1>1, <1>7
  <2>2. proxy = "ready" \/ \E j \in 1..i : s[j].type = "DSOP"
    BY <1>1, <2>1 DEF Ordered
  <2>3. ASSUME NEW j \in 1..i, s[j].type = "DSOP", j # 1
        PROVE  \E k \in 1..(i - 1) : Tail(s)[k].type = "DSOP"
    <3>1. j - 1 \in 1..(i - 1) /\ j - 1 \in 1..(Len(s) - 1) /\ j - 1 + 1 = j BY <1>1, <2>1, <2>3
    <3> QED BY <1>1, <2>3, <3>1
  <2> QED BY <2>2, <2>3
<1>8. ASSUME NEW i \in DOMAIN Tail(s), Tail(s)[i].type = "EBSY"
      PROVE  /\ proxy = "handshake" /\ s[1].type # "DSOP"
             /\ \A j \in 1..(i - 1) : Tail(s)[j].type # "DSOP"
  <2>1. i \in 1..(Len(s) - 1) /\ s[i + 1].type = "EBSY" BY <1>1, <1>8
  <2>2. proxy = "handshake" /\ \A j \in 1..i : s[j].type # "DSOP"
    BY <1>1, <2>1 DEF Ordered
  <2>3. \A j \in 1..(i - 1) : Tail(s)[j] = s[j + 1] /\ j + 1 \in 1..i BY <1>1, <2>1
  <2>4. 1 \in 1..i BY <2>1
  <2> QED BY <2>2, <2>3, <2>4
<1>9. ASSUME NEW i \in DOMAIN Tail(s), Tail(s)[i].type \in Over,
             NEW j \in (i + 1)..Len(Tail(s))
      PROVE  Tail(s)[j].type = "CIAK"
  <2>1. i + 1 \in DOMAIN s /\ s[i + 1].type \in Over BY <1>1, <1>9
  <2>2. j \in 1..(Len(s) - 1) /\ j + 1 \in (i + 1 + 1)..Len(s) BY <1>1, <1>9, LenProperties
  <2> QED BY <1>1, <2>1, <2>2 DEF Ordered
<1>10. s[1].type # "DSOP" => Ordered(Tail(s), proxy)
  BY <1>6, <1>7, <1>8, <1>9 DEF Ordered
<1>11. s[1].type = "DSOP" => Ordered(Tail(s), "ready")
  BY <1>6, <1>8, <1>9 DEF Ordered
<1> QED BY <1>3, <1>4, <1>5, <1>10, <1>11

(* Behind the last word there are only acknowledgments, in any order.      *)
LEMMA OrderedOver ==
  ASSUME NEW S, NEW s \in Seq(S), NEW proxy, proxy # "none",
         \A i \in DOMAIN s : s[i].type = "CIAK"
  PROVE  Ordered(s, proxy)
BY DEF Ordered, HasType, OfReady, Over

LEMMA OrderedAppend ==
  ASSUME NEW S, NEW s \in Seq(S), NEW m \in S, NEW proxy \in {"handshake", "ready"},
         Ordered(s, proxy), m.type # "HELO",
         m.type \in OfReady => proxy = "ready" \/ HasType(s, "DSOP"),
         m.type = "EBSY" => proxy = "handshake" /\ ~HasType(s, "DSOP"),
         m.type # "CIAK" => ~HasType(s, "CBYE") /\ ~HasType(s, "EBSY")
  PROVE  Ordered(Append(s, m), proxy)
<1> DEFINE t == Append(s, m)
<1>1. /\ Len(s) \in Nat /\ DOMAIN s = 1..Len(s) /\ DOMAIN t = 1..(Len(s) + 1)
      /\ \A i \in 1..Len(s) : t[i] = s[i]
      /\ t[Len(s) + 1] = m
  BY AppendTo
<1>2. \A i \in DOMAIN t : i \in DOMAIN s \/ i = Len(s) + 1 BY <1>1
<1> HIDE DEF t
<1>3. ~HasType(t, "HELO") BY <1>1, <1>2 DEF Ordered, HasType
<1>4. ASSUME NEW i \in DOMAIN t, t[i].type \in OfReady
      PROVE  proxy = "ready" \/ \E j \in 1..(i - 1) : t[j].type = "DSOP"
  <2>1. CASE i \in DOMAIN s
    <3>1. proxy = "ready" \/ \E j \in 1..(i - 1) : s[j].type = "DSOP" BY <1>1, <1>4, <2>1 DEF Ordered
    <3>2. \A j \in 1..(i - 1) : t[j] = s[j] BY <1>1, <2>1
    <3> QED BY <3>1, <3>2
  <2>2. CASE i = Len(s) + 1
    <3>1. proxy = "ready" \/ HasType(s, "DSOP") BY <1>1, <1>4, <2>2
    <3>2. HasType(s, "DSOP") => \E j \in 1..(i - 1) : t[j].type = "DSOP" BY <1>1, <2>2 DEF HasType
    <3> QED BY <3>1, <3>2
  <2> QED BY <1>2, <2>1, <2>2
<1>5. ASSUME NEW i \in DOMAIN t, t[i].type = "EBSY"
      PROVE  proxy = "handshake" /\ \A j \in 1..(i - 1) : t[j].type # "DSOP"
  <2>1. CASE i \in DOMAIN s
    <3>1. proxy = "handshake" /\ \A j \in 1..(i - 1) : s[j].type # "DSOP" BY <1>1, <1>5, <2>1 DEF Ordered
    <3>2. \A j \in 1..(i - 1) : t[j] = s[j] BY <1>1, <2>1
    <3> QED BY <3>1, <3>2
  <2>2. CASE i = Len(s) + 1
    <3>1. proxy = "handshake" /\ ~HasType(s, "DSOP") BY <1>1, <1>5, <2>2
    <3>2. \A j \in 1..(i - 1) : t[j] = s[j] /\ j \in DOMAIN s BY <1>1, <2>2
    <3> QED BY <3>1, <3>2 DEF HasType
  <2> QED BY <1>2, <2>1, <2>2
<1>6. ASSUME NEW i \in DOMAIN t, t[i].type \in Over, NEW j \in (i + 1)..Len(t)
      PROVE  t[j].type = "CIAK"
  <2>1. Len(t) = Len(s) + 1 BY <1>1, AppendTo DEF t
  <2>2. i \in DOMAIN s /\ s[i].type \in Over /\ j \in 1..(Len(s) + 1) BY <1>1, <1>6, <2>1
  <2>3. CASE j = Len(s) + 1
    <3>1. HasType(s, "CBYE") \/ HasType(s, "EBSY") BY <2>2 DEF HasType, Over
    <3> QED BY <1>1, <2>3, <3>1
  <2>4. CASE j # Len(s) + 1
    <3>1. j \in (i + 1)..Len(s) /\ t[j] = s[j] BY <1>1, <1>6, <2>1, <2>2, <2>4
    <3> QED BY <2>2, <3>1 DEF Ordered
  <2> QED BY <2>3, <2>4
<1>7. Ordered(t, proxy) BY <1>3, <1>4, <1>5, <1>6 DEF Ordered
<1> QED BY <1>7 DEF t

LEMMA FreshTail ==
  ASSUME NEW S, NEW s \in Seq(S), s # <<>>, NEW shape, NEW expected \in Nat,
         Fresh(s, shape, expected)
  PROVE  /\ s[1].type \in {"CENT", "DMMV"} => s[1].version = shape \/ expected # 0
         /\ s[1].type # "CIAK" => Fresh(Tail(s), shape, expected)
         /\ s[1].type = "CIAK" => Fresh(Tail(s), shape, expected - 1)
<1>1. /\ Len(s) \in Nat \ {0} /\ DOMAIN s = 1..Len(s)
      /\ DOMAIN Tail(s) = 1..(Len(s) - 1)
      /\ \A i \in 1..(Len(s) - 1) : Tail(s)[i] = s[i + 1] /\ i + 1 \in DOMAIN s
  BY TailOf
<1>2. s[1].type \in {"CENT", "DMMV"} => s[1].version = shape \/ expected # 0
  <2>1. 1 \in DOMAIN s /\ 1 - 1 = 0 BY <1>1
  <2>2. Count(s, "CIAK", 0) = 0 BY CountNone
  <2> QED BY <2>1, <2>2 DEF Fresh
<1>3. ASSUME NEW i \in DOMAIN Tail(s), Tail(s)[i].type \in {"CENT", "DMMV"}
      PROVE  \/ Tail(s)[i].version = shape
             \/ Count(Tail(s), "CIAK", i - 1) + (IF s[1].type = "CIAK" THEN 1 ELSE 0) < expected
  <2>1. i \in 1..(Len(s) - 1) /\ i + 1 \in DOMAIN s /\ Tail(s)[i] = s[i + 1] /\ i + 1 - 1 = i
    BY <1>1
  <2>2. s[i + 1].version = shape \/ Count(s, "CIAK", i) < expected BY <1>3, <2>1 DEF Fresh
  <2>3. i - 1 \in 0..(Len(s) - 1) /\ i - 1 + 1 = i BY <1>1, <2>1
  <2>4. Count(s, "CIAK", i) =
          Count(Tail(s), "CIAK", i - 1) + (IF s[1].type = "CIAK" THEN 1 ELSE 0)
    BY <2>3, CountTail
  <2> QED BY <2>1, <2>2, <2>4
<1>4. \A i \in DOMAIN Tail(s) : Count(Tail(s), "CIAK", i - 1) \in Nat
  <2>1. \A i \in DOMAIN Tail(s) : i - 1 \in Int BY <1>1
  <2> QED BY <2>1, AmongFinite
<1>5. s[1].type # "CIAK" => Fresh(Tail(s), shape, expected) BY <1>3, <1>4 DEF Fresh
<1>6. s[1].type = "CIAK" => Fresh(Tail(s), shape, expected - 1)
  <2> SUFFICES ASSUME s[1].type = "CIAK", NEW i \in DOMAIN Tail(s),
                      Tail(s)[i].type \in {"CENT", "DMMV"}
               PROVE  Tail(s)[i].version = shape \/ Count(Tail(s), "CIAK", i - 1) < expected - 1
    BY DEF Fresh
  <2>1. \/ Tail(s)[i].version = shape
        \/ Count(Tail(s), "CIAK", i - 1) + 1 < expected
    BY <1>3
  <2>2. Count(Tail(s), "CIAK", i - 1) \in Nat BY <1>4
  <2> QED BY <2>1, <2>2
<1> QED BY <1>2, <1>5, <1>6

LEMMA FreshAppend ==
  ASSUME NEW S, NEW s \in Seq(S), NEW m \in S, NEW shape, NEW expected \in Nat,
         Fresh(s, shape, expected),
         m.type \in {"CENT", "DMMV"} =>
           m.version = shape \/ Count(s, "CIAK", Len(s)) < expected
  PROVE  Fresh(Append(s, m), shape, expected)
<1>1. /\ Len(s) \in Nat /\ DOMAIN s = 1..Len(s) /\ DOMAIN Append(s, m) = 1..(Len(s) + 1)
      /\ \A i \in 1..Len(s) : Append(s, m)[i] = s[i]
      /\ Append(s, m)[Len(s) + 1] = m
  BY AppendTo
<1> SUFFICES ASSUME NEW i \in DOMAIN Append(s, m), Append(s, m)[i].type \in {"CENT", "DMMV"}
             PROVE  \/ Append(s, m)[i].version = shape
                    \/ Count(Append(s, m), "CIAK", i - 1) < expected
  BY DEF Fresh
<1>2. i - 1 \in 0..Len(s) BY <1>1
<1>3. Count(Append(s, m), "CIAK", i - 1) = Count(s, "CIAK", i - 1)
  <2> DEFINE t == Append(s, m)
  <2>1. Among(t, "CIAK", i - 1) = Among(s, "CIAK", i - 1) BY <1>1, <1>2 DEF Among
  <2> QED BY <2>1 DEF Count
<1>4. CASE i \in DOMAIN s BY <1>1, <1>3, <1>4 DEF Fresh
<1>5. CASE i = Len(s) + 1
  <2>1. i - 1 = Len(s) BY <1>1, <1>5
  <2> QED BY <1>1, <1>3, <1>5, <2>1
<1> QED BY <1>1, <1>4, <1>5

LEMMA FreshMore ==
  ASSUME NEW S, NEW s \in Seq(S), NEW shape, NEW next, NEW expected \in Nat,
         Count(s, "CIAK", Len(s)) <= expected, Fresh(s, shape, expected)
  PROVE  Fresh(s, next, expected + 1)
<1>1. Len(s) \in Nat /\ DOMAIN s = 1..Len(s) BY LenProperties
<1> SUFFICES ASSUME NEW i \in DOMAIN s
             PROVE  Count(s, "CIAK", i - 1) < expected + 1
  BY DEF Fresh
<1>2. i - 1 \in Int /\ Len(s) \in Int /\ i - 1 <= Len(s) BY <1>1
<1>3. Count(s, "CIAK", i - 1) <= Count(s, "CIAK", Len(s)) BY <1>2, CountGrows
<1>4. Count(s, "CIAK", i - 1) \in Nat /\ Count(s, "CIAK", Len(s)) \in Nat BY <1>2, AmongFinite
<1> QED BY <1>3, <1>4

LEMMA SaysTail ==
  ASSUME NEW S, NEW s \in Seq(S), s # <<>>, NEW shape, LastSays(s, shape)
  PROVE  /\ LastSays(Tail(s), shape)
         /\ s[1].type = "DINF" => s[1].version = shape \/ HasType(Tail(s), "DINF")
<1>1. /\ Len(s) \in Nat \ {0} /\ DOMAIN s = 1..Len(s)
      /\ DOMAIN Tail(s) = 1..(Len(s) - 1) /\ Len(Tail(s)) = Len(s) - 1
      /\ \A i \in 1..(Len(s) - 1) : Tail(s)[i] = s[i + 1] /\ i + 1 \in DOMAIN s
  BY TailOf
<1>2. ASSUME NEW i \in 1..Len(s), NEW j \in (i + 1)..Len(s), s[j].type = "DINF"
      PROVE  j - 1 \in i..(Len(s) - 1) /\ Tail(s)[j - 1].type = "DINF" /\ j - 1 \in DOMAIN Tail(s)
  <2>1. j - 1 \in 1..(Len(s) - 1) /\ j - 1 + 1 = j /\ j - 1 \in i..(Len(s) - 1) BY <1>1
  <2> QED BY <1>1, <1>2, <2>1
<1>3. LastSays(Tail(s), shape)
  <2> SUFFICES ASSUME NEW i \in DOMAIN Tail(s), Tail(s)[i].type = "DINF"
               PROVE  \/ Tail(s)[i].version = shape
                      \/ \E j \in (i + 1)..Len(Tail(s)) : Tail(s)[j].type = "DINF"
    BY DEF LastSays
  <2>1. i + 1 \in 1..Len(s) /\ Tail(s)[i] = s[i + 1] BY <1>1
  <2>2. s[i + 1].version = shape \/ \E j \in (i + 1 + 1)..Len(s) : s[j].type = "DINF"
    BY <1>1, <2>1 DEF LastSays
  <2> QED BY <1>1, <1>2, <2>1, <2>2
<1>4. s[1].type = "DINF" => s[1].version = shape \/ HasType(Tail(s), "DINF")
  <2>1. 1 \in 1..Len(s) BY <1>1
  <2>2. s[1].type = "DINF" => s[1].version = shape \/ \E j \in (1 + 1)..Len(s) : s[j].type = "DINF"
    BY <1>1, <2>1 DEF LastSays
  <2> QED BY <1>2, <2>1, <2>2 DEF HasType
<1> QED BY <1>3, <1>4

LEMMA SaysAppend ==
  ASSUME NEW S, NEW s \in Seq(S), NEW m \in S, m.type = "DINF"
  PROVE  LastSays(Append(s, m), m.version)
<1>1. /\ Len(s) \in Nat /\ DOMAIN Append(s, m) = 1..(Len(s) + 1)
      /\ Len(Append(s, m)) = Len(s) + 1
      /\ Append(s, m)[Len(s) + 1] = m
  BY AppendTo
<1>2. \A i \in DOMAIN Append(s, m) : i = Len(s) + 1 \/ Len(s) + 1 \in (i + 1)..(Len(s) + 1)
  BY <1>1
<1> QED BY <1>1, <1>2 DEF LastSays

LEMMA CursorTail ==
  ASSUME NEW S, NEW s \in Seq(S), s # <<>>, NEW entered \in BOOLEAN, NEW active \in BOOLEAN,
         CursorAt(s, entered, active)
  PROVE  /\ s[1].type \notin {"CENT", "COUT"} => CursorAt(Tail(s), entered, active)
         /\ s[1].type = "CENT" => CursorAt(Tail(s), TRUE, active)
         /\ s[1].type = "COUT" => CursorAt(Tail(s), FALSE, active)
<1>1. /\ Len(s) \in Nat \ {0} /\ DOMAIN s = 1..Len(s)
      /\ DOMAIN Tail(s) = 1..(Len(s) - 1) /\ Len(Tail(s)) = Len(s) - 1
      /\ \A i \in 1..(Len(s) - 1) : Tail(s)[i] = s[i + 1] /\ i + 1 \in DOMAIN s
  BY TailOf
<1>2. ASSUME NEW i \in 1..Len(s), NEW j \in (i + 1)..Len(s), s[j].type \in {"CENT", "COUT"}
      PROVE  /\ j - 1 \in i..(Len(s) - 1) /\ Tail(s)[j - 1].type \in {"CENT", "COUT"}
             /\ j - 1 \in DOMAIN Tail(s)
  <2>1. j - 1 \in 1..(Len(s) - 1) /\ j - 1 + 1 = j /\ j - 1 \in i..(Len(s) - 1) BY <1>1
  <2> QED BY <1>1, <1>2, <2>1
<1>3. ASSUME NEW i \in DOMAIN Tail(s), Tail(s)[i].type \in {"CENT", "COUT"}
      PROVE  \/ \E j \in (i + 1)..Len(Tail(s)) : Tail(s)[j].type \in {"CENT", "COUT"}
             \/ Tail(s)[i].type = (IF active THEN "CENT" ELSE "COUT")
  <2>1. i + 1 \in 1..Len(s) /\ Tail(s)[i] = s[i + 1] BY <1>1
  <2>2. \/ \E j \in (i + 1 + 1)..Len(s) : s[j].type \in {"CENT", "COUT"}
        \/ s[i + 1].type = (IF active THEN "CENT" ELSE "COUT")
    BY <1>1, <1>3, <2>1 DEF CursorAt
  <2> QED BY <1>1, <1>2, <2>1, <2>2
<1>4. ~HasType(Tail(s), "CENT") /\ ~HasType(Tail(s), "COUT") =>
        \/ s[1].type \notin {"CENT", "COUT"} /\ entered = active
        \/ s[1].type = (IF active THEN "CENT" ELSE "COUT")
  <2> SUFFICES ASSUME ~HasType(Tail(s), "CENT"), ~HasType(Tail(s), "COUT")
               PROVE  \/ s[1].type \notin {"CENT", "COUT"} /\ entered = active
                      \/ s[1].type = (IF active THEN "CENT" ELSE "COUT")
    OBVIOUS
  <2>1. CASE s[1].type \in {"CENT", "COUT"}
    <3>1. 1 \in DOMAIN s BY <1>1
    <3>2. \/ \E j \in (1 + 1)..Len(s) : s[j].type \in {"CENT", "COUT"}
          \/ s[1].type = (IF active THEN "CENT" ELSE "COUT")
      BY <2>1, <3>1 DEF CursorAt
    <3>3. \A j \in (1 + 1)..Len(s) : s[j].type \in {"CENT", "COUT"} =>
            j - 1 \in DOMAIN Tail(s) /\ Tail(s)[j - 1].type \in {"CENT", "COUT"}
      BY <1>1, <1>2, <3>1
    <3>4. \A j \in (1 + 1)..Len(s) : s[j].type \notin {"CENT", "COUT"}
      BY <3>3 DEF HasType
    <3> QED BY <3>2, <3>4
  <2>2. CASE s[1].type \notin {"CENT", "COUT"}
    <3>1. ~HasType(s, "CENT") /\ ~HasType(s, "COUT") BY <2>2, TypesOfTail
    <3> QED BY <2>2, <3>1 DEF CursorAt
  <2> QED BY <2>1, <2>2
<1> QED BY <1>3, <1>4 DEF CursorAt

LEMMA CursorAppend ==
  ASSUME NEW S, NEW s \in Seq(S), NEW m \in S, NEW entered, NEW active,
         CursorAt(s, entered, active)
  PROVE  /\ m.type \notin {"CENT", "COUT"} => CursorAt(Append(s, m), entered, active)
         /\ m.type = "CENT" => CursorAt(Append(s, m), entered, TRUE)
         /\ m.type = "COUT" => CursorAt(Append(s, m), entered, FALSE)
<1> DEFINE t == Append(s, m)
<1>1. /\ Len(s) \in Nat /\ DOMAIN s = 1..Len(s) /\ DOMAIN t = 1..(Len(s) + 1)
      /\ Len(t) = Len(s) + 1
      /\ \A i \in 1..Len(s) : t[i] = s[i]
      /\ t[Len(s) + 1] = m
  BY AppendTo
<1>2. \A i \in DOMAIN t : i \in DOMAIN s \/ i = Len(s) + 1 BY <1>1
<1>3. \A type : HasType(t, type) <=> m.type = type \/ HasType(s, type) BY TypesOfAppend
<1> HIDE DEF t
<1>4. m.type \notin {"CENT", "COUT"} => CursorAt(t, entered, active)
  <2> SUFFICES ASSUME m.type \notin {"CENT", "COUT"} PROVE CursorAt(t, entered, active)
    OBVIOUS
  <2>1. ASSUME NEW i \in DOMAIN t, t[i].type \in {"CENT", "COUT"}
        PROVE  \/ \E j \in (i + 1)..Len(t) : t[j].type \in {"CENT", "COUT"}
               \/ t[i].type = (IF active THEN "CENT" ELSE "COUT")
    <3>1. i \in DOMAIN s /\ t[i] = s[i] BY <1>1, <1>2, <2>1
    <3>2. \/ \E j \in (i + 1)..Len(s) : s[j].type \in {"CENT", "COUT"}
          \/ s[i].type = (IF active THEN "CENT" ELSE "COUT")
      BY <2>1, <3>1 DEF CursorAt
    <3>3. \A j \in (i + 1)..Len(s) : j \in (i + 1)..Len(t) /\ t[j] = s[j] BY <1>1, <3>1
    <3> QED BY <3>1, <3>2, <3>3
  <2>2. ~HasType(t, "CENT") /\ ~HasType(t, "COUT") => entered = active
    BY <1>3 DEF CursorAt
  <2> QED BY <2>1, <2>2 DEF CursorAt
<1>5. ASSUME m.type \in {"CENT", "COUT"}, NEW i \in DOMAIN t
      PROVE  \/ \E j \in (i + 1)..Len(t) : t[j].type \in {"CENT", "COUT"}
             \/ t[i].type = m.type
  <2>1. CASE i = Len(s) + 1 BY <1>1, <2>1
  <2>2. CASE i \in DOMAIN s
    <3>1. Len(s) + 1 \in (i + 1)..Len(t) BY <1>1, <2>2
    <3> QED BY <1>1, <1>5, <3>1
  <2> QED BY <1>2, <2>1, <2>2
<1>6. m.type = "CENT" => CursorAt(t, entered, TRUE) BY <1>3, <1>5 DEF CursorAt
<1>7. m.type = "COUT" => CursorAt(t, entered, FALSE) BY <1>3, <1>5 DEF CursorAt
<1> QED BY <1>4, <1>6, <1>7 DEF t

-----------------------------------------------------------------------------
(***************************************************************************)
(* The invariant holds initially, and every action keeps it.               *)
(***************************************************************************)
LEMMA Facts ==
  ASSUME TypeOK
  PROVE  /\ Coming \in Seq(ToClient) /\ Len(Coming) \in Nat /\ Len(up) \in Nat
         /\ inbox = <<>> => Coming = down
         /\ Coming = <<>> <=> inbox = <<>> /\ down = <<>>
         /\ Count(Coming, "CIAK", Len(Coming)) \in Nat
         /\ Count(up, "DINF", Len(up)) \in Nat
<1>1. inbox \in Seq(ToClient) /\ down \in Seq(ToClient) /\ up \in Seq(ToServer) BY DEF TypeOK
<1>2. Coming \in Seq(ToClient) /\ (inbox = <<>> => Coming = down)
      /\ (Coming = <<>> <=> inbox = <<>> /\ down = <<>>)
  BY <1>1, ComingTyped DEF Coming
<1>3. Len(Coming) \in Nat /\ Len(up) \in Nat BY <1>1, <1>2, LenProperties
<1> QED BY <1>2, <1>3, AmongFinite

LEMMA Greeting ==
  /\ Msg("HELO", 0) \in ToClient /\ Msg("HELO", 0).type = "HELO"
  /\ <<Msg("HELO", 0)>> \in Seq(ToClient) /\ Len(<<Msg("HELO", 0)>>) = 1
  /\ <<Msg("HELO", 0)>>[1] = Msg("HELO", 0)
<1>1. 0 \in 0..MaxShape BY SessionAssumption
<1> QED BY <1>1 DEF Msg, ToClient

(* Nothing is under way.                                                   *)
LEMMA Silent ==
  /\ \A proxy : Ordered(<<>>, proxy)
  /\ \A shape : Fresh(<<>>, shape, 0) /\ LastSays(<<>>, shape)
  /\ Len(<<>>) = 0
  /\ \A type : ~HasType(<<>>, type) /\ Count(<<>>, type, Len(<<>>)) = 0
<1>1. DOMAIN <<>> = {} /\ Len(<<>>) = 0 BY EmptySeq
<1>2. \A type : Count(<<>>, type, Len(<<>>)) = 0 BY <1>1, CountNone
<1> QED BY <1>1, <1>2 DEF Ordered, HasType, Fresh, LastSays

LEMMA InitHolds == Init => SessionInv
<1> SUFFICES ASSUME Init PROVE SessionInv
  OBVIOUS
<1>1. TypeOK
  <2>1. 0 \in 0..MaxShape /\ 1 \in 1..MaxShape /\ 1 \in 0..MaxRetries /\ MaxFlight \in Nat
    BY SessionAssumption
  <2>2. \A S : <<>> \in Seq(S) BY NoMessage
  <2>3. Len(down) <= MaxFlight BY <2>1 DEF Init
  <2>4. client \in Clients BY DEF Init, Clients
  <2>5. server \in [phase : Phases, info : 0..MaxShape, stuck : BOOLEAN, active : BOOLEAN, old : BOOLEAN]
    BY <2>1 DEF Init, NoServer, Phases
  <2>6. mouse \in Mice
    BY <2>1 DEF Init, NoMouse, Mice
  <2>7. misled \in [type : {"none", "motion", "enter"}, version : 0..MaxShape, shape : 0..MaxShape,
                    unacked : Nat]
    BY <2>1 DEF Init, Fits
  <2> QED BY <2>1, <2>2, <2>3, <2>4, <2>5, <2>6, <2>7 DEF Init, TypeOK, EnabledWhenReady, NoMouse
<1>2. Coming = <<>>
  <2>1. inbox = <<>> /\ down = <<>> BY DEF Init
  <2> QED BY <1>1, <2>1, Facts
<1>3. Connected /\ WillRetry /\ Watched
  BY DEF Init, Connected, WillRetry, Watched, NoServer, NoMouse
<1>4. SentSoFar /\ Cursor BY DEF Init, SentSoFar, Cursor
<1>5. Shapes /\ Ordered(Coming, client.proxy)
  <2>1. Count(Coming, "CIAK", Len(Coming)) = 0 /\ Count(up, "DINF", Len(up)) = 0 /\ unacked = 0
    BY <1>2, Silent DEF Init
  <2>2. Fresh(Coming, screen.shape, unacked) /\ Ordered(Coming, client.proxy)
    BY <1>2, <2>1, Silent
  <2>3. link # "open" BY DEF Init
  <2> QED BY <2>1, <2>2, <2>3 DEF Shapes
<1>6. Placed BY DEF Init, Placed, OnlyUnackedMisleads, Fits, NoMouse
<1> QED BY <1>1, <1>3, <1>4, <1>5, <1>6 DEF SessionInv

LEMMA ForAppTyped ==
  ASSUME NEW waiting \in Seq(Posts)
  PROVE  ForApp(waiting) \in Seq(Posts)
<1>1. Len(waiting) \in Nat /\ \A i \in 1..Len(waiting) : waiting[i] \in Posts
  BY LenProperties, ElementOfSeq
<1> QED BY <1>1 DEF ForApp, Posts

(* Every way a connection ends leaves nothing of it but the retry.         *)
LEMMA Ends ==
  ASSUME SessionInv,
         NEW waiting \in Seq(Posts), NEW last \in ToApp,
         NEW c \in Clients, c.proxy = client.proxy, c.ready = client.ready,
         Cleanup(<<waiting, last>>, c),
         retries' = retries, misled' = misled, used' \in [suspends : Nat, sessions : Nat]
  PROVE  SessionInv'
<1> USE DEF SessionInv
<1>1. /\ client' = Gone(c) /\ mouse' = NoMouse /\ inbox' = <<>>
      /\ screen' = CleanupComputer(screen, c)
      /\ events' = Append(ForApp(waiting), last)
      /\ link' = "closed" /\ up' = <<>> /\ down' = <<>> /\ unacked' = 0
      /\ server' = Hide(server)
  BY DEF Cleanup
<1>2. /\ client' \in Clients /\ client'.stream = "none" /\ client'.proxy = "none"
      /\ ~client'.timer /\ ~client'.ready /\ ~client'.alarm
  BY <1>1 DEF Gone, Clients
<1>3. /\ events' \in Seq(Posts) /\ \E i \in DOMAIN events' : events'[i] \in ToApp
  <2>1. last \in Posts BY DEF Posts
  <2>2. ForApp(waiting) \in Seq(Posts) BY ForAppTyped
  <2>3. /\ events' \in Seq(Posts) /\ DOMAIN events' = 1..(Len(ForApp(waiting)) + 1)
        /\ Len(ForApp(waiting)) \in Nat /\ events'[Len(ForApp(waiting)) + 1] = last
    BY <1>1, <2>1, <2>2, AppendTo
  <2> QED BY <2>3
<1>4. /\ screen' \in [enabled : BOOLEAN, entered : BOOLEAN, shape : 1..MaxShape]
      /\ ~screen'.enabled /\ ~screen'.entered
  BY <1>1 DEF CleanupComputer, TypeOK, EnabledWhenReady, Connected, Clients
<1>5. 0 \in 0..MaxShape /\ MaxFlight \in Nat BY SessionAssumption
<1>6. /\ server' \in [phase : Phases, info : 0..MaxShape, stuck : BOOLEAN, active : BOOLEAN, old : BOOLEAN]
      /\ server'.phase = "none" /\ (server'.active => server'.old)
  BY <1>1, <1>5 DEF Hide, NoServer, Phases, TypeOK, Connected
<1>7. mouse' \in Mice /\ ~mouse'.ignore
  BY <1>1, <1>5 DEF NoMouse, Mice
<1>8. TypeOK'
  <2>1. \A S : <<>> \in Seq(S) /\ Len(<<>>) = 0 BY NoMessage
  <2>2. /\ retries' \in 0..MaxRetries
        /\ misled' \in [type : {"none", "motion", "enter"}, version : 0..MaxShape, shape : 0..MaxShape,
                        unacked : Nat]
    BY DEF TypeOK
  <2>3. EnabledWhenReady'
    <3>1. client'.ready \in BOOLEAN /\ screen'.enabled \in BOOLEAN
      BY <1>2, <1>4 DEF Clients
    <3>2. client'.ready = FALSE /\ screen'.enabled = FALSE BY <1>2, <1>4, <3>1
    <3>3. (client'.proxy = "ready") = FALSE BY <1>2
    <3> QED BY <3>2, <3>3, Zenon DEF EnabledWhenReady
  <2>4. Len(down)' <= MaxFlight BY <1>1, <1>5, <2>1
  <2>5. unacked' \in Nat /\ link' \in {"closed", "opening", "open", "silent"} BY <1>1
  <2>6. inbox' \in Seq(ToClient) /\ down' \in Seq(ToClient) /\ up' \in Seq(ToServer)
    BY <1>1, <2>1
  <2> QED
    BY <1>1, <1>2, <1>3, <1>4, <1>6, <1>7, <2>2, <2>3, <2>4, <2>5, <2>6 DEF TypeOK, NoMouse
<1>9. (Coming = <<>>)'
  BY <1>1, ComingTyped, NoMessage DEF Coming
<1>10. Connected' BY <1>1, <1>2, <1>4, <1>6, <1>7 DEF Connected, NoMouse
<1>11. WillRetry' /\ Watched' BY <1>2, <1>3 DEF WillRetry, Watched
<1>12. SentSoFar' /\ Cursor' BY <1>1 DEF SentSoFar, Cursor
<1>13. Ordered(Coming, client.proxy)' BY <1>9, Silent
<1>14. Shapes'
  <2>1. (/\ Count(Coming, "CIAK", Len(Coming)) = 0 /\ Count(up, "DINF", Len(up)) = 0
         /\ unacked = 0)'
    BY <1>1, <1>9, Silent
  <2>2. Fresh(Coming, screen.shape, unacked)' BY <1>9, <2>1, Silent
  <2>3. link' # "open" BY <1>1
  <2> QED BY <2>1, <2>2, <2>3 DEF Shapes
<1>15. Placed' BY <1>1 DEF Placed, OnlyUnackedMisleads, NoMouse
<1> QED BY <1>8, <1>10, <1>11, <1>12, <1>13, <1>14, <1>15

(* What most actions leave alone.                                          *)
LEMMA Unmoved ==
  ASSUME SessionInv, Coming' = Coming, up' = up, unacked' = unacked, misled' = misled,
         screen' = screen, mouse' = mouse, client'.proxy = client.proxy,
         link' = "open" =>
           /\ link = "open" /\ server'.phase = server.phase /\ server'.info = server.info
           /\ server.phase = "adopted" => server'.active = server.active
  PROVE  /\ Ordered(Coming, client.proxy)' /\ SentSoFar' /\ Shapes' /\ Cursor'
         /\ Placed'
<1> USE DEF SessionInv
<1>1. Ordered(Coming, client.proxy)' OBVIOUS
<1>2. SentSoFar' BY DEF SentSoFar
<1>3. Shapes'
  <2>1. (/\ Count(Coming, "CIAK", Len(Coming)) + Count(up, "DINF", Len(up)) <= unacked
         /\ Fresh(Coming, screen.shape, unacked))'
    BY DEF Shapes
  <2>2. link' = "open" => LastSays(up, screen.shape)' BY DEF Shapes
  <2>3. link' = "open" =>
          (server.phase \in {"known", "adopted"} =>
             server.info = screen.shape \/ HasType(up, "DINF"))'
    BY DEF Shapes
  <2>4. link' = "open" => (mouse.ignore /\ server.phase # "closing" =>
                             HasType(up, "DINF") \/ HasType(Coming, "CIAK"))'
    BY DEF Shapes
  <2> QED BY <2>1, <2>2, <2>3, <2>4 DEF Shapes
<1>4. Cursor' BY DEF Cursor
<1>5. Placed' BY DEF Placed, OnlyUnackedMisleads
<1> QED BY <1>1, <1>2, <1>3, <1>4, <1>5

(* The first posted event has been handled.                                *)
LEMMA EventsTail ==
  ASSUME NEW s \in Seq(Posts), s # <<>>
  PROVE  /\ Tail(s) \in Seq(Posts)
         /\ \A E : Head(s) \notin E => ((\E i \in DOMAIN s : s[i] \in E) =>
                                          \E i \in DOMAIN Tail(s) : Tail(s)[i] \in E)
<1>1. /\ Len(s) \in Nat \ {0} /\ DOMAIN s = 1..Len(s) /\ Head(s) = s[1]
      /\ Tail(s) \in Seq(Posts)
      /\ DOMAIN Tail(s) = 1..(Len(s) - 1)
      /\ \A i \in 1..(Len(s) - 1) : Tail(s)[i] = s[i + 1]
  BY TailOf
<1>2. ASSUME NEW i \in DOMAIN s, i # 1
      PROVE  i - 1 \in DOMAIN Tail(s) /\ Tail(s)[i - 1] = s[i]
  <2>1. i - 1 \in 1..(Len(s) - 1) /\ i - 1 + 1 = i BY <1>1, <1>2
  <2> QED BY <1>1, <2>1
<1> QED BY <1>1, <1>2

LEMMA EventsMore ==
  ASSUME NEW s \in Seq(Posts), NEW e \in Posts
  PROVE  /\ Append(s, e) \in Seq(Posts)
         /\ \A E : (\E i \in DOMAIN s : s[i] \in E) =>
                     \E i \in DOMAIN Append(s, e) : Append(s, e)[i] \in E
         /\ \E i \in DOMAIN Append(s, e) : Append(s, e)[i] = e
<1>1. /\ Append(s, e) \in Seq(Posts) /\ Len(s) \in Nat /\ DOMAIN s = 1..Len(s)
      /\ DOMAIN Append(s, e) = 1..(Len(s) + 1)
      /\ \A i \in 1..Len(s) : Append(s, e)[i] = s[i]
      /\ Append(s, e)[Len(s) + 1] = e
  BY AppendTo
<1>2. \A i \in DOMAIN s : i \in DOMAIN Append(s, e) BY <1>1
<1>3. Len(s) + 1 \in DOMAIN Append(s, e) BY <1>1
<1> QED BY <1>1, <1>2, <1>3

LEMMA Connects ==
  ASSUME SessionInv, NEW c \in Clients, c.stream = client.stream, c.proxy = client.proxy,
         c.timer = client.timer, c.ready = client.ready, c.alarm = client.alarm,
         Connect(c), used' \in [suspends : Nat, sessions : Nat], retries' \in 0..MaxRetries,
         c.suspended = FALSE \/ (client'.stream = "none" => client'.suspended /\ client'.onResume),
         UNCHANGED <<mouse, screen, inbox, events, server, up, down, unacked, misled>>
  PROVE  SessionInv'
<1> USE DEF SessionInv
<1>1. CASE c.stream # "none"
  <2>1. client' = c /\ link' = link BY <1>1 DEF Connect
  <2>2. TypeOK' BY <2>1 DEF TypeOK, EnabledWhenReady
  <2>3. Connected' BY <2>1 DEF Connected
  <2>4. WillRetry' /\ Watched' BY <1>1, <2>1 DEF WillRetry, Watched
  <2>5. Coming' = Coming BY DEF Coming
  <2>6. link' = "open" =>
           /\ link = "open" /\ server'.phase = server.phase /\ server'.info = server.info
           /\ server.phase = "adopted" => server'.active = server.active
    BY <2>1
  <2>7. client'.proxy = client.proxy /\ mouse' = mouse BY <2>1
  <2> QED BY <2>2, <2>3, <2>4, <2>5, <2>6, <2>7, Unmoved
<1>2. CASE c.stream = "none" /\ c.suspended
  <2>1. client' = [c EXCEPT !.onResume = TRUE] /\ link' = link BY <1>2 DEF Connect
  <2>2. /\ client' \in Clients /\ client'.stream = "none" /\ client'.proxy = client.proxy
        /\ client'.timer = client.timer /\ client'.ready = client.ready
        /\ client'.alarm = client.alarm /\ client'.suspended /\ client'.onResume
    BY <1>2, <2>1 DEF Clients
  <2>3. TypeOK' BY <1>2, <2>1, <2>2 DEF TypeOK, EnabledWhenReady
  <2>4. Connected' BY <1>2, <2>1, <2>2 DEF Connected
  <2>5. WillRetry' /\ Watched' BY <2>2 DEF WillRetry, Watched
  <2>6. Coming' = Coming BY DEF Coming
  <2>7. link' = "open" =>
           /\ link = "open" /\ server'.phase = server.phase /\ server'.info = server.info
           /\ server.phase = "adopted" => server'.active = server.active
    BY <2>1
  <2> QED BY <2>2, <2>3, <2>4, <2>5, <2>6, <2>7, Unmoved
<1>3. CASE c.stream = "none" /\ ~c.suspended
  <2>1. client' = [c EXCEPT !.stream = "connecting", !.timer = TRUE] /\ link' = "opening"
    BY <1>3 DEF Connect
  <2>2. /\ client' \in Clients /\ client'.stream = "connecting" /\ client'.proxy = client.proxy
        /\ client'.timer /\ client'.ready = client.ready /\ client'.alarm = client.alarm
    BY <1>3, <2>1 DEF Clients
  <2>3. TypeOK' BY <1>3, <2>1, <2>2 DEF TypeOK, EnabledWhenReady
  <2>4. Connected' BY <1>3, <2>1, <2>2 DEF Connected
  <2>5. WillRetry' /\ Watched' BY <2>2 DEF WillRetry, Watched
  <2>6. Coming' = Coming BY DEF Coming
  <2>7. link' # "open" BY <2>1
  <2> QED BY <2>2, <2>3, <2>4, <2>5, <2>6, <2>7, Unmoved
<1> QED BY <1>1, <1>2, <1>3

LEMMA Restarting == SessionInv /\ HandleClientRestart => SessionInv'
<1> SUFFICES ASSUME SessionInv, HandleClientRestart PROVE SessionInv'
  OBVIOUS
<1>1. client \in Clients /\ retries \in 0..MaxRetries /\ used \in [suspends : Nat, sessions : Nat]
  BY DEF SessionInv, TypeOK
<1>2. used' \in [suspends : Nat, sessions : Nat] BY <1>1 DEF HandleClientRestart
<1>3. retries' \in 0..MaxRetries BY <1>1, SessionAssumption DEF HandleClientRestart
<1>4. Connect(client) BY DEF HandleClientRestart
<1>5. client.suspended = FALSE \/ (client'.stream = "none" => client'.suspended /\ client'.onResume)
  BY <1>1, <1>4 DEF Connect, Clients
<1>6. UNCHANGED <<mouse, screen, inbox, events, server, up, down, unacked, misled>>
  BY DEF HandleClientRestart
<1> QED BY <1>1, <1>2, <1>3, <1>4, <1>5, <1>6, Connects

LEMMA Resuming == SessionInv /\ HandleResume => SessionInv'
<1> SUFFICES ASSUME SessionInv, HandleResume PROVE SessionInv'
  OBVIOUS
<1>1. client \in Clients /\ retries' \in 0..MaxRetries /\ used \in [suspends : Nat, sessions : Nat]
  BY DEF SessionInv, TypeOK, HandleResume
<1>2. UNCHANGED <<mouse, screen, inbox, events, server, up, down, unacked, misled>>
  BY DEF HandleResume
<1>3. CASE client.onResume /\ used.sessions < MaxSessions
  <2> DEFINE c == [client EXCEPT !.suspended = FALSE, !.onResume = FALSE]
  <2>1. /\ c \in Clients /\ c.stream = client.stream /\ c.proxy = client.proxy
        /\ c.timer = client.timer /\ c.ready = client.ready /\ c.alarm = client.alarm
        /\ c.suspended = FALSE
    BY <1>1 DEF Clients
  <2>2. Connect(c) BY <1>3 DEF HandleResume
  <2>3. used' \in [suspends : Nat, sessions : Nat] BY <1>1, <1>3 DEF HandleResume
  <2> HIDE DEF c
  <2> QED BY <1>1, <1>2, <2>1, <2>2, <2>3, Connects
<1>4. CASE ~(client.onResume /\ used.sessions < MaxSessions)
  <2> USE DEF SessionInv
  <2>1. /\ ~client.onResume /\ client' = [client EXCEPT !.suspended = FALSE]
        /\ link' = link /\ used' = used /\ retries' = retries
    BY <1>4 DEF HandleResume
  <2>2. /\ client' \in Clients /\ client'.stream = client.stream /\ client'.proxy = client.proxy
        /\ client'.timer = client.timer /\ client'.ready = client.ready
        /\ client'.alarm = client.alarm
    BY <1>1, <2>1 DEF Clients
  <2>3. TypeOK' BY <1>2, <2>1, <2>2 DEF TypeOK, EnabledWhenReady
  <2>4. Connected' BY <1>2, <2>1, <2>2 DEF Connected
  <2>5. WillRetry' /\ Watched' BY <1>2, <2>1, <2>2 DEF WillRetry, Watched
  <2>6. Coming' = Coming BY <1>2 DEF Coming
  <2>7. link' = "open" =>
           /\ link = "open" /\ server'.phase = server.phase /\ server'.info = server.info
           /\ server.phase = "adopted" => server'.active = server.active
    BY <1>2, <2>1
  <2> QED BY <1>2, <2>2, <2>3, <2>4, <2>5, <2>6, <2>7, Unmoved
<1> QED BY <1>3, <1>4

LEMMA Alarming == SessionInv /\ KeepAliveAlarm => SessionInv'
<1> SUFFICES ASSUME SessionInv, KeepAliveAlarm PROVE SessionInv'
  OBVIOUS
<1> USE DEF SessionInv
<1>1. /\ client.alarm /\ events' = <<"RequestFailed">>
      /\ client' = [client EXCEPT !.alarm = FALSE]
      /\ UNCHANGED <<mouse, screen, inbox, retries, server, up, down, link, unacked, misled, used>>
  BY DEF KeepAliveAlarm
<1>2. /\ client' \in Clients /\ client'.stream = client.stream /\ client'.proxy = client.proxy
      /\ client'.timer = client.timer /\ client'.ready = client.ready /\ ~client'.alarm
  BY <1>1 DEF TypeOK, Clients
<1>3. client.stream # "none" BY <1>1 DEF TypeOK
<1>4. /\ events' \in Seq(Posts) /\ 1 \in DOMAIN events' /\ events'[1] \in Requests
  BY <1>1 DEF Posts, Requests
<1>5. TypeOK' BY <1>1, <1>2, <1>4 DEF TypeOK, EnabledWhenReady
<1>6. Connected' BY <1>1, <1>2 DEF Connected
<1>7. WillRetry' /\ Watched' BY <1>2, <1>3, <1>4 DEF WillRetry, Watched
<1>8. Coming' = Coming BY <1>1 DEF Coming
<1>9. link' = "open" =>
         /\ link = "open" /\ server'.phase = server.phase /\ server'.info = server.info
         /\ server.phase = "adopted" => server'.active = server.active
  BY <1>1
<1> QED BY <1>1, <1>2, <1>5, <1>6, <1>7, <1>8, <1>9, Unmoved

(* The application schedules a retry, or an event finds nobody.            *)
LEMMA Dispatching == SessionInv /\ (ScheduleClientRestart \/ Unheard) => SessionInv'
<1> SUFFICES ASSUME SessionInv, ScheduleClientRestart \/ Unheard PROVE SessionInv'
  OBVIOUS
<1> USE DEF SessionInv
<1>1. /\ events # <<>> /\ events' = Tail(events)
      /\ UNCHANGED <<client, mouse, screen, inbox, server, up, down, link, unacked, misled, used>>
  BY DEF ScheduleClientRestart, Unheard
<1>2. events \in Seq(Posts) /\ retries \in 0..MaxRetries BY DEF TypeOK
<1>3. /\ events' \in Seq(Posts)
      /\ \A E : Head(events) \notin E => ((\E i \in DOMAIN events : events[i] \in E) =>
                                            \E i \in DOMAIN events' : events'[i] \in E)
  BY <1>1, <1>2, EventsTail
<1>4. \/ Head(events) = "Unheard" /\ retries' = retries
      \/ Head(events) \in ToApp /\ retries' = retries + 1 /\ retries < MaxRetries
  BY DEF ScheduleClientRestart, Unheard
<1>5. Head(events) \notin Requests /\ (Head(events) \in ToApp => retries' > 0)
  BY <1>2, <1>4 DEF Requests, ToApp
<1>6. retries' \in 0..MaxRetries BY <1>2, <1>4, SessionAssumption
<1>7. TypeOK' BY <1>1, <1>3, <1>6 DEF TypeOK, EnabledWhenReady
<1>8. Connected' BY <1>1 DEF Connected
<1>9. WillRetry'
  <2>1. Head(events) \notin ToApp => retries' = retries BY <1>4
  <2> QED BY <1>1, <1>3, <1>5, <2>1 DEF WillRetry
<1>10. Watched' BY <1>1, <1>3, <1>5 DEF Watched
<1>11. Coming' = Coming BY <1>1 DEF Coming
<1>12. link' = "open" =>
         /\ link = "open" /\ server'.phase = server.phase /\ server'.info = server.info
         /\ server.phase = "adopted" => server'.active = server.active
  BY <1>1
<1> QED BY <1>1, <1>7, <1>8, <1>9, <1>10, <1>11, <1>12, Unmoved

(* The server gives up or notices, and the network falls silent.           *)
LEMMA Parting == SessionInv /\ (ServerGivesUp \/ ServerNotices \/ Silence) => SessionInv'
<1> SUFFICES ASSUME SessionInv, ServerGivesUp \/ ServerNotices \/ Silence PROVE SessionInv'
  OBVIOUS
<1> USE DEF SessionInv
<1>1. UNCHANGED <<client, mouse, screen, inbox, events, retries, up, down, unacked, misled, used>>
  BY DEF ServerGivesUp, ServerNotices, Silence, clientVars
<1>2. 0 \in 0..MaxShape BY SessionAssumption
<1>3. /\ server' \in [phase : Phases, info : 0..MaxShape, stuck : BOOLEAN, active : BOOLEAN, old : BOOLEAN]
      /\ link' \in {"closed", "opening", "open", "silent"}
      /\ link' = "open" => link = "open" /\ server'.phase = server.phase /\ server'.info = server.info
      /\ link' = "open" /\ server.phase = "adopted" => server'.active = server.active
      /\ link' = "closed" \/ link' = "opening" => server'.phase = "none"
      /\ client.stream = "none" => link' = "closed"
      /\ client.stream = "connecting" => link' = "opening"
      /\ server'.phase = "adopted" => ~server'.old
      /\ server'.active /\ server'.phase # "adopted" => server'.old
  <2>1. server \in [phase : Phases, info : 0..MaxShape, stuck : BOOLEAN, active : BOOLEAN, old : BOOLEAN]
        /\ link \in {"closed", "opening", "open", "silent"}
    BY DEF TypeOK
  <2>2. CASE ServerGivesUp
    <3>1. /\ server'.phase = "none" /\ server'.old = server.old
          /\ server'.active = (server.active /\ server.old)
          /\ server' \in [phase : Phases, info : 0..MaxShape, stuck : BOOLEAN, active : BOOLEAN, old : BOOLEAN]
      BY <1>2, <2>1, <2>2 DEF ServerGivesUp, NoServer, Phases
    <3>2. link \in {"open", "silent"} /\ link' \in {"closed", "silent"} BY <2>2 DEF ServerGivesUp
    <3> QED BY <3>1, <3>2 DEF Connected
  <2>3. CASE ServerNotices
    <3>1. /\ server.old /\ server'.phase = server.phase /\ server'.info = server.info
          /\ server'.old = FALSE /\ server'.active = FALSE /\ link' = link
          /\ server' \in [phase : Phases, info : 0..MaxShape, stuck : BOOLEAN, active : BOOLEAN, old : BOOLEAN]
      BY <2>1, <2>3 DEF ServerNotices
    <3> QED BY <2>1, <3>1 DEF Connected
  <2>4. CASE Silence
    <3>1. link = "open" /\ link' = "silent" /\ server' = server BY <2>4 DEF Silence
    <3> QED BY <2>1, <3>1 DEF Connected
  <2> QED BY <2>2, <2>3, <2>4
<1>4. TypeOK' BY <1>1, <1>3 DEF TypeOK, EnabledWhenReady
<1>5. Connected'
  <2>1. link' = "open" => server'.phase = server.phase /\ link = "open" BY <1>3
  <2> QED BY <1>1, <1>3, <2>1 DEF Connected
<1>6. WillRetry' /\ Watched' BY <1>1 DEF WillRetry, Watched
<1>7. Coming' = Coming BY <1>1 DEF Coming
<1>8. link' = "open" =>
         /\ link = "open" /\ server'.phase = server.phase /\ server'.info = server.info
         /\ server.phase = "adopted" => server'.active = server.active
  BY <1>3
<1> QED BY <1>1, <1>4, <1>5, <1>6, <1>7, <1>8, Unmoved

LEMMA Taking == SessionInv /\ Input => SessionInv'
<1> SUFFICES ASSUME SessionInv, Input PROVE SessionInv'
  OBVIOUS
<1> USE DEF SessionInv
<1>1. /\ client.stream = "hello" /\ inbox = <<>>
      /\ UNCHANGED <<client, mouse, screen, events, retries, server, up, link, unacked, misled, used>>
  BY DEF Input
<1>2. PICK n \in 1..Len(down) :
        inbox' = SubSeq(down, 1, n) /\ down' = SubSeq(down, n + 1, Len(down))
  BY DEF Input
<1>3. down \in Seq(ToClient) /\ Len(down) <= MaxFlight /\ Len(down) \in Nat
  BY LenProperties DEF TypeOK
<1>4. /\ inbox' \in Seq(ToClient) /\ down' \in Seq(ToClient) /\ Len(down') <= Len(down)
      /\ inbox' \o down' = down
  BY <1>2, <1>3, TakeSome
<1>5. Len(down') <= MaxFlight BY <1>3, <1>4, LenProperties, SessionAssumption
<1>6. TypeOK' BY <1>1, <1>4, <1>5 DEF TypeOK, EnabledWhenReady
<1>7. Connected' BY <1>1 DEF Connected
<1>8. WillRetry' /\ Watched' BY <1>1 DEF WillRetry, Watched
<1>9. Coming = down BY <1>1, Facts
<1>10. Coming' = Coming BY <1>4, <1>9 DEF Coming
<1>11. link' = "open" =>
         /\ link = "open" /\ server'.phase = server.phase /\ server'.info = server.info
         /\ server.phase = "adopted" => server'.active = server.active
  BY <1>1
<1> QED BY <1>1, <1>6, <1>7, <1>8, <1>10, <1>11, Unmoved

LEMMA Arriving == SessionInv /\ HandleConnected => SessionInv'
<1> SUFFICES ASSUME SessionInv, HandleConnected PROVE SessionInv'
  OBVIOUS
<1> USE DEF SessionInv
<1>1. /\ client.stream = "connecting" /\ link' = "open"
      /\ client' = [client EXCEPT !.stream = "hello"]
      /\ server' = [server EXCEPT !.phase = "hello"] /\ down' = <<Msg("HELO", 0)>>
      /\ UNCHANGED <<mouse, screen, inbox, events, retries, up, unacked, misled, used>>
  BY DEF HandleConnected
<1>2. /\ client' \in Clients /\ client'.stream = "hello" /\ client'.proxy = client.proxy
      /\ client'.timer = client.timer /\ client'.ready = client.ready
      /\ client'.alarm = client.alarm
  BY <1>1 DEF TypeOK, Clients
<1>3. /\ server' \in [phase : Phases, info : 0..MaxShape, stuck : BOOLEAN, active : BOOLEAN, old : BOOLEAN]
      /\ server'.phase = "hello" /\ server'.active = server.active /\ server'.old = server.old
      /\ server'.info = server.info
  BY <1>1 DEF TypeOK, Phases
<1>4. client.proxy = "none" /\ inbox = <<>> /\ up = <<>> /\ server.phase = "none"
  BY <1>1 DEF Connected
<1>5. down' \in Seq(ToClient) /\ Len(down') = 1 /\ down'[1].type = "HELO"
  BY <1>1, Greeting
<1>6. Len(down') <= MaxFlight BY <1>5, SessionAssumption
<1>7. TypeOK' BY <1>1, <1>2, <1>3, <1>5, <1>6 DEF TypeOK, EnabledWhenReady
<1>8. Coming' = down' BY <1>1, <1>4, <1>5, ComingTyped DEF Coming
<1>9. Connected' BY <1>1, <1>2, <1>3, <1>4 DEF Connected
<1>10. WillRetry' /\ Watched' BY <1>1, <1>2 DEF WillRetry, Watched
<1>11. DOMAIN down' = 1..1 BY <1>5, LenProperties
<1>12. \A i \in DOMAIN down' : i = 1 /\ down'[i].type = "HELO" BY <1>5, <1>11
<1>13. Ordered(down', "none") BY <1>5, <1>12 DEF Ordered, OfReady, Over
<1>14. \A type : type # "HELO" => ~HasType(down', type) BY <1>12 DEF HasType
<1>15. Count(down', "CIAK", Len(down')) = 0
  <2>1. Among(down', "CIAK", Len(down')) = {} BY <1>5, <1>12, <1>11 DEF Among
  <2> QED BY <2>1, FS_EmptySet DEF Count
<1>16. SentSoFar' BY <1>1, <1>2, <1>3, <1>4, <1>8, <1>14 DEF SentSoFar
<1>17. Shapes'
  <2>1. Count(up', "DINF", Len(up')) = 0 BY <1>1, <1>4, Silent
  <2>2. unacked' \in Nat BY <1>1 DEF TypeOK
  <2>3. Count(Coming', "CIAK", Len(Coming')) + Count(up', "DINF", Len(up')) <= unacked'
    BY <1>8, <1>15, <2>1, <2>2
  <2>4. Fresh(Coming, screen.shape, unacked)' BY <1>8, <1>12 DEF Fresh
  <2>5. LastSays(up, screen.shape)' BY <1>1, <1>4, Silent
  <2>6. ~mouse'.ignore BY <1>1, <1>4 DEF Connected
  <2> QED BY <1>3, <2>3, <2>4, <2>5, <2>6 DEF Shapes
<1>18. Cursor' BY <1>3 DEF Cursor
<1>19. Placed' BY <1>1, <1>4 DEF Placed, OnlyUnackedMisleads
<1> QED BY <1>2, <1>4, <1>7, <1>8, <1>9, <1>10, <1>13, <1>16, <1>17, <1>18, <1>19

(* The ends of a connection.                                               *)
LEMMA Ending ==
  ASSUME SessionInv,
         \/ HandleConnectionFailed \/ HandleConnectTimeout \/ RefuseHello
         \/ HandleDisconnectRequested \/ HandleDisconnected \/ HandleSuspend
  PROVE  SessionInv'
<1>1. /\ client \in Clients /\ events \in Seq(Posts) /\ used \in [suspends : Nat, sessions : Nat]
  BY DEF SessionInv, TypeOK
<1>2. "Failed" \in ToApp /\ "Disconnected" \in ToApp /\ "Refused" \in ToApp BY DEF ToApp
<1>3. CASE HandleConnectionFailed \/ HandleConnectTimeout \/ RefuseHello
  <2>1. Cleanup(<<events, "Failed">>, client) /\ UNCHANGED <<retries, misled, used>>
    BY <1>3 DEF HandleConnectionFailed, HandleConnectTimeout, RefuseHello
  <2> QED BY <1>1, <1>2, <2>1, Ends
<1>4. CASE HandleDisconnected
  <2>1. Cleanup(<<events, "Disconnected">>, client) /\ UNCHANGED <<retries, misled, used>>
    BY <1>4 DEF HandleDisconnected
  <2> QED BY <1>1, <1>2, <2>1, Ends
<1>5. CASE HandleDisconnectRequested
  <2> DEFINE c == [client EXCEPT !.onResume = FALSE]
  <2>1. c \in Clients /\ c.proxy = client.proxy /\ c.ready = client.ready BY <1>1 DEF Clients
  <2>2. PICK r \in {<<"RequestDisconnect", "Disconnected">>, <<"RequestFailed", "Failed">>,
                    <<"RequestRefused", "Refused">>} :
               Cleanup(<<Tail(events), r[2]>>, c)
    BY <1>5 DEF HandleDisconnectRequested
  <2>3. r[2] \in ToApp BY <1>2, <2>2
  <2>4. events # <<>> /\ UNCHANGED <<retries, misled, used>> BY <1>5 DEF HandleDisconnectRequested
  <2>5. Tail(events) \in Seq(Posts) BY <1>1, <2>4, EventsTail
  <2> HIDE DEF c
  <2> QED BY <1>1, <2>1, <2>2, <2>3, <2>4, <2>5, Ends
<1>6. CASE HandleSuspend
  <2> DEFINE c == [client EXCEPT !.suspended = TRUE, !.onResume = client.proxy # "none"]
  <2>1. c \in Clients /\ c.proxy = client.proxy /\ c.ready = client.ready BY <1>1 DEF Clients
  <2>2. Cleanup(<<events, "Disconnected">>, c) /\ UNCHANGED <<retries, misled>>
    BY <1>6 DEF HandleSuspend
  <2>3. used' \in [suspends : Nat, sessions : Nat] BY <1>1, <1>6 DEF HandleSuspend
  <2> HIDE DEF c
  <2> QED BY <1>1, <1>2, <2>1, <2>2, <2>3, Ends
<1> QED BY <1>3, <1>4, <1>5, <1>6

(***************************************************************************)
(* Reading a message, and telling the server the shape.                    *)
(***************************************************************************)
LEMMA Reads ==
  ASSUME SessionInv, inbox # <<>>, inbox' = Tail(inbox), down' = down
  PROVE  /\ client.stream = "hello" /\ inbox' \in Seq(ToClient) /\ Head(inbox) \in ToClient
         /\ Coming \in Seq(ToClient) /\ Coming # <<>> /\ Coming[1] = Head(inbox)
         /\ Coming' = Tail(Coming) /\ Coming' \in Seq(ToClient) /\ Len(Coming') = Len(Coming) - 1
         /\ Len(Coming) \in Nat \ {0}
<1>1. inbox \in Seq(ToClient) /\ down \in Seq(ToClient) BY DEF SessionInv, TypeOK
<1>2. client.stream = "hello" BY DEF SessionInv, Connected
<1>3. inbox' \in Seq(ToClient) /\ Head(inbox) \in ToClient /\ Head(inbox) = inbox[1]
  BY <1>1, TailOf
<1>4. Coming \in Seq(ToClient) BY <1>1, ComingTyped DEF Coming
<1>5. /\ inbox \o down # <<>> /\ (inbox \o down)[1] = inbox[1]
      /\ Tail(inbox) \o down = Tail(inbox \o down)
  BY <1>1, ReadOne
<1>6. Coming # <<>> /\ Coming[1] = inbox[1] /\ Coming' = Tail(Coming)
  BY <1>5 DEF Coming
<1>7. /\ Coming' \in Seq(ToClient) /\ Len(Coming') = Len(Coming) - 1
      /\ Len(Coming) \in Nat \ {0}
  <2> HIDE DEF Coming
  <2> QED BY <1>4, <1>6, TailOf
<1> QED BY <1>2, <1>3, <1>4, <1>6, <1>7

LEMMA Learns ==
  ASSUME SessionInv, inbox # <<>>, inbox' = Tail(inbox), down' = down, client.proxy # "none",
         NEW type, type = Head(inbox).type,
         NEW expected, expected = IF type = "CIAK" THEN unacked - 1 ELSE unacked
  PROVE  /\ type # "HELO" /\ (type \in OfReady => client.proxy = "ready")
         /\ type = "EBSY" => client.proxy = "handshake"
         /\ Ordered(Coming', IF type = "DSOP" THEN "ready" ELSE client.proxy)
         /\ expected \in Nat
         /\ Count(Coming', "CIAK", Len(Coming')) + Count(up, "DINF", Len(up)) <= expected
         /\ Fresh(Coming', screen.shape, expected)
         /\ type \in {"CENT", "DMMV"} => Head(inbox).version = screen.shape \/ unacked # 0
         /\ \A t : HasType(Coming, t) <=> t = type \/ HasType(Coming', t)
         /\ link = "open" /\ server.phase = "adopted" =>
              CursorAt(Coming', IF type = "CENT" THEN TRUE ELSE IF type = "COUT" THEN FALSE
                                ELSE screen.entered, server.active)
<1>1. /\ Coming \in Seq(ToClient) /\ Coming # <<>> /\ Coming[1] = Head(inbox)
      /\ Coming' = Tail(Coming) /\ Len(Coming') = Len(Coming) - 1 /\ Len(Coming) \in Nat \ {0}
  BY Reads
<1>2. client.proxy \in {"handshake", "ready"} BY DEF SessionInv, TypeOK, Clients
<1>3. Ordered(Coming, client.proxy) BY DEF SessionInv
<1> DEFINE s == Coming
<1>4. /\ s[1].type # "HELO"
      /\ s[1].type \in OfReady => client.proxy = "ready"
      /\ s[1].type = "EBSY" => client.proxy = "handshake"
      /\ s[1].type # "DSOP" => Ordered(Tail(s), client.proxy)
      /\ s[1].type = "DSOP" => Ordered(Tail(s), "ready")
  BY <1>1, <1>2, <1>3, OrderedTail
<1>5. /\ Count(s, "CIAK", Len(s)) + Count(up, "DINF", Len(up)) <= unacked
      /\ Fresh(s, screen.shape, unacked) /\ unacked \in Nat
      /\ Count(s, "CIAK", Len(s)) \in Nat /\ Count(up, "DINF", Len(up)) \in Nat
  BY Facts DEF SessionInv, Shapes, TypeOK
<1>6. Count(s, "CIAK", Len(s)) =
        Count(Tail(s), "CIAK", Len(s) - 1) + (IF s[1].type = "CIAK" THEN 1 ELSE 0)
  <2>1. Len(s) - 1 \in 0..(Len(s) - 1) /\ Len(s) - 1 + 1 = Len(s) BY <1>1
  <2> QED BY <1>1, <2>1, CountTail
<1>7. Count(Tail(s), "CIAK", Len(s) - 1) \in Nat
  <2>1. Len(s) - 1 \in Int BY <1>1
  <2> QED BY <2>1, AmongFinite
<1>8. /\ s[1].type \in {"CENT", "DMMV"} => s[1].version = screen.shape \/ unacked # 0
      /\ s[1].type # "CIAK" => Fresh(Tail(s), screen.shape, unacked)
      /\ s[1].type = "CIAK" => Fresh(Tail(s), screen.shape, unacked - 1)
  BY <1>1, <1>5, FreshTail
<1>9. \A t : HasType(s, t) <=> s[1].type = t \/ HasType(Tail(s), t) BY <1>1, TypesOfTail
<1>10. ASSUME link = "open", server.phase = "adopted"
       PROVE  /\ s[1].type \notin {"CENT", "COUT"} => CursorAt(Tail(s), screen.entered, server.active)
              /\ s[1].type = "CENT" => CursorAt(Tail(s), TRUE, server.active)
              /\ s[1].type = "COUT" => CursorAt(Tail(s), FALSE, server.active)
  <2>1. CursorAt(s, screen.entered, server.active) BY <1>10 DEF SessionInv, Cursor
  <2>2. screen.entered \in BOOLEAN /\ server.active \in BOOLEAN BY DEF SessionInv, TypeOK
  <2> HIDE DEF s
  <2> QED BY <1>1, <2>1, <2>2, CursorTail DEF s
<1>11. s[1].type = type /\ Coming' = Tail(s) BY <1>1
<1> HIDE DEF s
<1>12. expected \in Nat /\ Count(Coming', "CIAK", Len(Coming')) + Count(up, "DINF", Len(up)) <= expected
  <2>1. Count(Coming', "CIAK", Len(Coming')) = Count(Tail(s), "CIAK", Len(s) - 1)
    BY <1>1 DEF s
  <2> QED BY <1>5, <1>6, <1>7, <1>11, <2>1
<1>13. Fresh(Coming', screen.shape, expected) BY <1>8, <1>11
<1>14. Ordered(Coming', IF type = "DSOP" THEN "ready" ELSE client.proxy) BY <1>4, <1>11
<1>15. link = "open" /\ server.phase = "adopted" =>
         CursorAt(Coming', IF type = "CENT" THEN TRUE ELSE IF type = "COUT" THEN FALSE
                           ELSE screen.entered, server.active)
  BY <1>10, <1>11
<1>16. type \in {"CENT", "DMMV"} => Head(inbox).version = screen.shape \/ unacked # 0
  BY <1>1, <1>8, <1>11 DEF s
<1>17. \A t : HasType(Coming, t) <=> t = type \/ HasType(Coming', t)
  BY <1>9, <1>11 DEF s
<1>18. /\ type # "HELO" /\ (type \in OfReady => client.proxy = "ready")
       /\ type = "EBSY" => client.proxy = "handshake"
  BY <1>4, <1>11
<1> QED BY <1>12, <1>13, <1>14, <1>15, <1>16, <1>17, <1>18

LEMMA Tells ==
  ASSUME NEW s \in Seq(ToClient), NEW u \in Seq(ToServer), NEW expected \in Nat, NEW shape,
         Count(s, "CIAK", Len(s)) + Count(u, "DINF", Len(u)) <= expected,
         Fresh(s, shape, expected), NEW next \in 1..MaxShape,
         NEW v, v = u \/ v = Append(u, Msg("DINF", next))
  PROVE  /\ v \in Seq(ToServer)
         /\ Count(s, "CIAK", Len(s)) + Count(v, "DINF", Len(v)) <= expected + 1
         /\ Fresh(s, next, expected + 1)
         /\ v = Append(u, Msg("DINF", next)) => LastSays(v, next) /\ HasType(v, "DINF")
<1> DEFINE m == Msg("DINF", next)
<1>1. m \in ToServer /\ m.type = "DINF" /\ m.version = next
  BY SessionAssumption DEF Msg, ToServer
<1>2. Len(s) \in Nat /\ Len(u) \in Nat BY LenProperties
<1>3. Count(s, "CIAK", Len(s)) \in Nat /\ Count(u, "DINF", Len(u)) \in Nat BY <1>2, AmongFinite
<1>4. Count(s, "CIAK", Len(s)) <= expected BY <1>3
<1>5. Fresh(s, next, expected + 1) BY <1>4, FreshMore
<1> HIDE DEF m
<1>6. CASE v = u BY <1>3, <1>5, <1>6, SaysAppend, TypesOfAppend, <1>1 DEF m
<1>7. CASE v = Append(u, m)
  <2>1. v \in Seq(ToServer) /\ Len(v) = Len(u) + 1 BY <1>1, <1>7, AppendTo
  <2>2. Count(Append(u, m), "DINF", Len(u) + 1) = Count(u, "DINF", Len(u)) + 1
    BY <1>1, CountAppend
  <2>3. LastSays(v, next) BY <1>1, <1>7, SaysAppend
  <2>4. HasType(v, "DINF") BY <1>1, <1>7, TypesOfAppend
  <2> QED BY <1>3, <1>5, <1>7, <2>1, <2>2, <2>3, <2>4
<1> QED BY <1>6, <1>7 DEF m

LEMMA Wrote ==
  ASSUME TypeOK, NEW m \in ToServer, Write(<<m>>)
  PROVE  /\ up' \in Seq(ToServer)
         /\ link = "open" => up' = Append(up, m)
         /\ link # "open" => up' = up
<1>1. up \in Seq(ToServer) BY DEF TypeOK
<1>2. up \o <<m>> = Append(up, m) BY <1>1, OneMore
<1>3. Append(up, m) \in Seq(ToServer) BY <1>1, AppendTo
<1> QED BY <1>1, <1>2, <1>3 DEF Write

LEMMA Greeted == SessionInv /\ HandleHello => SessionInv'
<1> SUFFICES ASSUME SessionInv, HandleHello PROVE SessionInv'
  OBVIOUS
<1> USE DEF SessionInv
<1>1. /\ inbox # <<>> /\ client.proxy = "none" /\ inbox' = Tail(inbox)
      /\ Write(<<Msg("HelloBack", 0)>>)
      /\ client' = [client EXCEPT !.proxy = "handshake", !.ready = FALSE, !.timer = FALSE, !.alarm = TRUE]
      /\ UNCHANGED <<mouse, screen, events, retries, server, down, link, unacked, misled, used>>
  BY DEF HandleHello, Reading
<1>2. /\ client' \in Clients /\ client'.stream = client.stream /\ client'.proxy = "handshake"
      /\ ~client'.timer /\ client'.ready = FALSE /\ client'.alarm
  BY <1>1 DEF TypeOK, Clients
<1>3. /\ client.stream = "hello" /\ inbox' \in Seq(ToClient)
      /\ Coming # <<>> /\ Len(Coming') = Len(Coming) - 1 /\ Coming' \in Seq(ToClient)
      /\ Len(Coming) \in Nat
  BY <1>1, Reads
<1>4. Coming' = <<>>
  <2>1. Len(Coming) = 1 BY <1>1, <1>3 DEF Ordered
  <2> QED BY <1>3, <2>1, NoMessage
<1>5. Msg("HelloBack", 0) \in ToServer /\ Msg("HelloBack", 0).type = "HelloBack"
  BY SessionAssumption DEF Msg, ToServer
<1>6. /\ up' \in Seq(ToServer) /\ (up' = up \/ up' = Append(up, Msg("HelloBack", 0)))
      /\ up = <<>> /\ ~mouse.ignore /\ mouse.compress = 0
  BY <1>1, <1>5, Wrote DEF Connected
<1>7. \A i \in DOMAIN up' : up'[i].type = "HelloBack" /\ i = 1
  <2>1. CASE up' = <<>> BY <2>1
  <2>2. CASE up' = Append(up, Msg("HelloBack", 0))
    <3>1. up \in Seq(ToServer) /\ Len(up) = 0 BY <1>6, NoMessage DEF TypeOK
    <3>2. DOMAIN up' = 1..1 /\ up'[1] = Msg("HelloBack", 0)
      BY <1>5, <2>2, <3>1, AppendTo
    <3> QED BY <1>5, <3>2
  <2> QED BY <1>6, <2>1, <2>2
<1>8. Count(up', "DINF", Len(up')) = 0
  <2>1. DOMAIN up' = 1..Len(up') BY <1>6, LenProperties
  <2>2. Among(up', "DINF", Len(up')) = {} BY <1>7, <2>1 DEF Among
  <2> QED BY <2>2, FS_EmptySet DEF Count
<1>9. TypeOK' 
  <2>1. EnabledWhenReady'
    <3>1. screen.enabled = FALSE /\ screen'.enabled = screen.enabled
      BY <1>1, Zenon DEF TypeOK, EnabledWhenReady
    <3>2. (client'.proxy = "ready") = FALSE BY <1>2
    <3> QED BY <1>2, <3>1, <3>2, Zenon DEF EnabledWhenReady
  <2> QED BY <1>1, <1>2, <1>3, <1>6, <2>1 DEF TypeOK
<1>10. Connected' BY <1>1, <1>2, <1>3, <1>4 DEF Connected
<1>11. WillRetry' /\ Watched' BY <1>2, <1>3 DEF WillRetry, Watched
<1>12. Ordered(Coming, client.proxy)' BY <1>4, Silent
<1>13. SentSoFar'
  <2>1. link = "open" => server.phase = "hello" BY <1>1 DEF Connected
  <2>2. \A t : ~HasType(Coming', t) BY <1>4, Silent
  <2> QED BY <1>1, <1>2, <1>7, <2>1, <2>2 DEF SentSoFar
<1>14. Shapes'
  <2>1. Count(Coming', "CIAK", Len(Coming')) = 0 BY <1>4, Silent
  <2>2. Count(Coming', "CIAK", Len(Coming')) + Count(up', "DINF", Len(up')) <= unacked'
    BY <1>1, <1>8, <2>1 DEF TypeOK
  <2>3. Fresh(Coming, screen.shape, unacked)' BY <1>4, NoMessage DEF Fresh
  <2>4. LastSays(up, screen.shape)' BY <1>7 DEF LastSays
  <2>5. link = "open" => server.phase = "hello" BY <1>1 DEF Connected
  <2> QED BY <1>1, <1>6, <2>2, <2>3, <2>4, <2>5 DEF Shapes
<1>15. Cursor'
  <2>1. link = "open" => server.phase = "hello" BY <1>1 DEF Connected
  <2> QED BY <1>1, <2>1 DEF Cursor
<1>16. Placed' BY <1>1, <1>6 DEF Placed, OnlyUnackedMisleads
<1> QED BY <1>9, <1>10, <1>11, <1>12, <1>13, <1>14, <1>15, <1>16

(* Where the cursor is sent to is of another shape only if answers were    *)
(* missing when it was read.                                               *)
LEMMA Positioned ==
  ASSUME TypeOK, NEW type \in {"motion", "enter"}, NEW version \in 0..MaxShape,
         NEW expected \in Nat, version = screen.shape \/ expected # 0
  PROVE  LET p == Position(type, version, expected)
         IN  /\ p \in [type : {"none", "motion", "enter"}, version : 0..MaxShape, shape : 0..MaxShape,
                       unacked : Nat]
             /\ p.unacked = 0 => p.version = p.shape
<1>1. screen.shape \in 0..MaxShape /\ 0 \in 0..MaxShape
  BY SessionAssumption DEF TypeOK
<1> QED BY <1>1 DEF Position, Fits

LEMMA FlushedMouse ==
  ASSUME TypeOK, OnlyUnackedMisleads, NEW m \in Mice,
         m.compress # 0 => m.compress = screen.shape \/ m.unacked # 0
  PROVE  /\ Flushed(m) \in Mice /\ Flushed(m).ignore = m.ignore /\ Flushed(m).compress = 0
         /\ Obeyed(m) \in [type : {"none", "motion", "enter"}, version : 0..MaxShape,
                           shape : 0..MaxShape, unacked : Nat]
         /\ Obeyed(m).unacked = 0 => Obeyed(m).version = Obeyed(m).shape
<1>1. m.compress \in 0..MaxShape /\ m.unacked \in Nat BY DEF Mice
<1>2. Flushed(m) \in Mice /\ Flushed(m).ignore = m.ignore /\ Flushed(m).compress = 0
  <2>1. 0 \in 0..MaxShape /\ 0 \in Nat BY SessionAssumption
  <2>2. m \in [ignore : BOOLEAN, compress : 0..MaxShape, unacked : Nat] BY DEF Mice
  <2> QED BY <2>1, <2>2 DEF Flushed, Mice
<1>3. CASE m.compress = 0 BY <1>2, <1>3 DEF Obeyed, TypeOK, OnlyUnackedMisleads
<1>4. CASE m.compress # 0
  <2>1. Obeyed(m) = Position("motion", m.compress, m.unacked) BY <1>4 DEF Obeyed
  <2>2. m.compress = screen.shape \/ m.unacked # 0 BY <1>4
  <2> DEFINE v == m.compress
             e == m.unacked
             p == Position("motion", v, e)
  <2>3. v \in 0..MaxShape /\ e \in Nat /\ (v = screen.shape \/ e # 0) BY <1>1, <2>2
  <2> HIDE DEF v, e
  <2>4. /\ p \in [type : {"none", "motion", "enter"}, version : 0..MaxShape, shape : 0..MaxShape,
                  unacked : Nat]
        /\ p.unacked = 0 => p.version = p.shape
    BY <2>3, Positioned
  <2> QED BY <1>2, <2>1, <2>4 DEF v, e
<1> QED BY <1>3, <1>4

(* A message that leaves the position that waits, or has put one there,    *)
(* and ends the input if it is the last.                                   *)
LEMMA EndOfInput ==
  ASSUME TypeOK, OnlyUnackedMisleads, NEW m \in Mice, AtTheEnd(m),
         m.compress # 0 => m.compress = screen.shape \/ m.unacked # 0,
         inbox # <<>>, inbox' = Tail(inbox), screen'.shape = screen.shape
  PROVE  /\ mouse' \in Mice /\ mouse'.ignore = m.ignore
         /\ inbox' = <<>> => mouse'.compress = 0
         /\ misled' \in [type : {"none", "motion", "enter"}, version : 0..MaxShape,
                         shape : 0..MaxShape, unacked : Nat]
         /\ Placed'
<1>1. CASE More
  <2>1. mouse' = m /\ misled' = misled BY <1>1 DEF AtTheEnd
  <2>2. inbox' # <<>>
    <3>1. Len(inbox) \in Nat /\ DOMAIN inbox' = 1..(Len(inbox) - 1) BY TailOf DEF TypeOK
    <3>2. 1 \in DOMAIN inbox' BY <1>1, <3>1 DEF More
    <3> QED BY <3>2
  <2> QED BY <2>1, <2>2 DEF TypeOK, Placed, OnlyUnackedMisleads
<1>2. CASE ~More
  <2>1. mouse' = Flushed(m) /\ misled' = Obeyed(m) BY <1>2 DEF AtTheEnd
  <2> QED BY <2>1, FlushedMouse DEF Placed, OnlyUnackedMisleads
<1> QED BY <1>1, <1>2

(* What every other message that is read leaves as it must be, once it is  *)
(* known what it does to the variables.                                    *)
LEMMA ReadKeeps ==
  ASSUME SessionInv, inbox # <<>>, inbox' = Tail(inbox), down' = down, client.proxy # "none",
         NEW type, type = Head(inbox).type,
         client'.proxy = (IF type = "DSOP" THEN "ready" ELSE client.proxy),
         screen'.shape = screen.shape,
         screen'.entered = (IF type = "CENT" THEN TRUE ELSE IF type = "COUT" THEN FALSE
                            ELSE screen.entered),
         mouse'.ignore => mouse.ignore /\ type # "CIAK",
         UNCHANGED <<server, link, up>>,
         unacked' = (IF type = "CIAK" THEN unacked - 1 ELSE unacked)
  PROVE  /\ Ordered(Coming, client.proxy)' /\ SentSoFar' /\ Shapes' /\ Cursor'
         /\ unacked' \in Nat
<1>1. /\ Ordered(Coming', IF type = "DSOP" THEN "ready" ELSE client.proxy)
      /\ unacked' \in Nat
      /\ Count(Coming', "CIAK", Len(Coming')) + Count(up, "DINF", Len(up)) <= unacked'
      /\ Fresh(Coming', screen.shape, unacked')
      /\ \A t : HasType(Coming, t) <=> t = type \/ HasType(Coming', t)
      /\ link = "open" /\ server.phase = "adopted" =>
           CursorAt(Coming', IF type = "CENT" THEN TRUE ELSE IF type = "COUT" THEN FALSE
                             ELSE screen.entered, server.active)
  BY Learns
<1>2. Ordered(Coming, client.proxy)' BY <1>1
<1>3. SentSoFar'
  <2>1. SentSoFar BY DEF SessionInv
  <2>2. link' = link /\ server' = server OBVIOUS
  <2> QED BY <1>1, <2>1, <2>2 DEF SentSoFar
<1>4. Shapes'
  <2>1. Shapes /\ up' = up /\ link' = link /\ server' = server BY DEF SessionInv
  <2>2. HasType(Coming, "CIAK") /\ type # "CIAK" => HasType(Coming', "CIAK") BY <1>1
  <2>3. link = "open" => (mouse'.ignore /\ server.phase # "closing" =>
                            HasType(up, "DINF") \/ HasType(Coming', "CIAK"))
    BY <2>1, <2>2 DEF Shapes
  <2>4. (/\ Count(Coming, "CIAK", Len(Coming)) + Count(up, "DINF", Len(up)) <= unacked
         /\ Fresh(Coming, screen.shape, unacked))'
    BY <1>1, <2>1
  <2>5. link = "open" =>
          /\ LastSays(up, screen.shape)
          /\ server.phase \in {"known", "adopted"} =>
               server.info = screen.shape \/ HasType(up, "DINF")
    BY <2>1 DEF Shapes
  <2> QED BY <2>1, <2>3, <2>4, <2>5 DEF Shapes
<1>5. Cursor'
  <2>1. link' = link /\ server' = server OBVIOUS
  <2> QED BY <1>1, <2>1 DEF Cursor
<1> QED BY <1>1, <1>2, <1>3, <1>4, <1>5

LEMMA Acknowledged == SessionInv /\ InfoAcknowledgment => SessionInv'
<1> SUFFICES ASSUME SessionInv, InfoAcknowledgment PROVE SessionInv'
  OBVIOUS
<1>1. /\ inbox # <<>> /\ Head(inbox).type = "CIAK" /\ client.proxy # "none" /\ inbox' = Tail(inbox)
      /\ unacked' = unacked - 1 /\ AtTheEnd([mouse EXCEPT !.ignore = FALSE])
      /\ UNCHANGED <<client, screen, events, retries, server, up, down, link, used>>
  BY DEF InfoAcknowledgment, Reading
<1>2. /\ mouse' \in Mice /\ ~mouse'.ignore /\ (inbox' = <<>> => mouse'.compress = 0)
      /\ misled' \in [type : {"none", "motion", "enter"}, version : 0..MaxShape,
                      shape : 0..MaxShape, unacked : Nat]
      /\ Placed'
  <2> DEFINE m == [mouse EXCEPT !.ignore = FALSE]
  <2>1. m \in Mice /\ ~m.ignore /\ m.compress = mouse.compress /\ m.unacked = mouse.unacked
    BY DEF SessionInv, TypeOK, Mice
  <2>2. AtTheEnd(m) BY <1>1
  <2>3. TypeOK /\ Placed /\ screen'.shape = screen.shape BY <1>1 DEF SessionInv
  <2> HIDE DEF m
  <2> QED BY <1>1, <2>1, <2>2, <2>3, EndOfInput DEF Placed
<1>3. inbox' \in Seq(ToClient) BY <1>1, Reads
<1>4. /\ Ordered(Coming, client.proxy)' /\ SentSoFar' /\ Shapes' /\ Cursor' /\ unacked' \in Nat
  BY <1>1, <1>2, ReadKeeps
<1> USE DEF SessionInv
<1>5. TypeOK' BY <1>1, <1>2, <1>3, <1>4 DEF TypeOK, EnabledWhenReady
<1>6. client.stream = "hello" BY <1>1 DEF Connected
<1>7. Connected' BY <1>1, <1>2, <1>6 DEF Connected
<1>8. WillRetry' /\ Watched' BY <1>1 DEF WillRetry, Watched
<1> QED BY <1>2, <1>4, <1>5, <1>7, <1>8

LEMMA Optioned == SessionInv /\ SetOptions => SessionInv'
<1> SUFFICES ASSUME SessionInv, SetOptions PROVE SessionInv'
  OBVIOUS
<1>1. /\ inbox # <<>> /\ Head(inbox).type = "DSOP" /\ client.proxy # "none" /\ inbox' = Tail(inbox)
      /\ client' = [client EXCEPT !.proxy = "ready", !.ready = TRUE] /\ AtTheEnd(mouse)
      /\ screen' = IF client.proxy = "handshake" THEN [screen EXCEPT !.enabled = TRUE] ELSE screen
      /\ UNCHANGED <<events, retries, server, up, down, link, unacked, used>>
  BY DEF SetOptions, Reading
<1>2. /\ mouse' \in Mice /\ mouse'.ignore = mouse.ignore /\ (inbox' = <<>> => mouse'.compress = 0)
      /\ misled' \in [type : {"none", "motion", "enter"}, version : 0..MaxShape,
                      shape : 0..MaxShape, unacked : Nat]
      /\ Placed'
  <2>1. screen'.shape = screen.shape BY <1>1 DEF SessionInv, TypeOK
  <2>2. TypeOK /\ Placed /\ mouse \in Mice BY DEF SessionInv, TypeOK
  <2> QED BY <1>1, <2>1, <2>2, EndOfInput DEF Placed
<1>3. /\ client' \in Clients /\ client'.stream = client.stream /\ client'.proxy = "ready"
      /\ client'.timer = client.timer /\ client'.ready = TRUE /\ client'.alarm = client.alarm
  BY <1>1 DEF SessionInv, TypeOK, Clients
<1>4. /\ screen' \in [enabled : BOOLEAN, entered : BOOLEAN, shape : 1..MaxShape]
      /\ screen'.shape = screen.shape /\ screen'.entered = screen.entered
  BY <1>1 DEF SessionInv, TypeOK
<1>5. screen'.enabled = TRUE
  <2>1. CASE client.proxy = "handshake" BY <1>1, <2>1 DEF SessionInv, TypeOK
  <2>2. CASE client.proxy = "ready"
    <3>1. screen.enabled = TRUE
      BY <2>2, Zenon DEF SessionInv, TypeOK, EnabledWhenReady
    <3> QED BY <1>1, <2>2, <3>1
  <2> QED BY <1>1, <2>1, <2>2 DEF SessionInv, TypeOK, Clients
<1>6. inbox' \in Seq(ToClient) BY <1>1, Reads
<1>7. /\ Ordered(Coming, client.proxy)' /\ SentSoFar' /\ Shapes' /\ Cursor' /\ unacked' \in Nat
  BY <1>1, <1>2, <1>3, <1>4, ReadKeeps
<1> USE DEF SessionInv
<1>8. EnabledWhenReady'
  <2>1. (client'.proxy = "ready") = TRUE BY <1>3
  <2> QED BY <1>3, <1>5, <2>1, Zenon DEF EnabledWhenReady
<1>9. client.stream = "hello" BY <1>1 DEF Connected
<1>10. TypeOK' BY <1>1, <1>2, <1>3, <1>4, <1>6, <1>8, <1>9 DEF TypeOK
<1>11. Connected' BY <1>1, <1>3, <1>9 DEF Connected
<1>12. WillRetry' /\ Watched' BY <1>1, <1>3, <1>9 DEF WillRetry, Watched
<1> QED BY <1>2, <1>7, <1>10, <1>11, <1>12

LEMMA Moved == SessionInv /\ MouseMove => SessionInv'
<1> SUFFICES ASSUME SessionInv, MouseMove PROVE SessionInv'
  OBVIOUS
<1> DEFINE v == Head(inbox).version
           compress == mouse.compress # 0 \/ (~mouse.ignore /\ More)
           m == [mouse EXCEPT !.compress = v, !.unacked = unacked]
<1>1. /\ inbox # <<>> /\ Head(inbox).type = "DMMV" /\ client.proxy = "ready" /\ inbox' = Tail(inbox)
      /\ compress => AtTheEnd(m)
      /\ ~compress => mouse' = mouse
      /\ ~compress => misled' = IF mouse.ignore THEN misled ELSE Position("motion", v, unacked)
      /\ UNCHANGED <<client, screen, events, retries, server, up, down, link, unacked, used>>
  BY DEF MouseMove, Reading
<1>2. Head(inbox) \in ToClient /\ inbox' \in Seq(ToClient) BY <1>1, Reads
<1>3. v \in 0..MaxShape /\ (v = screen.shape \/ unacked # 0) BY <1>1, <1>2, Learns DEF ToClient
<1>4. ~compress => mouse.compress = 0 OBVIOUS
<1>5. TypeOK /\ OnlyUnackedMisleads /\ mouse \in Mice /\ unacked \in Nat
  BY DEF SessionInv, TypeOK, Placed
<1>6. m \in Mice /\ m.ignore = mouse.ignore /\ m.compress = v /\ m.unacked = unacked
  BY <1>3, <1>5 DEF Mice
<1> HIDE DEF compress, m, v
<1>7. /\ mouse' \in Mice /\ mouse'.ignore = mouse.ignore /\ (inbox' = <<>> => mouse'.compress = 0)
      /\ misled' \in [type : {"none", "motion", "enter"}, version : 0..MaxShape,
                      shape : 0..MaxShape, unacked : Nat]
      /\ Placed'
  <2>1. CASE compress
    <3>1. AtTheEnd(m) /\ screen'.shape = screen.shape BY <1>1, <2>1
    <3> QED BY <1>1, <1>3, <1>5, <1>6, <3>1, EndOfInput
  <2>2. CASE ~compress /\ mouse.ignore
    BY <1>1, <1>4, <1>5, <2>2 DEF TypeOK, Placed, OnlyUnackedMisleads
  <2>3. CASE ~compress /\ ~mouse.ignore
    <3>1. misled' = Position("motion", v, unacked) /\ mouse' = mouse BY <1>1, <2>3
    <3>2. /\ misled' \in [type : {"none", "motion", "enter"}, version : 0..MaxShape,
                          shape : 0..MaxShape, unacked : Nat]
          /\ misled'.unacked = 0 => misled'.version = misled'.shape
      BY <1>3, <1>5, <3>1, Positioned
    <3> QED BY <1>4, <1>5, <2>3, <3>1, <3>2 DEF Placed, OnlyUnackedMisleads
  <2> QED BY <2>1, <2>2, <2>3
<1>8. /\ Ordered(Coming, client.proxy)' /\ SentSoFar' /\ Shapes' /\ Cursor' /\ unacked' \in Nat
  BY <1>1, <1>7, ReadKeeps
<1> USE DEF SessionInv
<1>9. TypeOK' BY <1>1, <1>2, <1>7 DEF TypeOK, EnabledWhenReady
<1>10. client.stream = "hello" BY <1>1 DEF Connected
<1>11. Connected' BY <1>1, <1>7, <1>10 DEF Connected
<1>12. WillRetry' /\ Watched' BY <1>1 DEF WillRetry, Watched
<1> QED BY <1>7, <1>8, <1>9, <1>11, <1>12

LEMMA Crossed == SessionInv /\ (Enter \/ Leave) => SessionInv'
<1> SUFFICES ASSUME SessionInv, Enter \/ Leave PROVE SessionInv'
  OBVIOUS
<1>1. /\ inbox # <<>> /\ client.proxy = "ready" /\ inbox' = Tail(inbox)
      /\ mouse' = Flushed(mouse)
      /\ UNCHANGED <<client, events, retries, server, up, down, link, unacked, used>>
  BY DEF Enter, Leave, Reading
<1>2. \/ /\ Head(inbox).type = "CENT" /\ screen' = [screen EXCEPT !.entered = TRUE]
         /\ misled' = Position("enter", Head(inbox).version, unacked)
      \/ /\ Head(inbox).type = "COUT" /\ screen' = [screen EXCEPT !.entered = FALSE]
         /\ misled' = Obeyed(mouse)
  BY DEF Enter, Leave, Reading
<1>3. Head(inbox) \in ToClient /\ inbox' \in Seq(ToClient) BY <1>1, Reads
<1>4. /\ mouse' \in Mice /\ mouse'.ignore = mouse.ignore /\ mouse'.compress = 0
      /\ Obeyed(mouse) \in [type : {"none", "motion", "enter"}, version : 0..MaxShape,
                            shape : 0..MaxShape, unacked : Nat]
      /\ Obeyed(mouse).unacked = 0 => Obeyed(mouse).version = Obeyed(mouse).shape
  <2>1. TypeOK /\ Placed /\ mouse \in Mice BY DEF SessionInv, TypeOK
  <2> QED BY <1>1, <2>1, FlushedMouse DEF Placed
<1>5. /\ screen' \in [enabled : BOOLEAN, entered : BOOLEAN, shape : 1..MaxShape]
      /\ screen'.shape = screen.shape /\ screen'.enabled = screen.enabled
      /\ screen'.entered = (IF Head(inbox).type = "CENT" THEN TRUE
                            ELSE IF Head(inbox).type = "COUT" THEN FALSE ELSE screen.entered)
  BY <1>2 DEF SessionInv, TypeOK
<1>6. /\ Ordered(Coming, client.proxy)' /\ SentSoFar' /\ Shapes' /\ Cursor' /\ unacked' \in Nat
  <2>1. /\ client'.proxy = (IF Head(inbox).type = "DSOP" THEN "ready" ELSE client.proxy)
        /\ mouse'.ignore => mouse.ignore /\ Head(inbox).type # "CIAK"
        /\ UNCHANGED <<server, link, up>> /\ down' = down /\ client.proxy # "none"
        /\ unacked' = (IF Head(inbox).type = "CIAK" THEN unacked - 1 ELSE unacked)
    BY <1>1, <1>2, <1>4
  <2> QED BY <1>1, <1>5, <2>1, ReadKeeps
<1> USE DEF SessionInv
<1>7. /\ misled' \in [type : {"none", "motion", "enter"}, version : 0..MaxShape, shape : 0..MaxShape,
                      unacked : Nat]
      /\ misled'.unacked = 0 => misled'.version = misled'.shape
  <2>1. Head(inbox).type = "CENT" => Head(inbox).version = screen.shape \/ unacked # 0
    BY <1>1, Learns
  <2>2. Head(inbox).version \in 0..MaxShape BY <1>3 DEF ToClient
  <2>3. CASE misled' = Obeyed(mouse) BY <1>4, <2>3
  <2>4. CASE Head(inbox).type = "CENT" /\ misled' = Position("enter", Head(inbox).version, unacked)
    <3> DEFINE v == Head(inbox).version
    <3>1. unacked \in Nat /\ TypeOK BY DEF TypeOK
    <3>2. v \in 0..MaxShape /\ (v = screen.shape \/ unacked # 0) BY <2>1, <2>2, <2>4
    <3> HIDE DEF v
    <3>3. misled' = Position("enter", v, unacked) BY <2>4 DEF v
    <3> QED BY <3>1, <3>2, <3>3, Positioned
  <2> QED BY <1>2, <2>3, <2>4
<1>8. EnabledWhenReady' BY <1>1, <1>5 DEF TypeOK, EnabledWhenReady
<1>9. TypeOK' BY <1>1, <1>3, <1>4, <1>5, <1>7, <1>8 DEF TypeOK
<1>10. client.stream = "hello" BY <1>1 DEF Connected
<1>11. Connected' BY <1>1, <1>4, <1>10 DEF Connected
<1>12. WillRetry' /\ Watched' BY <1>1 DEF WillRetry, Watched
<1>13. Placed' BY <1>4, <1>7 DEF Placed, OnlyUnackedMisleads
<1> QED BY <1>6, <1>9, <1>11, <1>12, <1>13

(* What is dropped behind the last word were acknowledgments.              *)
LEMMA Dropped ==
  ASSUME NEW S, NEW s \in Seq(S), NEW t \in Seq(S), s # <<>>, NEW type
  PROVE  /\ Count(t, type, Len(t)) <= Count(s \o t, type, Len(s \o t))
         /\ Len(s \o t) = Len(s) + Len(t) /\ Len(s) \in Nat \ {0} /\ Len(t) \in Nat
         /\ \A i \in 1..Len(t) : (s \o t)[i + Len(s)] = t[i]
<1>1. /\ Len(s) \in Nat \ {0} /\ Len(t) \in Nat /\ Len(s \o t) = Len(s) + Len(t)
      /\ \A i \in 1..Len(t) : (s \o t)[i + Len(s)] = t[i]
  <2>1. Len(s) \in Nat \ {0} /\ Len(t) \in Nat BY TailOf, LenProperties
  <2>2. /\ Len(s \o t) = Len(s) + Len(t)
        /\ \A i \in 1..(Len(s) + Len(t)) :
             (s \o t)[i] = IF i <= Len(s) THEN s[i] ELSE t[i - Len(s)]
    BY ConcatProperties
  <2>3. ASSUME NEW i \in 1..Len(t) PROVE (s \o t)[i + Len(s)] = t[i]
    <3>1. i + Len(s) \in 1..(Len(s) + Len(t)) /\ ~(i + Len(s) <= Len(s)) /\ i + Len(s) - Len(s) = i
      BY <2>1
    <3> QED BY <2>2, <3>1
  <2> QED BY <2>1, <2>2, <2>3
<1> DEFINE A == Among(t, type, Len(t))
           B == Among(s \o t, type, Len(s \o t))
           n == Len(s)
           f == [i \in A |-> i + n]
<1>2. f \in Injection(A, B)
  <2>1. n \in Nat /\ \A i \in A : i \in 1..Len(t) /\ i + n \in B BY <1>1 DEF Among
  <2> HIDE DEF A, B, n
  <2>2. f \in [A -> B] BY <2>1
  <2>3. \A i, j \in A : f[i] = f[j] => i = j BY <2>1
  <2> QED BY <2>2, <2>3 DEF Injection, IsInjective
<1>3. Cardinality(A) <= Cardinality(B)
  <2>1. IsFiniteSet(A) /\ IsFiniteSet(B) BY <1>1, AmongFinite
  <2> HIDE DEF A, B, f
  <2> QED BY <1>2, <2>1, FS_Injection
<1> QED BY <1>1, <1>3 DEF Count

LEMMA Closed == SessionInv /\ Close => SessionInv'
<1> SUFFICES ASSUME SessionInv, Close PROVE SessionInv'
  OBVIOUS
<1>1. PICK type \in Over :
        Reading(type) /\ client.proxy # "none" /\ events' = Append(events, Told(type))
  BY DEF Close, Over
<1>2. /\ inbox # <<>> /\ Head(inbox).type = type /\ inbox' = <<>> /\ mouse' = Flushed(mouse)
      /\ UNCHANGED <<client, screen, retries, server, up, down, link, unacked, misled, used>>
  BY <1>1 DEF Close, Reading
<1> USE DEF SessionInv
<1>3. inbox \in Seq(ToClient) /\ down \in Seq(ToClient) /\ up \in Seq(ToServer) BY DEF TypeOK
<1>4. Coming' = down BY <1>2, <1>3, ComingTyped DEF Coming
<1>5. Coming \in Seq(ToClient) /\ Coming # <<>> /\ Coming[1].type = type
  <2>1. (inbox \o down)[1] = Head(inbox) /\ inbox \o down # <<>> BY <1>2, <1>3, ReadOne, TailOf
  <2> QED BY <1>2, <1>3, <2>1, ComingTyped DEF Coming
<1>6. /\ Count(down, "CIAK", Len(down)) <= Count(Coming, "CIAK", Len(Coming))
      /\ Len(Coming) = Len(inbox) + Len(down) /\ Len(inbox) \in Nat \ {0} /\ Len(down) \in Nat
      /\ \A i \in 1..Len(down) : Coming[i + Len(inbox)] = down[i]
  BY <1>2, <1>3, Dropped DEF Coming
<1>7. \A i \in DOMAIN down : down[i].type = "CIAK"
  <2>1. DOMAIN down = 1..Len(down) BY <1>3, LenProperties
  <2>2. 1 \in DOMAIN Coming
    <3>1. DOMAIN Coming = 1..Len(Coming) BY <1>5, LenProperties
    <3> QED BY <1>6, <3>1
  <2>3. \A j \in 2..Len(Coming) : Coming[j].type = "CIAK" BY <1>1, <1>5, <2>2 DEF Ordered
  <2>4. \A i \in 1..Len(down) : i + Len(inbox) \in 2..Len(Coming) BY <1>6
  <2> QED BY <1>6, <2>1, <2>3, <2>4
<1>8. link = "open" => server.phase = "closing"
  <2>1. HasType(Coming, "CBYE") \/ HasType(Coming, "EBSY")
    BY <1>1, <1>5, TypesOfTail DEF Over
  <2> QED BY <2>1 DEF SentSoFar
<1>9. mouse' \in Mice /\ mouse'.ignore = mouse.ignore /\ mouse'.compress = 0
  BY <1>2, FlushedMouse DEF TypeOK, Placed
<1>10. /\ events' \in Seq(Posts)
       /\ \A E : (\E i \in DOMAIN events : events[i] \in E) => \E i \in DOMAIN events' : events'[i] \in E
  <2>1. Told(type) \in Posts BY DEF Told, Posts, Requests
  <2> QED BY <1>1, <2>1, EventsMore DEF TypeOK
<1>11. TypeOK' BY <1>2, <1>3, <1>9, <1>10, NoMessage DEF TypeOK, EnabledWhenReady
<1>12. client.stream = "hello" BY <1>2 DEF Connected
<1>13. Connected' BY <1>1, <1>2, <1>9, <1>12 DEF Connected
<1>14. WillRetry' /\ Watched' BY <1>2, <1>10, <1>12 DEF WillRetry, Watched
<1>15. Ordered(Coming, client.proxy)' BY <1>1, <1>2, <1>3, <1>4, <1>7, OrderedOver
<1>16. SentSoFar' BY <1>2, <1>8 DEF SentSoFar
<1>17. Shapes'
  <2>1. Fresh(down, screen.shape, unacked) BY <1>7 DEF Fresh
  <2>2. Count(down, "CIAK", Len(down)) + Count(up, "DINF", Len(up)) <= unacked
    <3>1. /\ Count(Coming, "CIAK", Len(Coming)) + Count(up, "DINF", Len(up)) <= unacked
          /\ unacked \in Nat /\ Count(Coming, "CIAK", Len(Coming)) \in Nat
          /\ Count(up, "DINF", Len(up)) \in Nat
      BY Facts DEF Shapes, TypeOK
    <3>2. Count(down, "CIAK", Len(down)) \in Nat BY <1>6, AmongFinite
    <3> QED BY <1>6, <3>1, <3>2
  <2> QED BY <1>2, <1>4, <1>8, <2>1, <2>2 DEF Shapes
<1>18. Cursor' BY <1>2, <1>8 DEF Cursor
<1>19. Placed' BY <1>2, <1>9 DEF Placed, OnlyUnackedMisleads
<1> QED BY <1>11, <1>13, <1>14, <1>15, <1>16, <1>17, <1>18, <1>19

LEMMA Queried == SessionInv /\ QueryInfo => SessionInv'
<1> SUFFICES ASSUME SessionInv, QueryInfo PROVE SessionInv'
  OBVIOUS
<1>1. /\ inbox # <<>> /\ Head(inbox).type = "QINF" /\ client.proxy # "none" /\ inbox' = Tail(inbox)
      /\ Write(<<Msg("DINF", screen.shape)>>) /\ unacked' = unacked + 1 /\ AtTheEnd(mouse)
      /\ UNCHANGED <<client, screen, events, retries, server, down, link, used>>
  BY DEF QueryInfo, Reading
<1>2. /\ mouse' \in Mice /\ mouse'.ignore = mouse.ignore /\ (inbox' = <<>> => mouse'.compress = 0)
      /\ misled' \in [type : {"none", "motion", "enter"}, version : 0..MaxShape,
                      shape : 0..MaxShape, unacked : Nat]
      /\ Placed'
  <2>1. TypeOK /\ Placed /\ mouse \in Mice /\ screen'.shape = screen.shape
    BY <1>1 DEF SessionInv, TypeOK
  <2> QED BY <1>1, <2>1, EndOfInput DEF Placed
<1>3. inbox' \in Seq(ToClient) /\ Coming' \in Seq(ToClient) BY <1>1, Reads
<1>4. /\ Ordered(Coming', client.proxy) /\ unacked \in Nat
      /\ Count(Coming', "CIAK", Len(Coming')) + Count(up, "DINF", Len(up)) <= unacked
      /\ Fresh(Coming', screen.shape, unacked)
      /\ \A t : t # "QINF" => (HasType(Coming, t) <=> HasType(Coming', t))
      /\ link = "open" /\ server.phase = "adopted" =>
           CursorAt(Coming', screen.entered, server.active)
  BY <1>1, Learns
<1> DEFINE m == Msg("DINF", screen.shape)
<1>5. /\ screen.shape \in 1..MaxShape /\ m \in ToServer /\ m.type = "DINF"
      /\ up \in Seq(ToServer)
  BY SessionAssumption DEF SessionInv, TypeOK, Msg, ToServer
<1>6. TypeOK BY DEF SessionInv
<1> HIDE DEF m
<1>7. /\ up' \in Seq(ToServer) /\ (link = "open" => up' = Append(up, m))
      /\ link # "open" => up' = up
  BY <1>1, <1>5, <1>6, Wrote DEF m
<1>8. /\ Count(Coming', "CIAK", Len(Coming')) + Count(up', "DINF", Len(up')) <= unacked + 1
      /\ Fresh(Coming', screen.shape, unacked + 1)
      /\ link = "open" => LastSays(up', screen.shape) /\ HasType(up', "DINF")
  BY <1>3, <1>4, <1>5, <1>7, Tells DEF m
<1> USE DEF SessionInv
<1>9. TypeOK'
  <2>1. unacked' \in Nat BY <1>1, <1>4
  <2> QED BY <1>1, <1>2, <1>3, <1>7, <2>1 DEF TypeOK, EnabledWhenReady
<1>10. client.stream = "hello" BY <1>1 DEF Connected
<1>11. Connected' BY <1>1, <1>2, <1>10 DEF Connected
<1>12. WillRetry' /\ Watched' BY <1>1 DEF WillRetry, Watched
<1>13. Ordered(Coming, client.proxy)' BY <1>1, <1>4
<1>14. SentSoFar'
  <2>1. ASSUME NEW i \in DOMAIN up', up'[i].type = "HelloBack" PROVE i = 1
    <3>1. CASE up' = up BY <2>1, <3>1 DEF SentSoFar
    <3>2. CASE up' = Append(up, m)
      <4>1. i \in DOMAIN up /\ up'[i] = up[i] BY <1>5, <2>1, <3>2, AppendTo
      <4> QED BY <2>1, <4>1 DEF SentSoFar
    <3> QED BY <1>7, <3>1, <3>2
  <2>2. link = "open" => (HasType(up', "HelloBack") => HasType(up, "HelloBack"))
    BY <1>5, <1>7, TypesOfAppend
  <2>3. \A t \in {"DSOP", "CBYE", "EBSY"} : HasType(Coming, t) <=> HasType(Coming', t) BY <1>4
  <2> QED BY <1>1, <2>1, <2>2, <2>3 DEF SentSoFar
<1>15. Shapes' BY <1>1, <1>8 DEF Shapes
<1>16. Cursor' BY <1>1, <1>4 DEF Cursor
<1> QED BY <1>2, <1>9, <1>11, <1>12, <1>13, <1>14, <1>15, <1>16

LEMMA Reshaped == SessionInv /\ HandleShapeChanged => SessionInv'
<1> SUFFICES ASSUME SessionInv, HandleShapeChanged PROVE SessionInv'
  OBVIOUS
<1> USE DEF SessionInv
<1>1. /\ screen.shape < MaxShape /\ screen' = [screen EXCEPT !.shape = @ + 1]
      /\ UNCHANGED <<client, inbox, events, retries, server, down, link, misled, used>>
  BY DEF HandleShapeChanged
<1>2. /\ screen' \in [enabled : BOOLEAN, entered : BOOLEAN, shape : 1..MaxShape]
      /\ screen'.enabled = screen.enabled /\ screen'.entered = screen.entered
      /\ screen'.shape \in 1..MaxShape
  <2>1. screen \in [enabled : BOOLEAN, entered : BOOLEAN, shape : 1..MaxShape] BY DEF TypeOK
  <2>2. screen.shape + 1 \in 1..MaxShape BY <1>1, <2>1, SessionAssumption
  <2> QED BY <1>1, <2>1, <2>2
<1>3. EnabledWhenReady' BY <1>1, <1>2 DEF TypeOK, EnabledWhenReady
<1>4. Coming' = Coming BY <1>1 DEF Coming
<1>5. WillRetry' /\ Watched' BY <1>1 DEF WillRetry, Watched
<1>6. Ordered(Coming, client.proxy)' BY <1>1, <1>4
<1>7. Cursor' BY <1>1, <1>2, <1>4 DEF Cursor
<1>8. mouse'.compress = 0 /\ mouse'.ignore \in BOOLEAN => Placed'
  BY <1>1 DEF Placed, OnlyUnackedMisleads
<1>9. CASE client.proxy = "none"
  <2>1. UNCHANGED <<up, unacked, mouse>> BY <1>9 DEF HandleShapeChanged
  <2>2. TypeOK' BY <1>1, <1>2, <1>3, <2>1 DEF TypeOK
  <2>3. Connected' BY <1>1, <1>2, <2>1 DEF Connected
  <2>4. SentSoFar' /\ Placed' BY <1>1, <1>4, <1>8, <1>9, <2>1 DEF SentSoFar, Connected, TypeOK, Mice
  <2>5. Shapes'
    <3>1. \A i \in DOMAIN Coming : Coming[i].type = "HELO"
      <4>1. Coming \in Seq(ToClient) BY Facts
      <4>2. DOMAIN Coming = 1..Len(Coming) BY <4>1, LenProperties
      <4> QED BY <1>9, <4>2 DEF Ordered
    <3>2. Fresh(Coming, screen'.shape, unacked) BY <3>1 DEF Fresh
    <3>3. up = <<>> /\ ~mouse.ignore /\ (link = "open" => server.phase = "hello")
      BY <1>9 DEF Connected
    <3>4. LastSays(up, screen'.shape) BY <3>3, Silent
    <3>5. Count(Coming, "CIAK", Len(Coming)) + Count(up, "DINF", Len(up)) <= unacked BY DEF Shapes
    <3> QED BY <1>1, <1>4, <2>1, <3>2, <3>3, <3>4, <3>5 DEF Shapes
  <2> QED BY <1>5, <1>6, <1>7, <2>2, <2>3, <2>4, <2>5
<1>10. CASE client.proxy # "none"
  <2> DEFINE m == Msg("DINF", screen'.shape)
  <2>1. Write(<<m>>) /\ unacked' = unacked + 1 /\ mouse' = OnInfoChanged(mouse)
    BY <1>10 DEF HandleShapeChanged
  <2>2. /\ m \in ToServer /\ m.type = "DINF" /\ up \in Seq(ToServer)
    BY <1>2, SessionAssumption DEF TypeOK, Msg, ToServer
  <2> HIDE DEF m
  <2>3. /\ up' \in Seq(ToServer) /\ (link = "open" => up' = Append(up, m))
        /\ link # "open" => up' = up
    BY <2>1, <2>2, Wrote
  <2>4. Coming \in Seq(ToClient) /\ unacked \in Nat BY Facts DEF TypeOK
  <2>5. /\ Count(Coming, "CIAK", Len(Coming)) + Count(up, "DINF", Len(up)) <= unacked
        /\ Fresh(Coming, screen.shape, unacked)
    BY DEF Shapes
  <2>6. /\ Count(Coming, "CIAK", Len(Coming)) + Count(up', "DINF", Len(up')) <= unacked + 1
        /\ Fresh(Coming, screen'.shape, unacked + 1)
        /\ link = "open" => LastSays(up', screen'.shape) /\ HasType(up', "DINF")
    <3> DEFINE next == screen'.shape
    <3>1. up' = up \/ up' = Append(up, Msg("DINF", next)) BY <2>3 DEF m
    <3>2. link = "open" => up' = Append(up, Msg("DINF", next)) BY <2>3 DEF m
    <3>3. next \in 1..MaxShape BY <1>2
    <3> HIDE DEF next
    <3>4. /\ Count(Coming, "CIAK", Len(Coming)) + Count(up', "DINF", Len(up')) <= unacked + 1
          /\ Fresh(Coming, next, unacked + 1)
          /\ link = "open" => LastSays(up', next) /\ HasType(up', "DINF")
      BY <2>2, <2>4, <2>5, <3>1, <3>2, <3>3, Tells
    <3> QED BY <3>4 DEF next
  <2>7. mouse' \in Mice /\ mouse'.compress = 0 /\ Placed'
    <3>1. inbox = <<>> /\ mouse \in Mice /\ mouse.compress = 0
      BY DEF HandleShapeChanged, TypeOK
    <3>2. mouse' \in Mice /\ mouse'.compress = 0 BY <2>1, <3>1 DEF OnInfoChanged, Mice
    <3> QED BY <1>8, <3>2 DEF Mice
  <2>8. TypeOK'
    <3>1. unacked' \in Nat BY <2>1, <2>4
    <3> QED BY <1>1, <1>2, <1>3, <2>3, <2>7, <3>1 DEF TypeOK
  <2>9. client.stream = "hello" BY <1>10 DEF Connected
  <2>10. Connected' BY <1>1, <1>2, <1>10, <2>9 DEF Connected
  <2>11. SentSoFar'
    <3>1. ASSUME NEW i \in DOMAIN up', up'[i].type = "HelloBack" PROVE i = 1
      <4>1. CASE up' = up BY <3>1, <4>1 DEF SentSoFar
      <4>2. CASE up' = Append(up, m)
        <5>1. i \in DOMAIN up /\ up'[i] = up[i] BY <2>2, <3>1, <4>2, AppendTo
        <5> QED BY <3>1, <5>1 DEF SentSoFar
      <4> QED BY <2>3, <4>1, <4>2
    <3>2. link = "open" => (HasType(up', "HelloBack") => HasType(up, "HelloBack"))
      BY <2>2, <2>3, TypesOfAppend
    <3> QED BY <1>1, <1>4, <3>1, <3>2 DEF SentSoFar
  <2>12. Shapes' BY <1>1, <1>4, <2>1, <2>6 DEF Shapes
  <2> QED BY <1>5, <1>6, <1>7, <2>7, <2>8, <2>10, <2>11, <2>12
<1> QED BY <1>9, <1>10

(***************************************************************************)
(* The server's end: what it sends is understood and true, or known not    *)
(* to be.                                                                  *)
(***************************************************************************)
LEMMA Sends ==
  ASSUME SessionInv, NEW m \in ToClient, Send(<<m>>), link = "open",
         server.phase # "hello",
         UNCHANGED <<clientVars, link, unacked, misled, used>>,
         m.type # "HELO", m.type \in OfReady => server.phase = "adopted",
         m.type = "EBSY" => server.phase = "known",
         m.type = "CIAK" \/ server.phase # "closing",
         m.type \in {"CENT", "DMMV"} => m.version = server.info
  PROVE  /\ down' \in Seq(ToClient) /\ Len(down') <= MaxFlight
         /\ Coming \in Seq(ToClient) /\ Coming' = Append(Coming, m)
         /\ client.proxy # "none" /\ client.stream = "hello"
         /\ WillRetry' /\ Watched' /\ Ordered(Coming, client.proxy)' /\ Placed'
         /\ Count(Coming', "CIAK", Len(Coming')) =
              Count(Coming, "CIAK", Len(Coming)) + (IF m.type = "CIAK" THEN 1 ELSE 0)
         /\ Fresh(Coming', screen.shape, unacked)
         /\ \A t : HasType(Coming', t) <=> m.type = t \/ HasType(Coming, t)
<1> USE DEF SessionInv
<1>1. /\ inbox \in Seq(ToClient) /\ down \in Seq(ToClient) /\ inbox' = inbox
      /\ down' = down \o <<m>> /\ Len(down) + 1 <= MaxFlight
  BY DEF TypeOK, Send, clientVars
<1>2. down' \in Seq(ToClient) /\ Len(down') <= MaxFlight
  <2>1. down' = Append(down, m) BY <1>1, OneMore
  <2> QED BY <1>1, <2>1, AppendTo
<1>3. Coming' = Append(Coming, m)
  BY <1>1, SendOne DEF Coming
<1>4. Coming \in Seq(ToClient) BY Facts
<1>5. client.proxy \in {"handshake", "ready"} /\ client.stream = "hello"
  BY DEF Connected, TypeOK, Clients
<1>6. /\ m.type \in OfReady => client.proxy = "ready" \/ HasType(Coming, "DSOP")
      /\ m.type = "EBSY" => client.proxy = "handshake" /\ ~HasType(Coming, "DSOP")
      /\ m.type # "CIAK" => ~HasType(Coming, "CBYE") /\ ~HasType(Coming, "EBSY")
  BY <1>5 DEF SentSoFar
<1>7. Ordered(Append(Coming, m), client.proxy)
  BY <1>4, <1>5, <1>6, OrderedAppend
<1>8. Count(Append(Coming, m), "CIAK", Len(Coming) + 1) =
        Count(Coming, "CIAK", Len(Coming)) + (IF m.type = "CIAK" THEN 1 ELSE 0)
  BY <1>4, CountAppend
<1>9. Len(Append(Coming, m)) = Len(Coming) + 1 BY <1>4, AppendTo
<1>10. /\ unacked \in Nat /\ Fresh(Coming, screen.shape, unacked)
       /\ Count(Coming, "CIAK", Len(Coming)) + Count(up, "DINF", Len(up)) <= unacked
       /\ Count(Coming, "CIAK", Len(Coming)) \in Nat /\ Count(up, "DINF", Len(up)) \in Nat
  BY Facts DEF TypeOK, Shapes
<1>11. m.type \in {"CENT", "DMMV"} =>
         m.version = screen.shape \/ Count(Coming, "CIAK", Len(Coming)) < unacked
  <2> SUFFICES ASSUME m.type \in {"CENT", "DMMV"}, m.version # screen.shape
               PROVE  Count(Coming, "CIAK", Len(Coming)) < unacked
    OBVIOUS
  <2>1. server.phase = "adopted" /\ server.info # screen.shape BY DEF OfReady
  <2>2. HasType(up, "DINF") BY <2>1 DEF Shapes
  <2>3. Count(up, "DINF", Len(up)) >= 1 BY <2>2, CountOne DEF TypeOK
  <2> QED BY <1>10, <2>3
<1>12. Fresh(Append(Coming, m), screen.shape, unacked) BY <1>4, <1>10, <1>11, FreshAppend
<1>13. \A t : HasType(Append(Coming, m), t) <=> m.type = t \/ HasType(Coming, t)
  BY <1>4, TypesOfAppend
<1>14. WillRetry' /\ Watched' /\ Placed'
  BY DEF clientVars, WillRetry, Watched, Placed, OnlyUnackedMisleads
<1>15. client' = client BY DEF clientVars
<1> QED BY <1>2, <1>3, <1>4, <1>5, <1>7, <1>8, <1>9, <1>12, <1>13, <1>14, <1>15

LEMMA Replies == ASSUME NEW type \in {"EBSY"} \cup ReadyMessages
                 PROVE  /\ Msg(type, 0) \in ToClient /\ Msg(type, 0).type = type
                        /\ \A v \in 0..MaxShape : /\ Msg(type, v) \in ToClient
                                                  /\ Msg(type, v).type = type
                                                  /\ Msg(type, v).version = v
BY SessionAssumption DEF Msg, ToClient

LEMMA Introduced == SessionInv /\ ServerHandleHello => SessionInv'
<1> SUFFICES ASSUME SessionInv, ServerHandleHello PROVE SessionInv'
  OBVIOUS
<1>1. /\ link = "open" /\ up # <<>> /\ Head(up).type = "HelloBack" /\ Send(<<Msg("QINF", 0)>>)
      /\ up' = Tail(up) /\ UNCHANGED <<clientVars, link, unacked, misled, used>>
  BY DEF ServerHandleHello, Heard
<1>2. PICK stuck \in {FALSE, Len(up) > 1} :
        server' = [server EXCEPT !.phase = "query", !.stuck = stuck]
  BY DEF ServerHandleHello
<1> USE DEF SessionInv
<1>3. /\ server' \in [phase : Phases, info : 0..MaxShape, stuck : BOOLEAN, active : BOOLEAN, old : BOOLEAN]
      /\ server'.phase = "query" /\ server'.active = server.active /\ server'.old = server.old
      /\ server'.info = server.info
  <2>1. stuck \in BOOLEAN
    <3>1. (Len(up) > 1) \in BOOLEAN OBVIOUS
    <3>2. stuck = FALSE \/ stuck = (Len(up) > 1) BY <1>2
    <3> QED BY <3>1, <3>2, Zenon
  <2> QED BY <1>2, <2>1 DEF TypeOK, Phases
<1>4. /\ up \in Seq(ToServer) /\ Len(up) \in Nat \ {0} /\ DOMAIN up = 1..Len(up)
      /\ up' \in Seq(ToServer) /\ Len(up') = Len(up) - 1 /\ DOMAIN up' = 1..(Len(up) - 1)
      /\ up[1].type = "HelloBack" /\ \A i \in 1..(Len(up) - 1) : up'[i] = up[i + 1]
  BY <1>1, TailOf DEF TypeOK
<1>5. HasType(up, "HelloBack")
  <2>1. 1 \in DOMAIN up BY <1>4
  <2> QED BY <1>4, <2>1 DEF HasType
<1>6. server.phase = "hello" BY <1>1, <1>5 DEF SentSoFar
<1>7. client.proxy # "none" /\ client.stream = "hello" BY <1>1 DEF Connected
<1>8. ~HasType(up', "HelloBack")
  <2>1. \A i \in 1..(Len(up) - 1) : i + 1 \in DOMAIN up /\ i + 1 # 1 BY <1>4
  <2>2. \A i \in DOMAIN up' : up'[i].type # "HelloBack" BY <1>4, <2>1 DEF SentSoFar
  <2> QED BY <2>2 DEF HasType
<1> DEFINE m == Msg("QINF", 0)
<1>9. m \in ToClient /\ m.type = "QINF" BY Replies DEF ReadyMessages
<1>10. /\ inbox \in Seq(ToClient) /\ down \in Seq(ToClient) /\ inbox' = inbox
       /\ down' = down \o <<m>> /\ Len(down) + 1 <= MaxFlight
  BY <1>1 DEF TypeOK, Send, clientVars
<1> HIDE DEF m
<1>11. down' = Append(down, m) /\ down' \in Seq(ToClient) /\ Len(down') <= MaxFlight
  <2>1. down' = Append(down, m) BY <1>9, <1>10, OneMore
  <2> QED BY <1>9, <1>10, <2>1, AppendTo
<1>12. Coming' = Append(Coming, m) /\ Coming \in Seq(ToClient)
  BY <1>9, <1>10, SendOne, Facts DEF Coming
<1>13. \A t : HasType(Coming', t) <=> t = "QINF" \/ HasType(Coming, t)
  BY <1>9, <1>12, TypesOfAppend
<1>14. client' = client /\ screen' = screen /\ mouse' = mouse /\ unacked' = unacked /\ link' = link
       /\ events' = events /\ retries' = retries
  BY <1>1 DEF clientVars
<1>15. TypeOK' BY <1>1, <1>3, <1>4, <1>10, <1>11, <1>14 DEF TypeOK, EnabledWhenReady
<1>16. Connected' BY <1>1, <1>3, <1>6, <1>7, <1>14 DEF Connected
<1>17. WillRetry' /\ Watched' BY <1>14 DEF WillRetry, Watched
<1>18. Ordered(Coming, client.proxy)'
  <2>1. client.proxy \in {"handshake", "ready"} BY <1>7 DEF TypeOK, Clients
  <2>2. ~HasType(Coming, "CBYE") /\ ~HasType(Coming, "EBSY") BY <1>1, <1>6 DEF SentSoFar
  <2>3. Ordered(Append(Coming, m), client.proxy)
    BY <1>9, <1>12, <2>1, <2>2, OrderedAppend DEF OfReady
  <2> QED BY <1>12, <1>14, <2>3
<1>19. SentSoFar'
  <2>1. /\ client.proxy # "ready" /\ ~HasType(Coming, "DSOP")
        /\ ~HasType(Coming, "CBYE") /\ ~HasType(Coming, "EBSY")
    BY <1>1, <1>6 DEF SentSoFar
  <2> QED BY <1>3, <1>8, <1>13, <1>14, <2>1 DEF SentSoFar, HasType
<1>20. Shapes'
  <2>1. Count(Append(Coming, m), "CIAK", Len(Coming) + 1) = Count(Coming, "CIAK", Len(Coming))
    <3>1. Count(Append(Coming, m), "CIAK", Len(Coming) + 1) =
            Count(Coming, "CIAK", Len(Coming)) + (IF m.type = "CIAK" THEN 1 ELSE 0)
      BY <1>9, <1>12, CountAppend
    <3> QED BY <1>9, <3>1, Facts
  <2>2. Count(Coming', "CIAK", Len(Coming')) = Count(Coming, "CIAK", Len(Coming))
    BY <1>9, <1>12, <2>1, AppendTo
  <2>3. Count(up', "DINF", Len(up')) <= Count(up, "DINF", Len(up))
    <3>1. Len(up) - 1 \in 0..(Len(up) - 1) /\ Len(up) - 1 + 1 = Len(up) BY <1>4
    <3>2. Count(up, "DINF", Len(up)) =
            Count(Tail(up), "DINF", Len(up) - 1) + (IF up[1].type = "DINF" THEN 1 ELSE 0)
      BY <1>1, <1>4, <3>1, CountTail
    <3>3. Count(Tail(up), "DINF", Len(up) - 1) \in Nat BY <1>4, AmongFinite
    <3> QED BY <1>1, <1>4, <3>2, <3>3
  <2>4. Count(Coming', "CIAK", Len(Coming')) + Count(up', "DINF", Len(up')) <= unacked'
    <3>1. Len(up') \in Int BY <1>4
    <3>2. Count(up', "DINF", Len(up')) \in Nat BY <3>1, AmongFinite
    <3>3. /\ Count(Coming, "CIAK", Len(Coming)) + Count(up, "DINF", Len(up)) <= unacked
          /\ unacked \in Nat
          /\ Count(Coming, "CIAK", Len(Coming)) \in Nat /\ Count(up, "DINF", Len(up)) \in Nat
      BY Facts DEF Shapes, TypeOK
    <3> QED BY <1>14, <2>2, <2>3, <3>2, <3>3
  <2>5. Fresh(Coming, screen.shape, unacked)'
    <3>1. Fresh(Append(Coming, m), screen.shape, unacked)
      BY <1>9, <1>12, FreshAppend DEF Shapes, TypeOK
    <3> QED BY <1>12, <1>14, <3>1
  <2>6. LastSays(up, screen.shape)'
    <3>1. LastSays(Tail(up), screen.shape) BY <1>1, <1>4, SaysTail DEF Shapes
    <3> QED BY <1>1, <1>14, <3>1
  <2>7. mouse.ignore => HasType(up', "DINF") \/ HasType(Coming', "CIAK")
    <3>1. mouse.ignore => HasType(up, "DINF") \/ HasType(Coming, "CIAK") BY <1>1, <1>6 DEF Shapes
    <3>2. HasType(up, "DINF") => HasType(up', "DINF") BY <1>1, <1>4, TypesOfTail
    <3> QED BY <1>13, <3>1, <3>2
  <2> QED BY <1>3, <1>14, <2>4, <2>5, <2>6, <2>7 DEF Shapes
<1>21. Cursor' BY <1>3 DEF Cursor
<1>22. Placed' BY <1>1, <1>14 DEF Placed, OnlyUnackedMisleads
<1> QED BY <1>15, <1>16, <1>17, <1>18, <1>19, <1>20, <1>21, <1>22

LEMMA Informed == SessionInv /\ RecvInfo => SessionInv'
<1> SUFFICES ASSUME SessionInv, RecvInfo PROVE SessionInv'
  OBVIOUS
<1> DEFINE m == Msg("CIAK", 0)
<1>1. /\ link = "open" /\ up # <<>> /\ Head(up).type = "DINF" /\ server.phase # "hello"
      /\ Send(<<m>>) /\ up' = Tail(up)
      /\ server' = [server EXCEPT !.info = Head(up).version,
                                  !.phase = IF @ = "query" THEN "known" ELSE @]
      /\ UNCHANGED <<clientVars, link, unacked, misled, used>>
  BY DEF RecvInfo, Heard
<1>2. m \in ToClient /\ m.type = "CIAK" BY Replies DEF ReadyMessages
<1> HIDE DEF m
<1>3. /\ down' \in Seq(ToClient) /\ Len(down') <= MaxFlight
      /\ Coming \in Seq(ToClient) /\ Coming' = Append(Coming, m)
      /\ client.proxy # "none" /\ client.stream = "hello"
      /\ WillRetry' /\ Watched' /\ Ordered(Coming, client.proxy)' /\ Placed'
      /\ Count(Coming', "CIAK", Len(Coming')) = Count(Coming, "CIAK", Len(Coming)) + 1
      /\ Fresh(Coming', screen.shape, unacked)
      /\ \A t : HasType(Coming', t) <=> t = "CIAK" \/ HasType(Coming, t)
  BY <1>1, <1>2, Sends DEF OfReady
<1> USE DEF SessionInv
<1>4. /\ up \in Seq(ToServer) /\ Len(up) \in Nat \ {0} /\ DOMAIN up = 1..Len(up)
      /\ up' \in Seq(ToServer) /\ Len(up') = Len(up) - 1 /\ DOMAIN up' = 1..(Len(up) - 1)
      /\ up[1] = Head(up) /\ up[1] \in ToServer
      /\ \A i \in 1..(Len(up) - 1) : up'[i] = up[i + 1]
  BY <1>1, TailOf DEF TypeOK
<1>5. /\ server' \in [phase : Phases, info : 0..MaxShape, stuck : BOOLEAN, active : BOOLEAN, old : BOOLEAN]
      /\ server'.active = server.active /\ server'.old = server.old /\ server'.info = up[1].version
      /\ server'.phase = IF server.phase = "query" THEN "known" ELSE server.phase
  BY <1>1, <1>4 DEF TypeOK, Phases, ToServer
<1>6. /\ client' = client /\ screen' = screen /\ mouse' = mouse /\ unacked' = unacked
      /\ link' = link /\ inbox' = inbox /\ events' = events /\ retries' = retries
  BY <1>1 DEF clientVars
<1>7. TypeOK' BY <1>1, <1>3, <1>4, <1>5, <1>6 DEF TypeOK, EnabledWhenReady
<1>8. Connected' BY <1>1, <1>3, <1>5, <1>6 DEF Connected
<1>9. ~HasType(up, "HelloBack") /\ ~HasType(up', "HelloBack")
  <2>1. ~HasType(up, "HelloBack") BY <1>1 DEF SentSoFar
  <2> QED BY <1>1, <1>4, <2>1, TypesOfTail
<1>10. SentSoFar'
  <2>1. \A i \in DOMAIN up' : up'[i].type # "HelloBack" BY <1>9 DEF HasType
  <2> QED BY <1>1, <1>3, <1>5, <1>6, <1>9, <2>1 DEF SentSoFar
<1>11. Shapes'
  <2>1. Count(up, "DINF", Len(up)) = Count(up', "DINF", Len(up')) + 1
    <3>1. Len(up) - 1 \in 0..(Len(up) - 1) /\ Len(up) - 1 + 1 = Len(up) BY <1>4
    <3>2. Count(up, "DINF", Len(up)) =
            Count(Tail(up), "DINF", Len(up) - 1) + (IF up[1].type = "DINF" THEN 1 ELSE 0)
      BY <1>1, <1>4, <3>1, CountTail
    <3> QED BY <1>1, <1>4, <3>2
  <2>2. Count(up', "DINF", Len(up')) \in Nat
    <3>1. Len(up') \in Int BY <1>4
    <3> QED BY <3>1, AmongFinite
  <2>3. /\ Count(Coming, "CIAK", Len(Coming)) + Count(up, "DINF", Len(up)) <= unacked
        /\ unacked \in Nat /\ Count(Coming, "CIAK", Len(Coming)) \in Nat
    BY Facts DEF Shapes, TypeOK
  <2>4. Count(Coming', "CIAK", Len(Coming')) + Count(up', "DINF", Len(up')) <= unacked'
    BY <1>3, <1>6, <2>1, <2>2, <2>3
  <2>5. Fresh(Coming, screen.shape, unacked)' BY <1>3, <1>6
  <2>6. /\ LastSays(Tail(up), screen.shape)
        /\ up[1].type = "DINF" => up[1].version = screen.shape \/ HasType(Tail(up), "DINF")
    BY <1>1, <1>4, SaysTail DEF Shapes
  <2>7. LastSays(up, screen.shape)' BY <1>1, <1>6, <2>6
  <2>8. server'.info = screen.shape \/ HasType(up', "DINF") BY <1>1, <1>4, <1>5, <2>6
  <2>9. HasType(Coming', "CIAK") BY <1>3
  <2> QED BY <1>6, <2>4, <2>5, <2>7, <2>8, <2>9 DEF Shapes
<1>12. Cursor'
  <2> SUFFICES ASSUME server.phase = "adopted"
               PROVE  CursorAt(Append(Coming, m), screen.entered, server.active)
    BY <1>3, <1>5, <1>6 DEF Cursor
  <2>1. CursorAt(Coming, screen.entered, server.active) BY <1>1 DEF Cursor
  <2>2. screen.entered \in BOOLEAN /\ server.active \in BOOLEAN BY DEF TypeOK
  <2> QED BY <1>2, <1>3, <2>1, <2>2, CursorAppend
<1> QED BY <1>3, <1>7, <1>8, <1>10, <1>11, <1>12

(* Adopting, and what an adopted client is told: the two differ from the   *)
(* answers above in that nothing is taken from the client.                 *)
LEMMA Serving ==
  ASSUME SessionInv, NEW m \in ToClient, Send(<<m>>), link = "open",
         server.phase \in {"known", "adopted"},
         UNCHANGED <<clientVars, up, link, unacked, misled, used>>,
         m.type \in {"EBSY", "DSOP", "CENT", "COUT", "DMMV", "CBYE"},
         m.type \in OfReady => server.phase = "adopted",
         m.type = "EBSY" => server.phase = "known",
         m.type = "DSOP" => server'.phase = "adopted",
         m.type \in {"CENT", "DMMV"} => m.version = server.info,
         server' \in [phase : Phases, info : 0..MaxShape, stuck : BOOLEAN, active : BOOLEAN, old : BOOLEAN],
         server'.phase \in {"adopted", "closing"}, server'.info = server.info,
         server'.old = server.old, server'.phase = "adopted" => ~server'.old /\ (m.type = "DSOP" \/ server.phase = "adopted"),
         server'.active /\ server'.phase # "adopted" => server'.old,
         server'.phase = "adopted" =>
           \/ m.type = "CENT" /\ server'.active
           \/ m.type = "COUT" /\ ~server'.active
           \/ m.type \in {"DSOP", "DMMV"} /\ server'.active = server.active
  PROVE  SessionInv'
<1>1. /\ down' \in Seq(ToClient) /\ Len(down') <= MaxFlight
      /\ Coming \in Seq(ToClient) /\ Coming' = Append(Coming, m)
      /\ client.proxy # "none" /\ client.stream = "hello"
      /\ WillRetry' /\ Watched' /\ Ordered(Coming, client.proxy)' /\ Placed'
      /\ Count(Coming', "CIAK", Len(Coming')) = Count(Coming, "CIAK", Len(Coming))
      /\ Fresh(Coming', screen.shape, unacked)
      /\ \A t : HasType(Coming', t) <=> m.type = t \/ HasType(Coming, t)
  <2>1. m.type # "CIAK" /\ m.type # "HELO" /\ server.phase # "hello" OBVIOUS
  <2>2. /\ down' \in Seq(ToClient) /\ Len(down') <= MaxFlight
        /\ Coming \in Seq(ToClient) /\ Coming' = Append(Coming, m)
        /\ client.proxy # "none" /\ client.stream = "hello"
        /\ WillRetry' /\ Watched' /\ Ordered(Coming, client.proxy)' /\ Placed'
        /\ Count(Coming', "CIAK", Len(Coming')) =
             Count(Coming, "CIAK", Len(Coming)) + (IF m.type = "CIAK" THEN 1 ELSE 0)
        /\ Fresh(Coming', screen.shape, unacked)
        /\ \A t : HasType(Coming', t) <=> m.type = t \/ HasType(Coming, t)
    BY <2>1, Sends
  <2>3. Count(Coming, "CIAK", Len(Coming)) \in Nat BY Facts DEF SessionInv
  <2> QED BY <2>1, <2>2, <2>3
<1> USE DEF SessionInv
<1>2. /\ client' = client /\ screen' = screen /\ mouse' = mouse /\ unacked' = unacked /\ up' = up
      /\ link' = link /\ inbox' = inbox /\ events' = events /\ retries' = retries
  BY DEF clientVars
<1>3. TypeOK' BY <1>1, <1>2 DEF TypeOK, EnabledWhenReady
<1>4. Connected' BY <1>1, <1>2 DEF Connected
<1>5. SentSoFar'
  <2>1. ~HasType(up, "HelloBack") BY DEF SentSoFar
  <2>2. \A i \in DOMAIN up' : up'[i].type # "HelloBack" BY <1>2, <2>1 DEF HasType
  <2>3. server'.phase = "adopted" => client.proxy = "ready" \/ HasType(Coming', "DSOP")
    BY <1>1 DEF SentSoFar
  <2>4. server'.phase # "closing" => ~HasType(Coming', "CBYE") /\ ~HasType(Coming', "EBSY")
    BY <1>1 DEF SentSoFar
  <2> QED BY <1>2, <2>1, <2>2, <2>3, <2>4 DEF SentSoFar
<1>6. Shapes'
  <2>1. mouse.ignore => HasType(up, "DINF") \/ HasType(Coming', "CIAK") BY <1>1 DEF Shapes
  <2>2. server.info = screen.shape \/ HasType(up, "DINF") BY DEF Shapes
  <2> QED BY <1>1, <1>2, <2>1, <2>2 DEF Shapes
<1>7. Cursor'
  <2> SUFFICES ASSUME server'.phase = "adopted"
               PROVE  CursorAt(Append(Coming, m), screen.entered, server'.active)
    BY <1>1, <1>2 DEF Cursor
  <2>1. screen.entered \in BOOLEAN /\ server.active \in BOOLEAN /\ server'.active \in BOOLEAN
    BY DEF TypeOK
  <2>2. CursorAt(Coming, screen.entered, server.active)
    <3>1. CASE server.phase = "adopted" BY <3>1 DEF Cursor
    <3>2. CASE server.phase = "known"
      <4>1. client.proxy # "ready" /\ ~HasType(Coming, "DSOP") BY <3>2 DEF SentSoFar
      <4>2. \A i \in DOMAIN Coming : Coming[i].type \notin OfReady
        <5>1. \A i \in DOMAIN Coming : \A j \in 1..(i - 1) : j \in DOMAIN Coming
          <6>1. DOMAIN Coming = 1..Len(Coming) /\ Len(Coming) \in Nat BY <1>1, LenProperties
          <6> QED BY <6>1
        <5> QED BY <4>1, <5>1 DEF Ordered, HasType
      <4>3. screen.entered = FALSE BY <2>1, <4>1 DEF Connected
      <4>4. server.active = FALSE
        <5>1. ~server'.old /\ m.type = "DSOP" BY <3>2
        <5>2. server'.active = server.active BY <5>1
        <5> QED BY <2>1, <3>2, <5>1, <5>2 DEF Connected
      <4> QED BY <4>2, <4>3, <4>4 DEF CursorAt, OfReady
    <3> QED BY <3>1, <3>2
  <2>3. /\ m.type \notin {"CENT", "COUT"} =>
             CursorAt(Append(Coming, m), screen.entered, server.active)
        /\ m.type = "CENT" => CursorAt(Append(Coming, m), screen.entered, TRUE)
        /\ m.type = "COUT" => CursorAt(Append(Coming, m), screen.entered, FALSE)
    BY <1>1, <2>2, CursorAppend
  <2>4. \/ m.type = "CENT" /\ server'.active = TRUE
        \/ m.type = "COUT" /\ server'.active = FALSE
        \/ m.type \in {"DSOP", "DMMV"} /\ server'.active = server.active
    BY <2>1
  <2> QED BY <2>3, <2>4
<1> QED BY <1>1, <1>3, <1>4, <1>5, <1>6, <1>7

LEMMA Served == SessionInv /\ (AdoptClient \/ Tell) => SessionInv'
<1> SUFFICES ASSUME SessionInv, AdoptClient \/ Tell PROVE SessionInv'
  OBVIOUS
<1>1. link = "open" /\ UNCHANGED <<clientVars, up, link, unacked, misled, used>>
  BY DEF AdoptClient, Tell
<1>2. /\ server \in [phase : Phases, info : 0..MaxShape, stuck : BOOLEAN, active : BOOLEAN, old : BOOLEAN]
      /\ server.info \in 0..MaxShape
      /\ server.active /\ server.phase # "adopted" => server.old
      /\ server.phase = "adopted" => ~server.old
  BY DEF SessionInv, TypeOK, Connected
<1>3. \A type \in {"EBSY", "DSOP", "CENT", "COUT", "DMMV", "CBYE"} :
        /\ Msg(type, 0) \in ToClient /\ Msg(type, 0).type = type
        /\ Msg(type, server.info) \in ToClient /\ Msg(type, server.info).type = type
        /\ Msg(type, server.info).version = server.info
  BY <1>2, Replies DEF ReadyMessages
<1>4. CASE AdoptClient
  <2>1. server.phase = "known" BY <1>4 DEF AdoptClient
  <2>2. CASE server.old
    <3> DEFINE m == Msg("EBSY", 0)
    <3>1. Send(<<m>>) /\ server' = [server EXCEPT !.phase = "closing"]
      BY <1>4, <2>2 DEF AdoptClient
    <3>2. m \in ToClient /\ m.type = "EBSY" BY <1>3
    <3>3. /\ server' \in [phase : Phases, info : 0..MaxShape, stuck : BOOLEAN, active : BOOLEAN, old : BOOLEAN]
          /\ server'.phase = "closing" /\ server'.info = server.info /\ server'.old = server.old
      BY <1>2, <3>1 DEF Phases
    <3> HIDE DEF m
    <3> QED BY <1>1, <2>1, <2>2, <3>1, <3>2, <3>3, Serving DEF OfReady
  <2>3. CASE ~server.old
    <3> DEFINE m == Msg("DSOP", 0)
    <3>1. Send(<<m>>) /\ server' = [server EXCEPT !.phase = "adopted"]
      BY <1>4, <2>3 DEF AdoptClient
    <3>2. m \in ToClient /\ m.type = "DSOP" BY <1>3
    <3>3. /\ server' \in [phase : Phases, info : 0..MaxShape, stuck : BOOLEAN, active : BOOLEAN, old : BOOLEAN]
          /\ server'.phase = "adopted" /\ server'.info = server.info /\ server'.old = server.old
          /\ server'.active = server.active
      BY <1>2, <3>1 DEF Phases
    <3> HIDE DEF m
    <3> QED BY <1>1, <2>1, <2>3, <3>1, <3>2, <3>3, Serving DEF OfReady
  <2> QED BY <2>2, <2>3
<1>5. CASE Tell
  <2>1. server.phase = "adopted" BY <1>5 DEF Tell
  <2>2. CASE ~server.active /\ Send(<<Msg("CENT", server.info)>>) /\ server' = [server EXCEPT !.active = TRUE]
    <3> DEFINE m == Msg("CENT", server.info)
    <3>1. Send(<<m>>) BY <2>2
    <3>2. m \in ToClient /\ m.type = "CENT" /\ m.version = server.info BY <1>3
    <3>3. /\ server' \in [phase : Phases, info : 0..MaxShape, stuck : BOOLEAN, active : BOOLEAN, old : BOOLEAN]
          /\ server'.phase = "adopted" /\ server'.info = server.info /\ server'.old = server.old
          /\ server'.active
      BY <1>2, <2>1, <2>2
    <3> HIDE DEF m
    <3> QED BY <1>1, <1>2, <2>1, <3>1, <3>2, <3>3, Serving
  <2>3. CASE server.active /\ Send(<<Msg("COUT", 0)>>) /\ server' = [server EXCEPT !.active = FALSE]
    <3> DEFINE m == Msg("COUT", 0)
    <3>1. Send(<<m>>) BY <2>3
    <3>2. m \in ToClient /\ m.type = "COUT" BY <1>3
    <3>3. /\ server' \in [phase : Phases, info : 0..MaxShape, stuck : BOOLEAN, active : BOOLEAN, old : BOOLEAN]
          /\ server'.phase = "adopted" /\ server'.info = server.info /\ server'.old = server.old
          /\ ~server'.active
      BY <1>2, <2>1, <2>3
    <3> HIDE DEF m
    <3> QED BY <1>1, <1>2, <2>1, <3>1, <3>2, <3>3, Serving
  <2>4. CASE server.active /\ Send(<<Msg("DMMV", server.info)>>) /\ UNCHANGED server
    <3> DEFINE m == Msg("DMMV", server.info)
    <3>1. Send(<<m>>) BY <2>4
    <3>2. m \in ToClient /\ m.type = "DMMV" /\ m.version = server.info BY <1>3
    <3>3. server' = server BY <2>4
    <3> HIDE DEF m
    <3> QED BY <1>1, <1>2, <2>1, <3>1, <3>2, <3>3, Serving
  <2>5. CASE Send(<<Msg("CBYE", 0)>>) /\ server' = [server EXCEPT !.phase = "closing", !.active = FALSE]
    <3> DEFINE m == Msg("CBYE", 0)
    <3>1. Send(<<m>>) BY <2>5
    <3>2. m \in ToClient /\ m.type = "CBYE" BY <1>3
    <3>3. /\ server' \in [phase : Phases, info : 0..MaxShape, stuck : BOOLEAN, active : BOOLEAN, old : BOOLEAN]
          /\ server'.phase = "closing" /\ server'.info = server.info /\ server'.old = server.old
          /\ ~server'.active
      BY <1>2, <2>5 DEF Phases
    <3> HIDE DEF m
    <3> QED BY <1>1, <1>2, <2>1, <3>1, <3>2, <3>3, Serving DEF OfReady
  <2> QED BY <1>5, <2>2, <2>3, <2>4, <2>5 DEF Tell
<1> QED BY <1>4, <1>5

LEMMA SessionStep == SessionInv /\ [Next]_vars => SessionInv'
<1> SUFFICES ASSUME SessionInv, [Next]_vars PROVE SessionInv'
  OBVIOUS
<1>1. CASE ServerNext
  BY <1>1, Introduced, Informed, Served, Parting DEF ServerNext
<1>2. CASE Read
  BY <1>2, Greeted, Ending, Queried, Acknowledged, Optioned, Moved, Crossed, Closed DEF Read
<1>3. CASE ClientNext /\ ~Read
  BY <1>3, Restarting, Arriving, Ending, Taking, Alarming, Reshaped, Resuming, Dispatching
  DEF ClientNext
<1>4. CASE Silence
  BY <1>4, Parting
<1>5. CASE UNCHANGED vars
  <2> USE DEF SessionInv
  <2>1. /\ UNCHANGED <<client, mouse, screen, inbox, events, retries>>
        /\ UNCHANGED <<server, up, down, link, unacked, misled, used>>
    BY <1>5 DEF vars, clientVars
  <2>2. TypeOK' BY <2>1 DEF TypeOK, EnabledWhenReady
  <2>3. Connected' BY <2>1 DEF Connected
  <2>4. WillRetry' /\ Watched' BY <2>1 DEF WillRetry, Watched
  <2>5. Coming' = Coming BY <2>1 DEF Coming
  <2> QED BY <2>1, <2>2, <2>3, <2>4, <2>5, Unmoved
<1> QED BY <1>1, <1>2, <1>3, <1>4, <1>5 DEF Next

LEMMA SessionAlways == Spec => []SessionInv
<1> QED BY InitHolds, SessionStep, PTL DEF Spec
-----------------------------------------------------------------------------
(***************************************************************************)
(* The theorems.                                                           *)
(***************************************************************************)

(* The client understands every message it reads: whatever crosses on the  *)
(* way, the server sends nothing its parser does not know in its phase     *)
(* (ServerProxy::handleData, ClientProxy1_0, Server::adoptClient).         *)
THEOREM AllUnderstoodHolds == Spec => []AllUnderstood
<1>1. SessionInv => AllUnderstood
  <2> SUFFICES ASSUME SessionInv, inbox # <<>>, client.proxy # "none"
               PROVE  Head(inbox).type \in Understood
    BY DEF AllUnderstood
  <2>1. inbox \in Seq(ToClient) /\ down \in Seq(ToClient) /\ client.proxy \in {"handshake", "ready"}
    BY DEF SessionInv, TypeOK, Clients
  <2>2. Coming \in Seq(ToClient) /\ Coming # <<>> /\ Coming[1] = Head(inbox)
        /\ Head(inbox) \in ToClient
    BY <2>1, ComingTyped, ReadOne, TailOf DEF Coming
  <2>3. Ordered(Coming, client.proxy) BY DEF SessionInv
  <2>4. /\ Coming[1].type # "HELO"
        /\ Coming[1].type \in OfReady => client.proxy = "ready"
        /\ Coming[1].type = "EBSY" => client.proxy = "handshake"
    BY <2>1, <2>2, <2>3, OrderedTail
  <2> QED BY <2>1, <2>2, <2>4 DEF ToClient, OfReady, Understood, ReadyMessages, HandshakeMessages
<1> QED BY <1>1, SessionAlways, PTL

(* A position the client obeys is for its present shape unless an info     *)
(* message of its own was unacknowledged when it read the position,        *)
(* however many changes cross on the way and however long the position     *)
(* waits in the input (ServerProxy::onInfoChanged, infoAcknowledgment,     *)
(* mouseMove, flushCompressedMouse, recvInfo).                             *)
THEOREM OnlyUnackedMisleadsHolds == Spec => []OnlyUnackedMisleads
<1>1. SessionInv => OnlyUnackedMisleads BY DEF SessionInv, Placed
<1> QED BY <1>1, SessionAlways, PTL

(* When nothing is under way the server knows the client's shape, the      *)
(* client obeys motions, and both agree on where the cursor is, through    *)
(* reconnections and old connections (enter, leave, Computer::disable,     *)
(* Server::adoptClient, removeOldClient).                                  *)
THEOREM EndsAgreeHolds == Spec => []EndsAgree
<1>1. SessionInv => EndsAgree
  <2> SUFFICES ASSUME SessionInv PROVE EndsAgree
    OBVIOUS
  <2>1. \A t : ~HasType(<<>>, t) BY Silent
  <2>2. inbox = <<>> /\ down = <<>> => Coming = <<>> BY Facts DEF SessionInv
  <2>3. ShapeKnown BY <2>1, <2>2 DEF SessionInv, Shapes, ShapeKnown
  <2>4. EnteredAgrees BY <2>1, <2>2 DEF SessionInv, Cursor, CursorAt, EnteredAgrees
  <2> QED BY <2>3, <2>4 DEF EndsAgree
<1> QED BY <1>1, SessionAlways, PTL

(* Whatever ends a connection, in whatever order, the client is left with  *)
(* a retry to come, a resume that will connect, or a timer over its        *)
(* connection; and its proxy, stream, timer and screen fit together        *)
(* (Client::cleanup and the handlers that call it, ClientApp).             *)
THEOREM NeverStrandedHolds == Spec => []NeverStranded
<1>1. SessionInv => NeverStranded BY DEF SessionInv, NeverStranded
<1> QED BY <1>1, SessionAlways, PTL

=============================================================================
