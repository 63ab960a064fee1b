-------------------------- MODULE EventQueueProofs --------------------------
(***************************************************************************)
(* EventQueue for any number of threads and events: its table of saved     *)
(* events, whether or not the threads wait until the queue is ready; and   *)
(* each thread's order, as EventFIFO promises it, if they do.              *)
(***************************************************************************)
EXTENDS EventQueue, Integers, FiniteSetTheorems, SequenceTheorems, TLAPS

(***************************************************************************)
(* Sequences: the first is taken, one is appended.                         *)
(***************************************************************************)
LEMMA TailOf ==
  ASSUME NEW S, NEW s \in Seq(S), s # <<>>
  PROVE  /\ Len(s) \in Nat \ {0} /\ DOMAIN s = 1..Len(s)
         /\ Head(s) = s[1] /\ s[1] \in S
         /\ Tail(s) \in Seq(S) /\ Len(Tail(s)) = Len(s) - 1
         /\ DOMAIN Tail(s) = 1..(Len(s) - 1)
         /\ \A i \in 1..(Len(s) - 1) : Tail(s)[i] = s[i + 1]
<1>1. Len(s) \in Nat \ {0} BY EmptySeq
<1>2. DOMAIN s = 1..Len(s) BY LenProperties
<1>3. Tail(s) \in Seq(S) /\ Len(Tail(s)) = Len(s) - 1 BY HeadTailProperties
<1>4. DOMAIN Tail(s) = 1..(Len(s) - 1) BY <1>3, LenProperties
<1>5. \A i \in 1..(Len(s) - 1) : Tail(s)[i] = s[i + 1] BY <1>3, HeadTailProperties
<1>6. Head(s) = s[1] OBVIOUS
<1>7. s[1] \in S BY <1>1, ElementOfSeq
<1> QED BY <1>1, <1>2, <1>3, <1>4, <1>5, <1>6, <1>7

LEMMA AppendTo ==
  ASSUME NEW S, NEW s \in Seq(S), NEW m \in S
  PROVE  /\ Append(s, m) \in Seq(S) /\ Append(s, m) # <<>>
         /\ Len(s) \in Nat /\ DOMAIN s = 1..Len(s)
         /\ Len(Append(s, m)) = Len(s) + 1
         /\ DOMAIN Append(s, m) = 1..(Len(s) + 1)
         /\ \A i \in 1..Len(s) : Append(s, m)[i] = s[i]
         /\ Append(s, m)[Len(s) + 1] = m
<1>1. Append(s, m) \in Seq(S) /\ Append(s, m) # <<>> /\ Len(Append(s, m)) = Len(s) + 1
  BY AppendProperties
<1>2. DOMAIN Append(s, m) = 1..(Len(s) + 1) BY <1>1, LenProperties
<1> QED BY <1>1, <1>2, AppendProperties, LenProperties
-----------------------------------------------------------------------------

(* Identifiers are never lost: those in use and those kept for reuse are   *)
(* together the first n numbers, and no identifier is both.                *)
Compact ==
  /\ DOMAIN events \cap oldIDs = {}
  /\ \E n \in Nat : DOMAIN events \cup oldIDs = 0..(n - 1)

(* The inductive invariant                                                 *)
TableOK ==
  /\ Compact /\ SavedOnce
  /\ buffer \in Seq(Nat)
  /\ taken # {} => \E id \in Nat : taken = {id}

(* The positions of m_pending that are still to be saved.                  *)
Left(i) == i \in DOMAIN pending /\ (at = "pop" => i > 1)

(* Every event is one its thread has added, and is in one place.           *)
AddedOnce ==
  /\ \A t \in Threads : Sent(t) \in Nat
  /\ \A e \in Range(events) \cup Range(pending) : e \in Events /\ e[2] <= Sent(e[1])
  /\ \A i, j \in DOMAIN events : events[i] = events[j] => i = j
  /\ \A i, j \in DOMAIN pending : pending[i] = pending[j] => i = j
  /\ \A i \in DOMAIN pending : Left(i) => pending[i] \notin Range(events)
  /\ at = "pop" => pending # <<>>

(* Until the loop runs only the main thread adds events.                   *)
InSetup ==
  /\ ready <=> at # "setup"
  /\ \A t \in Threads : call[t] = "push" => t = Main /\ at = "setup"
  /\ call[Main] = "save" => at = "handle"
  /\ at \in {"get", "take", "handle", "done"} => pending = <<>>
  /\ \A i \in DOMAIN pending : pending[i][1] = Main

(* The events of a thread wait in the order in which it added them: the    *)
(* one being taken, those in the buffer, those still in m_pending.         *)
Precedes(d, e) == d[1] = e[1] => d[2] < e[2]

InTurn ==
  /\ \A i, j \in DOMAIN buffer : i < j => Precedes(events[buffer[i]], events[buffer[j]])
  /\ \A id \in taken, j \in DOMAIN buffer : Precedes(events[id], events[buffer[j]])
  /\ \A i, j \in DOMAIN pending : i < j => pending[i][2] < pending[j][2]
  /\ \A id \in DOMAIN events, i \in DOMAIN pending :
       Left(i) => Precedes(events[id], pending[i])

QueueOK == TypeOK /\ TableOK /\ AddedOnce

OrderOK == QueueOK /\ InSetup /\ InTurn

(* The next identifier is not in use: saveEvent never overwrites an event. *)
NoneOverwritten == FreshIDs \cap DOMAIN events = {}

(***************************************************************************)
(* Lemmas about the buffer as a sequence                                   *)
(***************************************************************************)
LEMMA AppendRange ==
  ASSUME NEW s \in Seq(Nat), NEW x \in Nat
  PROVE  /\ Append(s, x) \in Seq(Nat)
         /\ Range(Append(s, x)) = Range(s) \cup {x}
<1>1. /\ Append(s, x) \in Seq(Nat)
      /\ DOMAIN Append(s, x) = 1..(Len(s) + 1) /\ DOMAIN s = 1..Len(s)
      /\ \A i \in 1..Len(s) : Append(s, x)[i] = s[i]
      /\ Append(s, x)[Len(s) + 1] = x
  OBVIOUS
<1>2. Len(s) \in Nat
  OBVIOUS
<1>3. ASSUME NEW y \in Range(Append(s, x)) PROVE y \in Range(s) \cup {x}
  BY <1>1, <1>2 DEF Range
<1>4. ASSUME NEW y \in Range(s) \cup {x} PROVE y \in Range(Append(s, x))
  <2>1. CASE y \in Range(s)
    <3>1. PICK i \in 1..Len(s) : s[i] = y BY <1>1, <2>1 DEF Range
    <3> QED BY <1>1, <1>2, <3>1 DEF Range
  <2>2. CASE y = x
    BY <1>1, <1>2, <2>2 DEF Range
  <2> QED BY <1>4, <2>1, <2>2
<1> QED BY <1>1, <1>3, <1>4

LEMMA AppendDistinct ==
  ASSUME NEW s \in Seq(Nat), NEW x \in Nat, x \notin Range(s),
         \A i, j \in DOMAIN s : s[i] = s[j] => i = j
  PROVE  \A i, j \in DOMAIN Append(s, x) : Append(s, x)[i] = Append(s, x)[j] => i = j
<1>1. /\ DOMAIN Append(s, x) = 1..(Len(s) + 1) /\ DOMAIN s = 1..Len(s)
      /\ \A i \in 1..Len(s) : Append(s, x)[i] = s[i]
      /\ Append(s, x)[Len(s) + 1] = x
  OBVIOUS
<1>2. Len(s) \in Nat
  OBVIOUS
<1>3. \A i \in 1..Len(s) : s[i] # x
  BY <1>1 DEF Range
<1> QED BY <1>1, <1>2, <1>3

LEMMA TailRange ==
  ASSUME NEW s \in Seq(Nat), s # <<>>,
         \A i, j \in DOMAIN s : s[i] = s[j] => i = j
  PROVE  /\ Tail(s) \in Seq(Nat) /\ Head(s) \in Nat
         /\ Head(s) \notin Range(Tail(s))
         /\ Range(s) = Range(Tail(s)) \cup {Head(s)}
         /\ \A i, j \in DOMAIN Tail(s) : Tail(s)[i] = Tail(s)[j] => i = j
<1>1. /\ Tail(s) \in Seq(Nat) /\ Head(s) \in Nat /\ Head(s) = s[1]
      /\ Len(s) \in Nat \ {0} /\ DOMAIN s = 1..Len(s)
      /\ DOMAIN Tail(s) = 1..(Len(s) - 1)
      /\ \A i \in 1..(Len(s) - 1) : Tail(s)[i] = s[i + 1]
  OBVIOUS
<1>2. Head(s) \notin Range(Tail(s))
  <2> SUFFICES ASSUME NEW i \in 1..(Len(s) - 1), Tail(s)[i] = s[1] PROVE FALSE
    BY <1>1 DEF Range
  <2>1. s[i + 1] = s[1] /\ i + 1 \in DOMAIN s /\ 1 \in DOMAIN s /\ i + 1 # 1
    BY <1>1
  <2> QED BY <2>1
<1>3. ASSUME NEW y \in Range(s) PROVE y \in Range(Tail(s)) \cup {Head(s)}
  <2>1. PICK i \in 1..Len(s) : y = s[i] BY <1>1, <1>3 DEF Range
  <2>2. CASE i = 1 BY <1>1, <2>1, <2>2
  <2>3. CASE i # 1
    <3>1. i - 1 \in DOMAIN Tail(s) /\ y = Tail(s)[i - 1] BY <1>1, <2>1, <2>3
    <3>2. y \in Range(Tail(s)) BY <3>1 DEF Range
    <3> QED BY <3>2
  <2> QED BY <2>2, <2>3
<1>4. ASSUME NEW y \in Range(Tail(s)) \cup {Head(s)} PROVE y \in Range(s)
  <2>1. CASE y = Head(s) BY <1>1, <2>1 DEF Range
  <2>2. CASE y \in Range(Tail(s))
    <3>1. PICK i \in 1..(Len(s) - 1) : y = Tail(s)[i] BY <1>1, <2>2 DEF Range
    <3>2. i + 1 \in 1..Len(s) /\ y = s[i + 1] BY <1>1, <3>1
    <3> QED BY <1>1, <3>2 DEF Range
  <2> QED BY <1>4, <2>1, <2>2
<1>5. \A i, j \in DOMAIN Tail(s) : Tail(s)[i] = Tail(s)[j] => i = j
  <2> SUFFICES ASSUME NEW i \in 1..(Len(s) - 1), NEW j \in 1..(Len(s) - 1),
                      Tail(s)[i] = Tail(s)[j]
               PROVE  i = j
    BY <1>1
  <2>1. s[i + 1] = s[j + 1] /\ i + 1 \in DOMAIN s /\ j + 1 \in DOMAIN s BY <1>1
  <2>2. i + 1 = j + 1 BY <2>1
  <2> QED BY <2>2
<1> QED BY <1>1, <1>2, <1>3, <1>4, <1>5

(***************************************************************************)
(* Choosing an identifier                                                  *)
(***************************************************************************)
LEMMA FreshIDsAreFree ==
  ASSUME Compact
  PROVE  /\ FreshIDs \cap DOMAIN events = {} /\ FreshIDs \subseteq Nat
         /\ \A id \in FreshIDs :
              \E n \in Nat : DOMAIN events \cup {id} \cup (oldIDs \ {id}) = 0..(n - 1)
<1>1. PICK n \in Nat : DOMAIN events \cup oldIDs = 0..(n - 1)
  BY DEF Compact
<1>2. CASE oldIDs # {}
  <2>1. FreshIDs = oldIDs BY <1>2 DEF FreshIDs
  <2>2. \A id \in FreshIDs : DOMAIN events \cup {id} \cup (oldIDs \ {id}) = 0..(n - 1)
    BY <1>1, <2>1
  <2> QED BY <1>1, <2>1, <2>2 DEF Compact
<1>3. CASE oldIDs = {}
  <2>1. DOMAIN events = 0..(n - 1) BY <1>1, <1>3
  <2>2. Cardinality(0..(n - 1)) = n BY FS_Interval
  <2>3. FreshIDs = {n} BY <1>3, <2>1, <2>2 DEF FreshIDs
  <2>4. 0..(n - 1) \cup {n} = 0..((n + 1) - 1) BY <1>1
  <2> QED BY <1>1, <1>3, <2>1, <2>3, <2>4
<1> QED BY <1>2, <1>3

LEMMA SaveKeeps ==
  ASSUME TableOK, NEW e, Save(e), UNCHANGED taken, at' = "take" <=> at = "take"
  PROVE  TableOK'
<1>1. PICK id \in FreshIDs :
        /\ DOMAIN events' = DOMAIN events \cup {id}
        /\ oldIDs' = oldIDs \ {id}
        /\ buffer' = Append(buffer, id)
  BY DEF Save
<1>2. id \in Nat /\ id \notin DOMAIN events /\ Compact
  BY FreshIDsAreFree DEF TableOK
<1>3. Compact'
  BY <1>1, <1>2, FreshIDsAreFree DEF Compact
<1>4. buffer \in Seq(Nat) /\ id \notin Range(buffer)
  BY <1>2 DEF TableOK, SavedOnce
<1>5. buffer' \in Seq(Nat) /\ Range(buffer') = Range(buffer) \cup {id}
  BY <1>1, <1>2, <1>4, AppendRange
<1>6. \A i, j \in DOMAIN buffer' : buffer'[i] = buffer'[j] => i = j
  <2>1. \A i, j \in DOMAIN buffer : buffer[i] = buffer[j] => i = j
    BY DEF TableOK, SavedOnce
  <2> QED BY <1>1, <1>2, <1>4, <2>1, AppendDistinct
<1>7. SavedOnce'
  BY <1>1, <1>2, <1>5, <1>6 DEF TableOK, SavedOnce
<1> QED BY <1>3, <1>5, <1>7 DEF TableOK

LEMMA TakeIDKeeps ==
  ASSUME TableOK, TakeID
  PROVE  TableOK'
<1>1. /\ buffer \in Seq(Nat) /\ buffer # <<>>
      /\ \A i, j \in DOMAIN buffer : buffer[i] = buffer[j] => i = j
  BY DEF TableOK, SavedOnce, TakeID
<1>2. taken = {} /\ taken' = {Head(buffer)} /\ buffer' = Tail(buffer) /\ at' = "take"
      /\ UNCHANGED <<events, oldIDs>>
  BY DEF TableOK, SavedOnce, TakeID
<1>3. /\ Tail(buffer) \in Seq(Nat) /\ Head(buffer) \in Nat
      /\ Head(buffer) \notin Range(Tail(buffer))
      /\ Range(buffer) = Range(Tail(buffer)) \cup {Head(buffer)}
      /\ \A i, j \in DOMAIN Tail(buffer) : Tail(buffer)[i] = Tail(buffer)[j] => i = j
  BY <1>1, TailRange
<1>4. DOMAIN events = Range(buffer)
  BY <1>2 DEF TableOK, SavedOnce
<1>5. SavedOnce'
  BY <1>2, <1>3, <1>4 DEF SavedOnce
<1>6. Compact'
  BY <1>2 DEF TableOK, Compact
<1> QED BY <1>2, <1>3, <1>5, <1>6 DEF TableOK

LEMMA RemoveEventKeeps ==
  ASSUME TableOK, RemoveEvent
  PROVE  TableOK'
<1>1. PICK id \in taken :
        /\ DOMAIN events' = DOMAIN events \ {id}
        /\ oldIDs' = oldIDs \cup ({id} \cap DOMAIN events)
  BY DEF RemoveEvent
<1>2. taken = {id} /\ id \in DOMAIN events
  BY <1>1 DEF TableOK, SavedOnce
<1>3. taken' = {} /\ buffer' = buffer /\ at' # "take"
  BY DEF RemoveEvent
<1>4. Compact'
  BY <1>1, <1>2 DEF TableOK, Compact
<1>5. SavedOnce'
  BY <1>1, <1>2, <1>3 DEF TableOK, SavedOnce
<1> QED BY <1>3, <1>4, <1>5 DEF TableOK

LEMMA AdoptBufferKeeps ==
  ASSUME TableOK, AdoptBuffer
  PROVE  TableOK'
<1>1. /\ taken = {} /\ taken' = {} /\ at' = at /\ at # "take"
      /\ events' = <<>> /\ oldIDs' = {} /\ buffer' = <<>>
  BY DEF TableOK, SavedOnce, AdoptBuffer
<1>2. DOMAIN events' = {} /\ Range(buffer') = {} /\ DOMAIN buffer' = {} /\ buffer' \in Seq(Nat)
  BY <1>1 DEF Range
<1>3. 0 \in Nat /\ 0..(0 - 1) = {}
  OBVIOUS
<1>4. Compact'
  BY <1>1, <1>2, <1>3 DEF Compact
<1>5. SavedOnce'
  BY <1>1, <1>2 DEF SavedOnce
<1> QED BY <1>1, <1>2, <1>4, <1>5 DEF TableOK

LEMMA TableUntouched ==
  ASSUME TableOK, UNCHANGED <<table, taken>>, at' = "take" <=> at = "take"
  PROVE  TableOK'
BY DEF TableOK, Compact, SavedOnce, table

LEMMA TableInit == Init => TableOK
<1> SUFFICES ASSUME Init PROVE TableOK
  OBVIOUS
<1>1. /\ taken = {} /\ at # "take" /\ oldIDs = {} /\ buffer = <<>>
      /\ DOMAIN events = {} /\ Range(buffer) = {} /\ DOMAIN buffer = {} /\ buffer \in Seq(Nat)
  BY DEF Init, Range
<1>2. 0 \in Nat /\ 0..(0 - 1) = {}
  OBVIOUS
<1> QED BY <1>1, <1>2 DEF TableOK, Compact, SavedOnce

LEMMA TableStep == TableOK /\ [Next]_vars => TableOK'
<1> SUFFICES ASSUME TableOK, [Next]_vars PROVE TableOK'
  OBVIOUS
<1>1. ASSUME NEW t \in Threads, AddEvent(t) \/ PushPending(t) PROVE TableOK'
  BY <1>1, TableUntouched DEF AddEvent, PushPending
<1>2. ASSUME NEW t \in Threads, AddEventToBuffer(t) PROVE TableOK'
  BY <1>2, SaveKeeps DEF AddEventToBuffer
<1>3. CASE DrainFront
  BY <1>3, SaveKeeps DEF DrainFront
<1>4. CASE StartLoop \/ DrainPop \/ DrainDone \/ Return
  BY <1>4, TableUntouched DEF StartLoop, DrainPop, DrainDone, Return
<1>5. CASE TakeID BY <1>5, TakeIDKeeps
<1>6. CASE RemoveEvent BY <1>6, RemoveEventKeeps
<1>7. CASE AdoptBuffer BY <1>7, AdoptBufferKeeps
<1>8. CASE UNCHANGED vars BY <1>8, TableUntouched DEF vars
<1> QED
  BY <1>1, <1>2, <1>3, <1>4, <1>5, <1>6, <1>7, <1>8 DEF Next, Adding, Loop

LEMMA TableAlways == Spec => []TableOK
BY TableInit, TableStep, PTL DEF Spec

(* Every event in the table is in the buffer once, and every identifier in *)
(* the buffer has its event, even if threads add events before the queue   *)
(* is ready.                                                               *)
THEOREM SavedOnceHolds == Spec => []SavedOnce
<1>1. TableOK => SavedOnce BY DEF TableOK
<1> QED BY TableAlways, <1>1, PTL

(* saveEvent chooses an identifier that no saved event has: the size of    *)
(* the table is free whenever there is none to reuse.                      *)
THEOREM NoneOverwrittenHolds == Spec => []NoneOverwritten
<1>1. TableOK => NoneOverwritten BY FreshIDsAreFree DEF TableOK, NoneOverwritten
<1> QED BY TableAlways, <1>1, PTL
-----------------------------------------------------------------------------
(***************************************************************************)
(* Where every event is                                                    *)
(***************************************************************************)
(* Every event added was counted; a new one is nowhere yet.                *)
LEMMA SentTyped ==
  ASSUME TypeOK
  PROVE  \A t \in Threads : Sent(t) \in Int /\ Sent(t) <= posted[t]
<1>1. \A t \in Threads : posted[t] \in 0..MaxPosts BY DEF TypeOK
<1> QED BY <1>1, PostsAssumption DEF Sent

LEMMA CallsSent ==
  ASSUME TypeOK, NEW t \in Threads, AddEvent(t)
  PROVE  \A u \in Threads : Sent(u)' = Sent(u)
<1>1. \A u \in Threads : posted[u] \in 0..MaxPosts /\ call[u] \in {"none", "push", "save"}
  BY DEF TypeOK
<1>2. /\ call[t] = "none" /\ call'[t] # "none" /\ posted'[t] = posted[t] + 1
      /\ \A u \in Threads \ {t} : call'[u] = call[u] /\ posted'[u] = posted[u]
  BY DEF AddEvent, TypeOK
<1> QED BY <1>1, <1>2, PostsAssumption DEF Sent

LEMMA AddsSent ==
  ASSUME TypeOK, NEW t \in Threads, Adding(t)
  PROVE  /\ Sent(t)' = Sent(t) + 1 /\ Sent(t) + 1 = posted[t]
         /\ \A u \in Threads \ {t} : Sent(u)' = Sent(u)
         /\ call'[t] = "none" /\ call' \in [Threads -> {"none", "push", "save"}]
         /\ \A u \in Threads \ {t} : call'[u] = call[u]
<1>1. \A u \in Threads : posted[u] \in 0..MaxPosts BY DEF TypeOK
<1>2. /\ call[t] # "none" /\ call' = [call EXCEPT ![t] = "none"] /\ posted' = posted
  BY DEF Adding, PushPending, AddEventToBuffer
<1>3. /\ call'[t] = "none" /\ call' \in [Threads -> {"none", "push", "save"}]
      /\ \A u \in Threads \ {t} : call'[u] = call[u]
  BY <1>2 DEF TypeOK
<1> QED BY <1>1, <1>2, <1>3, PostsAssumption DEF Sent

LEMMA AddedIsNew ==
  ASSUME QueueOK, NEW t \in Threads, call[t] # "none"
  PROVE  /\ Added(t) \in Events /\ Added(t)[1] = t /\ Added(t)[2] = posted[t]
         /\ Sent(t) = posted[t] - 1
         /\ Added(t) \notin Range(events) \cup Range(pending)
<1>1. posted[t] \in 0..MaxPosts /\ MaxPosts \in Nat
  BY PostsAssumption DEF QueueOK, TypeOK
<1>2. Sent(t) = posted[t] - 1 BY DEF Sent
<1>3. Added(t)[1] = t /\ Added(t)[2] = posted[t] BY DEF Added
<1>4. posted[t] # 0 BY <1>1, <1>2 DEF QueueOK, AddedOnce
<1>5. Added(t) \in Events BY <1>1, <1>4 DEF Added, Events
<1>6. ASSUME Added(t) \in Range(events) \cup Range(pending) PROVE FALSE
  <2>1. posted[t] <= posted[t] - 1 BY <1>2, <1>3, <1>6 DEF QueueOK, AddedOnce
  <2> QED BY <1>1, <2>1
<1> QED BY <1>2, <1>3, <1>5, <1>6

(* There are no more identifiers than events, so one that saves an event   *)
(* which was not there is among them.                                      *)
LEMMA EventsCounted ==
  /\ IsFiniteSet(Events)
  /\ Cardinality(Events) = MaxPosts * Cardinality(Threads)
  /\ MaxPosts \in Nat /\ Cardinality(Threads) \in Nat
<1>1. /\ MaxPosts \in Nat /\ IsFiniteSet(Threads) /\ Cardinality(Threads) \in Nat
  BY PostsAssumption, FS_CardinalityType
<1>2. IsFiniteSet(1..MaxPosts) /\ Cardinality(1..MaxPosts) = MaxPosts
  BY <1>1, FS_Interval
<1>3. IsFiniteSet(Events) /\ Cardinality(Events) = Cardinality(Threads) * MaxPosts
  BY <1>1, <1>2, FS_Product DEF Events
<1> QED BY <1>1, <1>3

LEMMA FitsIDs ==
  ASSUME QueueOK, NEW e \in Events, e \notin Range(events), NEW id \in FreshIDs
  PROVE  id \in IDs
<1>1. CASE oldIDs # {}
  BY <1>1 DEF FreshIDs, QueueOK, TypeOK
<1>2. CASE oldIDs = {}
  <2> DEFINE others == Events \ {e}
             at_ == [i \in DOMAIN events |-> events[i]]
  <2>1. /\ IsFiniteSet(others) /\ Cardinality(others) = Cardinality(Events) - 1
    BY EventsCounted, FS_RemoveElement
  <2>2. Range(events) \subseteq others BY DEF QueueOK, TypeOK
  <2>3. \A i \in DOMAIN events : events[i] \in others BY <2>2 DEF Range
  <2>4. \A i, j \in DOMAIN events : events[i] = events[j] => i = j
    BY DEF QueueOK, AddedOnce
  <2>5. at_ \in Injection(DOMAIN events, others)
    BY <2>3, <2>4 DEF Injection, IsInjective
  <2>6. /\ IsFiniteSet(DOMAIN events)
        /\ Cardinality(DOMAIN events) <= Cardinality(others)
    BY <2>1, <2>5, FS_Injection
  <2>7. Cardinality(DOMAIN events) \in Nat BY <2>6, FS_CardinalityType
  <2>8. id = Cardinality(DOMAIN events) BY <1>2 DEF FreshIDs
  <2> DEFINE n == MaxPosts * Cardinality(Threads)
  <2>9. n \in Int /\ Cardinality(others) = n - 1 BY <2>1, EventsCounted
  <2> QED BY <2>6, <2>7, <2>8, <2>9 DEF IDs
<1> QED BY <1>1, <1>2

(* Saving an event adds it to those in the table, under an identifier of   *)
(* its own.                                                                *)
LEMMA SavesOne ==
  ASSUME QueueOK, NEW e \in Events, e \notin Range(events), Save(e)
  PROVE  /\ \E id \in IDs :
              /\ id \notin DOMAIN events
              /\ DOMAIN events' = DOMAIN events \cup {id}
              /\ events'[id] = e
              /\ \A i \in DOMAIN events : events'[i] = events[i]
              /\ buffer' = Append(buffer, id)
         /\ DOMAIN events' \subseteq IDs /\ oldIDs' \subseteq IDs /\ buffer' \in Seq(IDs)
         /\ Range(events') = Range(events) \cup {e}
         /\ \A i, j \in DOMAIN events' : events'[i] = events'[j] => i = j
<1>1. PICK id \in FreshIDs :
        /\ events' = [i \in DOMAIN events \cup {id} |-> IF i = id THEN e ELSE events[i]]
        /\ oldIDs' = oldIDs \ {id}
        /\ buffer' = Append(buffer, id)
  BY DEF Save
<1>2. id \in IDs BY FitsIDs
<1>3. id \notin DOMAIN events BY FreshIDsAreFree DEF QueueOK, TableOK
<1>4. /\ DOMAIN events' = DOMAIN events \cup {id} /\ events'[id] = e
      /\ \A i \in DOMAIN events : events'[i] = events[i]
  BY <1>1, <1>3
<1>5. DOMAIN events \subseteq IDs /\ oldIDs \subseteq IDs /\ buffer \in Seq(IDs)
  BY DEF QueueOK, TypeOK
<1>6. buffer' \in Seq(IDs) BY <1>1, <1>2, <1>5, AppendTo
<1>7. Range(events') = Range(events) \cup {e} BY <1>4 DEF Range
<1>8. \A i, j \in DOMAIN events : events[i] = events[j] => i = j
  BY DEF QueueOK, AddedOnce
<1>9. \A i \in DOMAIN events : events[i] # e BY DEF Range
<1>10. \A i, j \in DOMAIN events' : events'[i] = events'[j] => i = j
  BY <1>4, <1>8, <1>9
<1> QED BY <1>1, <1>2, <1>3, <1>4, <1>5, <1>6, <1>7, <1>10

(* Looking an event up takes it, and no other, out of the table.           *)
LEMMA RemovesOne ==
  ASSUME QueueOK, RemoveEvent
  PROVE  \E id \in IDs :
           /\ taken = {id} /\ id \in DOMAIN events /\ events[id] \in Events
           /\ DOMAIN events' = DOMAIN events \ {id}
           /\ \A i \in DOMAIN events' : events'[i] = events[i]
           /\ Range(events') = Range(events) \ {events[id]}
           /\ oldIDs' = oldIDs \cup {id}
           /\ handled' = [handled EXCEPT ![events[id][1]] = events[id][2]]
<1>1. PICK id \in taken :
        /\ events' = [i \in DOMAIN events \ {id} |-> events[i]]
        /\ oldIDs' = oldIDs \cup ({id} \cap DOMAIN events)
        /\ handled' = [t \in Threads |->
                         IF id \in DOMAIN events /\ events[id][1] = t
                         THEN events[id][2] ELSE handled[t]]
  BY DEF RemoveEvent
<1>2. taken = {id} /\ id \in DOMAIN events
  BY <1>1 DEF QueueOK, TableOK, SavedOnce
<1>3. id \in IDs /\ events[id] \in Events
  BY <1>2 DEF QueueOK, TypeOK, Range
<1>4. /\ DOMAIN events' = DOMAIN events \ {id}
      /\ \A i \in DOMAIN events' : events'[i] = events[i]
  BY <1>1
<1>5. \A i, j \in DOMAIN events : events[i] = events[j] => i = j
  BY DEF QueueOK, AddedOnce
<1>6. Range(events') = Range(events) \ {events[id]} BY <1>2, <1>4, <1>5 DEF Range
<1>7. oldIDs' = oldIDs \cup {id} BY <1>1, <1>2
<1>8. handled' = [handled EXCEPT ![events[id][1]] = events[id][2]]
  BY <1>1, <1>2, <1>3 DEF QueueOK, TypeOK, Events
<1> QED BY <1>2, <1>3, <1>4, <1>6, <1>7, <1>8


LEMMA InitPlaced == Init => TypeOK /\ AddedOnce
<1> SUFFICES ASSUME Init PROVE TypeOK /\ AddedOnce OBVIOUS
<1>1. MaxPosts \in Nat BY PostsAssumption
<1>2. DOMAIN events = {} /\ Range(events) = {} /\ Range(pending) = {} /\ DOMAIN pending = {}
  BY DEF Init, Range
<1>3. pending \in Seq(Events) /\ buffer \in Seq(IDs) BY EmptySeq DEF Init
<1>4. TypeOK
  <2>1. /\ call \in [Threads -> {"none", "push", "save"}]
        /\ posted \in [Threads -> 0..MaxPosts] /\ handled \in [Threads -> 0..MaxPosts]
    BY <1>1 DEF Init
  <2>2. at = "setup" /\ ready = FALSE /\ oldIDs = {} /\ taken = {} /\ discarded = {}
    BY DEF Init
  <2> QED BY <1>2, <1>3, <2>1, <2>2 DEF TypeOK
<1>5. \A t \in Threads : Sent(t) \in Nat BY DEF Init, Sent
<1>6. at # "pop" BY DEF Init
<1> QED BY <1>2, <1>4, <1>5, <1>6 DEF AddedOnce, Left

LEMMA CallsPlaced ==
  ASSUME QueueOK, NEW t \in Threads, AddEvent(t)
  PROVE  TypeOK' /\ AddedOnce'
<1>1. TypeOK /\ AddedOnce BY DEF QueueOK
<1>2. /\ posted' = [posted EXCEPT ![t] = @ + 1] /\ posted[t] < MaxPosts
      /\ call' = [call EXCEPT ![t] = IF ready THEN "save" ELSE "push"]
      /\ UNCHANGED <<at, ready, pending, events, oldIDs, buffer, taken, handled, discarded>>
  BY DEF AddEvent, table, past
<1>3. posted' \in [Threads -> 0..MaxPosts]
  BY <1>1, <1>2, PostsAssumption DEF TypeOK
<1>4. call' \in [Threads -> {"none", "push", "save"}] BY <1>1, <1>2 DEF TypeOK
<1>5. TypeOK' BY <1>1, <1>2, <1>3, <1>4 DEF TypeOK
<1>6. \A u \in Threads : Sent(u)' = Sent(u) BY <1>1, CallsSent
<1>7. \A e \in Events : e[1] \in Threads BY DEF Events
<1>8. (\A u \in Threads : Sent(u) \in Nat)' BY <1>1, <1>6 DEF AddedOnce
<1>9. (\A e \in Range(events) \cup Range(pending) : e \in Events /\ e[2] <= Sent(e[1]))'
  BY <1>1, <1>2, <1>6, <1>7 DEF AddedOnce
<1> QED BY <1>1, <1>2, <1>5, <1>8, <1>9 DEF AddedOnce, Left

LEMMA PushesPlaced ==
  ASSUME QueueOK, NEW t \in Threads, PushPending(t)
  PROVE  TypeOK' /\ AddedOnce'
<1>1. TypeOK /\ AddedOnce BY DEF QueueOK
<1>2. /\ call[t] = "push" /\ Adding(t)
      /\ pending' = Append(pending, Added(t)) \/ pending' = pending
      /\ UNCHANGED <<at, posted, ready, events, oldIDs, buffer, taken, handled, discarded>>
  BY DEF PushPending, Adding, table, past
<1>3. /\ Added(t) \in Events /\ Added(t)[1] = t /\ Added(t)[2] = posted[t]
      /\ Added(t) \notin Range(events) \cup Range(pending)
  BY <1>2, AddedIsNew
<1>4. /\ Sent(t)' = Sent(t) + 1 /\ Sent(t) + 1 = posted[t]
      /\ \A u \in Threads \ {t} : Sent(u)' = Sent(u)
      /\ call' \in [Threads -> {"none", "push", "save"}]
  BY <1>1, <1>2, AddsSent
<1>5. pending \in Seq(Events) /\ Len(pending) \in Nat /\ DOMAIN pending = 1..Len(pending)
  BY <1>1, LenProperties DEF TypeOK
<1>6. CASE pending' = Append(pending, Added(t))
  <2>1. /\ pending' \in Seq(Events) /\ pending' # <<>>
        /\ DOMAIN pending' = 1..(Len(pending) + 1)
        /\ \A i \in 1..Len(pending) : pending'[i] = pending[i]
        /\ pending'[Len(pending) + 1] = Added(t)
    BY <1>3, <1>5, <1>6, AppendTo
  <2>2. TypeOK' BY <1>1, <1>2, <1>4, <2>1 DEF TypeOK
  <2>3. Range(pending') = Range(pending) \cup {Added(t)}
    BY <1>5, <2>1 DEF Range
  <2>4. \A e \in Events : e[1] \in Threads BY DEF Events
  <2>5. (\A u \in Threads : Sent(u) \in Nat)' BY <1>1, <1>4 DEF AddedOnce
  <2>6. ASSUME NEW e \in Range(events) \cup Range(pending)
        PROVE  e \in Events /\ e[2] <= Sent(e[1])'
    <3>1. e \in Events /\ e[2] <= Sent(e[1]) /\ e[1] \in Threads /\ e[2] \in Int
      BY <1>1, <2>4 DEF AddedOnce, Events
    <3>2. Sent(e[1]) \in Nat BY <1>1, <3>1 DEF AddedOnce
    <3> QED BY <1>4, <3>1, <3>2
  <2>7. \A e \in Events : e = Added(t) => e[2] <= Sent(e[1])' BY <1>1, <1>3, <1>4 DEF AddedOnce
  <2>8. (\A e \in Range(events) \cup Range(pending) : e \in Events /\ e[2] <= Sent(e[1]))'
    BY <1>2, <1>3, <2>3, <2>6, <2>7
  <2>9. \A i \in 1..Len(pending) : pending[i] # Added(t) BY <1>3, <1>5 DEF Range
  <2>10. (\A i, j \in DOMAIN pending : pending[i] = pending[j] => i = j)'
    BY <1>1, <1>5, <2>1, <2>9 DEF AddedOnce
  <2>11. (\A i \in DOMAIN pending : Left(i) => pending[i] \notin Range(events))'
    BY <1>1, <1>2, <1>3, <1>5, <2>1 DEF AddedOnce, Left
  <2> QED BY <1>1, <1>2, <2>1, <2>2, <2>5, <2>8, <2>10, <2>11 DEF AddedOnce
<1>7. CASE pending' = pending
  <2>1. TypeOK' BY <1>1, <1>2, <1>4, <1>7 DEF TypeOK
  <2>2. (\A u \in Threads : Sent(u) \in Nat)' BY <1>1, <1>4 DEF AddedOnce
  <2>3. ASSUME NEW e \in Range(events) \cup Range(pending)
        PROVE  e \in Events /\ e[2] <= Sent(e[1])'
    <3>1. e \in Events /\ e[2] <= Sent(e[1]) /\ e[1] \in Threads /\ e[2] \in Int
      BY <1>1 DEF AddedOnce, Events
    <3>2. Sent(e[1]) \in Nat BY <1>1, <3>1 DEF AddedOnce
    <3> QED BY <1>4, <3>1, <3>2
  <2>4. (\A e \in Range(events) \cup Range(pending) : e \in Events /\ e[2] <= Sent(e[1]))'
    BY <1>2, <1>7, <2>3
  <2> QED BY <1>1, <1>2, <1>7, <2>1, <2>2, <2>4 DEF AddedOnce, Left
<1> QED BY <1>2, <1>6, <1>7

LEMMA SavesPlaced ==
  ASSUME QueueOK, NEW t \in Threads, AddEventToBuffer(t)
  PROVE  TypeOK' /\ AddedOnce'
<1>1. TypeOK /\ AddedOnce BY DEF QueueOK
<1>2. /\ call[t] = "save" /\ Adding(t) /\ Save(Added(t))
      /\ UNCHANGED <<at, posted, ready, pending, taken, handled, discarded>>
  BY DEF AddEventToBuffer, Adding, past
<1>3. /\ Added(t) \in Events /\ Added(t)[1] = t /\ Added(t)[2] = posted[t]
      /\ Added(t) \notin Range(events) \cup Range(pending)
  BY <1>2, AddedIsNew
<1>4. /\ Sent(t)' = Sent(t) + 1 /\ Sent(t) + 1 = posted[t]
      /\ \A u \in Threads \ {t} : Sent(u)' = Sent(u)
      /\ call' \in [Threads -> {"none", "push", "save"}]
  BY <1>1, <1>2, AddsSent
<1>5. /\ DOMAIN events' \subseteq IDs /\ oldIDs' \subseteq IDs /\ buffer' \in Seq(IDs)
      /\ Range(events') = Range(events) \cup {Added(t)}
      /\ \A i, j \in DOMAIN events' : events'[i] = events'[j] => i = j
  BY <1>2, <1>3, SavesOne
<1>6. TypeOK' BY <1>1, <1>2, <1>3, <1>4, <1>5 DEF TypeOK
<1>7. (\A u \in Threads : Sent(u) \in Nat)' BY <1>1, <1>4 DEF AddedOnce
<1>8. ASSUME NEW e \in Range(events) \cup Range(pending)
      PROVE  e \in Events /\ e[2] <= Sent(e[1])'
  <2>1. e \in Events /\ e[2] <= Sent(e[1]) /\ e[1] \in Threads /\ e[2] \in Int
    BY <1>1 DEF AddedOnce, Events
  <2>2. Sent(e[1]) \in Nat BY <1>1, <2>1 DEF AddedOnce
  <2> QED BY <1>4, <2>1, <2>2
<1>9. \A e \in Events : e = Added(t) => e[2] <= Sent(e[1])' BY <1>1, <1>3, <1>4 DEF AddedOnce
<1>10. (\A e \in Range(events) \cup Range(pending) : e \in Events /\ e[2] <= Sent(e[1]))'
  BY <1>2, <1>3, <1>5, <1>8, <1>9
<1>11. \A i \in DOMAIN pending : pending[i] # Added(t) BY <1>3 DEF Range
<1>12. (\A i \in DOMAIN pending : Left(i) => pending[i] \notin Range(events))'
  BY <1>1, <1>2, <1>5, <1>11 DEF AddedOnce, Left
<1> QED BY <1>1, <1>2, <1>5, <1>6, <1>7, <1>10, <1>12 DEF AddedOnce

LEMMA DrainsPlaced ==
  ASSUME QueueOK, DrainFront
  PROVE  TypeOK' /\ AddedOnce'
<1>1. TypeOK /\ AddedOnce BY DEF QueueOK
<1>2. /\ at = "drain" /\ at' = "pop" /\ pending # <<>> /\ Save(Head(pending))
      /\ UNCHANGED <<call, posted, ready, pending, taken, handled, discarded>>
  BY DEF DrainFront, past
<1>3. /\ pending \in Seq(Events) /\ Head(pending) = pending[1] /\ pending[1] \in Events
      /\ 1 \in DOMAIN pending
  BY <1>1, <1>2, TailOf DEF TypeOK
<1>4. pending[1] \notin Range(events) BY <1>1, <1>2, <1>3 DEF AddedOnce, Left
<1>5. /\ DOMAIN events' \subseteq IDs /\ oldIDs' \subseteq IDs /\ buffer' \in Seq(IDs)
      /\ Range(events') = Range(events) \cup {pending[1]}
      /\ \A i, j \in DOMAIN events' : events'[i] = events'[j] => i = j
  BY <1>2, <1>3, <1>4, SavesOne
<1>6. TypeOK' BY <1>1, <1>2, <1>3, <1>5 DEF TypeOK
<1>7. \A u : Sent(u)' = Sent(u) BY <1>2 DEF Sent
<1>8. pending[1] \in Range(pending) BY <1>3 DEF Range
<1>9. (\A e \in Range(events) \cup Range(pending) : e \in Events /\ e[2] <= Sent(e[1]))'
  BY <1>1, <1>2, <1>5, <1>7, <1>8 DEF AddedOnce
<1>10. (\A i \in DOMAIN pending : Left(i) => pending[i] \notin Range(events))'
  BY <1>1, <1>2, <1>3, <1>5 DEF AddedOnce, Left
<1> QED BY <1>1, <1>2, <1>5, <1>6, <1>7, <1>9, <1>10 DEF AddedOnce

LEMMA PopsPlaced ==
  ASSUME QueueOK, DrainPop
  PROVE  TypeOK' /\ AddedOnce'
<1>1. TypeOK /\ AddedOnce BY DEF QueueOK
<1>2. /\ at = "pop" /\ at' = "drain" /\ pending # <<>> /\ pending' = Tail(pending)
      /\ UNCHANGED <<call, posted, ready, events, oldIDs, buffer, taken, handled, discarded>>
  BY <1>1 DEF DrainPop, table, past, AddedOnce
<1>3. /\ pending \in Seq(Events) /\ pending' \in Seq(Events)
      /\ Len(pending) \in Nat \ {0} /\ DOMAIN pending = 1..Len(pending)
      /\ DOMAIN pending' = 1..(Len(pending) - 1)
      /\ \A i \in 1..(Len(pending) - 1) : pending'[i] = pending[i + 1]
  BY <1>1, <1>2, TailOf DEF TypeOK
<1>4. TypeOK' BY <1>1, <1>2, <1>3 DEF TypeOK
<1>5. \A u : Sent(u)' = Sent(u) BY <1>2 DEF Sent
<1>6. \A i \in DOMAIN pending' : i + 1 \in DOMAIN pending /\ pending'[i] = pending[i + 1] /\ i + 1 > 1
  BY <1>3
<1>7. Range(pending') \subseteq Range(pending) BY <1>6 DEF Range
<1>8. (\A e \in Range(events) \cup Range(pending) : e \in Events /\ e[2] <= Sent(e[1]))'
  BY <1>1, <1>2, <1>5, <1>7 DEF AddedOnce
<1>9. (\A i, j \in DOMAIN pending : pending[i] = pending[j] => i = j)'
  BY <1>1, <1>3, <1>6 DEF AddedOnce
<1>10. (\A i \in DOMAIN pending : Left(i) => pending[i] \notin Range(events))'
  BY <1>1, <1>2, <1>6 DEF AddedOnce, Left
<1> QED BY <1>1, <1>2, <1>4, <1>5, <1>8, <1>9, <1>10 DEF AddedOnce

LEMMA RemovesPlaced ==
  ASSUME QueueOK, RemoveEvent
  PROVE  TypeOK' /\ AddedOnce'
<1>1. TypeOK /\ AddedOnce BY DEF QueueOK
<1>2. PICK id \in IDs :
        /\ taken = {id} /\ id \in DOMAIN events /\ events[id] \in Events
        /\ DOMAIN events' = DOMAIN events \ {id}
        /\ \A i \in DOMAIN events' : events'[i] = events[i]
        /\ Range(events') = Range(events) \ {events[id]}
        /\ oldIDs' = oldIDs \cup {id}
        /\ handled' = [handled EXCEPT ![events[id][1]] = events[id][2]]
  BY RemovesOne
<1>3. /\ at = "take" /\ at' \in {"handle", "done"} /\ taken' = {}
      /\ UNCHANGED <<call, posted, ready, pending, buffer, discarded>>
  BY DEF RemoveEvent
<1>4. handled' \in [Threads -> 0..MaxPosts]
  <2>1. events[id][2] \in 0..MaxPosts BY <1>2, PostsAssumption DEF Events
  <2> QED BY <1>1, <1>2, <2>1 DEF TypeOK
<1>5. TypeOK' BY <1>1, <1>2, <1>3, <1>4 DEF TypeOK
<1>6. \A u : Sent(u)' = Sent(u) BY <1>3 DEF Sent
<1>7. (\A e \in Range(events) \cup Range(pending) : e \in Events /\ e[2] <= Sent(e[1]))'
  BY <1>1, <1>2, <1>3, <1>6 DEF AddedOnce
<1>8. (\A i, j \in DOMAIN events : events[i] = events[j] => i = j)'
  BY <1>1, <1>2 DEF AddedOnce
<1>9. (\A i \in DOMAIN pending : Left(i) => pending[i] \notin Range(events))'
  BY <1>1, <1>2, <1>3 DEF AddedOnce, Left
<1> QED BY <1>1, <1>3, <1>5, <1>6, <1>7, <1>8, <1>9 DEF AddedOnce

LEMMA AdoptsPlaced ==
  ASSUME QueueOK, AdoptBuffer
  PROVE  TypeOK' /\ AddedOnce'
<1>1. TypeOK /\ AddedOnce BY DEF QueueOK
<1>2. /\ at = "handle" /\ discarded' = discarded \cup Range(events)
      /\ events' = <<>> /\ oldIDs' = {} /\ buffer' = <<>>
      /\ UNCHANGED <<at, call, posted, ready, pending, taken, handled>>
  BY DEF AdoptBuffer
<1>3. DOMAIN events' = {} /\ Range(events') = {} BY <1>2 DEF Range
<1>4. buffer' \in Seq(IDs) BY <1>2, EmptySeq
<1>5. TypeOK' BY <1>1, <1>2, <1>3, <1>4 DEF TypeOK
<1>6. \A u : Sent(u)' = Sent(u) BY <1>2 DEF Sent
<1> QED BY <1>1, <1>2, <1>3, <1>5, <1>6 DEF AddedOnce, Left


LEMMA StandsPlaced ==
  ASSUME QueueOK,
         UNCHANGED <<call, posted, pending, events, oldIDs, handled, discarded>>,
         ready' \in BOOLEAN, buffer' \in Seq(IDs), taken' \subseteq IDs,
         at' \in {"setup", "drain", "get", "take", "handle", "done"},
         at # "pop"
  PROVE  TypeOK' /\ AddedOnce'
<1>1. TypeOK /\ AddedOnce BY DEF QueueOK
<1>2. \A u : Sent(u)' = Sent(u) BY DEF Sent
<1>3. at # "pop" /\ at' # "pop" OBVIOUS
<1>4. TypeOK' BY <1>1 DEF TypeOK
<1> QED BY <1>1, <1>2, <1>3, <1>4 DEF AddedOnce, Left

LEMMA QueueInit == Init => QueueOK
BY TableInit, InitPlaced DEF QueueOK

LEMMA QueueStep == QueueOK /\ [Next]_vars => QueueOK'
<1> SUFFICES ASSUME QueueOK, [Next]_vars PROVE TypeOK' /\ AddedOnce'
  BY TableStep DEF QueueOK
<1>1. TypeOK /\ AddedOnce BY DEF QueueOK
<1>2. ASSUME NEW t \in Threads, AddEvent(t) PROVE TypeOK' /\ AddedOnce'
  BY <1>2, CallsPlaced
<1>3. ASSUME NEW t \in Threads, PushPending(t) PROVE TypeOK' /\ AddedOnce'
  BY <1>3, PushesPlaced
<1>4. ASSUME NEW t \in Threads, AddEventToBuffer(t) PROVE TypeOK' /\ AddedOnce'
  BY <1>4, SavesPlaced
<1>5. CASE StartLoop
  BY <1>1, <1>5, StandsPlaced DEF StartLoop, TypeOK, table, past
<1>6. CASE DrainFront BY <1>6, DrainsPlaced
<1>7. CASE DrainPop BY <1>7, PopsPlaced
<1>8. CASE DrainDone \/ Return
  BY <1>1, <1>8, StandsPlaced DEF DrainDone, Return, TypeOK, table, past
<1>9. CASE TakeID
  <2>1. /\ at = "get" /\ buffer # <<>> /\ buffer \in Seq(IDs)
        /\ taken' = {Head(buffer)} /\ buffer' = Tail(buffer) /\ at' = "take"
        /\ UNCHANGED <<call, posted, ready, pending, events, oldIDs, handled, discarded>>
    BY <1>1, <1>9 DEF TakeID, TypeOK, past
  <2>2. Head(buffer) \in IDs /\ Tail(buffer) \in Seq(IDs) BY <2>1, TailOf
  <2> QED BY <1>1, <2>1, <2>2, StandsPlaced DEF TypeOK
<1>10. CASE RemoveEvent BY <1>10, RemovesPlaced
<1>11. CASE AdoptBuffer BY <1>11, AdoptsPlaced
<1>12. CASE UNCHANGED vars
  BY <1>1, <1>12 DEF TypeOK, AddedOnce, Left, Sent, vars, table, past
<1> QED
  BY <1>2, <1>3, <1>4, <1>5, <1>6, <1>7, <1>8, <1>9, <1>10, <1>11, <1>12
  DEF Next, Adding, Loop

LEMMA QueueAlways == Spec => []QueueOK
BY QueueInit, QueueStep, PTL DEF Spec

(* The queue needs no more identifiers than there are events to be added,  *)
(* however the table was filled, emptied and adopted, and everything it    *)
(* holds is an event that a thread added.                                  *)
THEOREM TypeOKHolds == Spec => []TypeOK
<1>1. QueueOK => TypeOK BY DEF QueueOK
<1> QED BY QueueAlways, <1>1, PTL

-----------------------------------------------------------------------------
(***************************************************************************)
(* The order of each thread's events                                       *)
(***************************************************************************)
LEMMA SetupKept ==
  ASSUME Early = {}, QueueOK, InSetup, [Next]_vars
  PROVE  InSetup'
<1>1. TypeOK /\ QueueOK' BY QueueStep DEF QueueOK
<1> USE DEF InSetup
<1>2. ASSUME NEW t \in Threads, AddEvent(t) PROVE InSetup'
  <2>1. /\ call' = [call EXCEPT ![t] = IF ready THEN "save" ELSE "push"]
        /\ (t = Main /\ at \in {"setup", "handle"}) \/ (t # Main /\ ready)
        /\ UNCHANGED <<at, ready, pending>>
    BY <1>2 DEF AddEvent, MayPost
  <2>2. ready \in BOOLEAN /\ call \in [Threads -> {"none", "push", "save"}]
    BY <1>1 DEF TypeOK
  <2> QED BY <2>1, <2>2
<1>3. ASSUME NEW t \in Threads, PushPending(t) PROVE InSetup'
  <2>1. /\ t = Main /\ at = "setup" /\ call' = [call EXCEPT ![t] = "none"]
        /\ pending' = Append(pending, Added(t)) \/ pending' = pending
        /\ UNCHANGED <<at, ready>>
    BY <1>3 DEF PushPending
  <2>2. call \in [Threads -> {"none", "push", "save"}] /\ pending \in Seq(Events)
    BY <1>1 DEF TypeOK
  <2>3. Added(t) \in Events /\ Added(t)[1] = t BY <1>3, AddedIsNew DEF PushPending
  <2>4. (\A i \in DOMAIN pending : pending[i][1] = Main)'
    <3>1. CASE pending' = Append(pending, Added(t))
      <4>1. /\ Len(pending) \in Nat /\ DOMAIN pending = 1..Len(pending)
            /\ DOMAIN pending' = 1..(Len(pending) + 1)
            /\ \A i \in 1..Len(pending) : pending'[i] = pending[i]
            /\ pending'[Len(pending) + 1] = Added(t)
        BY <2>2, <2>3, <3>1, AppendTo
      <4> QED BY <2>1, <2>3, <4>1
    <3> QED BY <2>1, <3>1
  <2> QED BY <2>1, <2>2, <2>4
<1>4. ASSUME NEW t \in Threads, AddEventToBuffer(t) PROVE InSetup'
  BY <1>1, <1>4 DEF AddEventToBuffer, TypeOK
<1>5. CASE StartLoop BY <1>5 DEF StartLoop
<1>6. CASE DrainFront BY <1>6 DEF DrainFront
<1>7. CASE DrainPop
  <2>1. /\ at = "pop" /\ at' = "drain" /\ pending # <<>> /\ pending' = Tail(pending)
        /\ UNCHANGED <<call, ready>>
    BY <1>7 DEF DrainPop, QueueOK, AddedOnce
  <2>2. /\ Len(pending) \in Nat \ {0} /\ DOMAIN pending = 1..Len(pending)
        /\ DOMAIN pending' = 1..(Len(pending) - 1)
        /\ \A i \in 1..(Len(pending) - 1) : pending'[i] = pending[i + 1]
    BY <1>1, <2>1, TailOf DEF TypeOK
  <2>3. \A i \in DOMAIN pending' : i + 1 \in DOMAIN pending /\ pending'[i] = pending[i + 1]
    BY <2>2
  <2>4. (\A i \in DOMAIN pending : pending[i][1] = Main)' BY <2>3
  <2> QED BY <2>1, <2>4
<1>8. CASE DrainDone BY <1>8 DEF DrainDone
<1>9. CASE TakeID BY <1>9 DEF TakeID
<1>10. CASE RemoveEvent BY <1>10 DEF RemoveEvent
<1>11. CASE Return BY <1>11 DEF Return
<1>12. CASE AdoptBuffer BY <1>12 DEF AdoptBuffer
<1>13. CASE UNCHANGED vars BY <1>13 DEF vars
<1> QED
  BY <1>2, <1>3, <1>4, <1>5, <1>6, <1>7, <1>8, <1>9, <1>10, <1>11, <1>12, <1>13
  DEF Next, Adding, Loop

(* The identifiers of the buffer and the one taken have their events.      *)
LEMMA Known ==
  ASSUME QueueOK
  PROVE  /\ buffer \in Seq(IDs) /\ Len(buffer) \in Nat /\ DOMAIN buffer = 1..Len(buffer)
         /\ \A i \in DOMAIN buffer : buffer[i] \in DOMAIN events
         /\ taken \subseteq DOMAIN events
         /\ \A id \in DOMAIN events : events[id] \in Events
BY LenProperties DEF QueueOK, TypeOK, TableOK, SavedOnce, Range

LEMMA SavesInTurn ==
  ASSUME QueueOK, InTurn, NEW e \in Events, e \notin Range(events), Save(e),
         UNCHANGED taken, \A id \in DOMAIN events : Precedes(events[id], e)
  PROVE  /\ (\A i, j \in DOMAIN buffer : i < j => Precedes(events[buffer[i]], events[buffer[j]]))'
         /\ (\A id \in taken, j \in DOMAIN buffer : Precedes(events[id], events[buffer[j]]))'
         /\ \A id \in DOMAIN events' :
              (id \in DOMAIN events /\ events'[id] = events[id]) \/ events'[id] = e
<1>1. /\ buffer \in Seq(IDs) /\ Len(buffer) \in Nat /\ DOMAIN buffer = 1..Len(buffer)
      /\ \A i \in DOMAIN buffer : buffer[i] \in DOMAIN events
      /\ taken \subseteq DOMAIN events
  BY Known
<1>2. PICK id \in IDs :
        /\ DOMAIN events' = DOMAIN events \cup {id}
        /\ events'[id] = e
        /\ \A i \in DOMAIN events : events'[i] = events[i]
        /\ buffer' = Append(buffer, id)
  BY SavesOne
<1>3. /\ DOMAIN buffer' = 1..(Len(buffer) + 1)
      /\ \A i \in 1..Len(buffer) : buffer'[i] = buffer[i]
      /\ buffer'[Len(buffer) + 1] = id
  BY <1>1, <1>2, AppendTo
<1>4. \A i \in DOMAIN buffer : events'[buffer'[i]] = events[buffer[i]] BY <1>1, <1>2, <1>3
<1>5. events'[buffer'[Len(buffer) + 1]] = e BY <1>2, <1>3
<1>6. ASSUME NEW i \in DOMAIN buffer', NEW j \in DOMAIN buffer', i < j
      PROVE  Precedes(events'[buffer'[i]], events'[buffer'[j]])
  <2>1. i \in DOMAIN buffer BY <1>1, <1>3, <1>6
  <2>2. CASE j \in DOMAIN buffer BY <1>4, <1>6, <2>1, <2>2 DEF InTurn
  <2>3. CASE j = Len(buffer) + 1 BY <1>1, <1>4, <1>5, <2>1, <2>3
  <2> QED BY <1>1, <1>3, <2>2, <2>3
<1>7. ASSUME NEW d \in taken, NEW j \in DOMAIN buffer'
      PROVE  Precedes(events'[d], events'[buffer'[j]])
  <2>1. d \in DOMAIN events /\ events'[d] = events[d] BY <1>1, <1>2
  <2>2. CASE j \in DOMAIN buffer BY <1>4, <2>1, <2>2 DEF InTurn
  <2>3. CASE j = Len(buffer) + 1 BY <1>5, <2>1, <2>3
  <2> QED BY <1>1, <1>3, <2>2, <2>3
<1>8. \A d \in DOMAIN events' :
        (d \in DOMAIN events /\ events'[d] = events[d]) \/ events'[d] = e
  BY <1>2
<1>9. (\A i, j \in DOMAIN buffer : i < j => Precedes(events[buffer[i]], events[buffer[j]]))'
  BY <1>6 DEF Precedes
<1>10. (\A d \in taken, j \in DOMAIN buffer : Precedes(events[d], events[buffer[j]]))'
  BY <1>7 DEF Precedes
<1> QED BY <1>8, <1>9, <1>10


LEMMA InTurnKept ==
  ASSUME Early = {}, OrderOK, [Next]_vars
  PROVE  InTurn'
<1>1. /\ QueueOK /\ InSetup /\ InTurn /\ TypeOK /\ AddedOnce
      /\ pending \in Seq(Events)
  BY DEF OrderOK, QueueOK, TypeOK
<1>2. /\ buffer \in Seq(IDs) /\ Len(buffer) \in Nat /\ DOMAIN buffer = 1..Len(buffer)
      /\ \A i \in DOMAIN buffer : buffer[i] \in DOMAIN events
      /\ taken \subseteq DOMAIN events
      /\ \A id \in DOMAIN events : events[id] \in Events
      /\ Len(pending) \in Nat /\ DOMAIN pending = 1..Len(pending)
      /\ \A i \in DOMAIN pending : pending[i] \in Events
  BY <1>1, Known, LenProperties, ElementOfSeq
<1>3. ASSUME UNCHANGED <<pending, events, buffer, taken>>,
             at' = "pop" <=> at = "pop"
      PROVE  InTurn'
  BY <1>1, <1>3 DEF InTurn, Left, Precedes
<1>4. ASSUME NEW t \in Threads, AddEvent(t) PROVE InTurn'
  BY <1>3, <1>4 DEF AddEvent, table
<1>5. ASSUME NEW t \in Threads, call[t] # "none"
      PROVE  /\ \A id \in DOMAIN events : Precedes(events[id], Added(t))
             /\ \A i \in DOMAIN pending : Precedes(pending[i], Added(t))
  <2>1. /\ Added(t)[1] = t /\ Added(t)[2] = posted[t] /\ Sent(t) = posted[t] - 1
        /\ posted[t] \in Nat
    BY <1>1, <1>5, AddedIsNew DEF TypeOK
  <2>2. \A e \in Range(events) \cup Range(pending) : e \in Events /\ e[2] <= Sent(e[1])
    BY <1>1 DEF AddedOnce
  <2>3. ASSUME NEW e \in Events, e[2] <= Sent(e[1]) PROVE Precedes(e, Added(t))
    BY <2>1, <2>3 DEF Precedes, Events
  <2>4. /\ \A id \in DOMAIN events : events[id] \in Range(events)
        /\ \A i \in DOMAIN pending : pending[i] \in Range(pending)
    BY DEF Range
  <2> QED BY <2>2, <2>3, <2>4
<1>6. ASSUME NEW t \in Threads, PushPending(t) PROVE InTurn'
  <2>1. /\ at = "setup" /\ t = Main /\ call[t] = "push"
        /\ pending' = Append(pending, Added(t)) \/ pending' = pending
        /\ UNCHANGED <<at, events, buffer, taken>>
    BY <1>1, <1>6 DEF PushPending, InSetup, table
  <2>2. /\ Added(t) \in Events /\ Added(t)[1] = t
        /\ \A id \in DOMAIN events : Precedes(events[id], Added(t))
        /\ \A i \in DOMAIN pending : Precedes(pending[i], Added(t)) /\ pending[i][1] = t
    BY <1>1, <1>5, <2>1, AddedIsNew DEF InSetup
  <2>3. CASE pending' = Append(pending, Added(t))
    <3>1. /\ DOMAIN pending' = 1..(Len(pending) + 1)
          /\ \A i \in 1..Len(pending) : pending'[i] = pending[i]
          /\ pending'[Len(pending) + 1] = Added(t)
      BY <1>1, <2>2, <2>3, AppendTo
    <3>2. ASSUME NEW i \in DOMAIN pending', NEW j \in DOMAIN pending', i < j
          PROVE  pending'[i][2] < pending'[j][2]
      <4>1. i \in DOMAIN pending BY <1>2, <3>1, <3>2
      <4>2. CASE j \in DOMAIN pending BY <1>1, <1>2, <3>1, <3>2, <4>1, <4>2 DEF InTurn
      <4>3. CASE j = Len(pending) + 1 BY <1>2, <2>2, <3>1, <4>1, <4>3 DEF Precedes
      <4> QED BY <1>2, <3>1, <4>2, <4>3
    <3>3. ASSUME NEW id \in DOMAIN events, NEW i \in DOMAIN pending'
          PROVE  Precedes(events[id], pending'[i])
      <4>1. CASE i \in DOMAIN pending
        <5>1. Left(i) BY <2>1, <4>1 DEF Left
        <5> QED BY <1>1, <1>2, <3>1, <4>1, <5>1 DEF InTurn
      <4>2. CASE i = Len(pending) + 1 BY <2>2, <3>1, <4>2
      <4> QED BY <1>2, <3>1, <4>1, <4>2
    <3>4. (\A i, j \in DOMAIN pending : i < j => pending[i][2] < pending[j][2])'
      BY <3>2
    <3>5. (\A id \in DOMAIN events, i \in DOMAIN pending :
              Left(i) => Precedes(events[id], pending[i]))'
      BY <2>1, <3>3 DEF Precedes
    <3> QED BY <1>1, <2>1, <3>4, <3>5 DEF InTurn, Precedes
  <2>4. CASE pending' = pending BY <1>3, <2>1, <2>4
  <2> QED BY <2>1, <2>3, <2>4
<1>7. ASSUME NEW t \in Threads, AddEventToBuffer(t) PROVE InTurn'
  <2>1. call[t] = "save" /\ Save(Added(t)) /\ UNCHANGED <<at, pending, taken>>
    BY <1>7 DEF AddEventToBuffer
  <2>2. /\ Added(t) \in Events /\ Added(t)[1] = t /\ Added(t) \notin Range(events)
        /\ \A id \in DOMAIN events : Precedes(events[id], Added(t))
    BY <1>1, <1>5, <2>1, AddedIsNew
  <2>3. PICK e \in Events : e = Added(t) BY <2>2
  <2>4. /\ (\A i, j \in DOMAIN buffer : i < j => Precedes(events[buffer[i]], events[buffer[j]]))'
        /\ (\A id \in taken, j \in DOMAIN buffer : Precedes(events[id], events[buffer[j]]))'
        /\ \A id \in DOMAIN events' :
             (id \in DOMAIN events /\ events'[id] = events[id]) \/ events'[id] = e
    BY <1>1, <2>1, <2>2, <2>3, SavesInTurn
  <2>5. \A i \in DOMAIN pending : pending[i][1] # t
    BY <1>1, <1>2, <2>1 DEF InSetup
  <2>6. (\A id \in DOMAIN events, i \in DOMAIN pending :
            Left(i) => Precedes(events[id], pending[i]))'
    BY <1>1, <2>1, <2>2, <2>3, <2>4, <2>5 DEF InTurn, Left, Precedes
  <2> QED BY <1>1, <2>1, <2>4, <2>6 DEF InTurn, Precedes
<1>8. CASE DrainFront
  <2>1. /\ at = "drain" /\ at' = "pop" /\ pending # <<>> /\ Save(Head(pending))
        /\ UNCHANGED <<pending, taken>>
    BY <1>8 DEF DrainFront
  <2>2. Head(pending) = pending[1] /\ 1 \in DOMAIN pending /\ pending[1] \in Events
    BY <1>1, <2>1, TailOf
  <2>3. /\ \A i \in DOMAIN pending : Left(i)
        /\ pending[1] \notin Range(events)
        /\ \A id \in DOMAIN events : Precedes(events[id], pending[1])
    BY <1>1, <2>1, <2>2 DEF Left, AddedOnce, InTurn
  <2>4. PICK e \in Events : e = pending[1] BY <2>2
  <2>5. /\ (\A i, j \in DOMAIN buffer : i < j => Precedes(events[buffer[i]], events[buffer[j]]))'
        /\ (\A id \in taken, j \in DOMAIN buffer : Precedes(events[id], events[buffer[j]]))'
        /\ \A id \in DOMAIN events' :
             (id \in DOMAIN events /\ events'[id] = events[id]) \/ events'[id] = e
    BY <1>1, <2>1, <2>2, <2>3, <2>4, SavesInTurn
  <2>6. \A i \in DOMAIN pending : i > 1 => e[2] < pending[i][2]
    BY <1>1, <1>2, <2>2, <2>4 DEF InTurn
  <2>7. (\A id \in DOMAIN events, i \in DOMAIN pending :
            Left(i) => Precedes(events[id], pending[i]))'
    BY <1>1, <2>1, <2>3, <2>5, <2>6 DEF InTurn, Left, Precedes
  <2> QED BY <1>1, <2>1, <2>5, <2>7 DEF InTurn, Precedes
<1>9. CASE DrainPop
  <2>1. /\ at = "pop" /\ at' = "drain" /\ pending # <<>> /\ pending' = Tail(pending)
        /\ UNCHANGED <<events, buffer, taken>>
    BY <1>1, <1>9 DEF DrainPop, table, AddedOnce
  <2>2. /\ Len(pending) \in Nat \ {0} /\ DOMAIN pending = 1..Len(pending)
        /\ DOMAIN pending' = 1..(Len(pending) - 1)
        /\ \A i \in 1..(Len(pending) - 1) : pending'[i] = pending[i + 1]
    BY <1>1, <2>1, TailOf
  <2>3. \A i \in DOMAIN pending' :
          i \in Int /\ i + 1 \in DOMAIN pending /\ i + 1 > 1 /\ pending'[i] = pending[i + 1]
    BY <2>2
  <2>4. \A i \in DOMAIN pending' : Left(i + 1) BY <2>3 DEF Left
  <2>5. ASSUME NEW i \in DOMAIN pending', NEW j \in DOMAIN pending', i < j
        PROVE  pending'[i][2] < pending'[j][2]
    <3>1. i + 1 < j + 1 BY <2>3, <2>5
    <3> QED BY <1>1, <2>3, <3>1 DEF InTurn
  <2>6. (\A i, j \in DOMAIN pending : i < j => pending[i][2] < pending[j][2])'
    BY <2>5
  <2>7. (\A id \in DOMAIN events, i \in DOMAIN pending :
            Left(i) => Precedes(events[id], pending[i]))'
    BY <1>1, <2>1, <2>3, <2>4 DEF InTurn, Precedes
  <2> QED BY <1>1, <2>1, <2>6, <2>7 DEF InTurn, Precedes
<1>10. CASE StartLoop \/ DrainDone \/ Return
  BY <1>3, <1>10 DEF StartLoop, DrainDone, Return, table
<1>11. CASE TakeID
  <2>1. /\ at = "get" /\ at' = "take" /\ buffer # <<>>
        /\ taken' = {Head(buffer)} /\ buffer' = Tail(buffer)
        /\ UNCHANGED <<pending, events>>
    BY <1>11 DEF TakeID
  <2>2. /\ Head(buffer) = buffer[1] /\ Len(buffer) \in Nat \ {0}
        /\ DOMAIN buffer' = 1..(Len(buffer) - 1)
        /\ \A i \in 1..(Len(buffer) - 1) : buffer'[i] = buffer[i + 1]
    BY <1>2, <2>1, TailOf
  <2>3. \A i \in DOMAIN buffer' :
          i \in Int /\ i + 1 \in DOMAIN buffer /\ 1 < i + 1 /\ buffer'[i] = buffer[i + 1]
    BY <1>2, <2>2
  <2>4. 1 \in DOMAIN buffer BY <1>2, <2>2
  <2>5. ASSUME NEW i \in DOMAIN buffer', NEW j \in DOMAIN buffer', i < j
        PROVE  Precedes(events[buffer'[i]], events[buffer'[j]])
    <3>1. i + 1 < j + 1 BY <2>3, <2>5
    <3> QED BY <1>1, <2>3, <3>1 DEF InTurn
  <2>6. \A j \in DOMAIN buffer' : Precedes(events[buffer[1]], events[buffer'[j]])
    BY <1>1, <2>3, <2>4 DEF InTurn
  <2>7. (\A i, j \in DOMAIN buffer : i < j => Precedes(events[buffer[i]], events[buffer[j]]))'
    BY <2>1, <2>5 DEF Precedes
  <2>8. (\A id \in taken, j \in DOMAIN buffer : Precedes(events[id], events[buffer[j]]))'
    BY <2>1, <2>2, <2>6 DEF Precedes
  <2>9. pending' = <<>> /\ DOMAIN pending' = {} BY <1>1, <2>1 DEF InSetup
  <2> QED BY <2>7, <2>8, <2>9 DEF InTurn
<1>12. CASE RemoveEvent
  <2>1. PICK id \in IDs :
          /\ taken = {id} /\ DOMAIN events' = DOMAIN events \ {id}
          /\ \A i \in DOMAIN events' : events'[i] = events[i]
    BY <1>1, <1>12, RemovesOne
  <2>2. taken' = {} /\ at = "take" /\ UNCHANGED <<pending, buffer>>
    BY <1>12 DEF RemoveEvent
  <2>3. \A i \in DOMAIN buffer : buffer[i] # id
    BY <1>1, <2>1 DEF QueueOK, TableOK, SavedOnce, Range
  <2>4. \A i \in DOMAIN buffer : events'[buffer[i]] = events[buffer[i]]
    BY <1>2, <2>1, <2>3
  <2>5. DOMAIN pending' = {} BY <1>1, <2>2 DEF InSetup
  <2> QED BY <1>1, <2>2, <2>4, <2>5 DEF InTurn, Precedes
<1>13. CASE AdoptBuffer
  <2>1. events' = <<>> /\ buffer' = <<>> /\ UNCHANGED <<pending, taken>> /\ at = "handle"
    BY <1>13 DEF AdoptBuffer
  <2>2. DOMAIN events' = {} /\ DOMAIN buffer' = {} BY <2>1
  <2>3. DOMAIN pending' = {} BY <1>1, <2>1 DEF InSetup
  <2> QED BY <2>2, <2>3 DEF InTurn
<1>14. CASE UNCHANGED vars BY <1>3, <1>14 DEF vars, table
<1> QED
  BY <1>4, <1>6, <1>7, <1>8, <1>9, <1>10, <1>11, <1>12, <1>13, <1>14
  DEF Next, Adding, Loop


LEMMA OrderAlways ==
  ASSUME Early = {}
  PROVE  Spec => []OrderOK
<1>1. Init => OrderOK
  <2> SUFFICES ASSUME Init PROVE InSetup /\ InTurn BY QueueInit DEF OrderOK
  <2>1. /\ DOMAIN events = {} /\ DOMAIN buffer = {} /\ DOMAIN pending = {}
        /\ at = "setup" /\ ready = FALSE /\ \A t \in Threads : call[t] = "none"
        /\ Main \in Threads
    BY DEF Init, Threads
  <2> QED BY <2>1 DEF InSetup, InTurn
<1>2. OrderOK /\ [Next]_vars => OrderOK'
  BY QueueStep, SetupKept, InTurnKept DEF OrderOK
<1> QED BY <1>1, <1>2, PTL DEF Spec
-----------------------------------------------------------------------------
(***************************************************************************)
(* Every step of the queue is a step of EventFIFO, or none                 *)
(***************************************************************************)
Waiting == Range(events) \cup Range(Undrained)

LEMMA Stutters ==
  ASSUME Waiting' = Waiting, UNCHANGED handled, \A t \in Threads : Sent(t)' = Sent(t)
  PROVE  UNCHANGED FIFO!fifo
<1>1. \A t \in Threads : WaitingOf(t)' = WaitingOf(t) BY DEF WaitingOf, Waiting
<1> QED BY <1>1 DEF FIFO!fifo

LEMMA AddsOne ==
  ASSUME TypeOK, NEW t \in Threads, Adding(t), UNCHANGED handled,
         Added(t) \in Events, Waiting' = Waiting \cup {Added(t)}
  PROVE  FIFO!Add(t)
<1>1. /\ Sent(t)' = Sent(t) + 1 /\ Sent(t) + 1 = posted[t]
      /\ \A u \in Threads \ {t} : Sent(u)' = Sent(u)
  BY AddsSent
<1>2. posted[t] \in 1..MaxPosts /\ Added(t) = <<t, posted[t]>>
  BY DEF Added, Events
<1>3. WaitingOf(t)' = WaitingOf(t) \cup {posted[t]}
  BY <1>2 DEF WaitingOf, Waiting
<1>4. \A u \in Threads \ {t} : WaitingOf(u)' = WaitingOf(u)
  BY <1>2 DEF WaitingOf, Waiting
<1> QED BY <1>1, <1>3, <1>4 DEF FIFO!Add

LEMMA DeliversOne ==
  ASSUME OrderOK, RemoveEvent
  PROVE  \E t \in Threads : FIFO!Deliver(t)
<1>1. QueueOK /\ InSetup /\ InTurn BY DEF OrderOK
<1>2. PICK id \in IDs :
        /\ taken = {id} /\ id \in DOMAIN events /\ events[id] \in Events
        /\ Range(events') = Range(events) \ {events[id]}
        /\ handled' = [handled EXCEPT ![events[id][1]] = events[id][2]]
  BY <1>1, RemovesOne
<1>3. PICK t \in Threads, n \in 1..MaxPosts : events[id] = <<t, n>>
  BY <1>2 DEF Events
<1>4. /\ at = "take" /\ at' # "pop" /\ UNCHANGED <<pending, call, posted, buffer>>
      /\ DOMAIN pending = {}
  BY <1>1 DEF RemoveEvent, InSetup
<1>5. Waiting = Range(events) /\ Waiting' = Range(events) \ {<<t, n>>}
  BY <1>2, <1>3, <1>4 DEF Waiting, Undrained, Range
<1>6. n \in WaitingOf(t) BY <1>2, <1>3 DEF WaitingOf, Range
<1>7. ASSUME NEW m \in WaitingOf(t) PROVE n <= m
  <2>1. <<t, m>> \in Range(events) /\ m \in 1..MaxPosts
    BY <1>5 DEF WaitingOf, Waiting
  <2>2. PICK d \in DOMAIN events : events[d] = <<t, m>> BY <2>1 DEF Range
  <2>3. CASE d = id BY <1>3, <2>1, <2>2, <2>3
  <2>4. CASE d # id
    <3>1. d \in Range(buffer)
      BY <1>1, <1>2, <2>2, <2>4 DEF QueueOK, TableOK, SavedOnce
    <3>2. PICK j \in DOMAIN buffer : buffer[j] = d BY <3>1 DEF Range
    <3>3. Precedes(events[id], events[d]) BY <1>1, <1>2, <3>2 DEF InTurn
    <3> QED BY <1>3, <2>1, <2>2, <3>3 DEF Precedes
  <2> QED BY <2>3, <2>4
<1>8. WaitingOf(t)' = WaitingOf(t) \ {n} BY <1>5 DEF WaitingOf, Waiting
<1>9. \A u \in Threads \ {t} : WaitingOf(u)' = WaitingOf(u)
  BY <1>5 DEF WaitingOf, Waiting
<1>10. \A u \in Threads : Sent(u)' = Sent(u) BY <1>4 DEF Sent
<1>11. handled' = [handled EXCEPT ![t] = n] BY <1>2, <1>3
<1> QED BY <1>6, <1>7, <1>8, <1>9, <1>10, <1>11 DEF FIFO!Deliver

LEMMA StepRefines ==
  ASSUME Early = {}, OrderOK, [Next]_vars
  PROVE  [FIFO!Next]_(FIFO!fifo)
<1>1. /\ QueueOK /\ InSetup /\ InTurn /\ TypeOK /\ AddedOnce
      /\ pending \in Seq(Events) /\ Len(pending) \in Nat /\ DOMAIN pending = 1..Len(pending)
  BY LenProperties DEF OrderOK, QueueOK, TypeOK
<1>2. ASSUME NEW t \in Threads, AddEvent(t) PROVE UNCHANGED FIFO!fifo
  <2>1. UNCHANGED <<at, pending, events, handled>> BY <1>2 DEF AddEvent, table, past
  <2>2. Waiting' = Waiting BY <2>1 DEF Waiting, Undrained
  <2> QED BY <1>1, <1>2, <2>1, <2>2, CallsSent, Stutters
<1>3. ASSUME NEW t \in Threads, PushPending(t) PROVE FIFO!Add(t)
  <2>1. /\ t = Main /\ at = "setup" /\ Added(t) \in Events
        /\ \A u \in Threads : call[u] = "push" => u = Main
        /\ UNCHANGED <<at, events, handled>> /\ Adding(t)
    BY <1>1, <1>3, AddedIsNew DEF PushPending, Adding, InSetup, table, past
  <2>2. ~Racing(t) BY <2>1 DEF Racing
  <2>3. pending' = Append(pending, Added(t)) BY <1>3, <2>2 DEF PushPending
  <2>4. /\ DOMAIN pending' = 1..(Len(pending) + 1)
        /\ \A i \in 1..Len(pending) : pending'[i] = pending[i]
        /\ pending'[Len(pending) + 1] = Added(t)
    BY <1>1, <2>1, <2>3, AppendTo
  <2>5. Range(pending') = Range(pending) \cup {Added(t)} BY <1>1, <2>4 DEF Range
  <2>6. Waiting' = Waiting \cup {Added(t)} BY <2>1, <2>5 DEF Waiting, Undrained
  <2> QED BY <1>1, <2>1, <2>6, AddsOne
<1>4. ASSUME NEW t \in Threads, AddEventToBuffer(t) PROVE FIFO!Add(t)
  <2>1. /\ Save(Added(t)) /\ UNCHANGED <<at, pending, handled>> /\ Adding(t)
        /\ Added(t) \in Events /\ Added(t) \notin Range(events)
    BY <1>1, <1>4, AddedIsNew DEF AddEventToBuffer, Adding, past
  <2>2. PICK e \in Events : e = Added(t) BY <2>1
  <2>3. Range(events') = Range(events) \cup {e} BY <1>1, <2>1, <2>2, SavesOne
  <2>4. Waiting' = Waiting \cup {Added(t)} BY <2>1, <2>2, <2>3 DEF Waiting, Undrained
  <2> QED BY <1>1, <2>1, <2>4, AddsOne
<1>5. CASE StartLoop \/ DrainDone \/ TakeID \/ Return
  <2>1. at # "pop" /\ at' # "pop" /\ UNCHANGED <<pending, events, handled, call, posted>>
    BY <1>5 DEF StartLoop, DrainDone, TakeID, Return, table, past
  <2>2. Waiting' = Waiting BY <2>1 DEF Waiting, Undrained
  <2>3. \A u \in Threads : Sent(u)' = Sent(u) BY <2>1 DEF Sent
  <2> QED BY <2>1, <2>2, <2>3, Stutters
<1>6. CASE DrainFront
  <2>1. /\ at = "drain" /\ at' = "pop" /\ pending # <<>> /\ Save(Head(pending))
        /\ UNCHANGED <<pending, handled, call, posted>>
    BY <1>6 DEF DrainFront, past
  <2>2. /\ Head(pending) = pending[1] /\ 1 \in DOMAIN pending /\ pending[1] \in Events
        /\ Len(pending) \in Nat \ {0}
        /\ DOMAIN Tail(pending) = 1..(Len(pending) - 1)
        /\ \A i \in 1..(Len(pending) - 1) : Tail(pending)[i] = pending[i + 1]
    BY <1>1, <2>1, TailOf
  <2>3. pending[1] \notin Range(events) BY <1>1, <2>1, <2>2 DEF AddedOnce, Left
  <2>4. PICK e \in Events : e = pending[1] BY <2>2
  <2>5. Range(events') = Range(events) \cup {e} BY <1>1, <2>1, <2>2, <2>3, <2>4, SavesOne
  <2>6. Range(pending) = Range(Tail(pending)) \cup {e}
    <3>1. ASSUME NEW d \in Range(pending) PROVE d \in Range(Tail(pending)) \cup {e}
      <4>1. PICK i \in 1..Len(pending) : d = pending[i] BY <1>1, <3>1 DEF Range
      <4>2. CASE i = 1 BY <2>4, <4>1, <4>2
      <4>3. CASE i # 1
        <5>1. i - 1 \in DOMAIN Tail(pending) /\ d = Tail(pending)[i - 1]
          BY <2>2, <4>1, <4>3
        <5> QED BY <5>1 DEF Range
      <4> QED BY <4>2, <4>3
    <3>2. \A i \in DOMAIN Tail(pending) :
            i + 1 \in DOMAIN pending /\ Tail(pending)[i] = pending[i + 1]
      BY <1>1, <2>2
    <3>3. Range(Tail(pending)) \subseteq Range(pending) BY <3>2 DEF Range
    <3>4. e \in Range(pending) BY <2>2, <2>4 DEF Range
    <3> QED BY <3>1, <3>3, <3>4
  <2>7. Waiting' = Waiting BY <2>1, <2>5, <2>6 DEF Waiting, Undrained
  <2>8. \A u \in Threads : Sent(u)' = Sent(u) BY <2>1 DEF Sent
  <2> QED BY <2>1, <2>7, <2>8, Stutters
<1>7. CASE DrainPop
  <2>1. /\ at = "pop" /\ at' = "drain" /\ pending' = Tail(pending)
        /\ UNCHANGED <<events, handled, call, posted>>
    BY <1>7 DEF DrainPop, table, past
  <2>2. Waiting' = Waiting BY <2>1 DEF Waiting, Undrained
  <2>3. \A u \in Threads : Sent(u)' = Sent(u) BY <2>1 DEF Sent
  <2> QED BY <2>1, <2>2, <2>3, Stutters
<1>8. CASE RemoveEvent BY <1>8, DeliversOne DEF FIFO!Next
<1>9. CASE AdoptBuffer
  <2>1. /\ at = "handle" /\ events' = <<>> /\ UNCHANGED <<at, pending, handled, call, posted>>
        /\ DOMAIN pending = {}
    BY <1>1, <1>9 DEF AdoptBuffer, InSetup
  <2>2. Waiting' = {} BY <2>1 DEF Waiting, Undrained, Range
  <2>3. \A u \in Threads : WaitingOf(u)' = {} BY <2>2 DEF WaitingOf, Waiting
  <2>4. \A u \in Threads : Sent(u)' = Sent(u) BY <2>1 DEF Sent
  <2>5. FIFO!Discard BY <2>1, <2>3, <2>4 DEF FIFO!Discard
  <2> QED BY <2>5 DEF FIFO!Next
<1>10. CASE UNCHANGED vars
  <2>1. UNCHANGED <<at, pending, events, handled, call, posted>>
    BY <1>10 DEF vars, table, past
  <2>2. Waiting' = Waiting BY <2>1 DEF Waiting, Undrained
  <2>3. \A u \in Threads : Sent(u)' = Sent(u) BY <2>1 DEF Sent
  <2> QED BY <2>1, <2>2, <2>3, Stutters
<1> QED
  BY <1>2, <1>3, <1>4, <1>5, <1>6, <1>7, <1>8, <1>9, <1>10
  DEF Next, Adding, Loop, FIFO!Next

(* As long as the other threads wait until the queue is ready, the queue   *)
(* keeps the promise of EventFIFO: for any number of threads and events,   *)
(* a thread's events reach their handlers in the order in which it added   *)
(* them, none twice, and only a new buffer throws any away.                *)
THEOREM EachThreadInOrderHolds ==
  ASSUME Early = {}
  PROVE  Spec => EachThreadInOrder
<1>1. Init => FIFO!Init
  <2> SUFFICES ASSUME Init PROVE FIFO!Init OBVIOUS
  <2>1. /\ DOMAIN events = {} /\ DOMAIN pending = {} /\ at = "setup"
        /\ \A t \in Threads : call[t] = "none" /\ posted[t] = 0
        /\ handled = [t \in Threads |-> 0]
    BY DEF Init
  <2>2. \A t \in Threads : WaitingOf(t) = {} /\ Sent(t) = 0
    BY <2>1 DEF WaitingOf, Undrained, Sent, Range
  <2> QED BY <2>1, <2>2 DEF FIFO!Init
<1>2. OrderOK /\ [Next]_vars => [FIFO!Next]_(FIFO!fifo) BY StepRefines
<1> QED BY <1>1, <1>2, OrderAlways, PTL DEF Spec, EachThreadInOrder, FIFO!Spec

=============================================================================
