----------------------------- MODULE EventQueue -----------------------------
(***************************************************************************)
(* The event queue with the buffer of SimpleEventQueueBuffer               *)
(* (src/lib/base/EventQueue.cpp).                                          *)
(*                                                                         *)
(* One thread sets the queue up, runs loop() and with it every handler;    *)
(* others, such as the one that services the sockets, add events.  Until   *)
(* loop() has begun, addEvent puts an event into m_pending, which nothing  *)
(* guards, and looks at the ready flag without its mutex: the look and the *)
(* action it decides are two steps.                                        *)
(*                                                                         *)
(* An event is the thread that adds it and a number; one whose handler     *)
(* does not return to the loop is a quit.                                  *)
(***************************************************************************)
EXTENDS Naturals, Sequences, FiniteSets, Functions

CONSTANTS
  Main,       \* the thread that runs loop
  Others,
  Early,      \* those of them that do not wait until the queue is ready
  MaxPosts    \* how many events a thread adds

Threads == Others \cup {Main}
Events == Threads \X (1..MaxPosts)

ASSUME ThreadsAssumption == Main \notin Others /\ Early \subseteq Others

ASSUME PostsAssumption == MaxPosts \in Nat /\ IsFiniteSet(Threads)

VARIABLES
  at,         \* where the main thread is
  call,       \* what each thread's call of addEvent is about to do
  posted,     \* how many events each thread has called addEvent for
  ready,      \* *m_readyCondVar
  pending,    \* m_pending
  events,     \* m_events
  oldIDs,     \* m_oldEventIDs; which of them is reused does not matter
  buffer,     \* the identifiers in m_buffer, in order
  taken,      \* the identifier got from the buffer, not yet looked up
  handled,    \* the last event of each thread given to a handler
  discarded   \* events thrown away with a buffer

table == <<events, oldIDs, buffer>>
past == <<handled, discarded>>
vars == <<at, call, posted, ready, pending, table, taken, past>>

(***************************************************************************)
(* saveEvent, removeEvent                                                  *)
(***************************************************************************)
FreshIDs_OffByOne ==                                              \* mutant
  IF oldIDs # {} THEN oldIDs ELSE {Cardinality(DOMAIN events) + 1}

FreshIDs_BySize == {Cardinality(DOMAIN events)}                   \* mutant

FreshIDs == IF oldIDs # {} THEN oldIDs ELSE {Cardinality(DOMAIN events)}

Save_InFront(e) ==                                                \* mutant
  \E id \in FreshIDs :
    /\ events' = [i \in DOMAIN events \cup {id} |-> IF i = id THEN e ELSE events[i]]
    /\ oldIDs' = oldIDs \ {id}
    /\ buffer' = <<id>> \o buffer

(* The end of addEventToBuffer, under m_mutex                              *)
Save(e) ==
  \E id \in FreshIDs :
    /\ events' = [i \in DOMAIN events \cup {id} |-> IF i = id THEN e ELSE events[i]]
    /\ oldIDs' = oldIDs \ {id}
    /\ buffer' = Append(buffer, id)

(***************************************************************************)
(* addEvent                                                                *)
(***************************************************************************)
MayPost(t) ==
  IF t = Main THEN at \in {"setup", "handle"} ELSE ready \/ t \in Early

AddEvent(t) ==
  /\ call[t] = "none" /\ posted[t] < MaxPosts /\ MayPost(t)
  /\ posted' = [posted EXCEPT ![t] = @ + 1]
  /\ call' = [call EXCEPT ![t] = IF ready THEN "save" ELSE "push"]
  /\ UNCHANGED <<at, ready, pending, table, taken, past>>

Added(t) == <<t, posted[t]>>

Racing(t) == \E u \in Threads \ {t} : call[u] = "push"

(* Two unguarded pushes may write the same place.                          *)
PushPending(t) ==
  /\ call[t] = "push"
  /\ pending' \in {Append(pending, Added(t))} \cup (IF Racing(t) THEN {pending} ELSE {})
  /\ call' = [call EXCEPT ![t] = "none"]
  /\ UNCHANGED <<at, posted, ready, table, taken, past>>

AddEventToBuffer(t) ==
  /\ call[t] = "save"
  /\ Save(Added(t))
  /\ call' = [call EXCEPT ![t] = "none"]
  /\ UNCHANGED <<at, posted, ready, pending, taken, past>>

(***************************************************************************)
(* loop: first the pending events, then get, dispatch, get ...             *)
(***************************************************************************)
StartLoop_LeavesPending ==                                        \* mutant
  /\ at = "setup" /\ call[Main] = "none"
  /\ ready' = TRUE
  /\ at' = "get"
  /\ UNCHANGED <<call, posted, pending, table, taken, past>>

StartLoop ==
  /\ at = "setup" /\ call[Main] = "none"
  /\ ready' = TRUE
  /\ at' = "drain"
  /\ UNCHANGED <<call, posted, pending, table, taken, past>>

DrainFront ==
  /\ at = "drain" /\ pending # <<>>
  /\ Save(Head(pending))
  /\ at' = "pop"
  /\ UNCHANGED <<call, posted, ready, pending, taken, past>>

DrainPop ==
  /\ at = "pop"
  /\ pending' = Tail(pending)
  /\ at' = "drain"
  /\ UNCHANGED <<call, posted, ready, table, taken, past>>

DrainDone ==
  /\ at = "drain" /\ pending = <<>>
  /\ at' = "get"
  /\ UNCHANGED <<call, posted, ready, pending, table, taken, past>>

TakeID ==
  /\ at = "get" /\ buffer # <<>>
  /\ taken' = {Head(buffer)}
  /\ buffer' = Tail(buffer)
  /\ at' = "take"
  /\ UNCHANGED <<call, posted, ready, pending, events, oldIDs, past>>

(* A quit ends the loop.  An unknown identifier gives an event for nobody. *)
RemoveEvent ==
  /\ at = "take"
  /\ \E id \in taken :
       /\ events' = [i \in DOMAIN events \ {id} |-> events[i]]
       /\ oldIDs' = oldIDs \cup ({id} \cap DOMAIN events)
       /\ handled' = [t \in Threads |->
                        IF id \in DOMAIN events /\ events[id][1] = t
                        THEN events[id][2] ELSE handled[t]]
  /\ taken' = {}
  /\ at' \in {"handle", "done"}
  /\ UNCHANGED <<call, posted, ready, pending, buffer, discarded>>

(* A handler that changes the screen adopts its buffer.                    *)
AdoptBuffer ==
  /\ at = "handle" /\ call[Main] = "none"
  /\ discarded' = discarded \cup Range(events)
  /\ events' = <<>> /\ oldIDs' = {} /\ buffer' = <<>>
  /\ UNCHANGED <<at, call, posted, ready, pending, taken, handled>>

Return ==
  /\ at = "handle" /\ call[Main] = "none"
  /\ at' = "get"
  /\ UNCHANGED <<call, posted, ready, pending, table, taken, past>>
-----------------------------------------------------------------------------
Init ==
  /\ at = "setup" /\ ready = FALSE
  /\ call = [t \in Threads |-> "none"] /\ posted = [t \in Threads |-> 0]
  /\ pending = <<>> /\ events = <<>> /\ oldIDs = {} /\ buffer = <<>> /\ taken = {}
  /\ handled = [t \in Threads |-> 0] /\ discarded = {}

Adding(t) == PushPending(t) \/ AddEventToBuffer(t)

Loop ==
  StartLoop \/ DrainFront \/ DrainPop \/ DrainDone \/ TakeID \/ RemoveEvent \/ Return

Next ==
  \/ \E t \in Threads : AddEvent(t) \/ Adding(t)
  \/ Loop \/ AdoptBuffer

Spec == Init /\ [][Next]_vars

(* Threads run and handlers return; nobody need add anything.              *)
LiveSpec == Spec /\ WF_vars(Loop) /\ \A t \in Threads : WF_vars(Adding(t))
-----------------------------------------------------------------------------
(***************************************************************************)
(* Properties                                                              *)
(***************************************************************************)
IDs == 0 .. (MaxPosts * Cardinality(Threads) - 1)

TypeOK ==
  /\ at \in {"setup", "drain", "pop", "get", "take", "handle", "done"}
  /\ call \in [Threads -> {"none", "push", "save"}]
  /\ posted \in [Threads -> 0..MaxPosts] /\ handled \in [Threads -> 0..MaxPosts]
  /\ ready \in BOOLEAN /\ pending \in Seq(Events)
  /\ DOMAIN events \subseteq IDs /\ Range(events) \subseteq Events
  /\ oldIDs \subseteq IDs /\ buffer \in Seq(IDs) /\ taken \subseteq IDs
  /\ discarded \subseteq Events

(* Every saved event is in the buffer, or on its way out of it, exactly    *)
(* once, and everything in the buffer is saved; so no event is overwritten *)
(* by one that reuses its identifier, leaked, or looked up in vain.        *)
SavedOnce ==
  /\ \A i, j \in DOMAIN buffer : buffer[i] = buffer[j] => i = j
  /\ taken \cap Range(buffer) = {}
  /\ DOMAIN events = taken \cup Range(buffer)
  /\ at = "take" <=> taken # {}

(* The queue does what EventFIFO says: the waiting events of a thread are  *)
(* those saved and, before the loop has emptied it, those in m_pending.    *)
Undrained == IF at = "pop" THEN Tail(pending) ELSE pending

WaitingOf(t) ==
  {n \in 1..MaxPosts : <<t, n>> \in Range(events) \cup Range(Undrained)}

Sent(t) == posted[t] - (IF call[t] = "none" THEN 0 ELSE 1)

FIFO == INSTANCE EventFIFO WITH
  queue <- [t \in Threads |-> WaitingOf(t)],
  sent  <- [t \in Threads |-> Sent(t)]

EachThreadInOrder == FIFO!Spec

(* Every event added is given to a handler in the end, unless a new buffer *)
(* or a quit comes first: IEventQueue.h on addEvent and getEvent.          *)
Delivered ==
  \A t \in Threads, n \in 1..MaxPosts :
    posted[t] >= n ~> handled[t] >= n \/ <<t, n>> \in discarded \/ at = "done"
=============================================================================
