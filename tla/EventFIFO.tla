----------------------------- MODULE EventFIFO -----------------------------
(***************************************************************************)
(* What the event queue promises its users (IEventQueue::addEvent, getEvent*)
(* and adoptBuffer): the events a thread adds are handled in the order in  *)
(* which it added them, each at most once; only a new buffer discards any. *)
(* Nothing is promised about the order of two threads' events.             *)
(*                                                                         *)
(* The events of a thread are numbered as it adds them.                    *)
(***************************************************************************)
EXTENDS Naturals

CONSTANT Threads

VARIABLES
  queue,    \* the numbers of each thread's waiting events
  sent,     \* how many events each thread has added
  handled   \* the last event of each thread that was given to a handler

fifo == <<queue, sent, handled>>

Init ==
  /\ queue = [t \in Threads |-> {}]
  /\ sent = [t \in Threads |-> 0]
  /\ handled = [t \in Threads |-> 0]

Add(t) ==
  /\ sent' = [sent EXCEPT ![t] = @ + 1]
  /\ queue' = [queue EXCEPT ![t] = @ \cup {sent'[t]}]
  /\ UNCHANGED handled

(* The first that waits                                                    *)
Deliver(t) ==
  /\ \E n \in queue[t] :
       /\ \A m \in queue[t] : n <= m
       /\ handled' = [handled EXCEPT ![t] = n]
       /\ queue' = [queue EXCEPT ![t] = @ \ {n}]
  /\ UNCHANGED sent

Discard ==
  /\ queue' = [t \in Threads |-> {}]
  /\ UNCHANGED <<sent, handled>>

Next == (\E t \in Threads : Add(t) \/ Deliver(t)) \/ Discard

Spec == Init /\ [][Next]_fifo
=============================================================================
