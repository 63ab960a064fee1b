------------------------- MODULE SocketMultiplexer -------------------------
(***************************************************************************)
(* The job list shared by the thread that services the sockets and the     *)
(* threads that add and remove them (src/lib/net/SocketMultiplexer.cpp).   *)
(*                                                                         *)
(* The list is guarded by two condition variables: a thread first reserves *)
(* the list (m_jobListLockLocked), then breaks the service thread out of   *)
(* its poll, then waits for the list (m_jobListLock) and gives the         *)
(* reservation up.  Each section under m_mutex is one action; waiting is a *)
(* guard, since every wait wakes up by itself ten times a second.          *)
(*                                                                         *)
(* A job is what it is called with and what it returns: itself, a new job, *)
(* or none.  On an error a listening socket's job calls removeSocket       *)
(* from the service thread.                                                *)
(***************************************************************************)
EXTENDS Naturals, Sequences, FiniteSets, Functions

CONSTANTS
  Service,    \* the thread that runs serviceThread
  Callers,    \* the threads that call addSocket and removeSocket
  NoThread,   \* nullptr
  Sockets,
  Owner,      \* the only thread that adds and removes a socket
  Listeners,  \* the listening sockets that may see an error
  Jobs,       \* addresses of job objects, used again once freed
  NoJob,      \* nullptr
  NoSocket

Threads == Callers \cup {Service}

ASSUME ThreadsAssumption ==
  /\ Service \notin Callers /\ NoThread \notin Threads
  /\ Owner \in [Sockets -> Callers] /\ Listeners \subseteq Sockets
  /\ NoJob \notin Jobs /\ NoSocket \notin Sockets

VARIABLES
  pc,          \* where each thread is
  op,          \* the call each thread makes, or made last
  reserver,    \* m_jobListLockLocker, and whether m_jobListLockLocked is set
  locker,      \* m_jobListLocker, and whether m_jobListLock is set
  jobs,        \* m_socketJobs in order, with the socket m_socketJobMap has
  live,        \* job objects allocated and not deleted
  jobsReady,   \* m_jobsReady
  update,      \* m_update
  pfds,        \* the jobs whose sockets are polled, in order
  ready,       \* which of them the last poll reported
  pos, next,   \* the cursor in jobs, and the index into pfds
  unblock,     \* a byte is in the service thread's unblock pipe
  cancelled    \* the service thread has been told to end

list == <<jobs, live, update>>
polled == <<pfds, ready, pos, next>>
locks == <<reserver, locker>>
vars == <<pc, op, locks, list, jobsReady, polled, unblock, cancelled>>

NoCall == [kind |-> "none", sock |-> NoSocket, job |-> NoJob]

Go(t, to) == pc' = [pc EXCEPT ![t] = to]

(***************************************************************************)
(* The lock                                                                *)
(***************************************************************************)
LockJobListLock(t) ==
  /\ pc[t] = "reserve"
  /\ reserver = NoThread
  /\ reserver' = t
  /\ Go(t, IF op[t] = NoCall THEN "enter" ELSE "unblock")
  /\ UNCHANGED <<op, locker, list, jobsReady, polled, unblock, cancelled>>

LockJobList_Barges(t) ==                                          \* mutant
  /\ pc[t] = "enter"
  /\ locker' = reserver
  /\ reserver' = NoThread
  /\ Go(t, IF op[t] = NoCall THEN "collect" ELSE "edit")
  /\ UNCHANGED <<op, list, jobsReady, polled, unblock, cancelled>>

LockJobList(t) ==
  /\ pc[t] = "enter"
  /\ locker = NoThread
  /\ locker' = reserver
  /\ reserver' = NoThread
  /\ Go(t, IF op[t] = NoCall THEN "collect" ELSE "edit")
  /\ UNCHANGED <<op, list, jobsReady, polled, unblock, cancelled>>

UnlockJobList(t) ==
  /\ pc[t] = "leave"
  /\ locker' = NoThread
  /\ jobsReady' = (jobs # <<>>)
  /\ Go(t, IF t = Service THEN "top" ELSE "idle")
  /\ UNCHANGED <<op, reserver, list, polled, unblock, cancelled>>

(***************************************************************************)
(* addSocket and removeSocket                                              *)
(***************************************************************************)
PollUnblock_Skipped(t) ==                                         \* mutant
  /\ pc[t] = "unblock"
  /\ Go(t, "enter")
  /\ UNCHANGED <<op, locks, list, jobsReady, polled, unblock, cancelled>>

PollUnblock(t) ==
  /\ pc[t] = "unblock"
  /\ unblock' = TRUE
  /\ Go(t, "enter")
  /\ UNCHANGED <<op, locks, list, jobsReady, polled, cancelled>>

(* The caller has made the job it passes.                                  *)
CallAddSocket(t) ==
  /\ pc[t] = "idle" /\ ~cancelled
  /\ \E s \in Sockets, j \in Jobs \ live :
       /\ Owner[s] = t
       /\ op' = [op EXCEPT ![t] = [kind |-> "add", sock |-> s, job |-> j]]
       /\ live' = live \cup {j}
  /\ Go(t, "reserve")
  /\ UNCHANGED <<locks, jobs, update, jobsReady, polled, unblock, cancelled>>

CallRemoveSocket(t) ==
  /\ pc[t] = "idle" /\ ~cancelled
  /\ \E s \in Sockets :
       /\ Owner[s] = t
       /\ op' = [op EXCEPT ![t] = [kind |-> "remove", sock |-> s, job |-> NoJob]]
  /\ Go(t, "reserve")
  /\ UNCHANGED <<locks, list, jobsReady, polled, unblock, cancelled>>

Places(s) == {i \in DOMAIN jobs : jobs[i].sock = s}

AddSocket_KeepsUpdate(t) ==                                       \* mutant
  LET s == op[t].sock  j == op[t].job
  IN /\ pc[t] = "edit" /\ op[t].kind = "add"
     /\ IF Places(s) = {}
        THEN jobs' = Append(jobs, [sock |-> s, job |-> j]) /\ UNCHANGED live
        ELSE \E i \in Places(s) : /\ jobs' = [jobs EXCEPT ![i].job = j]
                                  /\ live' = live \ {jobs[i].job}
     /\ op' = [op EXCEPT ![t].job = NoJob]
     /\ Go(t, "leave")
     /\ UNCHANGED <<locks, update, jobsReady, polled, unblock, cancelled>>

(* A new socket goes to the end; else the old job is deleted.  The list    *)
(* owns the job from now on.                                               *)
AddSocket(t) ==
  LET s == op[t].sock  j == op[t].job
  IN /\ pc[t] = "edit" /\ op[t].kind = "add"
     /\ IF Places(s) = {}
        THEN jobs' = Append(jobs, [sock |-> s, job |-> j]) /\ UNCHANGED live
        ELSE \E i \in Places(s) : /\ jobs' = [jobs EXCEPT ![i].job = j]
                                  /\ live' = live \ {jobs[i].job}
     /\ update' = TRUE
     /\ op' = [op EXCEPT ![t].job = NoJob]
     /\ Go(t, "leave")
     /\ UNCHANGED <<locks, jobsReady, polled, unblock, cancelled>>

RemoveSocket_Pending(t) ==                                        \* mutant
  /\ pc[t] = "edit" /\ op[t].kind = "remove"
  /\ \/ \E i \in Places(op[t].sock) :
          /\ jobs[i].job # NoJob /\ ~update
          /\ jobs' = [jobs EXCEPT ![i].job = NoJob]
          /\ live' = live \ {jobs[i].job}
          /\ update' = TRUE
     \/ /\ update \/ \A i \in Places(op[t].sock) : jobs[i].job = NoJob
        /\ UNCHANGED list
  /\ Go(t, "leave")
  /\ UNCHANGED <<op, locks, jobsReady, polled, unblock, cancelled>>

(* The place stays, without a job, until the service thread has passed.    *)
RemoveSocket(t) ==
  /\ pc[t] = "edit" /\ op[t].kind = "remove"
  /\ \/ \E i \in Places(op[t].sock) :
          /\ jobs[i].job # NoJob
          /\ jobs' = [jobs EXCEPT ![i].job = NoJob]
          /\ live' = live \ {jobs[i].job}
          /\ update' = TRUE
     \/ /\ \A i \in Places(op[t].sock) : jobs[i].job = NoJob
        /\ UNCHANGED list
  /\ Go(t, "leave")
  /\ UNCHANGED <<op, locks, jobsReady, polled, unblock, cancelled>>

(***************************************************************************)
(* serviceThread                                                           *)
(***************************************************************************)
Top ==
  /\ pc[Service] = "top"
  /\ Go(Service, IF cancelled THEN "gone" ELSE "ready")
  /\ UNCHANGED <<op, locks, list, jobsReady, polled, unblock, cancelled>>

(* Waiting for jobs is interrupted by cancellation.                        *)
WaitReady ==
  /\ pc[Service] = "ready"
  /\ jobsReady \/ cancelled
  /\ Go(Service, IF jobsReady THEN "reserve" ELSE "gone")
  /\ UNCHANGED <<op, locks, list, jobsReady, polled, unblock, cancelled>>

(* Some places of the list, as a sequence in their order, and what the list *)
(* has there.                                                              *)
WithJob == {i \in DOMAIN jobs : jobs[i].job # NoJob}
InOrder(places) ==
  {f \in Bijection(1..Cardinality(places), places) : \A k, l \in DOMAIN f : k < l => f[k] < f[l]}
JobsAt(places) == {[k \in DOMAIN f |-> jobs[f[k]]] : f \in InOrder(places)}

Collect ==
  /\ pc[Service] = "collect"
  /\ IF update THEN pfds' \in JobsAt(WithJob) ELSE UNCHANGED pfds
  /\ update' = FALSE
  /\ Go(Service, IF pfds' = <<>> THEN "purge" ELSE "poll")
  /\ UNCHANGED <<op, locks, jobs, live, jobsReady, ready, pos, next, unblock, cancelled>>

(* The poll returns for the pipe alone, or for some sockets.               *)
PollUnblocked ==
  /\ pc[Service] = "poll" /\ unblock
  /\ unblock' = FALSE
  /\ Go(Service, "purge")
  /\ UNCHANGED <<op, locks, list, jobsReady, polled, cancelled>>

PollReady ==
  /\ pc[Service] = "poll"
  /\ ready' \in (SUBSET DOMAIN pfds) \ {{}}
  /\ unblock' = FALSE
  /\ pos' = 1 /\ next' = 1
  /\ Go(Service, "run")
  /\ UNCHANGED <<op, locks, list, jobsReady, pfds, cancelled>>

(* The poll throws, or a signal interrupts it.                             *)
PollFails ==
  /\ pc[Service] = "poll"
  /\ \/ Go(Service, "purge")
     \/ cancelled /\ Go(Service, "gone")
  /\ UNCHANGED <<op, locks, list, jobsReady, polled, unblock, cancelled>>

AtJob == next <= Len(pfds) /\ pos <= Len(jobs)

SkipPlace ==
  /\ pc[Service] = "run" /\ AtJob /\ jobs[pos].job = NoJob
  /\ pos' = pos + 1
  /\ UNCHANGED <<pc, op, locks, list, jobsReady, pfds, ready, next, unblock, cancelled>>

RunJob_Leaks ==                                                   \* mutant
  /\ pc[Service] = "run" /\ AtJob /\ jobs[pos].job # NoJob
  /\ \/ UNCHANGED list
     \/ \E j \in (Jobs \ live) \cup {NoJob} :
          /\ jobs' = [jobs EXCEPT ![pos].job = j]
          /\ live' = live \cup ({j} \ {NoJob})
          /\ update' = TRUE
  /\ pos' = pos + 1 /\ next' = next + 1
  /\ UNCHANGED <<pc, op, locks, jobsReady, pfds, ready, unblock, cancelled>>

(* job->run returns the job itself, another one, or none.                  *)
RunJob ==
  /\ pc[Service] = "run" /\ AtJob /\ jobs[pos].job # NoJob
  /\ \/ UNCHANGED list
     \/ \E j \in (Jobs \ live) \cup {NoJob} :
          /\ jobs' = [jobs EXCEPT ![pos].job = j]
          /\ live' = (live \ {jobs[pos].job}) \cup ({j} \ {NoJob})
          /\ update' = TRUE
  /\ pos' = pos + 1 /\ next' = next + 1
  /\ UNCHANGED <<pc, op, locks, jobsReady, pfds, ready, unblock, cancelled>>

(* TCPListenSocket::serviceListening sees an error and closes itself.      *)
CloseListener ==
  /\ pc[Service] = "run" /\ AtJob /\ jobs[pos].job # NoJob
  /\ next \in ready /\ jobs[pos].sock \in Listeners
  /\ op' = [op EXCEPT ![Service] = [kind |-> "remove", sock |-> jobs[pos].sock, job |-> NoJob]]
  /\ Go(Service, "reserve")
  /\ UNCHANGED <<locks, list, jobsReady, polled, unblock, cancelled>>

(* A wait for the list ends once the service thread is cancelled.          *)
LockCancelled ==
  /\ pc[Service] = "enter" /\ locker # NoThread /\ cancelled
  /\ Go(Service, "gone")
  /\ UNCHANGED <<op, locks, list, jobsReady, polled, unblock, cancelled>>

EndOfRun ==                                                        \* deleteCursor
  /\ pc[Service] = "run" /\ ~AtJob
  /\ ready' = {} /\ pos' = 1 /\ next' = 1
  /\ Go(Service, "purge")
  /\ UNCHANGED <<op, locks, list, jobsReady, pfds, unblock, cancelled>>

(* Places without a job go.                                                *)
Purge ==
  /\ pc[Service] = "purge"
  /\ jobs' \in JobsAt(WithJob)
  /\ update' = (update \/ jobs' # jobs)
  /\ Go(Service, "leave")
  /\ UNCHANGED <<op, locks, live, jobsReady, polled, unblock, cancelled>>

(* The destructor, once no caller is left: it cancels the service thread,  *)
(* unblocks it and waits for it.                                           *)
Destroy ==
  /\ ~cancelled /\ \A t \in Callers : pc[t] = "idle"
  /\ cancelled' = TRUE /\ unblock' = TRUE
  /\ UNCHANGED <<pc, op, locks, list, jobsReady, polled>>
-----------------------------------------------------------------------------
Init ==
  /\ pc = [t \in Threads |-> IF t = Service THEN "top" ELSE "idle"]
  /\ op = [t \in Threads |-> NoCall]
  /\ reserver = NoThread /\ locker = NoThread
  /\ jobs = <<>> /\ live = {} /\ jobsReady = FALSE /\ update = FALSE
  /\ pfds = <<>> /\ ready = {} /\ pos = 1 /\ next = 1
  /\ unblock = FALSE /\ cancelled = FALSE

(* The steps a thread takes without waiting for an event from outside      *)
CallerSteps(t) ==
  \/ LockJobList(t) \/ UnlockJobList(t) \/ PollUnblock(t) \/ AddSocket(t) \/ RemoveSocket(t)

ServiceSteps ==
  \/ Top \/ WaitReady \/ LockJobList(Service) \/ Collect \/ PollUnblocked
  \/ SkipPlace \/ RunJob \/ EndOfRun \/ Purge \/ UnlockJobList(Service)
  \/ PollUnblock(Service) \/ LockCancelled

Next ==
  \/ \E t \in Threads : LockJobListLock(t)
  \/ \E t \in Callers : CallAddSocket(t) \/ CallRemoveSocket(t) \/ CallerSteps(t)
  \/ ServiceSteps \/ PollReady \/ PollFails \/ CloseListener \/ Destroy

Spec == Init /\ [][Next]_vars

(* Threads run, and a thread waiting for the reservation does not lose     *)
(* every race for it.  Sockets need never become ready.                    *)
Fairness ==
  /\ \A t \in Callers : WF_vars(CallerSteps(t))
  /\ WF_vars(ServiceSteps)
  /\ \A t \in Threads : SF_vars(LockJobListLock(t))

LiveSpec == Spec /\ Fairness
-----------------------------------------------------------------------------
(***************************************************************************)
(* Properties                                                              *)
(***************************************************************************)
Positions == {"idle", "reserve", "unblock", "enter", "edit", "leave",
              "top", "ready", "collect", "poll", "run", "purge", "gone"}
Call == [kind : {"none", "add", "remove"}, sock : Sockets \cup {NoSocket}, job : Jobs \cup {NoJob}]
Entry == [sock : Sockets, job : Jobs \cup {NoJob}]

TypeOK ==
  /\ pc \in [Threads -> Positions] /\ op \in [Threads -> Call]
  /\ reserver \in Threads \cup {NoThread} /\ locker \in Threads \cup {NoThread}
  /\ jobs \in Seq(Entry)
  /\ pfds \in Seq([sock : Sockets, job : Jobs])
  /\ live \subseteq Jobs /\ ready \subseteq Nat /\ pos \in Nat /\ next \in Nat
  /\ jobsReady \in BOOLEAN /\ update \in BOOLEAN
  /\ unblock \in BOOLEAN /\ cancelled \in BOOLEAN

(* Where a thread must be to hold the reservation, and the list            *)
Reserves(t) == pc[t] \in {"unblock", "enter"}
Holds(t) == pc[t] \in {"edit", "leave", "collect", "poll", "run", "purge"}

(* The assertions in lockJobList and unlockJobList: the thread that takes  *)
(* the list reserved it and the one that returns it has it; so two threads *)
(* are never at the list together.                                         *)
Exclusive ==
  /\ \A t \in Threads : Reserves(t) => reserver = t
  /\ \A t \in Threads : Holds(t) => locker = t

(* The jobs left to run are those that were polled, in the same order.     *)
Aligned ==
  pc[Service] = "run" =>
    SubSeq(pfds, next, Len(pfds)) \in JobsAt({i \in WithJob : i >= pos})

Passed(t) == op[t].kind = "add" /\ pc[t] \in {"reserve", "unblock", "enter", "edit"}

(* Every job object belongs to one place of the list or to one call: none  *)
(* is leaked, deleted twice or run after it was deleted; and each poll     *)
(* result goes to the job it was asked for (the comments in addSocket and  *)
(* removeSocket), while every variable has its type.                       *)
JobsOwned ==
  LET passing == {t \in Callers : Passed(t)}
  IN /\ TypeOK /\ Aligned
     /\ live = {jobs[i].job : i \in WithJob} \cup {op[t].job : t \in passing}
     /\ \A i, k \in WithJob : jobs[i].job = jobs[k].job => i = k
     /\ \A t, u \in passing : op[t].job = op[u].job => t = u
     /\ \A i \in WithJob, t \in passing : jobs[i].job # op[t].job

(* Once removeSocket has returned, the socket has no job until it is added *)
(* again: its owner may delete it.                                         *)
RemovedIsQuiet ==
  \A t \in Callers :
    pc[t] = "idle" /\ op[t].kind = "remove" =>
      \A i \in Places(op[t].sock) : jobs[i].job = NoJob

(* A listener that closed itself in the service thread waits for the list  *)
(* that thread holds: nothing moves after that.                            *)
WaitsForItself == locker = Service /\ op[Service].kind = "remove"

(* Whoever has the reservation gets the list next, without any luck (the   *)
(* comment on lockJobListLock in the header), unless a listener has closed *)
(* itself; and the destructor's wait for the service thread ends even then.*)
WaitsEnd ==
  /\ \A t \in Callers : reserver = t ~> locker = t \/ WaitsForItself
  /\ cancelled ~> pc[Service] = "gone"

(* Every job added is polled or replaced in the end, unless the service    *)
(* thread ends or waits for itself.                                        *)
Polled(j) == \E i \in DOMAIN pfds : pfds[i].job = j

JobsPolled ==
  \A j \in Jobs :
    (\E i \in DOMAIN jobs : jobs[i].job = j)
      ~> (Polled(j) \/ j \notin live \/ cancelled \/ WaitsForItself)
=============================================================================
