---------------------- MODULE SocketMultiplexerProofs ----------------------
(***************************************************************************)
(* SocketMultiplexer, for any number of threads, sockets and jobs: who is  *)
(* past a wait of its two-stage lock has what it waited for; and whatever  *)
(* is added, removed and returned meanwhile, every job has one owner, and  *)
(* the poll results stay matched to the list.                              *)
(***************************************************************************)
EXTENDS SocketMultiplexer, FiniteSetTheorems, TLAPS

(* The inductive invariant: Exclusive, and that pc has a value for every   *)
(* thread, which is all of the type a step needs.                          *)
Located == pc = [t \in Threads |-> pc[t]]

Locking == Located /\ Exclusive

(* The threads other than the one that moves stay where they are.          *)
LEMMA OthersStay ==
  ASSUME Located, NEW t \in Threads, NEW to, Go(t, to)
  PROVE  /\ Located'
         /\ pc'[t] = to
         /\ \A u \in Threads \ {t} : pc'[u] = pc[u]
BY DEF Located, Go

(* A step that leaves both locks alone keeps the invariant if the thread   *)
(* that moves gains no hold it did not have.                               *)
LEMMA LocksKept ==
  ASSUME Locking, NEW t \in Threads, NEW to, Go(t, to), UNCHANGED locks,
         to \in {"unblock", "enter"} => Reserves(t),
         to \in {"edit", "leave", "collect", "poll", "run", "purge"} => Holds(t)
  PROVE  Locking'
<1>1. /\ Located'
      /\ pc'[t] = to
      /\ \A u \in Threads \ {t} : pc'[u] = pc[u]
  BY OthersStay DEF Locking
<1>2. reserver' = reserver /\ locker' = locker
  BY DEF locks
<1>3. ASSUME NEW u \in Threads PROVE (Reserves(u)' => reserver' = u) /\ (Holds(u)' => locker' = u)
  <2>1. CASE u = t
    BY <1>1, <1>2, <2>1 DEF Locking, Exclusive, Reserves, Holds
  <2>2. CASE u # t
    BY <1>1, <1>2, <2>2 DEF Locking, Exclusive, Reserves, Holds
  <2> QED BY <2>1, <2>2
<1> QED BY <1>1, <1>3 DEF Locking, Exclusive

(* A step in which no thread moves and no lock changes.                    *)
LEMMA NobodyMoves ==
  ASSUME Locking, UNCHANGED <<pc, locks>>
  PROVE  Locking'
BY DEF Locking, Located, Exclusive, Reserves, Holds, locks

(* Reserving: nobody else had the reservation.                             *)
LEMMA ReserveKeeps ==
  ASSUME Locking, NEW t \in Threads, LockJobListLock(t)
  PROVE  Locking'
<1> DEFINE to == IF op[t] = NoCall THEN "enter" ELSE "unblock"
<1>1. /\ Located'
      /\ pc'[t] = to
      /\ \A u \in Threads \ {t} : pc'[u] = pc[u]
  <2> Go(t, to) BY DEF LockJobListLock
  <2> QED BY OthersStay DEF Locking
<1>2. reserver = NoThread /\ reserver' = t /\ locker' = locker
  BY DEF LockJobListLock
<1>3. ASSUME NEW u \in Threads PROVE (Reserves(u)' => reserver' = u) /\ (Holds(u)' => locker' = u)
  <2>1. CASE u = t
    BY <1>1, <1>2, <2>1 DEF Holds, Reserves
  <2>2. CASE u # t
    BY <1>1, <1>2, <2>2, ThreadsAssumption DEF Locking, Exclusive, Reserves, Holds
  <2> QED BY <2>1, <2>2
<1> QED BY <1>1, <1>3 DEF Locking, Exclusive

(* Taking the list: the thread had reserved it and nobody had the list.    *)
LEMMA TakeKeeps ==
  ASSUME Locking, NEW t \in Threads, LockJobList(t)
  PROVE  Locking'
<1> DEFINE to == IF op[t] = NoCall THEN "collect" ELSE "edit"
<1>1. /\ Located'
      /\ pc'[t] = to
      /\ \A u \in Threads \ {t} : pc'[u] = pc[u]
  <2> Go(t, to) BY DEF LockJobList
  <2> QED BY OthersStay DEF Locking
<1>2. reserver = t
  BY DEF Locking, Exclusive, Reserves, LockJobList
<1>3. locker = NoThread /\ locker' = t /\ reserver' = NoThread
  BY <1>2 DEF LockJobList
<1>4. ASSUME NEW u \in Threads PROVE (Reserves(u)' => reserver' = u) /\ (Holds(u)' => locker' = u)
  <2>1. CASE u = t
    BY <1>1, <1>3, <2>1 DEF Holds, Reserves
  <2>2. CASE u # t
    BY <1>1, <1>2, <1>3, <2>2, ThreadsAssumption DEF Locking, Exclusive, Reserves, Holds
  <2> QED BY <2>1, <2>2
<1> QED BY <1>1, <1>4 DEF Locking, Exclusive

(* Returning the list: nobody else had it.                                 *)
LEMMA ReturnKeeps ==
  ASSUME Locking, NEW t \in Threads, UnlockJobList(t)
  PROVE  Locking'
<1> DEFINE to == IF t = Service THEN "top" ELSE "idle"
<1>1. /\ Located'
      /\ pc'[t] = to
      /\ \A u \in Threads \ {t} : pc'[u] = pc[u]
  <2> Go(t, to) BY DEF UnlockJobList
  <2> QED BY OthersStay DEF Locking
<1>2. locker = t /\ reserver' = reserver
  BY DEF Locking, Exclusive, Holds, UnlockJobList
<1>3. ASSUME NEW u \in Threads PROVE (Reserves(u)' => reserver' = u) /\ (Holds(u)' => locker' = u)
  <2>1. CASE u = t
    BY <1>1, <2>1 DEF Holds, Reserves
  <2>2. CASE u # t
    BY <1>1, <1>2, <2>2 DEF Locking, Exclusive, Reserves, Holds
  <2> QED BY <2>1, <2>2
<1> QED BY <1>1, <1>3 DEF Locking, Exclusive

LEMMA LockingInit == Init => Locking
BY ThreadsAssumption DEF Init, Locking, Located, Exclusive, Reserves, Holds, Threads

(* One step for each action: most of them leave the locks alone.           *)
LEMMA LockingStep == Locking /\ [Next]_vars => Locking'
<1> SUFFICES ASSUME Locking, [Next]_vars PROVE Locking'
  OBVIOUS
<1>s. Service \in Threads /\ Callers \subseteq Threads
  BY DEF Threads
<1>1. ASSUME NEW t \in Threads, LockJobListLock(t) PROVE Locking'
  BY <1>1, ReserveKeeps
<1>2. ASSUME NEW t \in Threads, LockJobList(t) PROVE Locking'
  BY <1>2, TakeKeeps
<1>3. ASSUME NEW t \in Threads, UnlockJobList(t) PROVE Locking'
  BY <1>3, ReturnKeeps
<1>4. ASSUME NEW t \in Threads, PollUnblock(t) PROVE Locking'
  BY <1>4, LocksKept DEF PollUnblock, Reserves
<1>5. ASSUME NEW t \in Callers, CallAddSocket(t) \/ CallRemoveSocket(t) PROVE Locking'
  <2> Go(t, "reserve") /\ UNCHANGED locks BY <1>5 DEF CallAddSocket, CallRemoveSocket
  <2> QED BY <1>s, LocksKept
<1>6. ASSUME NEW t \in Callers, AddSocket(t) \/ RemoveSocket(t) PROVE Locking'
  <2> pc[t] = "edit" /\ Go(t, "leave") /\ UNCHANGED locks BY <1>6 DEF AddSocket, RemoveSocket
  <2> QED BY <1>s, LocksKept DEF Holds
<1>7. ASSUME Top \/ WaitReady \/ CloseListener \/ LockCancelled PROVE Locking'
  <2> PICK to \in {"gone", "ready", "reserve"} : Go(Service, to) /\ UNCHANGED locks
    BY <1>7 DEF Top, WaitReady, CloseListener, LockCancelled
  <2> QED BY <1>s, LocksKept
<1>8. ASSUME Collect \/ PollUnblocked \/ PollReady \/ PollFails \/ EndOfRun \/ Purge PROVE Locking'
  <2>1. PICK to \in {"gone", "purge", "poll", "run", "leave"} : Go(Service, to) /\ UNCHANGED locks
    BY <1>8 DEF Collect, PollUnblocked, PollReady, PollFails, EndOfRun, Purge
  <2>2. Holds(Service)
    BY <1>8 DEF Collect, PollUnblocked, PollReady, PollFails, EndOfRun, Purge, Holds
  <2> QED BY <1>s, <2>1, <2>2, LocksKept
<1>9. ASSUME SkipPlace \/ RunJob \/ Destroy \/ UNCHANGED vars PROVE Locking'
  BY <1>9, NobodyMoves DEF SkipPlace, RunJob, Destroy, vars, locks
<1> QED
  BY <1>s, <1>1, <1>2, <1>3, <1>4, <1>5, <1>6, <1>7, <1>8, <1>9
  DEF Next, CallerSteps, ServiceSteps

(* The assertions of lockJobList and unlockJobList always hold, for any    *)
(* number of callers and whatever a job run by the service thread does.    *)
THEOREM ExclusiveHolds == Spec => []Exclusive
<1>1. Locking => Exclusive
  BY DEF Locking
<1> QED BY LockingInit, LockingStep, <1>1, PTL DEF Spec

(* Two threads are never at the job list together: an edit never meets     *)
(* another one, nor the service thread between its poll and its purge.     *)
OneAtTheList == \A t, u \in Threads : Holds(t) /\ Holds(u) => t = u

THEOREM OneAtTheListHolds == Spec => []OneAtTheList
<1>1. Exclusive => OneAtTheList
  BY DEF Exclusive, OneAtTheList
<1> QED BY ExclusiveHolds, <1>1, PTL
-----------------------------------------------------------------------------
(* The inductive invariant behind JobsOwned and RemovedIsQuiet is JobsInv: *)
(* Locking, and these.  m_socketJobMap has one place for a socket.         *)
SocketsOnce == \A i, k \in DOMAIN jobs : jobs[i].sock = jobs[k].sock => i = k

(* A caller is inside the call it makes, for a socket of its own.          *)
CallerCalls(t) ==
  /\ pc[t] \in {"idle", "reserve", "unblock", "enter", "edit", "leave"}
  /\ op[t].kind = "none" => pc[t] = "idle"
  /\ op[t].kind # "none" => op[t].sock \in Sockets /\ Owner[op[t].sock] = t
  /\ Passed(t) => op[t].job \in Jobs

(* The service thread makes a call only from a job it runs, and then it    *)
(* has the list it waits for.                                              *)
ServiceCalls ==
  /\ pc[Service] \notin {"idle", "edit"}
  /\ op[Service] = NoCall \/ op[Service].kind = "remove"
  /\ op[Service].kind = "remove" =>
       locker = Service /\ pc[Service] \in {"reserve", "unblock", "enter", "gone"}
  /\ pc[Service] = "unblock" => op[Service].kind = "remove"

Calls == ServiceCalls /\ \A t \in Callers : CallerCalls(t)

(* RemovedIsQuiet already holds when the list has been edited.             *)
Quiet ==
  \A t \in Callers :
    pc[t] \in {"leave", "idle"} /\ op[t].kind = "remove" =>
      \A i \in Places(op[t].sock) : jobs[i].job = NoJob

(* The passed jobs and those of the list, which JobsOwned relates.         *)
Passing == {t \in Callers : Passed(t)}
InList == {jobs[i].job : i \in WithJob}
InCalls == {op[t].job : t \in Passing}

Owned ==
  /\ live = InList \cup InCalls
  /\ \A i, k \in WithJob : jobs[i].job = jobs[k].job => i = k
  /\ \A t, u \in Passing : op[t].job = op[u].job => t = u
  /\ \A i \in WithJob, t \in Passing : jobs[i].job # op[t].job

(* The poll entries are out of date only if m_update says so, and never    *)
(* while the service thread polls.                                         *)
Fresh ==
  /\ ~update => pfds \in JobsAt(WithJob)
  /\ pc[Service] = "poll" => ~update
  /\ pos > 0 /\ next > 0
  /\ Aligned

JobsInv ==
  Locking /\ TypeOK /\ SocketsOnce /\ Calls /\ Quiet /\ Owned /\ Fresh
-----------------------------------------------------------------------------
(* Every set of places of the list is finite.                              *)
LEMMA PlacesFinite ==
  ASSUME NEW T, jobs \in Seq(T), NEW P \in SUBSET DOMAIN jobs
  PROVE  P \subseteq Nat /\ IsFiniteSet(P) /\ Cardinality(P) \in Nat
<1>1. DOMAIN jobs = 1..Len(jobs) /\ Len(jobs) \in Nat
  OBVIOUS
<1>2. IsFiniteSet(1..Len(jobs))
  BY <1>1, FS_Interval
<1>3. IsFiniteSet(P)
  BY <1>1, <1>2, FS_Subset
<1> QED BY <1>1, <1>3, FS_CardinalityType

(* What an order of some places is.                                        *)
LEMMA OrderMeans ==
  ASSUME NEW P, NEW f
  PROVE  f \in InOrder(P) <=>
           /\ f \in [1..Cardinality(P) -> P]
           /\ \A k, l \in 1..Cardinality(P) : f[k] = f[l] => k = l
           /\ \A p \in P : \E k \in 1..Cardinality(P) : f[k] = p
           /\ \A k, l \in 1..Cardinality(P) : k < l => f[k] < f[l]
BY DEF InOrder, Bijection, Injection, Surjection, IsInjective, Range

(* Without its least place, an order starts one later.                     *)
LEMMA OrderDropsFirst ==
  ASSUME NEW P \in SUBSET Nat, IsFiniteSet(P), NEW p \in P, \A q \in P : p <= q,
         NEW f \in InOrder(P)
  PROVE  /\ Cardinality(P) \in Nat \ {0} /\ f[1] = p
         /\ Cardinality(P \ {p}) = Cardinality(P) - 1
         /\ [k \in 1..(Cardinality(P) - 1) |-> f[k + 1]] \in InOrder(P \ {p})
<1> DEFINE n == Cardinality(P)
           g == [k \in 1..(n - 1) |-> f[k + 1]]
<1>1. n \in Nat /\ n # 0 /\ Cardinality(P \ {p}) = n - 1
  BY FS_CardinalityType, FS_RemoveElement, FS_EmptySet
<1> HIDE DEF n
<1>2. /\ f \in [1..n -> P]
      /\ \A k, l \in 1..n : f[k] = f[l] => k = l
      /\ \A q \in P : \E k \in 1..n : f[k] = q
      /\ \A k, l \in 1..n : k < l => f[k] < f[l]
  BY OrderMeans DEF n
<1>3. f[1] = p
  <2>1. PICK k \in 1..n : f[k] = p
    BY <1>2
  <2>2. 1 \in 1..n /\ (k = 1 \/ 1 < k)
    BY <1>1
  <2>3. f[1] \in P /\ (k = 1 \/ f[1] < f[k])
    BY <1>2, <2>2
  <2>4. p <= f[1] /\ f[1] \in Nat /\ p \in Nat
    BY <2>3
  <2> QED BY <2>1, <2>3, <2>4
<1>4. g \in [1..(n - 1) -> P \ {p}]
  <2> SUFFICES ASSUME NEW k \in 1..(n - 1) PROVE f[k + 1] \in P \ {p}
    OBVIOUS
  <2>1. k + 1 \in 1..n /\ 1 \in 1..n /\ k + 1 # 1
    BY <1>1
  <2> QED BY <2>1, <1>2, <1>3
<1>5. \A k, l \in 1..(n - 1) : (g[k] = g[l] => k = l) /\ (k < l => g[k] < g[l])
  <2> SUFFICES ASSUME NEW k \in 1..(n - 1), NEW l \in 1..(n - 1)
               PROVE  (f[k + 1] = f[l + 1] => k = l) /\ (k < l => f[k + 1] < f[l + 1])
    OBVIOUS
  <2>1. k + 1 \in 1..n /\ l + 1 \in 1..n
    BY <1>1
  <2> QED BY <2>1, <1>1, <1>2
<1>6. ASSUME NEW q \in P \ {p} PROVE \E k \in 1..(n - 1) : g[k] = q
  <2>1. PICK k \in 1..n : f[k] = q
    BY <1>2
  <2>2. k # 1 /\ k - 1 \in 1..(n - 1) /\ (k - 1) + 1 = k
    BY <1>1, <1>3, <2>1
  <2>3. g[k - 1] = q
    BY <2>1, <2>2
  <2> QED BY <2>2, <2>3
<1>7. g \in InOrder(P \ {p})
  BY <1>1, <1>4, <1>5, <1>6, OrderMeans
<1> QED BY <1>1, <1>3, <1>7 DEF n

(* The list taken in the order of some places is a sequence of its entries *)
(* there.                                                                  *)
LEMMA JobsAtType ==
  ASSUME NEW T, jobs \in Seq(T), NEW P \in SUBSET DOMAIN jobs, NEW s \in JobsAt(P)
  PROVE  \E f \in InOrder(P) :
           /\ f \in [1..Cardinality(P) -> P] /\ Cardinality(P) \in Nat
           /\ s = [k \in 1..Cardinality(P) |-> jobs[f[k]]]
           /\ s \in Seq(T)
           /\ Len(s) = Cardinality(P)
<1>1. PICK f \in InOrder(P) : s = [k \in DOMAIN f |-> jobs[f[k]]]
  BY DEF JobsAt
<1>2. f \in [1..Cardinality(P) -> P]
  BY OrderMeans
<1>3. Cardinality(P) \in Nat
  BY PlacesFinite
<1>t. DOMAIN jobs = 1..Len(jobs) /\ \A i \in DOMAIN jobs : jobs[i] \in T
  OBVIOUS
<1>4. s = [k \in 1..Cardinality(P) |-> jobs[f[k]]]
  BY <1>1, <1>2
<1>5. \A k \in 1..Cardinality(P) : jobs[f[k]] \in T
  <2> SUFFICES ASSUME NEW k \in 1..Cardinality(P) PROVE jobs[f[k]] \in T
    OBVIOUS
  <2> f[k] \in DOMAIN jobs BY <1>2
  <2> QED BY <1>t
<1>6. s \in [1..Cardinality(P) -> T]
  BY <1>4, <1>5
<1>7. s \in Seq(T) /\ Len(s) = Cardinality(P)
  BY <1>3, <1>6
<1> QED BY <1>2, <1>3, <1>4, <1>7

(* The three ways the list changes: one entry gets another job,            *)
LEMMA EditMeans ==
  ASSUME jobs \in Seq(Entry), NEW i \in DOMAIN jobs, NEW j \in Jobs \cup {NoJob},
         jobs' = [jobs EXCEPT ![i].job = j]
  PROVE  /\ jobs' \in Seq(Entry) /\ DOMAIN jobs' = DOMAIN jobs
         /\ \A k \in DOMAIN jobs : jobs'[k].sock = jobs[k].sock
         /\ \A k \in DOMAIN jobs : jobs'[k].job = IF k = i THEN j ELSE jobs[k].job
<1>1. \A k \in DOMAIN jobs : jobs[k] \in Entry
  OBVIOUS
<1>2. [jobs[i] EXCEPT !.job = j] \in Entry
  BY <1>1 DEF Entry
<1>3. jobs' = [jobs EXCEPT ![i] = [jobs[i] EXCEPT !.job = j]]
  OBVIOUS
<1>4. jobs' \in Seq(Entry) /\ DOMAIN jobs' = DOMAIN jobs
  BY <1>2, <1>3
<1>5. \A k \in DOMAIN jobs : jobs'[k] = IF k = i THEN [jobs[i] EXCEPT !.job = j] ELSE jobs[k]
  BY <1>3
<1> QED BY <1>1, <1>4, <1>5 DEF Entry

(* one entry is added at the end,                                          *)
LEMMA AppendMeans ==
  ASSUME jobs \in Seq(Entry), NEW e \in Entry, jobs' = Append(jobs, e)
  PROVE  /\ jobs' \in Seq(Entry)
         /\ DOMAIN jobs' = DOMAIN jobs \cup {Len(jobs) + 1}
         /\ Len(jobs) + 1 \notin DOMAIN jobs
         /\ jobs'[Len(jobs) + 1] = e
         /\ \A k \in DOMAIN jobs : jobs'[k] = jobs[k]
<1>1. /\ jobs' \in Seq(Entry) /\ Len(jobs) \in Nat /\ Len(jobs') = Len(jobs) + 1
      /\ DOMAIN jobs = 1..Len(jobs) /\ DOMAIN jobs' = 1..(Len(jobs) + 1)
  OBVIOUS
<1> QED BY <1>1

(* and the entries without a job go.                                       *)
LEMMA PurgeMeans ==
  ASSUME jobs \in Seq(Entry), jobs' \in JobsAt(WithJob)
  PROVE  /\ jobs' \in Seq(Entry)
         /\ \E f \in [DOMAIN jobs' -> WithJob] :
              /\ \A k \in DOMAIN jobs' : jobs'[k] = jobs[f[k]]
              /\ \A k, l \in DOMAIN jobs' : f[k] = f[l] => k = l
              /\ \A i \in WithJob : \E k \in DOMAIN jobs' : f[k] = i
<1>1. WithJob \in SUBSET DOMAIN jobs
  BY DEF WithJob
<1>2. PICK f \in InOrder(WithJob) :
        /\ f \in [1..Cardinality(WithJob) -> WithJob] /\ Cardinality(WithJob) \in Nat
        /\ jobs' = [k \in 1..Cardinality(WithJob) |-> jobs[f[k]]]
        /\ jobs' \in Seq(Entry)
  BY <1>1, JobsAtType
<1>3. DOMAIN jobs' = 1..Cardinality(WithJob)
  BY <1>2
<1>4. /\ \A k, l \in 1..Cardinality(WithJob) : f[k] = f[l] => k = l
      /\ \A i \in WithJob : \E k \in 1..Cardinality(WithJob) : f[k] = i
  BY <1>2, OrderMeans
<1> QED BY <1>2, <1>3, <1>4

(* What a call records about a thread.                                     *)
LEMMA OpMeans ==
  ASSUME TypeOK, NEW t \in Threads, NEW c \in Call, op' = [op EXCEPT ![t] = c]
  PROVE  op'[t] = c /\ (\A u \in Threads : u # t => op'[u] = op[u])
BY DEF TypeOK

(* The type of every variable, action by action.                           *)
LEMMA TypeInit == Init => TypeOK
<1> SUFFICES ASSUME Init PROVE TypeOK
  OBVIOUS
<1>1. pc \in [Threads -> Positions]
  BY DEF Init, Positions
<1>2. NoCall \in Call
  BY DEF NoCall, Call
<1>3. op \in [Threads -> Call]
  BY <1>2 DEF Init
<1>4. jobs \in Seq(Entry) /\ pfds \in Seq([sock : Sockets, job : Jobs])
  BY DEF Init
<1> QED BY <1>1, <1>3, <1>4 DEF Init, TypeOK

(* The part of the type that a thread that moves could disturb.            *)
LEMMA GoType ==
  ASSUME TypeOK, NEW t \in Threads, NEW to \in Positions, Go(t, to)
  PROVE  pc' \in [Threads -> Positions]
BY DEF TypeOK, Go

(* The cursor is at a place of the list.                                   *)
LEMMA PosInList ==
  ASSUME TypeOK, AtJob, pos > 0
  PROVE  pos \in DOMAIN jobs
BY DEF TypeOK, AtJob

LEMMA TypeStep == TypeOK /\ Calls /\ pos > 0 /\ [Next]_vars => TypeOK'
<1> SUFFICES ASSUME TypeOK, Calls, pos > 0, [Next]_vars PROVE TypeOK'
  OBVIOUS
<1>s. Service \in Threads /\ Callers \subseteq Threads
  BY DEF Threads
<1>1. ASSUME NEW t \in Threads, LockJobListLock(t) \/ LockJobList(t) \/ UnlockJobList(t) \/ PollUnblock(t)
      PROVE  TypeOK'
  <2>1. PICK to \in Positions : Go(t, to)
    BY <1>1 DEF LockJobListLock, LockJobList, UnlockJobList, PollUnblock, Positions
  <2>2. pc' \in [Threads -> Positions]
    BY <2>1, GoType
  <2> QED
    BY <1>1, <2>2 DEF TypeOK, LockJobListLock, LockJobList, UnlockJobList, PollUnblock, list, polled, locks
<1>2. ASSUME NEW t \in Callers, CallAddSocket(t) \/ CallRemoveSocket(t) PROVE TypeOK'
  <2>1. pc' \in [Threads -> Positions]
    BY <1>s, <1>2, GoType DEF CallAddSocket, CallRemoveSocket, Positions
  <2>2. op' \in [Threads -> Call] /\ live' \subseteq Jobs
    BY <1>s, <1>2 DEF TypeOK, CallAddSocket, CallRemoveSocket, Call, list
  <2> QED BY <1>2, <2>1, <2>2 DEF TypeOK, CallAddSocket, CallRemoveSocket, list, polled, locks
<1>3. ASSUME NEW t \in Callers, AddSocket(t) PROVE TypeOK'
  <2>1. pc' \in [Threads -> Positions]
    BY <1>s, <1>3, GoType DEF AddSocket, Positions
  <2>2. op' \in [Threads -> Call] /\ live' \subseteq Jobs
    BY <1>s, <1>3 DEF TypeOK, AddSocket, Call
  <2>3. jobs' \in Seq(Entry)
    <3> DEFINE s == op[t].sock  j == op[t].job
    <3>1. j \in Jobs \cup {NoJob} /\ jobs \in Seq(Entry)
      BY <1>s DEF TypeOK, Call
    <3>2. CASE Places(s) = {}
      <4>1. s \in Sockets
        BY <1>3 DEF AddSocket, Calls, CallerCalls
      <4>2. [sock |-> s, job |-> j] \in Entry
        BY <3>1, <4>1 DEF Entry
      <4> QED BY <1>3, <3>1, <3>2, <4>2, AppendMeans DEF AddSocket
    <3>3. CASE Places(s) # {}
      BY <1>3, <3>1, <3>3, EditMeans DEF AddSocket, Places
    <3> QED BY <3>2, <3>3
  <2> QED BY <1>3, <2>1, <2>2, <2>3 DEF TypeOK, AddSocket, polled, locks
<1>4. ASSUME NEW t \in Callers, RemoveSocket(t) PROVE TypeOK'
  <2>1. pc' \in [Threads -> Positions]
    BY <1>s, <1>4, GoType DEF RemoveSocket, Positions
  <2>2. jobs' \in Seq(Entry)
    BY <1>4, EditMeans DEF TypeOK, RemoveSocket, Places, list
  <2>3. live' \subseteq Jobs /\ update' \in BOOLEAN
    BY <1>4 DEF TypeOK, RemoveSocket, list
  <2> QED BY <1>4, <2>1, <2>2, <2>3 DEF TypeOK, RemoveSocket, polled, locks
<1>5. ASSUME Top \/ WaitReady \/ LockCancelled \/ PollUnblocked \/ PollReady \/ PollFails \/ EndOfRun
      PROVE  TypeOK'
  <2>1. PICK to \in Positions : Go(Service, to)
    BY <1>5 DEF Top, WaitReady, LockCancelled, PollUnblocked, PollReady, PollFails, EndOfRun, Positions
  <2>2. pc' \in [Threads -> Positions]
    BY <1>s, <2>1, GoType
  <2>3. ready' \subseteq Nat
    <3>1. DOMAIN pfds \subseteq Nat
      BY DEF TypeOK
    <3> QED
      BY <1>5, <3>1 DEF TypeOK, Top, WaitReady, LockCancelled, PollUnblocked, PollReady, PollFails,
                        EndOfRun, polled
  <2>4. UNCHANGED <<op, reserver, locker, jobs, live, update, pfds, jobsReady, cancelled>>
    BY <1>5 DEF Top, WaitReady, LockCancelled, PollUnblocked, PollReady, PollFails,
                EndOfRun, list, polled, locks
  <2>5. (pos' = 1 \/ pos' = pos) /\ (next' = 1 \/ next' = next)
    BY <1>5 DEF Top, WaitReady, LockCancelled, PollUnblocked, PollReady, PollFails,
                EndOfRun, polled
  <2>6. unblock' = FALSE \/ unblock' = unblock
    BY <1>5 DEF Top, WaitReady, LockCancelled, PollUnblocked, PollReady, PollFails, EndOfRun
  <2>7. pos' \in Nat /\ next' \in Nat
    BY <2>5 DEF TypeOK
  <2>8. unblock' \in BOOLEAN
    BY <2>6, Zenon DEF TypeOK
  <2> QED BY <2>2, <2>3, <2>4, <2>7, <2>8 DEF TypeOK
<1>6. ASSUME Collect PROVE TypeOK'
  <2>1. pc' \in [Threads -> Positions]
    BY <1>s, <1>6, GoType DEF Collect, Positions
  <2>2. pfds' \in Seq([sock : Sockets, job : Jobs])
    <3>1. CASE update
      <4>1. pfds' \in JobsAt(WithJob) /\ WithJob \in SUBSET DOMAIN jobs
        BY <1>6, <3>1 DEF Collect, WithJob
      <4>2. PICK f \in [1..Cardinality(WithJob) -> WithJob] :
              Cardinality(WithJob) \in Nat /\ pfds' = [k \in 1..Cardinality(WithJob) |-> jobs[f[k]]]
        BY <4>1, JobsAtType DEF TypeOK
      <4>3. \A i \in WithJob : jobs[i] \in [sock : Sockets, job : Jobs]
        <5> SUFFICES ASSUME NEW i \in WithJob PROVE jobs[i] \in [sock : Sockets, job : Jobs]
          OBVIOUS
        <5>1. jobs[i] \in Entry /\ jobs[i].job # NoJob
          BY DEF TypeOK, WithJob
        <5> QED BY <5>1 DEF Entry
      <4>4. pfds' \in [1..Cardinality(WithJob) -> [sock : Sockets, job : Jobs]]
        BY <4>2, <4>3
      <4>5. \A T : \A n \in Nat : [1..n -> T] \subseteq Seq(T)
        OBVIOUS
      <4> QED BY <4>2, <4>4, <4>5
    <3>2. CASE ~update
      BY <1>6, <3>2 DEF Collect, TypeOK
    <3> QED BY <3>1, <3>2
  <2> QED BY <1>6, <2>1, <2>2 DEF TypeOK, Collect, locks
<1>7. ASSUME SkipPlace \/ RunJob PROVE TypeOK'
  <2>1. jobs' \in Seq(Entry)
    <3>1. pos \in DOMAIN jobs \/ UNCHANGED jobs
      BY <1>7, PosInList DEF SkipPlace, RunJob, TypeOK, list
    <3> QED BY <1>7, <3>1, EditMeans DEF TypeOK, SkipPlace, RunJob, list
  <2>2. live' \subseteq Jobs /\ update' \in BOOLEAN
    BY <1>7 DEF TypeOK, SkipPlace, RunJob, list
  <2> QED BY <1>7, <2>1, <2>2 DEF TypeOK, SkipPlace, RunJob, list, locks
<1>8. ASSUME CloseListener PROVE TypeOK'
  <2>1. pc' \in [Threads -> Positions]
    BY <1>s, <1>8, GoType DEF CloseListener, Positions
  <2>2. op' \in [Threads -> Call]
    <3>1. jobs[pos] \in Entry
      BY <1>8, PosInList DEF CloseListener, TypeOK
    <3>2. jobs[pos].sock \in Sockets
      BY <3>1 DEF Entry
    <3> QED BY <1>8, <3>2 DEF TypeOK, CloseListener, Call
  <2> QED BY <1>8, <2>1, <2>2 DEF TypeOK, CloseListener, list, polled, locks
<1>9. ASSUME Purge PROVE TypeOK'
  <2>1. pc' \in [Threads -> Positions]
    BY <1>s, <1>9, GoType DEF Purge, Positions
  <2>2. jobs' \in Seq(Entry)
    BY <1>9, PurgeMeans DEF Purge, TypeOK
  <2> QED BY <1>9, <2>1, <2>2 DEF TypeOK, Purge, polled, locks
<1>10. ASSUME Destroy \/ UNCHANGED vars PROVE TypeOK'
  BY <1>10 DEF TypeOK, Destroy, vars, list, polled, locks
<1> QED
  BY <1>s, <1>1, <1>2, <1>3, <1>4, <1>5, <1>6, <1>7, <1>8, <1>9, <1>10
  DEF Next, CallerSteps, ServiceSteps
-----------------------------------------------------------------------------
(* The call of one thread does not concern the others.                     *)
LEMMA CallerMoves ==
  ASSUME TypeOK, Calls, NEW t \in Callers, NEW to, Go(t, to), CallerCalls(t)',
         \A u \in Threads : u # t => op'[u] = op[u],
         op[Service].kind = "remove" => locker' = locker
  PROVE  Calls'
<1>1. Service \in Threads /\ Callers \subseteq Threads /\ Service # t
  BY ThreadsAssumption DEF Threads
<1>2. \A u \in Threads : u # t => pc'[u] = pc[u]
  BY DEF TypeOK, Go
<1>3. ServiceCalls'
  BY <1>1, <1>2 DEF Calls, ServiceCalls
<1>4. ASSUME NEW u \in Callers PROVE CallerCalls(u)'
  BY <1>1, <1>2 DEF Calls, CallerCalls, Passed
<1> QED BY <1>3, <1>4 DEF Calls

LEMMA ServiceMoves ==
  ASSUME TypeOK, Calls, NEW to, Go(Service, to), ServiceCalls',
         \A u \in Callers : op'[u] = op[u]
  PROVE  Calls'
<1>1. \A u \in Callers : u \in Threads /\ u # Service
  BY ThreadsAssumption DEF Threads
<1>2. \A u \in Callers : pc'[u] = pc[u]
  BY <1>1 DEF TypeOK, Go
<1>3. ASSUME NEW u \in Callers PROVE CallerCalls(u)'
  BY <1>2 DEF Calls, CallerCalls, Passed
<1> QED BY <1>3 DEF Calls

(* A step in which no thread moves.                                        *)
LEMMA CallsKept ==
  ASSUME Calls, UNCHANGED <<pc, op, locker>>
  PROVE  Calls'
BY DEF Calls, ServiceCalls, CallerCalls, Passed

LEMMA CallsStep == Locking /\ TypeOK /\ Calls /\ pos > 0 /\ [Next]_vars => Calls'
<1> SUFFICES ASSUME Locking, TypeOK, Calls, pos > 0, [Next]_vars PROVE Calls'
  OBVIOUS
<1>s. Service \in Threads /\ Callers \subseteq Threads /\ Service \notin Callers
  BY ThreadsAssumption DEF Threads
<1>t. DOMAIN pc = Threads /\ DOMAIN op = Threads
  BY DEF TypeOK
<1>1. ASSUME NEW t \in Callers, LockJobListLock(t) \/ LockJobList(t) \/ UnlockJobList(t) \/ PollUnblock(t)
      PROVE  Calls'
  <2>1. PICK to \in {"enter", "unblock", "edit", "idle"} :
          /\ Go(t, to) /\ op' = op
          /\ to = "idle" => pc[t] = "leave"
          /\ to # "idle" => pc[t] \in {"reserve", "unblock", "enter"}
    <3>1. op[t] # NoCall \/ pc[t] = "idle"
      BY DEF Calls, CallerCalls, NoCall
    <3> QED
      BY <1>1, <1>s, <3>1 DEF LockJobListLock, LockJobList, UnlockJobList, PollUnblock
  <2>2. CallerCalls(t)'
    <3>1. pc'[t] = to /\ op'[t] = op[t]
      BY <1>s, <1>t, <2>1 DEF Go
    <3>2. CallerCalls(t)
      BY DEF Calls
    <3> QED BY <2>1, <3>1, <3>2 DEF CallerCalls, Passed
  <2>3. op[Service].kind = "remove" => locker' = locker
    <3>1. ASSUME LockJobList(t) PROVE locker = NoThread
      BY <3>1 DEF LockJobList
    <3>2. ASSUME UnlockJobList(t) PROVE locker = t
      BY <1>s, <3>2 DEF UnlockJobList, Locking, Exclusive, Holds
    <3>3. op[Service].kind = "remove" => locker # NoThread /\ locker # t
      BY <1>s, ThreadsAssumption DEF Calls, ServiceCalls
    <3> QED BY <1>1, <3>1, <3>2, <3>3 DEF LockJobListLock, PollUnblock, locks
  <2> QED BY <2>1, <2>2, <2>3, CallerMoves
<1>2. ASSUME NEW t \in Callers, CallAddSocket(t) \/ CallRemoveSocket(t) PROVE Calls'
  <2>1. PICK c \in Call :
          /\ op' = [op EXCEPT ![t] = c] /\ c.kind # "none"
          /\ c.sock \in Sockets /\ Owner[c.sock] = t
          /\ c.kind = "add" => c.job \in Jobs
    <3>1. CASE CallAddSocket(t)
      <4>1. PICK s \in Sockets, j \in Jobs :
              Owner[s] = t /\ op' = [op EXCEPT ![t] = [kind |-> "add", sock |-> s, job |-> j]]
        BY <3>1 DEF CallAddSocket
      <4>2. [kind |-> "add", sock |-> s, job |-> j] \in Call
        BY DEF Call
      <4> QED BY <4>1, <4>2
    <3>2. CASE CallRemoveSocket(t)
      <4>1. PICK s \in Sockets :
              Owner[s] = t /\ op' = [op EXCEPT ![t] = [kind |-> "remove", sock |-> s, job |-> NoJob]]
        BY <3>2 DEF CallRemoveSocket
      <4>2. [kind |-> "remove", sock |-> s, job |-> NoJob] \in Call
        BY DEF Call
      <4> QED BY <4>1, <4>2
    <3> QED BY <1>2, <3>1, <3>2
  <2>2. Go(t, "reserve") /\ locker' = locker
    BY <1>2 DEF CallAddSocket, CallRemoveSocket, locks
  <2>3. op'[t] = c /\ \A u \in Threads : u # t => op'[u] = op[u]
    BY <1>s, <2>1, OpMeans
  <2>4. pc'[t] = "reserve"
    BY <1>s, <1>t, <2>2 DEF Go
  <2>5. CallerCalls(t)'
    BY <2>1, <2>3, <2>4 DEF CallerCalls, Passed
  <2> QED BY <2>2, <2>3, <2>5, CallerMoves
<1>3. ASSUME NEW t \in Callers, AddSocket(t) \/ RemoveSocket(t) PROVE Calls'
  <2>1. Go(t, "leave") /\ locker' = locker /\ pc[t] = "edit"
    BY <1>3 DEF AddSocket, RemoveSocket, locks
  <2>2. /\ op'[t].kind = op[t].kind /\ op'[t].sock = op[t].sock
        /\ \A u \in Threads : u # t => op'[u] = op[u]
    BY <1>3, <1>s DEF AddSocket, RemoveSocket, TypeOK, Call
  <2>3. pc'[t] = "leave"
    BY <1>s, <1>t, <2>1 DEF Go
  <2>4. CallerCalls(t)'
    BY <2>1, <2>2, <2>3 DEF Calls, CallerCalls, Passed
  <2> QED BY <2>1, <2>2, <2>4, CallerMoves
<1>4. ASSUME LockJobListLock(Service) \/ LockJobList(Service) \/ UnlockJobList(Service) \/ PollUnblock(Service)
      PROVE  Calls'
  <2>1. PICK to \in {"enter", "unblock", "edit", "collect", "top"} :
          /\ Go(Service, to) /\ op' = op
          /\ to \in {"collect", "edit"} => (LockJobList(Service) /\ (to = "collect" <=> op[Service] = NoCall))
          /\ to = "top" => UnlockJobList(Service)
          /\ to = "unblock" => op[Service] # NoCall
          /\ to \in {"enter", "unblock"} => locker' = locker
    BY <1>4 DEF LockJobListLock, LockJobList, UnlockJobList, PollUnblock, locks
  <2>2. op[Service].kind = "remove" => ~LockJobList(Service) /\ ~UnlockJobList(Service)
    BY <1>s, ThreadsAssumption DEF Calls, ServiceCalls, LockJobList, UnlockJobList
  <2>3. pc'[Service] = to
    BY <1>s, <1>t, <2>1 DEF Go
  <2>4. ServiceCalls'
    BY <2>1, <2>2, <2>3 DEF Calls, ServiceCalls
  <2> QED BY <2>1, <2>4, ServiceMoves
<1>5. ASSUME Top \/ WaitReady \/ Collect \/ PollUnblocked \/ PollReady \/ PollFails \/ EndOfRun \/ Purge \/ LockCancelled
      PROVE  Calls'
  <2>1. PICK to \in {"gone", "ready", "reserve", "purge", "poll", "run", "leave"} :
          /\ Go(Service, to) /\ op' = op /\ locker' = locker
          /\ to # "gone" => pc[Service] \in {"top", "ready", "collect", "poll", "run", "purge"}
    BY <1>5 DEF Top, WaitReady, Collect, PollUnblocked, PollReady, PollFails, EndOfRun, Purge,
                LockCancelled, locks
  <2>2. pc'[Service] = to
    BY <1>s, <1>t, <2>1 DEF Go
  <2>3. ServiceCalls'
    BY <2>1, <2>2 DEF Calls, ServiceCalls
  <2> QED BY <2>1, <2>3, ServiceMoves
<1>6. ASSUME CloseListener PROVE Calls'
  <2>1. jobs[pos] \in Entry
    BY <1>6, PosInList DEF CloseListener, TypeOK
  <2>2. [kind |-> "remove", sock |-> jobs[pos].sock, job |-> NoJob] \in Call
    BY <2>1 DEF Entry, Call
  <2>3. op'[Service].kind = "remove" /\ \A u \in Threads : u # Service => op'[u] = op[u]
    <3> DEFINE c == [kind |-> "remove", sock |-> jobs[pos].sock, job |-> NoJob]
    <3>1. op' = [op EXCEPT ![Service] = c]
      BY <1>6 DEF CloseListener
    <3>2. c \in Call /\ c.kind = "remove"
      BY <2>2
    <3> HIDE DEF c
    <3> QED BY <1>s, <3>1, <3>2, OpMeans
  <2>4. Go(Service, "reserve") /\ pc'[Service] = "reserve"
    BY <1>6, <1>s, <1>t DEF CloseListener, Go
  <2>5. locker = Service /\ locker' = locker
    BY <1>6, <1>s DEF CloseListener, Locking, Exclusive, Holds, locks
  <2>6. ServiceCalls'
    BY <2>3, <2>4, <2>5 DEF ServiceCalls
  <2> QED BY <1>s, <2>3, <2>4, <2>6, ServiceMoves
<1>7. ASSUME SkipPlace \/ RunJob \/ Destroy \/ UNCHANGED vars PROVE Calls'
  BY <1>7, CallsKept DEF SkipPlace, RunJob, Destroy, vars, locks
<1> QED
  BY <1>s, <1>1, <1>2, <1>3, <1>4, <1>5, <1>6, <1>7 DEF Next, CallerSteps, ServiceSteps, Threads
-----------------------------------------------------------------------------
(* Four actions touch the list, and one more makes a job.                  *)
LEMMA ListEdits ==
  ASSUME [Next]_vars
  PROVE  \/ UNCHANGED jobs /\ (UNCHANGED live \/ \E t \in Callers : CallAddSocket(t))
         \/ \E t \in Callers : AddSocket(t) \/ RemoveSocket(t)
         \/ RunJob
         \/ Purge
<1>1. ASSUME NEW t \in Threads, LockJobListLock(t) \/ LockJobList(t) \/ UnlockJobList(t) \/ PollUnblock(t)
      PROVE  UNCHANGED <<jobs, live>>
  BY <1>1 DEF LockJobListLock, LockJobList, UnlockJobList, PollUnblock, list
<1>2. ASSUME NEW t \in Callers, CallAddSocket(t) \/ CallRemoveSocket(t)
      PROVE  UNCHANGED jobs /\ (UNCHANGED live \/ CallAddSocket(t))
  BY <1>2 DEF CallAddSocket, CallRemoveSocket, list
<1>3. ASSUME Top \/ WaitReady \/ Collect \/ PollUnblocked \/ PollReady \/ PollFails \/ SkipPlace
      PROVE  UNCHANGED <<jobs, live>>
  BY <1>3 DEF Top, WaitReady, Collect, PollUnblocked, PollReady, PollFails, SkipPlace, list
<1>4. ASSUME EndOfRun \/ LockCancelled \/ CloseListener \/ Destroy \/ UNCHANGED vars
      PROVE  UNCHANGED <<jobs, live>>
  BY <1>4 DEF EndOfRun, LockCancelled, CloseListener, Destroy, vars, list
<1> QED
  BY <1>1, <1>2, <1>3, <1>4 DEF Next, CallerSteps, ServiceSteps, Threads

(* What AddSocket does to the list and to its call.                        *)
LEMMA AddMeans ==
  ASSUME TypeOK, Calls, NEW t \in Callers, AddSocket(t)
  PROVE  /\ op[t].sock \in Sockets /\ Owner[op[t].sock] = t
         /\ op[t].job \in Jobs /\ t \in Passing
         /\ \/ /\ Places(op[t].sock) = {} /\ live' = live
               /\ jobs' = Append(jobs, [sock |-> op[t].sock, job |-> op[t].job])
               /\ [sock |-> op[t].sock, job |-> op[t].job] \in Entry
            \/ \E i \in Places(op[t].sock) :
                 /\ jobs' = [jobs EXCEPT ![i].job = op[t].job]
                 /\ live' = live \ {jobs[i].job}
<1>1. pc[t] = "edit" /\ op[t].kind = "add" /\ Passed(t)
  BY DEF AddSocket, Passed
<1>2. op[t].sock \in Sockets /\ Owner[op[t].sock] = t /\ op[t].job \in Jobs
  BY <1>1 DEF Calls, CallerCalls
<1>3. [sock |-> op[t].sock, job |-> op[t].job] \in Entry
  BY <1>2 DEF Entry
<1>4. CASE Places(op[t].sock) = {}
  BY <1>1, <1>2, <1>3, <1>4 DEF AddSocket, Passing
<1>5. CASE Places(op[t].sock) # {}
  BY <1>1, <1>2, <1>5 DEF AddSocket, Passing
<1> QED BY <1>4, <1>5

(* m_socketJobMap has one place for a socket, whatever happens.            *)
LEMMA SocketsOnceStep ==
  ASSUME TypeOK, Calls, SocketsOnce, pos > 0, [Next]_vars
  PROVE  SocketsOnce'
<1>t. jobs \in Seq(Entry)
  BY DEF TypeOK
<1>1. CASE UNCHANGED jobs
  BY <1>1 DEF SocketsOnce
<1>2. ASSUME NEW i \in DOMAIN jobs, NEW j \in Jobs \cup {NoJob}, jobs' = [jobs EXCEPT ![i].job = j]
      PROVE  SocketsOnce'
  BY <1>t, <1>2, EditMeans DEF SocketsOnce
<1>3. ASSUME NEW t \in Callers, AddSocket(t) PROVE SocketsOnce'
  <2> DEFINE e == [sock |-> op[t].sock, job |-> op[t].job]
  <2>1. CASE Places(op[t].sock) = {} /\ jobs' = Append(jobs, e) /\ e \in Entry
    <3>1. e.sock = op[t].sock
      OBVIOUS
    <3> HIDE DEF e
    <3>2. \A k \in DOMAIN jobs : jobs[k].sock # e.sock
      BY <2>1, <3>1 DEF Places
    <3> QED BY <1>t, <2>1, <3>2, AppendMeans DEF SocketsOnce
  <2>2. CASE \E i \in Places(op[t].sock) : jobs' = [jobs EXCEPT ![i].job = op[t].job]
    BY <1>2, <1>3, <2>2, AddMeans DEF Places
  <2> QED BY <1>3, <2>1, <2>2, AddMeans
<1>4. ASSUME NEW t \in Callers, RemoveSocket(t) PROVE SocketsOnce'
  BY <1>1, <1>2, <1>4 DEF RemoveSocket, Places, list
<1>5. ASSUME RunJob PROVE SocketsOnce'
  BY <1>1, <1>2, <1>5, PosInList DEF RunJob, list
<1>6. ASSUME Purge PROVE SocketsOnce'
  <2>1. PICK f \in [DOMAIN jobs' -> WithJob] :
          /\ \A k \in DOMAIN jobs' : jobs'[k] = jobs[f[k]]
          /\ \A k, l \in DOMAIN jobs' : f[k] = f[l] => k = l
    BY <1>t, <1>6, PurgeMeans DEF Purge
  <2> QED BY <2>1 DEF SocketsOnce, WithJob
<1> QED BY <1>1, <1>3, <1>4, <1>5, <1>6, ListEdits
-----------------------------------------------------------------------------
(* What a step can be for a caller: another thread's, one of its five      *)
(* turning points, or its way into the list with the call it makes.        *)
LEMMA CallerFate ==
  ASSUME TypeOK, Calls, [Next]_vars, NEW u \in Callers
  PROVE  \/ pc'[u] = pc[u] /\ op'[u] = op[u]
         \/ CallAddSocket(u) \/ CallRemoveSocket(u)
         \/ AddSocket(u) \/ RemoveSocket(u) \/ UnlockJobList(u)
         \/ /\ pc[u] \in {"reserve", "unblock", "enter"} /\ pc'[u] \in {"unblock", "enter", "edit"}
            /\ op'[u] = op[u]
<1>s. Service \in Threads /\ Callers \subseteq Threads /\ Service # u
  BY ThreadsAssumption DEF Threads
<1>t. DOMAIN pc = Threads /\ DOMAIN op = Threads
  BY DEF TypeOK
<1> DEFINE Stays == pc'[u] = pc[u] /\ op'[u] = op[u]
           Enters == /\ pc[u] \in {"reserve", "unblock", "enter"} /\ pc'[u] \in {"unblock", "enter", "edit"}
                     /\ op'[u] = op[u]
<1>1. ASSUME NEW t \in Threads, t # u, NEW to, Go(t, to), op' = op \/ \E c : op' = [op EXCEPT ![t] = c]
      PROVE  Stays
  BY <1>s, <1>t, <1>1 DEF Go
<1>2. ASSUME NEW t \in Threads, LockJobListLock(t) \/ LockJobList(t) \/ PollUnblock(t)
      PROVE  Stays \/ Enters
  <2>1. /\ op' = op /\ pc[t] \in {"reserve", "unblock", "enter"}
        /\ \E to \in {"unblock", "enter", "collect", "edit"} :
             Go(t, to) /\ (to = "collect" => op[t] = NoCall)
    BY <1>2 DEF LockJobListLock, LockJobList, PollUnblock
  <2>2. CASE t = u
    <3>1. op[u] # NoCall
      BY <2>1, <2>2 DEF Calls, CallerCalls, NoCall
    <3> QED BY <1>s, <1>t, <2>1, <2>2, <3>1 DEF Go
  <2> QED BY <1>1, <2>1, <2>2
<1>3. ASSUME NEW t \in Threads, UnlockJobList(t) PROVE Stays \/ UnlockJobList(u)
  BY <1>1, <1>3 DEF UnlockJobList
<1>4. ASSUME NEW t \in Callers, CallAddSocket(t) \/ CallRemoveSocket(t)
      PROVE  Stays \/ CallAddSocket(u) \/ CallRemoveSocket(u)
  BY <1>1, <1>4, <1>s DEF CallAddSocket, CallRemoveSocket
<1>5. ASSUME NEW t \in Callers, AddSocket(t) \/ RemoveSocket(t)
      PROVE  Stays \/ AddSocket(u) \/ RemoveSocket(u)
  <2>1. Go(t, "leave") /\ \A v \in Threads : v # t => op'[v] = op[v]
    BY <1>5, <1>t DEF AddSocket, RemoveSocket
  <2> QED BY <1>5, <1>s, <1>t, <2>1 DEF Go
<1>6. ASSUME \/ Top \/ WaitReady \/ Collect \/ PollUnblocked \/ PollReady \/ PollFails
             \/ EndOfRun \/ Purge \/ LockCancelled \/ CloseListener
      PROVE  Stays
  <2>1. \E to : Go(Service, to) /\ (op' = op \/ \E c : op' = [op EXCEPT ![Service] = c])
    BY <1>6 DEF Top, WaitReady, Collect, PollUnblocked, PollReady, PollFails, EndOfRun, Purge,
                LockCancelled, CloseListener
  <2> QED BY <1>s, <1>1, <2>1
<1>7. ASSUME SkipPlace \/ RunJob \/ Destroy \/ UNCHANGED vars PROVE Stays
  BY <1>7 DEF SkipPlace, RunJob, Destroy, vars
<1> HIDE DEF Stays, Enters
<1>8. \/ Stays \/ Enters \/ CallAddSocket(u) \/ CallRemoveSocket(u)
      \/ AddSocket(u) \/ RemoveSocket(u) \/ UnlockJobList(u)
  BY <1>s, <1>2, <1>3, <1>4, <1>5, <1>6, <1>7 DEF Next, CallerSteps, ServiceSteps, Threads
<1> QED BY <1>8 DEF Stays, Enters

(* A caller is past a removal only if it has just made it, or was already. *)
LEMMA RemovalsEnd ==
  ASSUME TypeOK, Calls, [Next]_vars, NEW u \in Callers,
         pc'[u] \in {"leave", "idle"}, op'[u].kind = "remove"
  PROVE  /\ op'[u].sock = op[u].sock
         /\ RemoveSocket(u) \/ (pc[u] \in {"leave", "idle"} /\ op[u].kind = "remove")
<1>s. u \in Threads /\ DOMAIN pc = Threads
  BY DEF Threads, TypeOK
<1>1. ~CallAddSocket(u) /\ ~CallRemoveSocket(u)
  BY <1>s DEF CallAddSocket, CallRemoveSocket, Go
<1>2. ~AddSocket(u)
  <2> SUFFICES ASSUME AddSocket(u) PROVE op'[u].kind = "add"
    OBVIOUS
  <2> QED BY <1>s DEF AddSocket, TypeOK, Call
<1>3. ASSUME RemoveSocket(u) \/ UnlockJobList(u) PROVE op'[u] = op[u]
  BY <1>3 DEF RemoveSocket, UnlockJobList
<1>4. ASSUME UnlockJobList(u) PROVE pc[u] = "leave"
  BY <1>4 DEF UnlockJobList
<1> QED BY <1>1, <1>2, <1>3, <1>4, CallerFate

(* The jobs in the callers' hands change only when a caller makes one and  *)
(* when the list takes it.                                                 *)
LEMMA CallsKeepJobs ==
  ASSUME TypeOK, Calls, [Next]_vars, \A t \in Callers : ~CallAddSocket(t) /\ ~AddSocket(t)
  PROVE  Passing' = Passing /\ \A u \in Passing : op'[u].job = op[u].job
<1>1. ASSUME NEW u \in Callers
      PROVE  (Passed(u)' <=> Passed(u)) /\ (Passed(u) => op'[u].job = op[u].job)
  <2>s. u \in Threads /\ DOMAIN pc = Threads /\ DOMAIN op = Threads
    BY DEF Threads, TypeOK
  <2>1. CASE pc'[u] = pc[u] /\ op'[u] = op[u]
    BY <2>1 DEF Passed
  <2>2. CASE CallRemoveSocket(u)
    <3>1. pc[u] = "idle"
      BY <2>2 DEF CallRemoveSocket
    <3>2. op'[u].kind = "remove"
      BY <2>2, <2>s DEF CallRemoveSocket
    <3> QED BY <3>1, <3>2 DEF Passed
  <2>3. CASE RemoveSocket(u) \/ UnlockJobList(u)
    <3>1. /\ pc[u] \in {"edit", "leave"} /\ (pc[u] = "edit" => op[u].kind = "remove")
          /\ op' = op /\ pc'[u] \in {"leave", "top", "idle"}
      BY <2>3, <2>s DEF RemoveSocket, UnlockJobList, Go
    <3> QED BY <3>1 DEF Passed
  <2>4. CASE /\ pc[u] \in {"reserve", "unblock", "enter"} /\ pc'[u] \in {"unblock", "enter", "edit"}
             /\ op'[u] = op[u]
    BY <2>4 DEF Passed
  <2> QED BY <2>1, <2>2, <2>3, <2>4, CallerFate
<1> QED BY <1>1 DEF Passing

(* Nothing but its owner's addSocket gives a removed socket a job again.   *)
LEMMA QuietStep ==
  ASSUME TypeOK, Calls, SocketsOnce, Quiet, pos > 0, [Next]_vars
  PROVE  Quiet'
<1> SUFFICES ASSUME NEW u \in Callers, pc'[u] \in {"leave", "idle"}, op'[u].kind = "remove",
                    NEW k \in DOMAIN jobs', jobs'[k].sock = op[u].sock
             PROVE  jobs'[k].job = NoJob
  BY RemovalsEnd DEF Quiet, Places
<1>t. jobs \in Seq(Entry) /\ (op[u].kind = "remove" => Owner[op[u].sock] = u)
  BY DEF TypeOK, Calls, CallerCalls
<1>1. CASE RemoveSocket(u)
  <2>1. CASE (\A i \in Places(op[u].sock) : jobs[i].job = NoJob) /\ UNCHANGED list
    BY <2>1 DEF Places, list
  <2>2. ASSUME NEW i \in Places(op[u].sock), jobs' = [jobs EXCEPT ![i].job = NoJob]
        PROVE  jobs'[k].job = NoJob
    <3>1. /\ DOMAIN jobs' = DOMAIN jobs
          /\ \A l \in DOMAIN jobs : jobs'[l].sock = jobs[l].sock
          /\ \A l \in DOMAIN jobs : jobs'[l].job = IF l = i THEN NoJob ELSE jobs[l].job
      BY <1>t, <2>2, EditMeans DEF Places
    <3> QED BY <3>1 DEF Places, SocketsOnce
  <2> QED BY <1>1, <2>1, <2>2 DEF RemoveSocket
<1>2. CASE pc[u] \in {"leave", "idle"} /\ op[u].kind = "remove"
  <2>q. \A i \in DOMAIN jobs : jobs[i].sock = op[u].sock => jobs[i].job = NoJob
    BY <1>2 DEF Quiet, Places
  <2>1. CASE UNCHANGED jobs
    BY <2>q, <2>1
  <2>2. ASSUME NEW i \in DOMAIN jobs, NEW j \in Jobs \cup {NoJob}, jobs' = [jobs EXCEPT ![i].job = j],
               jobs[i].sock # op[u].sock \/ j = NoJob
        PROVE  jobs'[k].job = NoJob
    BY <1>t, <2>q, <2>2, EditMeans
  <2>3. ASSUME NEW t \in Callers, AddSocket(t) PROVE jobs'[k].job = NoJob
    <3>1. op[t].sock # op[u].sock
      <4>1. op[t].kind = "add"
        BY <2>3 DEF AddSocket
      <4>2. Owner[op[t].sock] = t /\ Owner[op[u].sock] = u
        BY <1>t, <1>2, <2>3, AddMeans
      <4> QED BY <1>2, <4>1, <4>2
    <3>2. CASE \E i \in Places(op[t].sock) : jobs' = [jobs EXCEPT ![i].job = op[t].job]
      BY <2>2, <2>3, <3>1, <3>2, AddMeans DEF Places
    <3> DEFINE e == [sock |-> op[t].sock, job |-> op[t].job]
    <3>3. CASE jobs' = Append(jobs, e) /\ e \in Entry
      <4>1. e.sock = op[t].sock
        OBVIOUS
      <4> HIDE DEF e
      <4> QED BY <1>t, <2>q, <3>1, <3>3, <4>1, AppendMeans
    <3> QED BY <2>3, <3>2, <3>3, AddMeans
  <2>4. ASSUME NEW t \in Callers, RemoveSocket(t) PROVE jobs'[k].job = NoJob
    BY <2>1, <2>2, <2>4 DEF RemoveSocket, Places, list
  <2>5. ASSUME RunJob PROVE jobs'[k].job = NoJob
    <3>1. pos \in DOMAIN jobs /\ jobs[pos].sock # op[u].sock
      BY <2>q, <2>5, PosInList DEF RunJob
    <3> QED BY <2>1, <2>2, <2>5, <3>1 DEF RunJob, list
  <2>6. ASSUME Purge PROVE jobs'[k].job = NoJob
    <3>1. PICK i \in WithJob : jobs'[k] = jobs[i]
      BY <1>t, <2>6, PurgeMeans DEF Purge
    <3> QED BY <2>q, <3>1 DEF WithJob
  <2> QED BY <2>1, <2>3, <2>4, <2>5, <2>6, ListEdits
<1> QED BY <1>1, <1>2, RemovalsEnd
-----------------------------------------------------------------------------
(* No job is leaked, deleted twice or held twice.                          *)
LEMMA OwnedStep ==
  ASSUME TypeOK, Calls, SocketsOnce, Owned, pos > 0, [Next]_vars
  PROVE  Owned'
<1>t. /\ jobs \in Seq(Entry) /\ \A i \in DOMAIN jobs : jobs[i].job \in Jobs \cup {NoJob}
      /\ NoJob \notin Jobs /\ \A t \in Passing : op[t].job \in Jobs
      /\ NoJob \notin InList /\ NoJob \notin InCalls
  <2>1. \A i \in DOMAIN jobs : jobs[i] \in Entry
    BY DEF TypeOK
  <2>2. \A t \in Passing : op[t].job \in Jobs
    BY DEF Passing, Calls, CallerCalls
  <2> QED BY <2>1, <2>2, ThreadsAssumption DEF TypeOK, Entry, InList, InCalls, WithJob
<1>o. /\ live = InList \cup InCalls
      /\ \A i, k \in WithJob : jobs[i].job = jobs[k].job => i = k
      /\ \A t, u \in Passing : op[t].job = op[u].job => t = u
      /\ \A i \in WithJob, t \in Passing : jobs[i].job # op[t].job
  BY DEF Owned
<1>1. ASSUME Passing' = Passing, \A u \in Passing : op'[u].job = op[u].job, UNCHANGED <<jobs, live>>
      PROVE  Owned'
  BY <1>o, <1>1 DEF Owned, InList, InCalls, WithJob
(* One entry changes its job: j, which nobody had, or none.                *)
<1>2. ASSUME Passing' = Passing, \A u \in Passing : op'[u].job = op[u].job,
             NEW i \in WithJob, NEW j \in (Jobs \ live) \cup {NoJob},
             jobs' = [jobs EXCEPT ![i].job = j], live' = (live \ {jobs[i].job}) \cup ({j} \ {NoJob})
      PROVE  Owned'
  <2>1. /\ DOMAIN jobs' = DOMAIN jobs
        /\ \A k \in DOMAIN jobs : jobs'[k].job = IF k = i THEN j ELSE jobs[k].job
    BY <1>t, <1>2, EditMeans DEF WithJob
  <2>2. /\ WithJob' = IF j = NoJob THEN WithJob \ {i} ELSE WithJob
        /\ \A k \in WithJob : k # i => jobs'[k].job = jobs[k].job
        /\ jobs'[i].job = j
    <3>1. WithJob = {k \in DOMAIN jobs : jobs[k].job # NoJob} /\ i \in WithJob
      BY <1>2 DEF WithJob
    <3>2. WithJob' = {k \in DOMAIN jobs' : jobs'[k].job # NoJob}
      BY DEF WithJob
    <3>3. CASE j = NoJob
      BY <2>1, <3>1, <3>2, <3>3
    <3>4. CASE j # NoJob
      BY <2>1, <3>1, <3>2, <3>4
    <3> QED BY <3>3, <3>4
  <2>3. j \notin InList /\ j \notin InCalls
    BY <1>t, <1>o
  <2>4. InList' = (InList \ {jobs[i].job}) \cup ({j} \ {NoJob})
    BY <1>2, <1>o, <2>2 DEF InList
  <2>5. InCalls' = InCalls
    BY <1>2 DEF InCalls
  <2>6. jobs[i].job \notin InCalls
    BY <1>2, <1>o DEF InCalls
  <2>7. live' = InList' \cup InCalls'
    BY <1>2, <1>o, <2>4, <2>5, <2>6
  <2>8. \A k, l \in WithJob' : jobs'[k].job = jobs'[l].job => k = l
    BY <1>o, <2>2, <2>3 DEF InList
  <2>9. \A k \in WithJob', t \in Passing' : jobs'[k].job # op'[t].job
    BY <1>2, <1>o, <2>2, <2>3 DEF InCalls
  <2> QED BY <1>2, <1>o, <2>7, <2>8, <2>9 DEF Owned
<1>3. ASSUME NEW t \in Callers, CallAddSocket(t) PROVE Owned'
  <2>1. PICK s \in Sockets, j \in Jobs \ live :
          /\ op' = [op EXCEPT ![t] = [kind |-> "add", sock |-> s, job |-> j]]
          /\ live' = live \cup {j}
    BY <1>3 DEF CallAddSocket
  <2>2. op'[t].job = j /\ op'[t].kind = "add" /\ \A u \in Callers : u # t => op'[u] = op[u]
    BY <2>1 DEF TypeOK, Threads
  <2>3. pc[t] = "idle" /\ pc'[t] = "reserve" /\ \A u \in Callers : u # t => pc'[u] = pc[u]
    BY <1>3 DEF CallAddSocket, TypeOK, Threads, Go
  <2>4. Passing' = Passing \cup {t} /\ t \notin Passing
    BY <2>2, <2>3 DEF Passing, Passed
  <2>5. InCalls' = InCalls \cup {j} /\ \A u \in Passing : op'[u].job = op[u].job /\ op[u].job \in InCalls
    BY <2>2, <2>4 DEF InCalls, Passing
  <2>6. InList' = InList /\ UNCHANGED jobs /\ WithJob' = WithJob
    BY <1>3 DEF CallAddSocket, InList, WithJob
  <2>7. j \notin InList /\ j \notin InCalls
    BY <1>o, <2>1
  <2>8. \A u, v \in Passing' : op'[u].job = op'[v].job => u = v
    BY <1>o, <2>2, <2>4, <2>5, <2>7
  <2>9. \A i \in WithJob', u \in Passing' : jobs'[i].job # op'[u].job
    BY <1>o, <2>2, <2>4, <2>5, <2>6, <2>7 DEF InList
  <2> QED BY <1>o, <2>1, <2>5, <2>6, <2>8, <2>9 DEF Owned
<1>4. ASSUME NEW t \in Callers, AddSocket(t) PROVE Owned'
  <2> DEFINE j == op[t].job
  <2>1. t \in Passing /\ j \in Jobs /\ j \in InCalls /\ j \notin InList
    <3>1. t \in Passing /\ j \in Jobs
      BY <1>4, AddMeans
    <3>2. j \in InCalls
      BY <3>1 DEF InCalls
    <3>3. j \notin InList
      BY <3>1, <1>o DEF InList
    <3> QED BY <3>1, <3>2, <3>3
  <2>2. /\ \A u \in Callers : u # t => op'[u] = op[u] /\ pc'[u] = pc[u]
        /\ pc'[t] = "leave"
    BY <1>4 DEF AddSocket, TypeOK, Threads, Go
  <2>3. Passing' = Passing \ {t}
    BY <2>2 DEF Passing, Passed
  <2>4. InCalls' = InCalls \ {j} /\ \A u \in Passing' : op'[u].job = op[u].job
    BY <1>o, <2>1, <2>2, <2>3 DEF InCalls, Passing
  <2>5. \A u, v \in Passing' : op'[u].job = op'[v].job => u = v
    BY <1>o, <2>3, <2>4
  (* Where j goes in the list, and the entries that keep their jobs.       *)
  <2>6. ASSUME NEW i, WithJob' = (WithJob \ {i}) \cup {i}, jobs'[i].job = j,
               \A k \in WithJob : k # i => jobs'[k].job = jobs[k].job,
               live' = InList' \cup InCalls'
        PROVE  Owned'
    <3>1. \A k, l \in WithJob' : jobs'[k].job = jobs'[l].job => k = l
      BY <1>o, <2>1, <2>6 DEF InList
    <3>2. \A k \in WithJob', u \in Passing' : jobs'[k].job # op'[u].job
      BY <1>o, <2>1, <2>3, <2>4, <2>6
    <3> QED BY <2>5, <2>6, <3>1, <3>2 DEF Owned
  <2>7. CASE \E i \in Places(op[t].sock) : jobs' = [jobs EXCEPT ![i].job = j] /\ live' = live \ {jobs[i].job}
    <3>1. PICK i \in Places(op[t].sock) : jobs' = [jobs EXCEPT ![i].job = j] /\ live' = live \ {jobs[i].job}
      BY <2>7
    <3>2. /\ DOMAIN jobs' = DOMAIN jobs /\ i \in DOMAIN jobs
          /\ \A k \in DOMAIN jobs : jobs'[k].job = IF k = i THEN j ELSE jobs[k].job
      BY <1>t, <2>1, <3>1, EditMeans DEF Places
    <3>3. /\ WithJob' = (WithJob \ {i}) \cup {i} /\ jobs'[i].job = j
          /\ \A k \in WithJob : k # i => jobs'[k].job = jobs[k].job
      BY <1>t, <2>1, <3>2 DEF WithJob
    <3>4. InList' = (InList \ {jobs[i].job}) \cup {j}
      <4>1. CASE i \in WithJob
        BY <1>o, <3>3, <4>1 DEF InList
      <4>2. CASE i \notin WithJob
        <5> jobs[i].job = NoJob
          BY <3>2, <4>2 DEF WithJob
        <5> QED BY <1>t, <3>3, <4>2 DEF InList
      <4> QED BY <4>1, <4>2
    <3>5. jobs[i].job \notin InCalls
      BY <1>t, <1>o, <3>2 DEF InCalls, WithJob
    <3>6. live' = InList' \cup InCalls'
      BY <1>o, <2>1, <2>4, <3>1, <3>4, <3>5
    <3> QED BY <2>6, <3>3, <3>6
  <2> DEFINE e == [sock |-> op[t].sock, job |-> j]
  <2>8. CASE jobs' = Append(jobs, e) /\ e \in Entry /\ live' = live
    <3>0. e.job = j
      OBVIOUS
    <3> HIDE DEF e
    <3>1. /\ DOMAIN jobs' = DOMAIN jobs \cup {Len(jobs) + 1} /\ Len(jobs) + 1 \notin DOMAIN jobs
          /\ jobs'[Len(jobs) + 1] = e /\ \A k \in DOMAIN jobs : jobs'[k] = jobs[k]
      BY <1>t, <2>8, AppendMeans
    <3> DEFINE i == Len(jobs) + 1
    <3> HIDE DEF i
    <3>2. DOMAIN jobs' = DOMAIN jobs \cup {i} /\ i \notin DOMAIN jobs /\ jobs'[i].job = j
      BY <3>0, <3>1 DEF i
    <3>3. /\ WithJob' = (WithJob \ {i}) \cup {i}
          /\ \A k \in WithJob : k # i /\ jobs'[k].job = jobs[k].job
      BY <1>t, <2>1, <3>1, <3>2 DEF WithJob
    <3>4. InList' = InList \cup {j}
      BY <3>2, <3>3 DEF InList
    <3>5. live' = InList' \cup InCalls'
      BY <1>o, <2>1, <2>4, <2>8, <3>4
    <3> QED BY <2>6, <3>2, <3>3, <3>5
  <2> QED BY <1>4, <2>7, <2>8, AddMeans
<1>5. ASSUME \A t \in Callers : ~CallAddSocket(t) /\ ~AddSocket(t) PROVE Owned'
  <2>1. Passing' = Passing /\ \A u \in Passing : op'[u].job = op[u].job
    BY <1>5, CallsKeepJobs
  <2>2. ASSUME NEW t \in Callers, RemoveSocket(t) PROVE Owned'
    <3>1. CASE UNCHANGED list
      BY <1>1, <2>1, <3>1 DEF list
    <3>2. ASSUME NEW i \in Places(op[t].sock), jobs[i].job # NoJob,
                 jobs' = [jobs EXCEPT ![i].job = NoJob], live' = live \ {jobs[i].job}
          PROVE  Owned'
      <4> i \in WithJob
        BY <3>2 DEF Places, WithJob
      <4> QED BY <1>2, <2>1, <3>2
    <3> QED BY <2>2, <3>1, <3>2 DEF RemoveSocket
  <2>3. ASSUME RunJob PROVE Owned'
    <3>1. pos \in WithJob
      BY <2>3, PosInList DEF RunJob, WithJob
    <3> QED BY <1>1, <1>2, <2>1, <2>3, <3>1 DEF RunJob, list
  <2>4. ASSUME Purge PROVE Owned'
    <3>1. PICK f \in [DOMAIN jobs' -> WithJob] :
            /\ \A k \in DOMAIN jobs' : jobs'[k] = jobs[f[k]]
            /\ \A k, l \in DOMAIN jobs' : f[k] = f[l] => k = l
            /\ \A i \in WithJob : \E k \in DOMAIN jobs' : f[k] = i
      BY <1>t, <2>4, PurgeMeans DEF Purge
    <3>0. \A k \in DOMAIN jobs' : f[k] \in WithJob /\ jobs'[k].job # NoJob
      BY <3>1 DEF WithJob
    <3>2. WithJob' = DOMAIN jobs'
      BY <3>0 DEF WithJob
    <3>3. InList' = InList
      BY <3>1, <3>2 DEF InList
    <3>4. live' = live /\ InCalls' = InCalls
      BY <2>1, <2>4 DEF Purge, InCalls
    <3>5. \A k, l \in WithJob' : jobs'[k].job = jobs'[l].job => k = l
      BY <1>o, <3>1, <3>2
    <3>6. \A k \in WithJob', t \in Passing' : jobs'[k].job # op'[t].job
      BY <1>o, <2>1, <3>1, <3>2
    <3> QED BY <1>o, <2>1, <3>3, <3>4, <3>5, <3>6 DEF Owned
  <2> QED BY <1>1, <1>5, <2>1, <2>2, <2>3, <2>4, ListEdits
<1> QED BY <1>3, <1>4, <1>5
-----------------------------------------------------------------------------
(* Places whose entries do not change give the same sequences.             *)
LEMMA SameJobs ==
  ASSUME NEW P, \A p \in P : jobs'[p] = jobs[p]
  PROVE  {[k \in DOMAIN f |-> jobs'[f[k]]] : f \in InOrder(P)} = JobsAt(P)
<1>1. ASSUME NEW f \in InOrder(P) PROVE [k \in DOMAIN f |-> jobs'[f[k]]] = [k \in DOMAIN f |-> jobs[f[k]]]
  <2> f \in [1..Cardinality(P) -> P]
    BY OrderMeans
  <2> QED OBVIOUS
<1> QED BY <1>1 DEF JobsAt

(* The end of a sequence, from one of its places on.                       *)
LEMMA SuffixMeans ==
  ASSUME NEW T, NEW s \in Seq(T), NEW n \in Nat \ {0}, n <= Len(s) + 1
  PROVE  /\ SubSeq(s, n, Len(s)) = [k \in 1..(Len(s) - n + 1) |-> s[n + k - 1]]
         /\ Len(SubSeq(s, n, Len(s))) = Len(s) - n + 1
<1>1. Len(s) \in Nat /\ DOMAIN s = 1..Len(s)
  OBVIOUS
<1>2. Len(s) - n + 1 \in Nat
  BY <1>1
<1> QED BY <1>1, <1>2

(* Running one job uses up one poll entry and one place with a job.        *)
LEMMA RunAligned ==
  ASSUME TypeOK, pos > 0, next > 0, next <= Len(pfds), pos \in WithJob,
         SubSeq(pfds, next, Len(pfds)) \in JobsAt({i \in WithJob : i >= pos})
  PROVE  SubSeq(pfds, next + 1, Len(pfds)) \in JobsAt({i \in WithJob : i >= pos + 1})
<1> DEFINE P == {i \in WithJob : i >= pos}
           Q == {i \in WithJob : i >= pos + 1}
           L == Len(pfds)
           m == Cardinality(P)
<1>t. /\ jobs \in Seq(Entry) /\ pfds \in Seq([sock : Sockets, job : Jobs])
      /\ next \in Nat /\ pos \in Nat /\ L \in Nat /\ P \in SUBSET DOMAIN jobs
  BY DEF TypeOK, WithJob
<1>f. P \subseteq Nat /\ IsFiniteSet(P)
  BY <1>t, PlacesFinite
<1>1. PICK f \in InOrder(P) :
        /\ SubSeq(pfds, next, L) = [k \in 1..m |-> jobs[f[k]]]
        /\ Len(SubSeq(pfds, next, L)) = m /\ m \in Nat
  BY <1>t, JobsAtType
<1>2. pos \in P /\ \A q \in P : pos <= q
  BY <1>t
<1>3. P \ {pos} = Q
  <2>1. \A i \in WithJob : i \in Nat
    BY <1>t DEF WithJob
  <2>2. \A i \in WithJob : (i >= pos /\ i # pos) <=> i >= pos + 1
    BY <1>t, <2>1
  <2> QED BY <2>2
<1> DEFINE g == [k \in 1..(m - 1) |-> f[k + 1]]
<1>4. m # 0 /\ Cardinality(Q) = m - 1 /\ g \in InOrder(Q)
  <2> HIDE DEF P, Q, m, g
  <2>1. m \in Nat \ {0} /\ Cardinality(P \ {pos}) = m - 1 /\ g \in InOrder(P \ {pos})
    BY <1>1, <1>2, <1>f, OrderDropsFirst DEF m, g
  <2> QED BY <2>1, <1>3
<1> HIDE DEF P, Q, m
<1>5. \A k \in 1..m : SubSeq(pfds, next, L)[k] = jobs[f[k]]
  BY <1>1
<1>6. L - next + 1 = m /\ \A k \in 1..m : pfds[next + k - 1] = jobs[f[k]]
  <2>1. /\ SubSeq(pfds, next, L) = [k \in 1..(L - next + 1) |-> pfds[next + k - 1]]
        /\ Len(SubSeq(pfds, next, L)) = L - next + 1
    BY <1>t, SuffixMeans
  <2>2. L - next + 1 = m
    BY <1>1, <2>1
  <2> QED BY <1>5, <2>1, <2>2
<1>7. SubSeq(pfds, next + 1, L) = [k \in 1..(m - 1) |-> pfds[next + k]]
  <2>1. L - (next + 1) + 1 = m - 1 /\ next + 1 \in Nat \ {0} /\ next + 1 <= L + 1
    BY <1>t, <1>1, <1>6
  <2>2. SubSeq(pfds, next + 1, L) = [k \in 1..(L - (next + 1) + 1) |-> pfds[(next + 1) + k - 1]]
    BY <1>t, <2>1, SuffixMeans
  <2>3. SubSeq(pfds, next + 1, L) = [k \in 1..(m - 1) |-> pfds[(next + 1) + k - 1]]
    BY <2>1, <2>2
  <2>4. \A k \in 1..(m - 1) : (next + 1) + k - 1 = next + k
    BY <1>t, <1>1
  <2> QED BY <2>3, <2>4
<1>8. \A k \in 1..(m - 1) : pfds[next + k] = jobs[f[k + 1]]
  <2> SUFFICES ASSUME NEW k \in 1..(m - 1) PROVE pfds[next + k] = jobs[f[k + 1]]
    OBVIOUS
  <2>1. k + 1 \in 1..m /\ next + (k + 1) - 1 = next + k
    BY <1>1, <1>t
  <2> QED BY <1>6, <2>1
<1>9. SubSeq(pfds, next + 1, L) = [k \in DOMAIN g |-> jobs[g[k]]]
  BY <1>7, <1>8
<1> HIDE DEF g
<1>10. SubSeq(pfds, next + 1, L) \in JobsAt(Q)
  BY <1>4, <1>9 DEF JobsAt
<1> QED BY <1>10 DEF Q

(* The poll entries keep matching the list, and the results that are left  *)
(* the jobs that are left.                                                 *)
LEMMA FreshStep ==
  ASSUME Locking, TypeOK, Calls, Fresh, [Next]_vars
  PROVE  Fresh'
<1>s. Service \in Threads /\ Callers \subseteq Threads /\ Service \notin Callers
  BY ThreadsAssumption DEF Threads
<1>t. /\ DOMAIN pc = Threads /\ jobs \in Seq(Entry) /\ pos \in Nat /\ next \in Nat
      /\ pfds \in Seq([sock : Sockets, job : Jobs])
  BY DEF TypeOK
<1>f. pos > 0 /\ next > 0 /\ (~update => pfds \in JobsAt(WithJob))
  BY DEF Fresh
<1>1. ASSUME UNCHANGED <<jobs, update, pfds, pos, next>>,
             pc'[Service] \in {"poll", "run"} => pc'[Service] = pc[Service]
      PROVE  Fresh'
  BY <1>1 DEF Fresh, Aligned, JobsAt, WithJob
(* The service thread does not poll or run jobs while others have the list. *)
<1>2. ASSUME UNCHANGED <<jobs, update, pfds>> \/ update' = TRUE, pc'[Service] \notin {"poll", "run"},
             pos' > 0, next' > 0
      PROVE  Fresh'
  <2>1. ~update' => pfds' \in JobsAt(WithJob)'
    <3>1. CASE update' = TRUE
      BY <3>1
    <3>2. CASE UNCHANGED <<jobs, update, pfds>>
      BY <1>f, <3>2 DEF JobsAt, WithJob
    <3> QED BY <1>2, <3>1, <3>2
  <2> QED BY <1>2, <2>1 DEF Fresh, Aligned
<1>3. ASSUME NEW t \in Callers, CallAddSocket(t) \/ CallRemoveSocket(t) \/ LockJobListLock(t) \/ LockJobList(t)
                                \/ UnlockJobList(t) \/ PollUnblock(t)
      PROVE  Fresh'
  <2>1. \E to : Go(t, to) /\ UNCHANGED <<jobs, update, pfds, pos, next>>
    BY <1>3 DEF CallAddSocket, CallRemoveSocket, LockJobListLock, LockJobList, UnlockJobList,
                PollUnblock, list, polled
  <2> QED BY <1>s, <1>t, <1>1, <2>1 DEF Go
<1>4. ASSUME NEW t \in Callers, AddSocket(t) \/ RemoveSocket(t) PROVE Fresh'
  <2>1. Go(t, "leave") /\ UNCHANGED <<pfds, pos, next>> /\ (update' = TRUE \/ UNCHANGED <<jobs, update>>)
    BY <1>4 DEF AddSocket, RemoveSocket, list, polled
  <2>2. ~Holds(Service)
    BY <1>4, <1>s DEF AddSocket, RemoveSocket, Locking, Exclusive, Holds
  <2>3. pc'[Service] \notin {"poll", "run"}
    BY <1>s, <1>t, <2>1, <2>2 DEF Go, Holds
  <2> QED BY <1>1, <1>2, <1>f, <2>1, <2>3
<1>5. ASSUME \/ LockJobListLock(Service) \/ LockJobList(Service) \/ UnlockJobList(Service) \/ PollUnblock(Service)
             \/ Top \/ WaitReady \/ LockCancelled \/ PollUnblocked \/ PollFails \/ EndOfRun \/ CloseListener
      PROVE  Fresh'
  <2>1. \E to : Go(Service, to) /\ to \notin {"poll", "run"}
    BY <1>5 DEF LockJobListLock, LockJobList, UnlockJobList, PollUnblock, Top, WaitReady, LockCancelled,
                PollUnblocked, PollFails, EndOfRun, CloseListener
  <2>2. UNCHANGED <<jobs, update, pfds>> /\ ((pos' = 1 /\ next' = 1) \/ UNCHANGED <<pos, next>>)
    BY <1>5 DEF LockJobListLock, LockJobList, UnlockJobList, PollUnblock, Top, WaitReady, LockCancelled,
                PollUnblocked, PollFails, EndOfRun, CloseListener, list, polled
  <2>3. pc'[Service] \notin {"poll", "run"}
    BY <1>s, <1>t, <2>1 DEF Go
  <2> QED BY <1>2, <1>f, <2>2, <2>3
<1>6. ASSUME Collect PROVE Fresh'
  <2>1. pc'[Service] # "run"
    BY <1>6, <1>s, <1>t DEF Collect, Go
  <2>2. UNCHANGED <<jobs, pos, next>> /\ update' = FALSE /\ pfds' \in JobsAt(WithJob)
    BY <1>6, <1>f DEF Collect
  <2> QED BY <1>f, <2>1, <2>2 DEF Fresh, Aligned, JobsAt, WithJob
<1>7. ASSUME PollReady PROVE Fresh'
  <2>1. /\ UNCHANGED <<jobs, update, pfds>> /\ ~update /\ pc[Service] = "poll"
        /\ pos' = 1 /\ next' = 1
    BY <1>7 DEF PollReady, list, Fresh
  <2>2. pc'[Service] # "poll"
    BY <1>7, <1>s, <1>t DEF PollReady, Go
  <2>3. SubSeq(pfds, 1, Len(pfds)) = pfds
    BY <1>t
  <2>4. {i \in WithJob : i >= 1} = WithJob
    BY <1>t DEF WithJob
  <2>5. Aligned'
    BY <1>f, <2>1, <2>3, <2>4 DEF Aligned, JobsAt, WithJob
  <2> QED BY <1>f, <2>1, <2>2, <2>5 DEF Fresh, JobsAt, WithJob
<1>8. ASSUME SkipPlace PROVE Fresh'
  <2>1. /\ UNCHANGED <<pc, jobs, update, pfds, next>> /\ pos' = pos + 1
        /\ pc[Service] = "run" /\ pos \notin WithJob
    BY <1>8 DEF SkipPlace, list, WithJob
  <2>2. {i \in WithJob : i >= pos + 1} = {i \in WithJob : i >= pos}
    <3>1. WithJob \subseteq Nat
      BY <1>t DEF WithJob
    <3>2. \A i \in WithJob : i >= pos + 1 <=> i >= pos
      BY <1>t, <2>1, <3>1
    <3> QED BY <3>2
  <2>3. Aligned'
    <3>1. SubSeq(pfds, next, Len(pfds)) \in JobsAt({i \in WithJob : i >= pos + 1})
      BY <2>1, <2>2 DEF Fresh, Aligned
    <3> QED BY <2>1, <3>1 DEF Aligned, JobsAt, WithJob
  <2>4. pos' > 0
    BY <1>t, <2>1
  <2> QED BY <1>f, <2>1, <2>3, <2>4 DEF Fresh, JobsAt, WithJob
<1>9. ASSUME RunJob PROVE Fresh'
  <2>1. /\ UNCHANGED <<pc, pfds>> /\ pos' = pos + 1 /\ next' = next + 1
        /\ pc[Service] = "run" /\ pos \in WithJob /\ next <= Len(pfds)
    BY <1>9, <1>f, PosInList DEF RunJob, WithJob, AtJob
  <2>2. UNCHANGED <<jobs, update>> \/ (update' = TRUE /\ \E j \in Jobs \cup {NoJob} : jobs' = [jobs EXCEPT ![pos].job = j])
    BY <1>9 DEF RunJob, list
  <2>3. DOMAIN jobs' = DOMAIN jobs /\ \A i \in DOMAIN jobs : i # pos => jobs'[i] = jobs[i]
    BY <1>t, <2>2
  <2> DEFINE Q == {i \in WithJob : i >= pos + 1}
  <2>4. SubSeq(pfds, next + 1, Len(pfds)) \in JobsAt(Q)
    BY <1>f, <2>1, RunAligned DEF Fresh, Aligned
  <2>5. Q \subseteq DOMAIN jobs /\ pos \notin Q /\ {i \in WithJob' : i >= pos + 1} = Q
    BY <1>t, <2>3 DEF WithJob
  <2> HIDE DEF Q
  <2>6. JobsAt(Q) = {[k \in DOMAIN f |-> jobs'[f[k]]] : f \in InOrder(Q)}
    BY <2>3, <2>5, SameJobs
  <2>7. SubSeq(pfds', next', Len(pfds')) \in {[k \in DOMAIN f |-> jobs'[f[k]]] : f \in InOrder(Q)}
    BY <2>1, <2>4, <2>6
  <2>8. Aligned'
    BY <2>1, <2>5, <2>7 DEF Aligned, JobsAt
  <2>9. pos' > 0 /\ next' > 0
    BY <1>t, <2>1
  <2>10. ~update' => pfds' \in JobsAt(WithJob)'
    <3>1. CASE update' = TRUE
      BY <3>1
    <3>2. CASE UNCHANGED <<jobs, update>>
      BY <1>f, <2>1, <3>2 DEF JobsAt, WithJob
    <3> QED BY <2>2, <3>1, <3>2
  <2> QED BY <2>1, <2>8, <2>9, <2>10 DEF Fresh
<1>10. ASSUME Purge PROVE Fresh'
  <2>1. pc'[Service] \notin {"poll", "run"}
    BY <1>10, <1>s, <1>t DEF Purge, Go
  <2>2. UNCHANGED <<pfds, pos, next>> /\ (update' = TRUE \/ UNCHANGED <<jobs, update>>)
    BY <1>10 DEF Purge, polled, TypeOK
  <2> QED BY <1>2, <1>f, <2>1, <2>2
<1>11. ASSUME Destroy \/ UNCHANGED vars PROVE Fresh'
  BY <1>1, <1>11 DEF Destroy, vars, list, polled
<1> QED
  BY <1>s, <1>3, <1>4, <1>5, <1>6, <1>7, <1>8, <1>9, <1>10, <1>11
  DEF Next, CallerSteps, ServiceSteps, Threads

LEMMA JobsInvInit == Init => JobsInv
<1> SUFFICES ASSUME Init PROVE JobsInv
  OBVIOUS
<1>1. Locking /\ TypeOK
  BY LockingInit, TypeInit
<1>2. /\ pc[Service] = "top" /\ op[Service] = NoCall
      /\ \A t \in Callers : pc[t] = "idle" /\ op[t] = NoCall
  BY ThreadsAssumption DEF Init, Threads
<1>3. Calls /\ Quiet /\ Passing = {}
  BY <1>2 DEF Calls, ServiceCalls, CallerCalls, Passed, Quiet, NoCall, Passing
<1>4. jobs = <<>> /\ WithJob = {} /\ live = {}
  BY DEF Init, WithJob
<1>5. SocketsOnce /\ Owned
  BY <1>3, <1>4 DEF SocketsOnce, Owned, InList, InCalls
<1>6. pfds \in JobsAt(WithJob)
  <2>1. <<>> \in InOrder({})
    <3>1. Cardinality({}) = 0 /\ 1..0 = {} /\ <<>> \in [1..0 -> {}]
      BY FS_EmptySet
    <3> QED BY <3>1, OrderMeans
  <2> QED BY <1>4, <2>1 DEF JobsAt, Init
<1>7. Fresh
  BY <1>2, <1>6 DEF Fresh, Aligned, Init
<1> QED BY <1>1, <1>3, <1>5, <1>7 DEF JobsInv

LEMMA JobsInvStep == JobsInv /\ [Next]_vars => JobsInv'
<1> SUFFICES ASSUME JobsInv, [Next]_vars PROVE JobsInv'
  OBVIOUS
<1>1. pos > 0
  BY DEF JobsInv, Fresh
<1> QED
  BY <1>1, LockingStep, TypeStep, CallsStep, SocketsOnceStep, QuietStep, OwnedStep, FreshStep DEF JobsInv

LEMMA JobsInvHolds == Spec => []JobsInv
BY JobsInvInit, JobsInvStep, PTL DEF Spec

(* No job object is leaked, deleted twice or run after it was deleted, and *)
(* each poll result goes to the job it was asked for, for any number of    *)
(* callers, sockets and jobs, while every variable has its type.           *)
THEOREM JobsOwnedHolds == Spec => []JobsOwned
<1>1. JobsInv => JobsOwned
  BY DEF JobsInv, Fresh, Owned, InList, InCalls, Passing, JobsOwned
<1> QED BY JobsInvHolds, <1>1, PTL

(* Once removeSocket has returned, the socket has no job until its owner   *)
(* adds it again, whatever the service thread and the others do meanwhile. *)
THEOREM RemovedIsQuietHolds == Spec => []RemovedIsQuiet
<1>1. JobsInv => RemovedIsQuiet
  BY DEF JobsInv, Quiet, RemovedIsQuiet
<1> QED BY JobsInvHolds, <1>1, PTL
=============================================================================
