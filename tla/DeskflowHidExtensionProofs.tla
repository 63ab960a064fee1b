-------------------- MODULE DeskflowHidExtensionProofs --------------------
(***************************************************************************)
(* Proofs of module DeskflowHidExtension.                                  *)
(***************************************************************************)
EXTENDS DeskflowHidExtension, FiniteSetTheorems, WellFoundedInduction, TLAPS

(***************************************************************************)
(* Loops                                                                   *)
(***************************************************************************)

LEMMA Least ==
  ASSUME NEW T, T \in SUBSET Nat, T # {}
  PROVE  \E x \in T : \A y \in T : x <= y
<1> DEFINE R == {ss \in Nat \X Nat : ss[1] < ss[2]}
<1>1. IsWellFoundedOn(R, Nat)
  BY NatLessThanWellFounded DEF OpToRel
<1>2. PICK x \in T : \A y \in T : ~ (<<y, x>> \in R)
  BY <1>1, WFMin
<1>3. \A y \in T : x <= y
  <2> TAKE y \in T
  <2>1. ~ (<<y, x>> \in R) /\ x \in Nat /\ y \in Nat
    BY <1>2
  <2> QED BY <2>1
<1> QED BY <1>3

\* What holds before a loop and is kept by each turn holds after all of them.
LEMMA Stays ==
  ASSUME NEW N \in Nat, NEW T, NEW h, h[0] \in T[0],
         \A n \in 1..N : h[n - 1] \in T[n - 1] => h[n] \in T[n]
  PROVE  \A n \in 0..N : h[n] \in T[n]
<1> DEFINE B == {n \in 0..N : h[n] \notin T[n]}
<1>1. SUFFICES ASSUME B # {} PROVE FALSE
  OBVIOUS
<1>2. PICK n \in B : \A m \in B : n <= m
  <2>1. B \in SUBSET Nat
    OBVIOUS
  <2> QED BY <1>1, <2>1, Least
<1>3. n \in 1..N
  BY <1>2
<1>4. n - 1 \in 0..N /\ n - 1 \notin B
  BY <1>2, <1>3
<1> QED BY <1>2, <1>3, <1>4

\* f[n] is the state after n turns of F, which takes the state and the number.
Loops(f, N, s, F) ==
  f = [n \in 0..N |-> f[n]] /\ f[0] = s /\ \A n \in 1..N : f[n] = F[<<f[n - 1], n>>]

LEMMA Iterates ==
  ASSUME NEW N \in Nat, NEW s, NEW F
  PROVE  \E f : Loops(f, N, s, F)
<1> DEFINE Is(m, f) == f = [n \in 0..m |-> IF n = 0 THEN s ELSE F[<<f[n - 1], n>>]]
           Has(m) == \E f : Is(m, f)
           B == {m \in 0..N : ~Has(m)}
<1>1. SUFFICES ASSUME ~Has(N) PROVE FALSE
  <2> SUFFICES ASSUME NEW f, Is(N, f) PROVE Loops(f, N, s, F)
    OBVIOUS
  <2>1. \A n \in 0..N : f[n] = IF n = 0 THEN s ELSE F[<<f[n - 1], n>>]
    OBVIOUS
  <2>2. f = [n \in 0..N |-> f[n]]
    OBVIOUS
  <2>3. 0 \in 0..N /\ \A n \in 1..N : n \in 0..N /\ n # 0
    OBVIOUS
  <2> HIDE DEF Is
  <2> QED BY <2>1, <2>2, <2>3 DEF Loops
<1>2. PICK m \in B : \A k \in B : m <= k
  <2> HIDE DEF Has
  <2>1. B \in SUBSET Nat /\ N \in B
    BY <1>1
  <2> HIDE DEF B
  <2> QED BY <2>1, Least
<1>3. m \in 0..N /\ ~Has(m) /\ \A k \in 0..N : ~Has(k) => m <= k
  <2> HIDE DEF Has
  <2> QED BY <1>2
<1> HIDE DEF B
<1>4. m # 0
  <2>1. Is(0, [n \in 0..0 |-> s])
    OBVIOUS
  <2> QED BY <1>3, <2>1
<1>5. m \in 1..N /\ m - 1 \in 0..N /\ Has(m - 1)
  <2> HIDE DEF Has
  <2> QED BY <1>3, <1>4
<1>6. PICK f : Is(m - 1, f)
  BY <1>5
<1> DEFINE f2 == [n \in 0..m |-> IF n = m THEN F[<<f[m - 1], m>>] ELSE f[n]]
<1>7. \A n \in 0..(m - 1) : f[n] = IF n = 0 THEN s ELSE F[<<f[n - 1], n>>]
  BY <1>6
<1>8. \A n \in 0..m : f2[n] = IF n = 0 THEN s ELSE F[<<f2[n - 1], n>>]
  <2> TAKE n \in 0..m
  <2>1. CASE n = 0
    <3>1. f2[0] = f[0] /\ 0 \in 0..(m - 1)
      BY <1>5
    <3>2. f[0] = s
      BY <1>7, <3>1
    <3> QED BY <3>1, <3>2, <2>1
  <2>2. CASE n \in 1..(m - 1)
    <3>1. f2[n] = f[n] /\ f2[n - 1] = f[n - 1]
      BY <1>5, <2>2
    <3>2. f[n] = F[<<f[n - 1], n>>]
      BY <1>5, <1>7, <2>2
    <3> QED BY <3>1, <3>2, <2>2
  <2>3. CASE n = m
    <3>1. f2[m] = F[<<f[m - 1], m>>] /\ f2[m - 1] = f[m - 1]
      BY <1>5
    <3> QED BY <1>5, <3>1, <2>3
  <2> QED BY <1>5, <2>1, <2>2, <2>3
<1>9. Is(m, f2)
  BY <1>8
<1> QED BY <1>3, <1>9

LEMMA Turns ==
  ASSUME NEW N \in Nat, NEW T, NEW s, s \in T[0], NEW F,
         \A n \in 1..N : \A r \in T[n - 1] : F[<<r, n>>] \in T[n]
  PROVE  \E f : Loops(f, N, s, F) /\ \A n \in 0..N : f[n] \in T[n]
<1>1. PICK f : Loops(f, N, s, F)
  BY Iterates
<1>2. \A n \in 0..N : f[n] \in T[n]
  <2>1. f[0] \in T[0] /\ \A n \in 1..N : f[n - 1] \in T[n - 1] => f[n] \in T[n]
    BY <1>1 DEF Loops
  <2> QED BY <2>1, Stays
<1> QED BY <1>1, <1>2

(***************************************************************************)
(* The inductive invariant                                                 *)
(***************************************************************************)

\* A core that runs holds its path.
Sound(s) ==
  /\ s \in ExtensionData
  /\ \A p \in Processes : s.process[p].running =>
       s.process[p].path \in Paths /\ s.owner[s.process[p].path] = p

\* The tables are current, and what the manager and the widgets know of a
\* config leads back to it.
Linked(s) ==
  /\ Current(s)
  /\ \A c \in Devices :
       /\ s.clients[c].available => s.clients[c].path # none /\ s.deviceToConfig[s.clients[c].path] = c
       /\ s.widget[c].path # none => s.deviceToConfig[s.widget[c].path] = c

\* The processes that run are those of the configs and the owners of paths.
Held(s) ==
  /\ \A p \in Processes :
       LET it == s.process[p]
       IN /\ it.running => /\ it.config # none /\ it.path # none
                           /\ s.clients[it.config].process = p
                           /\ s.deviceToConfig[it.path] = it.config
                           /\ s.owner[it.path] = p
          /\ it.established => it.running
  /\ \A path \in Paths : s.owner[path] # none =>
       s.process[s.owner[path]].running /\ s.process[s.owner[path]].path = path
  /\ \A c \in Devices :
       LET k == s.clients[c]
       IN /\ k.process # none => s.process[k.process].running /\ s.process[k.process].config = c
          /\ k.timer # none => /\ s.deviceToConfig[k.timer] = c /\ k.process # none
                               /\ ~s.process[k.process].established

Good(s) == s \in ExtensionData /\ Linked(s) /\ Held(s)

Quiet(s) == \A p \in Processes : ~s.process[p].running

CoreData == [state : ProcessStates, connection : {"Disconnected", "Connecting", "Listening"},
             running : BOOLEAN, restart : BOOLEAN, retry : BOOLEAN, checking : BOOLEAN,
             ipc : {"none", "closed", "connected"}]
UsbEvent == {"add", "remove"} \X Paths \X Devices

\* While the server is ready, nothing waits to be resumed.
NothingWaits(s) == \A p \in Paths : s.resume[p] = none

\* What is true on any ports, what is true while the tables are current, and
\* the types of the rest.
Anywhere == Sound(g) /\ (Ready(core) => NothingWaits(g))
Clients == Good(g) /\ (g.suspended => Quiet(g)) /\ (core.connection = "Disconnected" => Quiet(g))
Typed ==
  /\ retries \in [Devices -> 0..MaxRetries] /\ core \in CoreData
  /\ plugged \in [Devices -> Paths \cup {none}] /\ udev \in Seq(UsbEvent)
  /\ tracked \in [Paths -> Devices \cup {none}]

IInv == Anywhere /\ (current => Clients) /\ Typed

(***************************************************************************)
(* What a handler leaves as it is                                          *)
(***************************************************************************)

\* The paths and the configs, and what is to be resumed.
Kept(s, t) ==
  /\ t.deviceToConfig = s.deviceToConfig /\ t.resume = s.resume /\ t.suspended = s.suspended
  /\ \A d \in Devices :
       /\ t.clients[d].path = s.clients[d].path /\ t.clients[d].available = s.clients[d].available
       /\ t.clients[d].serial = s.clients[d].serial /\ t.widget[d].path = s.widget[d].path

\* Kept, and the processes.
Same(s, t) ==
  /\ Kept(s, t) /\ t.process = s.process /\ t.owner = s.owner
  /\ \A d \in Devices : t.clients[d].process = s.clients[d].process
                         /\ t.clients[d].timer = s.clients[d].timer

LEMMA KeptLinked ==
  ASSUME NEW s, NEW t, s \in ExtensionData, t \in ExtensionData, Linked(s), Kept(s, t)
  PROVE  Linked(t)
<1>1. /\ s.deviceToConfig \in [Paths -> Devices \cup {none}]
      /\ \A d \in Devices : s.clients[d].path \in Paths \cup {none}
                            /\ s.widget[d].path \in Paths \cup {none}
      /\ t.deviceToConfig = s.deviceToConfig /\ t.resume = s.resume
      /\ \A d \in Devices : /\ t.clients[d].path = s.clients[d].path
                            /\ t.clients[d].available = s.clients[d].available
                            /\ t.clients[d].serial = s.clients[d].serial
                            /\ t.widget[d].path = s.widget[d].path
  BY DEF Kept, ExtensionData, ClientState
<1>2. \A q \in Paths : t.deviceToConfig[q] # none => t.clients[t.deviceToConfig[q]].path = q
  <2> TAKE q \in Paths
  <2>1. s.deviceToConfig[q] # none => s.deviceToConfig[q] \in Devices
    BY <1>1
  <2> QED BY <1>1, <2>1 DEF Linked, Current
<1>3. \A c \in Devices :
        /\ t.clients[c].serial = c
        /\ t.clients[c].available => t.clients[c].path # none /\ t.deviceToConfig[t.clients[c].path] = c
        /\ t.widget[c].path # none => t.deviceToConfig[t.widget[c].path] = c
  BY <1>1 DEF Linked, Current
<1>4. \A q \in Paths : t.resume[q] # none => t.deviceToConfig[q] = t.resume[q]
  BY <1>1 DEF Linked, Current
<1> QED BY <1>2, <1>3, <1>4 DEF Linked, Current

LEMMA SameGood ==
  ASSUME NEW s, NEW t, Good(s), t \in ExtensionData, Same(s, t)
  PROVE  Good(t)
<1>1. Linked(t)
  BY KeptLinked DEF Good, Same
<1>2. Held(t)
  <2>1. s \in ExtensionData /\ Held(s)
    BY DEF Good
  <2>2. \A p \in Processes :
          LET it == t.process[p]
          IN /\ it.running => /\ it.config # none /\ it.path # none
                              /\ t.clients[it.config].process = p
                              /\ t.deviceToConfig[it.path] = it.config
                              /\ t.owner[it.path] = p
             /\ it.established => it.running
    BY <2>1 DEF Held, Same, Kept, ExtensionData, ProcessData
  <2>3. \A path \in Paths : t.owner[path] # none =>
          t.process[t.owner[path]].running /\ t.process[t.owner[path]].path = path
    BY <2>1 DEF Held, Same
  <2>4. \A c \in Devices :
          LET k == t.clients[c]
          IN /\ k.process # none => t.process[k.process].running /\ t.process[k.process].config = c
             /\ k.timer # none => /\ t.deviceToConfig[k.timer] = c /\ k.process # none
                                  /\ ~t.process[k.process].established
    BY <2>1 DEF Held, Same, Kept
  <2> QED BY <2>2, <2>3, <2>4 DEF Held
<1> QED BY <1>1, <1>2 DEF Good

LEMMA SetConnectedSame ==
  ASSUME NEW s, s \in ExtensionData, NEW c \in Devices, NEW on \in BOOLEAN
  PROVE  SetConnected(s, c, on) \in ExtensionData /\ Same(s, SetConnected(s, c, on))
BY DEF SetConnected, Same, Kept, ExtensionData

LEMMA SetManuallySame ==
  ASSUME NEW s, s \in ExtensionData, NEW c \in Devices, NEW on \in BOOLEAN
  PROVE  SetManuallyDisconnected(s, c, on) \in ExtensionData
         /\ Same(s, SetManuallyDisconnected(s, c, on))
<1> DEFINE tried(d) == IF on THEN 0 ELSE s.clients[d].attempts
           of(d) == IF s.clients[d].serial # c THEN s.clients[d]
                    ELSE [s.clients[d] EXCEPT !.manual = on, !.attempts = tried(d)]
           clients == [d \in Devices |-> of(d)]
<1>1. \A k \in ClientState : \A a \in 0..3 :
        /\ [k EXCEPT !.manual = on, !.attempts = a] \in ClientState
        /\ \A r \in {[k EXCEPT !.manual = on, !.attempts = a]} :
             r.path = k.path /\ r.available = k.available /\ r.serial = k.serial
             /\ r.process = k.process /\ r.timer = k.timer
  BY DEF ClientState
<1>2. \A d \in Devices : s.clients[d] \in ClientState /\ s.clients[d].attempts \in 0..3
  BY DEF ExtensionData, ClientState
<1>3. \A d \in Devices :
        /\ of(d) \in ClientState
        /\ of(d).path = s.clients[d].path /\ of(d).available = s.clients[d].available
        /\ of(d).serial = s.clients[d].serial
        /\ of(d).process = s.clients[d].process /\ of(d).timer = s.clients[d].timer
  <2> TAKE d \in Devices
  <2>1. tried(d) \in 0..3
    BY <1>2
  <2> HIDE DEF tried
  <2> QED BY <1>1, <1>2, <2>1
<1>4. SetManuallyDisconnected(s, c, on) = [s EXCEPT !.clients = clients]
  <2>1. \A d \in Devices :
          [s.clients[d] EXCEPT !.manual = on, !.attempts = IF on THEN 0 ELSE @]
            = [s.clients[d] EXCEPT !.manual = on, !.attempts = tried(d)]
    BY <1>2 DEF ClientState
  <2> DEFINE set == [d \in Devices |->
                       IF s.clients[d].serial # c THEN s.clients[d]
                       ELSE [s.clients[d] EXCEPT !.manual = on, !.attempts = IF on THEN 0 ELSE @]]
  <2>2. set = clients
    <3> HIDE DEF tried
    <3> QED BY <2>1
  <2>3. SetManuallyDisconnected(s, c, on) = [s EXCEPT !.clients = set]
    BY DEF SetManuallyDisconnected
  <2> QED BY <2>2, <2>3
<1> HIDE DEF of
<1>5. clients \in [Devices -> ClientState]
  BY <1>3
<1>6. \A d \in Devices : clients[d] = of(d)
  OBVIOUS
<1> HIDE DEF clients
<1> DEFINE t == [s EXCEPT !.clients = clients]
<1>7. t \in ExtensionData /\ t.clients = clients /\ t.deviceToConfig = s.deviceToConfig
      /\ t.resume = s.resume /\ t.suspended = s.suspended /\ t.widget = s.widget
      /\ t.process = s.process /\ t.owner = s.owner
  BY <1>5 DEF ExtensionData
<1> HIDE DEF t
<1>8. Same(s, t)
  BY <1>3, <1>6, <1>7 DEF Same, Kept
<1> QED BY <1>4, <1>7, <1>8 DEF t

\* Other attempts at a config.
LEMMA AttemptsSame ==
  ASSUME NEW s, s \in ExtensionData, NEW c \in Devices, NEW a \in 0..3, NEW t,
         t = [s EXCEPT !.clients[c].attempts = a]
  PROVE  t \in ExtensionData /\ Same(s, t)
<1> DEFINE k == [s.clients[c] EXCEPT !.attempts = a]
           clients == [s.clients EXCEPT ![c] = k]
<1>1. s.clients[c] \in ClientState /\ s.clients \in [Devices -> ClientState]
  BY DEF ExtensionData
<1>2. k \in ClientState /\ k.path = s.clients[c].path /\ k.available = s.clients[c].available
      /\ k.serial = s.clients[c].serial /\ k.process = s.clients[c].process
      /\ k.timer = s.clients[c].timer
  BY <1>1 DEF ClientState
<1>3. t = [s EXCEPT !.clients = clients]
  BY DEF ExtensionData
<1> HIDE DEF k
<1>4. clients \in [Devices -> ClientState]
      /\ \A d \in Devices : clients[d] = IF d = c THEN k ELSE s.clients[d]
  BY <1>1, <1>2
<1> HIDE DEF clients
<1> QED BY <1>2, <1>3, <1>4 DEF Same, Kept, ExtensionData
(***************************************************************************)
(* Stopping                                                                *)
(***************************************************************************)

LEMMA TwoFields ==
  ASSUME NEW r \in ExtensionData, NEW c \in Devices
  PROVE  [r EXCEPT !.clients[c].process = none, !.clients[c].timer = none]
           = [r EXCEPT !.clients = [r.clients EXCEPT ![c] = [r.clients[c] EXCEPT !.process = none, !.timer = none]]]
<1>1. [r EXCEPT !.clients[c].process = none]
        = [r EXCEPT !.clients = [r.clients EXCEPT ![c] = [r.clients[c] EXCEPT !.process = none]]]
  BY DEF ExtensionData
<1> DEFINE k1 == [r.clients[c] EXCEPT !.process = none]
           m1 == [r.clients EXCEPT ![c] = k1]
           r1 == [r EXCEPT !.clients = m1]
           k2 == [k1 EXCEPT !.timer = none]
<1>2. r1.clients = m1 /\ m1[c] = k1
  BY DEF ExtensionData
<1>3. [r1 EXCEPT !.clients[c].timer = none] = [r1 EXCEPT !.clients = [m1 EXCEPT ![c] = k2]]
  BY <1>2 DEF ExtensionData
<1>4. [m1 EXCEPT ![c] = k2] = [r.clients EXCEPT ![c] = k2]
  <2> HIDE DEF k2, k1
  <2> QED BY DEF ExtensionData
<1>5. [r1 EXCEPT !.clients = [m1 EXCEPT ![c] = k2]] = [r EXCEPT !.clients = [r.clients EXCEPT ![c] = k2]]
  <2> HIDE DEF k2, m1
  <2> QED BY <1>4 DEF ExtensionData
<1> QED BY <1>1, <1>3, <1>5

(***************************************************************************)
(* A core holds its path, wherever the devices go                          *)
(***************************************************************************)

LEMMA Numbers ==
  /\ DeviceCount \in Nat /\ PathCount \in Nat /\ Devices = 1..DeviceCount /\ Paths = 1..PathCount
  /\ none \notin Devices /\ none \notin Paths /\ none \notin Processes
  /\ Processes \subseteq Nat /\ IsFiniteSet(Processes)
<1>1. DeviceCount \in Nat /\ PathCount \in Nat /\ none \notin Nat
  BY ManagerAssumption
<1>2. Devices = 1..DeviceCount /\ Paths = 1..PathCount
  BY DEF Devices, Paths
<1>3. Devices \subseteq Nat /\ Paths \subseteq Nat
  BY <1>1, <1>2
<1>4. Processes \subseteq Nat /\ IsFiniteSet(Processes)
  BY ExtensionAssumption
<1> QED BY <1>1, <1>2, <1>3, <1>4

\* No process was started.
Fewer(s, t) == \A p \in Processes : t.process[p].running => s.process[p].running

\* What runs afterwards ran before, as it was.
Less(s, t) == \A p \in Processes : t.process[p].running => t.process[p] = s.process[p]

LEMMA SameSound ==
  ASSUME NEW s, Sound(s), NEW t, t \in ExtensionData, t.process = s.process, t.owner = s.owner
  PROVE  Sound(t) /\ Less(s, t) /\ Fewer(s, t)
BY DEF Sound, Less, Fewer

LEMMA FinishedSound ==
  ASSUME NEW s, Sound(s), NEW path \in Paths \cup {none}, NEW t,
         t = HandleConnectionFinished(s, path)
  PROVE  Sound(t) /\ Kept(s, t) /\ t.process = s.process /\ t.owner = s.owner
<1> DEFINE c == ByDevice(s, path)
           k == [s.clients[c] EXCEPT !.process = none, !.timer = none]
           clients == [s.clients EXCEPT ![c] = k]
<1>1. s \in ExtensionData
  BY DEF Sound
<1>2. CASE c = none
  <2>1. t = s
    BY <1>2 DEF HandleConnectionFinished
  <2> QED BY <2>1 DEF Kept
<1>3. CASE c # none
  <2>1. c \in Devices
    BY <1>1, <1>3 DEF ByDevice, ExtensionData
  <2>2. t = [s EXCEPT !.clients[c].process = none, !.clients[c].timer = none]
    BY <1>3 DEF HandleConnectionFinished
  <2> HIDE DEF c
  <2>3. t = [s EXCEPT !.clients = clients]
    BY <1>1, <2>1, <2>2, TwoFields, Zenon
  <2>4. s.clients[c] \in ClientState /\ s.clients \in [Devices -> ClientState]
    BY <1>1, <2>1 DEF ExtensionData
  <2>5. k \in ClientState /\ k.path = s.clients[c].path /\ k.available = s.clients[c].available
        /\ k.serial = s.clients[c].serial
    BY <2>4 DEF ClientState
  <2> HIDE DEF k
  <2>6. clients \in [Devices -> ClientState]
        /\ \A d \in Devices : clients[d] = IF d = c THEN k ELSE s.clients[d]
    BY <2>4, <2>5
  <2> HIDE DEF clients
  <2>7. t \in ExtensionData /\ t.clients = clients /\ t.process = s.process /\ t.owner = s.owner
        /\ t.deviceToConfig = s.deviceToConfig /\ t.resume = s.resume /\ t.suspended = s.suspended
        /\ t.widget = s.widget
    BY <1>1, <2>3, <2>6 DEF ExtensionData
  <2>8. Kept(s, t)
    BY <2>5, <2>6, <2>7 DEF Kept
  <2> QED BY <2>7, <2>8, SameSound
<1> QED BY <1>2, <1>3

LEMMA StopProcessSound ==
  ASSUME NEW s, Sound(s), NEW p \in Processes, NEW t, t = StopProcess(s, p)
  PROVE  Sound(t) /\ Kept(s, t) /\ Less(s, t) /\ ~t.process[p].running
<1> DEFINE at == s.process[p].path
           process == [s.process EXCEPT ![p] = NoProcess]
           left == IF s.owner[at] = p THEN none ELSE s.owner[at]
           owner == [s.owner EXCEPT ![at] = left]
<1>1. s \in ExtensionData
  BY DEF Sound
<1>2. CASE ~s.process[p].running
  <2>1. t = s
    BY <1>2 DEF StopProcess
  <2> QED BY <1>2, <2>1 DEF Kept, Less
<1>3. CASE s.process[p].running
  <2>1. at \in Paths /\ s.owner[at] = p
    BY <1>3 DEF Sound
  <2>2. t = [s EXCEPT !.process = process, !.owner = owner]
    BY <1>1, <1>3 DEF StopProcess, ExtensionData
  <2>3. left = none
    BY <2>1
  <2> HIDE DEF at, left
  <2>4. /\ process \in [Processes -> ProcessData] /\ owner \in [Paths -> Processes \cup {none}]
        /\ \A q \in Processes : process[q] = IF q = p THEN NoProcess ELSE s.process[q]
        /\ \A q \in Paths : owner[q] = IF q = at THEN none ELSE s.owner[q]
    BY <1>1, <2>1, <2>3 DEF ExtensionData, NoProcess, ProcessData
  <2> HIDE DEF process, owner
  <2>5. t \in ExtensionData /\ t.process = process /\ t.owner = owner /\ t.clients = s.clients
        /\ t.deviceToConfig = s.deviceToConfig /\ t.resume = s.resume /\ t.suspended = s.suspended
        /\ t.widget = s.widget
    BY <1>1, <2>2, <2>4 DEF ExtensionData
  <2>6. Less(s, t) /\ ~t.process[p].running
    BY <2>4, <2>5 DEF Less, NoProcess
  <2>7. ASSUME NEW q \in Processes, t.process[q].running
        PROVE  t.process[q].path \in Paths /\ t.owner[t.process[q].path] = q
    <3>1. q # p /\ t.process[q] = s.process[q]
      BY <2>6, <2>7 DEF Less
    <3>2. s.process[q].path \in Paths /\ s.owner[s.process[q].path] = q
      BY <2>7, <3>1 DEF Sound
    <3>3. s.process[q].path # at
      BY <2>1, <3>1, <3>2
    <3> QED BY <2>4, <2>5, <3>1, <3>2, <3>3
  <2> QED BY <2>5, <2>6, <2>7 DEF Sound, Kept
<1> QED BY <1>2, <1>3

LEMMA LessKept ==
  ASSUME NEW s, NEW t, NEW u, Kept(s, t), Kept(t, u), Less(s, t), Less(t, u)
  PROVE  Kept(s, u) /\ Less(s, u)
BY DEF Kept, Less

LEMMA StopSound ==
  ASSUME NEW s, Sound(s), NEW path \in Paths \cup {none}, NEW t, t = StopBridgeClient(s, path)
  PROVE  Sound(t) /\ Kept(s, t) /\ Less(s, t)
<1> DEFINE c == ByDevice(s, path)
           stopped == IF Running(s, c) THEN StopProcess(s, s.clients[c].process) ELSE s
           ended == HandleConnectionFinished(stopped, path)
<1>1. s \in ExtensionData
  BY DEF Sound
<1>2. CASE c = none
  <2>1. t = s
    BY <1>2 DEF StopBridgeClient
  <2> QED BY <2>1 DEF Kept, Less
<1>3. CASE c # none
  <2>1. c \in Devices
    BY <1>1, <1>3 DEF ByDevice, ExtensionData
  <2>2. t = SetConnected(ended, c, FALSE)
    BY <1>3 DEF StopBridgeClient
  <2> HIDE DEF c
  <2>3. Sound(stopped) /\ Kept(s, stopped) /\ Less(s, stopped)
    <3>1. CASE Running(s, c)
      <4>1. s.clients[c].process \in Processes
        BY <1>1, <2>1, <3>1 DEF Running, ExtensionData, ClientState
      <4> QED BY <3>1, <4>1, StopProcessSound
    <3>2. CASE ~Running(s, c)
      BY <3>2 DEF Kept, Less
    <3> QED BY <3>1, <3>2
  <2> HIDE DEF stopped
  <2>4. Sound(ended) /\ Kept(stopped, ended) /\ ended.process = stopped.process
    BY <2>3, FinishedSound
  <2>5. Kept(s, ended) /\ Less(s, ended)
    BY <2>3, <2>4 DEF Kept, Less
  <2> HIDE DEF ended
  <2>6. t \in ExtensionData /\ Same(ended, t)
    BY <2>1, <2>2, <2>4, SetConnectedSame DEF Sound
  <2>7. Sound(t) /\ Less(ended, t)
    BY <2>4, <2>6, SameSound DEF Same
  <2> QED BY <2>5, <2>6, <2>7, LessKept DEF Same
<1> QED BY <1>2, <1>3

\* What runs for the device, for the config or on the path is stopped.
LEMMA StopForConnectSound ==
  ASSUME NEW s, Sound(s), NEW path \in Paths, NEW c \in Devices, NEW t, t = StopForConnect(s, path, c)
  PROVE  /\ Sound(t) /\ Kept(s, t) /\ Less(s, t)
         /\ \A p \in Processes : t.process[p].running => t.process[p].path # path
<1> DEFINE device == IF Running(s, ByDevice(s, path)) THEN StopBridgeClient(s, path) ELSE s
           config == IF Running(device, c) THEN StopBridgeClient(device, device.clients[c].path) ELSE device
<1>1. Sound(device) /\ Kept(s, device) /\ Less(s, device)
  <2>1. Kept(s, s) /\ Less(s, s)
    BY DEF Kept, Less
  <2> QED BY <2>1, StopSound
<1> HIDE DEF device
<1>2. Sound(config) /\ Kept(s, config) /\ Less(s, config)
  <2>1. CASE Running(device, c)
    <3>1. device.clients[c].path \in Paths \cup {none}
      BY <1>1 DEF Sound, ExtensionData, ClientState
    <3>2. config = StopBridgeClient(device, device.clients[c].path)
      BY <2>1
    <3> HIDE DEF config
    <3>3. Sound(config) /\ Kept(device, config) /\ Less(device, config)
      BY <1>1, <3>1, <3>2, StopSound
    <3> QED BY <1>1, <3>3, LessKept
  <2>2. CASE ~Running(device, c)
    BY <1>1, <2>2
  <2> QED BY <2>1, <2>2
<1>3. t = IF config.owner[path] = none THEN config ELSE StopProcess(config, config.owner[path])
  BY DEF StopForConnect, device, config
<1> HIDE DEF config
<1>4. \A p \in Processes : config.process[p].running /\ config.process[p].path = path =>
        config.owner[path] = p
  BY <1>2 DEF Sound
<1>5. CASE config.owner[path] = none
  BY <1>2, <1>3, <1>4, <1>5, Numbers
<1>6. CASE config.owner[path] # none
  <2>1. config.owner[path] \in Processes
    BY <1>2, <1>6 DEF Sound, ExtensionData
  <2>2. Sound(t) /\ Kept(config, t) /\ Less(config, t) /\ ~t.process[config.owner[path]].running
    BY <1>2, <1>3, <1>6, <2>1, StopProcessSound
  <2>3. \A p \in Processes : t.process[p].running => t.process[p].path # path
    BY <1>4, <2>2 DEF Less
  <2> QED BY <1>2, <2>2, <2>3, LessKept
<1> QED BY <1>5, <1>6

LEMMA Others ==
  ASSUME NEW M \in Nat, NEW x \in 1..M, NEW S, S = (1..M) \ {x}
  PROVE  IsFiniteSet(S) /\ Cardinality(S) = M - 1
<1> DEFINE All == 1..M
<1>1. IsFiniteSet(All) /\ Cardinality(All) = M
  BY FS_Interval
<1>2. x \in All
  OBVIOUS
<1> HIDE DEF All
<1>3. Cardinality(All \ {x}) = Cardinality(All) - 1
  BY <1>1, <1>2, FS_RemoveElement
<1>4. IsFiniteSet(All \ {x})
  BY <1>1, FS_RemoveElement
<1>5. Cardinality(All \ {x}) = M - 1
  BY <1>1, <1>3
<1> QED BY <1>4, <1>5 DEF All

\* A process object is free when nothing runs on some path.
LEMMA SomeFree ==
  ASSUME NEW s, Sound(s), NEW path \in Paths,
         \A p \in Processes : s.process[p].running => s.process[p].path # path
  PROVE  Min(Free(s)) \in Free(s)
<1>1. Free(s) # {}
  <2> SUFFICES ASSUME Free(s) = {} PROVE FALSE
    OBVIOUS
  <2> DEFINE holder(p) == CHOOSE c \in Devices : s.clients[c].process = p
             number(p) == IF s.process[p].running THEN DeviceCount + s.process[p].path ELSE holder(p)
             of == [p \in Processes |-> number(p)]
             All == 1..(DeviceCount + PathCount)
             Other == All \ {DeviceCount + path}
  <2>1. \A p \in Processes : s.process[p].running \/ \E d \in Devices : s.clients[d].process = p
    BY DEF Free
  <2>2. \A p \in Processes : ~s.process[p].running =>
          holder(p) \in Devices /\ s.clients[holder(p)].process = p
    BY <2>1
  <2>3. \A p \in Processes : s.process[p].running =>
          s.process[p].path \in Paths /\ s.process[p].path # path /\ s.owner[s.process[p].path] = p
    BY DEF Sound
  <2> HIDE DEF holder
  <2>4. \A p \in Processes : number(p) \in Other
    <3> TAKE p \in Processes
    <3>1. CASE s.process[p].running
      BY <2>3, <3>1, Numbers
    <3>2. CASE ~s.process[p].running
      BY <2>2, <3>2, Numbers
    <3> QED BY <3>1, <3>2
  <2>5. \A p, q \in Processes : number(p) = number(q) => p = q
    <3> SUFFICES ASSUME NEW p \in Processes, NEW q \in Processes, number(p) = number(q)
                 PROVE  p = q
      OBVIOUS
    <3>1. CASE s.process[p].running /\ s.process[q].running
      <4>1. s.process[p].path = s.process[q].path
        BY <2>3, <3>1, Numbers
      <4> QED BY <2>3, <3>1, <4>1
    <3>2. CASE ~s.process[p].running /\ ~s.process[q].running
      BY <2>2, <3>2
    <3>3. CASE s.process[p].running /\ ~s.process[q].running
      BY <2>2, <2>3, <3>3, Numbers
    <3>4. CASE ~s.process[p].running /\ s.process[q].running
      BY <2>2, <2>3, <3>4, Numbers
    <3> QED BY <3>1, <3>2, <3>3, <3>4
  <2> HIDE DEF number
  <2>6. of \in [Processes -> Other]
    BY <2>4
  <2>7. PICK M \in Nat : M = DeviceCount + PathCount
    BY Numbers
  <2>8. PICK x \in 1..M : x = DeviceCount + path
    BY <2>7, Numbers
  <2>9. IsFiniteSet(Other) /\ Cardinality(Other) = M - 1
    <3>1. Other = (1..M) \ {x}
      BY <2>7, <2>8
    <3> HIDE DEF Other
    <3> QED BY <3>1, Others
  <2>10. Cardinality(Processes) \in Nat /\ IsFiniteSet(Processes)
    BY Numbers, FS_CardinalityType
  <2>11. Cardinality(Other) < Cardinality(Processes)
    <3>1. Cardinality(Processes) >= DeviceCount + PathCount
      BY ExtensionAssumption
    <3>2. DeviceCount \in Nat /\ PathCount \in Nat
      BY Numbers
    <3> QED BY <2>7, <2>9, <2>10, <3>1, <3>2
  <2> HIDE DEF Other
  <2>12. \E p, q \in Processes : p # q /\ of[p] = of[q]
    <3> HIDE DEF of
    <3> QED BY <2>6, <2>9, <2>10, <2>11, FS_PigeonHole
  <2> QED BY <2>5, <2>12
<1>2. Free(s) \in SUBSET Nat
  BY Numbers DEF Free
<1>3. \E x \in Free(s) : \A y \in Free(s) : x <= y
  BY <1>1, <1>2, Least
<1> QED BY <1>3 DEF Min

\* The new process of a config, its path and its timer.
Begun(s, t, p, path, c) ==
  /\ t \in ExtensionData /\ Kept(s, t)
  /\ t.process[p] = [running |-> TRUE, path |-> path, config |-> c, established |-> FALSE]
  /\ \A q \in Processes : q # p => t.process[q] = s.process[q]
  /\ \A q \in Paths : t.owner[q] = IF q = path THEN p ELSE s.owner[q]
  /\ t.clients[c].process = p /\ t.clients[c].timer = path
  /\ \A d \in Devices : d # c => t.clients[d] = s.clients[d]

LEMMA StartBegun ==
  ASSUME NEW s, s \in ExtensionData, NEW c \in Devices, NEW path \in Paths, NEW p \in Processes,
         NEW t, t = UpdateTimer(UpdateProcess(StartProcess(s, p, path, c), c, p), c, path)
  PROVE  Begun(s, t, p, path, c)
<1> DEFINE begun == [running |-> TRUE, path |-> path, config |-> c, established |-> FALSE]
           process == [s.process EXCEPT ![p] = begun]
           owner == [s.owner EXCEPT ![path] = p]
           k1 == [s.clients[c] EXCEPT !.process = p]
           k == [k1 EXCEPT !.timer = path]
           clients == [s.clients EXCEPT ![c] = k]
           started == [s EXCEPT !.process = process, !.owner = owner]
<1>1. s.clients[c] \in ClientState
  BY DEF ExtensionData
<1>2. begun \in ProcessData
  BY DEF ProcessData
<1>3. StartProcess(s, p, path, c) = started
  BY DEF StartProcess, ExtensionData
<1> HIDE DEF begun
<1>4. /\ k1 \in ClientState /\ k1.path = s.clients[c].path /\ k1.available = s.clients[c].available
      /\ k1.serial = s.clients[c].serial /\ k1.process = p
  BY <1>1 DEF ClientState
<1> HIDE DEF k1
<1>5. /\ k \in ClientState /\ k.path = s.clients[c].path /\ k.available = s.clients[c].available
      /\ k.serial = s.clients[c].serial /\ k.process = p /\ k.timer = path
  BY <1>4 DEF ClientState
<1>6. t = [started EXCEPT !.clients = clients]
  <2>1. started.clients = s.clients /\ started \in ExtensionData
    BY <1>2 DEF ExtensionData
  <2>2. t = [[started EXCEPT !.clients[c].process = p] EXCEPT !.clients[c].timer = path]
    BY <1>3 DEF UpdateTimer, UpdateProcess
  <2> HIDE DEF started
  <2> DEFINE m1 == [s.clients EXCEPT ![c] = k1]
             r1 == [started EXCEPT !.clients = m1]
  <2>3. [started EXCEPT !.clients[c].process = p] = r1
    BY <2>1 DEF ExtensionData, k1
  <2>4. r1.clients = m1 /\ m1[c] = k1
    BY <2>1 DEF ExtensionData
  <2>5. [r1 EXCEPT !.clients[c].timer = path] = [r1 EXCEPT !.clients = [m1 EXCEPT ![c] = k]]
    BY <2>1, <2>4 DEF ExtensionData
  <2>6. [m1 EXCEPT ![c] = k] = clients
    <3> HIDE DEF k
    <3> QED BY DEF ExtensionData
  <2>7. [r1 EXCEPT !.clients = [m1 EXCEPT ![c] = k]] = [started EXCEPT !.clients = clients]
    <3> HIDE DEF k, m1, clients
    <3> QED BY <2>1, <2>6 DEF ExtensionData
  <2> HIDE DEF m1, r1, k, clients
  <2> QED BY <2>2, <2>3, <2>5, <2>7
<1> HIDE DEF k
<1>7. /\ clients \in [Devices -> ClientState] /\ process \in [Processes -> ProcessData]
      /\ owner \in [Paths -> Processes \cup {none}]
      /\ \A d \in Devices : clients[d] = IF d = c THEN k ELSE s.clients[d]
      /\ \A q \in Processes : process[q] = IF q = p THEN begun ELSE s.process[q]
      /\ \A q \in Paths : owner[q] = IF q = path THEN p ELSE s.owner[q]
  BY <1>2, <1>5 DEF ExtensionData
<1> HIDE DEF clients, process, owner
<1>8. /\ t \in ExtensionData /\ t.clients = clients /\ t.process = process /\ t.owner = owner
      /\ t.deviceToConfig = s.deviceToConfig /\ t.resume = s.resume /\ t.suspended = s.suspended
      /\ t.widget = s.widget
  BY <1>6, <1>7 DEF ExtensionData
<1> HIDE DEF started
<1>9. Kept(s, t)
  BY <1>5, <1>7, <1>8 DEF Kept
<1> QED BY <1>5, <1>7, <1>8, <1>9 DEF Begun, begun

\* bridgeClientConnectToggled, to connect.
LEMMA ConnectSound ==
  ASSUME NEW s, Sound(s), NEW path \in Paths \cup {none}, NEW c \in Devices, NEW failing,
         NEW t, t = ConnectBridgeClient(s, path, c, failing)
  PROVE  Sound(t) /\ Kept(s, t) /\ (s.suspended => t = s)
<1> DEFINE manual == SetManuallyDisconnected(s, c, FALSE)
           stopped == StopForConnect(manual, path, c)
           p == Min(Free(stopped))
           failed == UpdateTimer(UpdateProcess(stopped, c, none), c, none)
           started == UpdateTimer(UpdateProcess(StartProcess(stopped, p, path, c), c, p), c, path)
<1>1. CASE s.suspended
  <2>1. t = s
    BY <1>1 DEF ConnectBridgeClient
  <2> QED BY <2>1 DEF Kept
<1>2. CASE ~s.suspended
  <2>1. Sound(manual) /\ Kept(s, manual)
    <3>1. manual \in ExtensionData /\ Same(s, manual)
      BY SetManuallySame DEF Sound
    <3> HIDE DEF manual
    <3> QED BY <3>1, SameSound DEF Same
  <2>2. CASE path = none
    <3>1. t = manual
      BY <1>2, <2>2 DEF ConnectBridgeClient
    <3> QED BY <1>2, <2>1, <3>1
  <2>3. CASE path # none
    <3> HIDE DEF manual
    <3>1. path \in Paths
      BY <2>3
    <3>2. /\ Sound(stopped) /\ Kept(manual, stopped)
          /\ \A q \in Processes : stopped.process[q].running => stopped.process[q].path # path
      BY <2>1, <3>1, StopForConnectSound
    <3> HIDE DEF stopped
    <3>3. Kept(s, stopped)
      BY <2>1, <3>2 DEF Kept
    <3>4. CASE c \in failing
      <4>1. t = SetConnected(failed, c, FALSE)
        BY <1>2, <2>3, <3>4 DEF ConnectBridgeClient, manual, stopped
      <4>2. failed \in ExtensionData /\ Kept(stopped, failed) /\ failed.process = stopped.process
            /\ failed.owner = stopped.owner
        <5>1. stopped \in ExtensionData
          BY <3>2 DEF Sound
        <5>2. failed = [stopped EXCEPT !.clients[c].process = none, !.clients[c].timer = none]
          BY DEF UpdateTimer, UpdateProcess
        <5> DEFINE k == [stopped.clients[c] EXCEPT !.process = none, !.timer = none]
                   clients == [stopped.clients EXCEPT ![c] = k]
        <5>3. failed = [stopped EXCEPT !.clients = clients]
          BY <5>1, <5>2, TwoFields, Zenon
        <5>4. stopped.clients[c] \in ClientState /\ stopped.clients \in [Devices -> ClientState]
          BY <5>1 DEF ExtensionData
        <5>5. k \in ClientState /\ k.path = stopped.clients[c].path
              /\ k.available = stopped.clients[c].available /\ k.serial = stopped.clients[c].serial
          BY <5>4 DEF ClientState
        <5> HIDE DEF k
        <5>6. clients \in [Devices -> ClientState]
              /\ \A d \in Devices : clients[d] = IF d = c THEN k ELSE stopped.clients[d]
          BY <5>4, <5>5
        <5> HIDE DEF clients, failed
        <5>7. /\ failed \in ExtensionData /\ failed.clients = clients
              /\ failed.process = stopped.process /\ failed.owner = stopped.owner
              /\ failed.deviceToConfig = stopped.deviceToConfig /\ failed.resume = stopped.resume
              /\ failed.suspended = stopped.suspended /\ failed.widget = stopped.widget
          BY <5>1, <5>3, <5>6 DEF ExtensionData
        <5> QED BY <5>5, <5>6, <5>7 DEF Kept
      <4> HIDE DEF failed
      <4>3. t \in ExtensionData /\ Same(failed, t)
        BY <4>1, <4>2, SetConnectedSame
      <4>4. Sound(t)
        BY <3>2, <4>2, <4>3, SameSound DEF Same
      <4>5. Kept(s, t)
        BY <3>3, <4>2, <4>3 DEF Kept, Same
      <4> QED BY <1>2, <4>4, <4>5
    <3>5. CASE c \notin failing
      <4>1. t = SetConnected(started, c, TRUE)
        BY <1>2, <2>3, <3>5 DEF ConnectBridgeClient, manual, stopped
      <4>2. p \in Processes /\ ~stopped.process[p].running
        BY <3>1, <3>2, SomeFree DEF Free
      <4> HIDE DEF p
      <4>3. Begun(stopped, started, p, path, c)
        BY <3>1, <3>2, <4>2, StartBegun DEF Sound
      <4> HIDE DEF started
      <4>4. Sound(started)
        <5> SUFFICES ASSUME NEW q \in Processes, started.process[q].running
                     PROVE  started.process[q].path \in Paths /\ started.owner[started.process[q].path] = q
          BY <4>3 DEF Sound, Begun
        <5>1. CASE q = p
          BY <3>1, <4>3, <5>1 DEF Begun
        <5>2. CASE q # p
          <6>1. started.process[q] = stopped.process[q]
            BY <4>3, <5>2 DEF Begun
          <6>2. stopped.process[q].path \in Paths /\ stopped.process[q].path # path
                /\ stopped.owner[stopped.process[q].path] = q
            BY <3>2, <6>1 DEF Sound
          <6> QED BY <4>3, <6>1, <6>2 DEF Begun
        <5> QED BY <5>1, <5>2
      <4>5. t \in ExtensionData /\ Same(started, t)
        BY <4>1, <4>3, SetConnectedSame DEF Begun
      <4>6. Sound(t)
        BY <4>4, <4>5, SameSound DEF Same
      <4>7. Kept(s, t)
        BY <3>3, <4>3, <4>5 DEF Kept, Same, Begun
      <4> QED BY <1>2, <4>6, <4>7
    <3> QED BY <3>4, <3>5
  <2> QED BY <2>2, <2>3
<1> QED BY <1>1, <1>2

(***************************************************************************)
(* The loops of the extension                                              *)
(***************************************************************************)

LEMMA StopLoop ==
  ASSUME NEW T, NEW s, s \in T[0],
         \A n \in 1..DeviceCount : \A r \in T[n - 1] : StopOne(r, n) \in T[n]
  PROVE  ForEach(StopOne, DeviceCount, s) \in T[DeviceCount]
<1> DEFINE All == UNION {T[n] : n \in 0..DeviceCount}
           F == [x \in All \X (1..DeviceCount) |-> StopOne(x[1], x[2])]
           Is(f) == f = [n \in 0..DeviceCount |-> IF n = 0 THEN s ELSE StopOne(f[n - 1], n)]
           after == CHOOSE f : Is(f)
<1>1. DeviceCount \in Nat
  BY Numbers
<1>2. \A n \in 1..DeviceCount : \A r \in T[n - 1] : F[<<r, n>>] = StopOne(r, n)
  <2> TAKE n \in 1..DeviceCount
  <2> TAKE r \in T[n - 1]
  <2>1. n - 1 \in 0..DeviceCount
    BY <1>1
  <2>2. r \in All
    BY <2>1
  <2> QED BY <2>2
<1>3. \E f : Is(f)
  <2> HIDE DEF F
  <2>1. \A n \in 1..DeviceCount : \A r \in T[n - 1] : F[<<r, n>>] \in T[n]
    BY <1>2
  <2>2. PICK f : Loops(f, DeviceCount, s, F) /\ \A n \in 0..DeviceCount : f[n] \in T[n]
    BY <1>1, <2>1, Turns
  <2>3. f = [n \in 0..DeviceCount |-> f[n]]
    BY <2>2 DEF Loops
  <2>4. \A n \in 0..DeviceCount : f[n] = IF n = 0 THEN s ELSE StopOne(f[n - 1], n)
    <3> TAKE n \in 0..DeviceCount
    <3>1. n # 0 => n \in 1..DeviceCount /\ n - 1 \in 0..DeviceCount
      BY <1>1
    <3> QED BY <1>2, <2>2, <3>1 DEF Loops
  <2>5. Is(f)
    BY <2>3, <2>4
  <2> QED BY <2>5
<1>4. Is(after)
  BY <1>3
<1>5. after[0] = s /\ \A n \in 1..DeviceCount : after[n] = StopOne(after[n - 1], n)
  <2> HIDE DEF after
  <2>1. \A n \in 0..DeviceCount : after[n] = IF n = 0 THEN s ELSE StopOne(after[n - 1], n)
    BY <1>4
  <2> QED BY <1>1, <2>1
<1>6. \A n \in 0..DeviceCount : after[n] \in T[n]
  <2> HIDE DEF F, after, Is
  <2> QED BY <1>1, <1>5, Stays
<1>7. ForEach(StopOne, DeviceCount, s) = after[DeviceCount]
  BY DEF ForEach
<1> HIDE DEF after
<1> QED BY <1>1, <1>6, <1>7

AllResumed(s, failing) == LET turn(r, n) == ResumeOne(r, n, failing) IN ForEach(turn, PathCount, s)

LEMMA ResumeLoop ==
  ASSUME NEW failing, NEW T, NEW s, s \in T[0],
         \A n \in 1..PathCount : \A r \in T[n - 1] : ResumeOne(r, n, failing) \in T[n]
  PROVE  AllResumed(s, failing) \in T[PathCount]
<1> DEFINE All == UNION {T[n] : n \in 0..PathCount}
           F == [x \in All \X (1..PathCount) |-> ResumeOne(x[1], x[2], failing)]
           Is(f) == f = [n \in 0..PathCount |-> IF n = 0 THEN s ELSE ResumeOne(f[n - 1], n, failing)]
           after == CHOOSE f : Is(f)
<1>1. PathCount \in Nat
  BY Numbers
<1>2. \A n \in 1..PathCount : \A r \in T[n - 1] : F[<<r, n>>] = ResumeOne(r, n, failing)
  <2> TAKE n \in 1..PathCount
  <2> TAKE r \in T[n - 1]
  <2>1. n - 1 \in 0..PathCount
    BY <1>1
  <2>2. r \in All
    BY <2>1
  <2> QED BY <2>2
<1>3. \E f : Is(f)
  <2> HIDE DEF F
  <2>1. \A n \in 1..PathCount : \A r \in T[n - 1] : F[<<r, n>>] \in T[n]
    BY <1>2
  <2>2. PICK f : Loops(f, PathCount, s, F) /\ \A n \in 0..PathCount : f[n] \in T[n]
    BY <1>1, <2>1, Turns
  <2>3. f = [n \in 0..PathCount |-> f[n]]
    BY <2>2 DEF Loops
  <2>4. \A n \in 0..PathCount : f[n] = IF n = 0 THEN s ELSE ResumeOne(f[n - 1], n, failing)
    <3> TAKE n \in 0..PathCount
    <3>1. n # 0 => n \in 1..PathCount /\ n - 1 \in 0..PathCount
      BY <1>1
    <3> QED BY <1>2, <2>2, <3>1 DEF Loops
  <2>5. Is(f)
    BY <2>3, <2>4
  <2> QED BY <2>5
<1>4. Is(after)
  BY <1>3
<1>5. after[0] = s /\ \A n \in 1..PathCount : after[n] = ResumeOne(after[n - 1], n, failing)
  <2> HIDE DEF after
  <2>1. \A n \in 0..PathCount : after[n] = IF n = 0 THEN s ELSE ResumeOne(after[n - 1], n, failing)
    BY <1>4
  <2> QED BY <1>1, <2>1
<1>6. \A n \in 0..PathCount : after[n] \in T[n]
  <2> HIDE DEF F, after, Is
  <2> QED BY <1>1, <1>5, Stays
<1>7. AllResumed(s, failing) = after[PathCount]
  BY DEF AllResumed, ForEach
<1> HIDE DEF after
<1> QED BY <1>1, <1>6, <1>7

AllConnected(s, failing) == LET turn(r, n) == AutoConnectOne(r, n, failing) IN ForEach(turn, DeviceCount, s)

LEMMA AutoConnectLoop ==
  ASSUME NEW failing, NEW T, NEW s, s \in T[0],
         \A n \in 1..DeviceCount : \A r \in T[n - 1] : AutoConnectOne(r, n, failing) \in T[n]
  PROVE  AllConnected(s, failing) \in T[DeviceCount]
<1> DEFINE All == UNION {T[n] : n \in 0..DeviceCount}
           F == [x \in All \X (1..DeviceCount) |-> AutoConnectOne(x[1], x[2], failing)]
           Is(f) == f = [n \in 0..DeviceCount |-> IF n = 0 THEN s ELSE AutoConnectOne(f[n - 1], n, failing)]
           after == CHOOSE f : Is(f)
<1>1. DeviceCount \in Nat
  BY Numbers
<1>2. \A n \in 1..DeviceCount : \A r \in T[n - 1] : F[<<r, n>>] = AutoConnectOne(r, n, failing)
  <2> TAKE n \in 1..DeviceCount
  <2> TAKE r \in T[n - 1]
  <2>1. n - 1 \in 0..DeviceCount
    BY <1>1
  <2>2. r \in All
    BY <2>1
  <2> QED BY <2>2
<1>3. \E f : Is(f)
  <2> HIDE DEF F
  <2>1. \A n \in 1..DeviceCount : \A r \in T[n - 1] : F[<<r, n>>] \in T[n]
    BY <1>2
  <2>2. PICK f : Loops(f, DeviceCount, s, F) /\ \A n \in 0..DeviceCount : f[n] \in T[n]
    BY <1>1, <2>1, Turns
  <2>3. f = [n \in 0..DeviceCount |-> f[n]]
    BY <2>2 DEF Loops
  <2>4. \A n \in 0..DeviceCount : f[n] = IF n = 0 THEN s ELSE AutoConnectOne(f[n - 1], n, failing)
    <3> TAKE n \in 0..DeviceCount
    <3>1. n # 0 => n \in 1..DeviceCount /\ n - 1 \in 0..DeviceCount
      BY <1>1
    <3> QED BY <1>2, <2>2, <3>1 DEF Loops
  <2>5. Is(f)
    BY <2>3, <2>4
  <2> QED BY <2>5
<1>4. Is(after)
  BY <1>3
<1>5. after[0] = s /\ \A n \in 1..DeviceCount : after[n] = AutoConnectOne(after[n - 1], n, failing)
  <2> HIDE DEF after
  <2>1. \A n \in 0..DeviceCount : after[n] = IF n = 0 THEN s ELSE AutoConnectOne(after[n - 1], n, failing)
    BY <1>4
  <2> QED BY <1>1, <2>1
<1>6. \A n \in 0..DeviceCount : after[n] \in T[n]
  <2> HIDE DEF F, after, Is
  <2> QED BY <1>1, <1>5, Stays
<1>7. AllConnected(s, failing) = after[DeviceCount]
  BY DEF AllConnected, ForEach
<1> HIDE DEF after
<1> QED BY <1>1, <1>6, <1>7

LEMMA UpdateLoop ==
  ASSUME NEW failing, NEW T, NEW s, s \in T[0],
         \A n \in 1..DeviceCount : \A r \in T[n - 1] : UpdateOne(r, n, failing) \in T[n]
  PROVE  UpdateDeviceStates(s, failing) \in T[DeviceCount]
<1> DEFINE All == UNION {T[n] : n \in 0..DeviceCount}
           F == [x \in All \X (1..DeviceCount) |-> UpdateOne(x[1], x[2], failing)]
           Is(f) == f = [n \in 0..DeviceCount |-> IF n = 0 THEN s ELSE UpdateOne(f[n - 1], n, failing)]
           after == CHOOSE f : Is(f)
<1>1. DeviceCount \in Nat
  BY Numbers
<1>2. \A n \in 1..DeviceCount : \A r \in T[n - 1] : F[<<r, n>>] = UpdateOne(r, n, failing)
  <2> TAKE n \in 1..DeviceCount
  <2> TAKE r \in T[n - 1]
  <2>1. n - 1 \in 0..DeviceCount
    BY <1>1
  <2>2. r \in All
    BY <2>1
  <2> QED BY <2>2
<1>3. \E f : Is(f)
  <2> HIDE DEF F
  <2>1. \A n \in 1..DeviceCount : \A r \in T[n - 1] : F[<<r, n>>] \in T[n]
    BY <1>2
  <2>2. PICK f : Loops(f, DeviceCount, s, F) /\ \A n \in 0..DeviceCount : f[n] \in T[n]
    BY <1>1, <2>1, Turns
  <2>3. f = [n \in 0..DeviceCount |-> f[n]]
    BY <2>2 DEF Loops
  <2>4. \A n \in 0..DeviceCount : f[n] = IF n = 0 THEN s ELSE UpdateOne(f[n - 1], n, failing)
    <3> TAKE n \in 0..DeviceCount
    <3>1. n # 0 => n \in 1..DeviceCount /\ n - 1 \in 0..DeviceCount
      BY <1>1
    <3> QED BY <1>2, <2>2, <3>1 DEF Loops
  <2>5. Is(f)
    BY <2>3, <2>4
  <2> QED BY <2>5
<1>4. Is(after)
  BY <1>3
<1>5. after[0] = s /\ \A n \in 1..DeviceCount : after[n] = UpdateOne(after[n - 1], n, failing)
  <2> HIDE DEF after
  <2>1. \A n \in 0..DeviceCount : after[n] = IF n = 0 THEN s ELSE UpdateOne(after[n - 1], n, failing)
    BY <1>4
  <2> QED BY <1>1, <2>1
<1>6. \A n \in 0..DeviceCount : after[n] \in T[n]
  <2> HIDE DEF F, after, Is
  <2> QED BY <1>1, <1>5, Stays
<1>7. UpdateDeviceStates(s, failing) = after[DeviceCount]
  BY DEF UpdateDeviceStates, ForEach
<1> HIDE DEF after
<1> QED BY <1>1, <1>6, <1>7


(***************************************************************************)
(* The handlers, wherever the devices go                                   *)
(***************************************************************************)

\* A handler starts a core only while the tool is closed and the server is
\* ready, and makes nothing wait to be resumed.
Proper(s, t) ==
  /\ Sound(t) /\ t.suspended = s.suspended
  /\ \A q \in Paths : t.resume[q] \in {none, s.resume[q]}
  /\ Fewer(s, t) \/ (~s.suspended /\ Ready(core))

LEMMA SameTransitive ==
  ASSUME NEW s, NEW t, NEW u, Same(s, t), Same(t, u)
  PROVE  Same(s, u)
BY DEF Kept, Same

LEMMA ProperAfter ==
  ASSUME NEW s, NEW t, NEW u, Proper(s, t), Proper(t, u)
  PROVE  Proper(s, u)
BY DEF Proper, Fewer

LEMMA LessProper ==
  ASSUME NEW s, NEW t, Sound(t), Kept(s, t), Less(s, t)
  PROVE  Proper(s, t)
BY DEF Proper, Kept, Less, Fewer

\* What does not touch the processes.
LEMMA AsideProper ==
  ASSUME NEW s, Sound(s), NEW t, t \in ExtensionData, t.process = s.process, t.owner = s.owner,
         t.suspended = s.suspended, \A q \in Paths : t.resume[q] \in {none, s.resume[q]}
  PROVE  Proper(s, t)
BY SameSound DEF Proper

LEMMA SameProper ==
  ASSUME NEW s, Sound(s), NEW t, t \in ExtensionData, Same(s, t)
  PROVE  Proper(s, t)
BY AsideProper DEF Same, Kept

LEMMA ConnectProper ==
  ASSUME NEW s, Sound(s), NEW path \in Paths \cup {none}, NEW c \in Devices, NEW failing,
         Ready(core), NEW t, t = ConnectBridgeClient(s, path, c, failing)
  PROVE  Proper(s, t)
<1>1. Sound(t) /\ Kept(s, t) /\ (s.suspended => t = s)
  BY ConnectSound
<1> QED BY <1>1 DEF Proper, Kept, Fewer

LEMMA StopProper ==
  ASSUME NEW s, Sound(s), NEW path \in Paths \cup {none}, NEW t, t = StopBridgeClient(s, path)
  PROVE  Proper(s, t)
BY StopSound, LessProper

LEMMA Greatest ==
  ASSUME NEW S, S \in SUBSET Devices, S # {}
  PROVE  LastOf(S) \in S /\ \A y \in S : LastOf(S) >= y
<1> DEFINE N == DeviceCount
           T == {n \in 0..N : N - n \in S}
<1>1. N \in Nat /\ S \subseteq 1..N
  BY Numbers
<1> HIDE DEF N
<1>2. T \in SUBSET Nat /\ T # {}
  <2>1. PICK x \in S : TRUE
    OBVIOUS
  <2>2. x \in 1..N
    BY <1>1, <2>1
  <2>3. N - x \in 0..N /\ N - (N - x) = x
    BY <1>1, <2>2
  <2>4. N - x \in T
    BY <2>1, <2>3
  <2> QED BY <1>1, <2>4
<1>3. PICK n \in T : \A m \in T : n <= m
  <2> HIDE DEF T
  <2> QED BY <1>2, Least
<1>4. N - n \in S
  BY <1>3
<1>5. \A y \in S : N - n >= y
  <2> TAKE y \in S
  <2>1. y \in 1..N
    BY <1>1
  <2>2. N - y \in 0..N /\ N - (N - y) = y
    BY <1>1, <2>1
  <2>3. N - y \in T
    BY <2>2
  <2>4. n <= N - y /\ n \in Nat
    BY <1>1, <1>3, <2>3
  <2> QED BY <1>1, <2>1, <2>4
<1>6. \E x \in S : \A y \in S : x >= y
  BY <1>4, <1>5
<1> QED BY <1>6 DEF LastOf, Max

\* setDeviceAvailable leaves the processes alone.
Aside(s, t) ==
  /\ t \in ExtensionData /\ t.process = s.process /\ t.owner = s.owner /\ t.widget = s.widget
  /\ t.resume = s.resume /\ t.suspended = s.suspended
  /\ \A c \in Devices : t.clients[c].process = s.clients[c].process
                         /\ t.clients[c].timer = s.clients[c].timer

\* What setDeviceAvailable makes of the configs and of the path.
Noticed(s, t, path, d, on) ==
  LET meant == Meant(s, path, d)
  IN /\ \A c \in Devices :
          IF c \in meant
          THEN t.clients[c].path = path /\ t.clients[c].serial = d /\ t.clients[c].available = on
          ELSE t.clients[c] = s.clients[c]
     /\ \A q \in Paths : q # path => t.deviceToConfig[q] = s.deviceToConfig[q]
     /\ t.deviceToConfig[path] = IF meant = {} THEN s.deviceToConfig[path]
                                 ELSE IF on THEN LastOf(meant) ELSE none

LEMMA AvailableAside ==
  ASSUME NEW s, s \in ExtensionData, NEW d \in Devices, NEW path \in Paths, NEW on \in BOOLEAN,
         NEW t, t = SetDeviceAvailable(s, path, d, on)
  PROVE  Aside(s, t) /\ Noticed(s, t, path, d, on)
<1> DEFINE meant == Meant(s, path, d)
           k(c) == [s.clients[c] EXCEPT !.path = path, !.serial = d, !.available = on]
           of(c) == IF c \notin meant THEN s.clients[c] ELSE k(c)
           clients == [c \in Devices |-> of(c)]
           at == IF meant = {} THEN s.deviceToConfig[path] ELSE IF on THEN LastOf(meant) ELSE none
           to == [s.deviceToConfig EXCEPT ![path] = at]
<1>1. t = [s EXCEPT !.clients = clients, !.deviceToConfig[path] = at]
  BY DEF SetDeviceAvailable
<1>2. meant \in SUBSET Devices
  BY DEF Meant
<1> HIDE DEF meant
<1>3. at \in Devices \cup {none}
  BY <1>2, Greatest DEF ExtensionData
<1> HIDE DEF at
<1>4. \A c \in Devices :
        /\ k(c) \in ClientState /\ k(c).path = path /\ k(c).serial = d /\ k(c).available = on
        /\ k(c).process = s.clients[c].process /\ k(c).timer = s.clients[c].timer
  <2> TAKE c \in Devices
  <2>1. s.clients[c] \in ClientState
    BY DEF ExtensionData
  <2> DEFINE k1 == [s.clients[c] EXCEPT !.path = path]
             k2 == [k1 EXCEPT !.serial = d]
             k3 == [k2 EXCEPT !.available = on]
  <2>2. k1 \in ClientState /\ k1.path = path /\ k1.process = s.clients[c].process
        /\ k1.timer = s.clients[c].timer
    BY <2>1 DEF ClientState
  <2> HIDE DEF k1
  <2>3. k2 \in ClientState /\ k2.path = path /\ k2.process = s.clients[c].process
        /\ k2.timer = s.clients[c].timer /\ k2.serial = d
    BY <2>2 DEF ClientState
  <2> HIDE DEF k2
  <2>4. k3 \in ClientState /\ k3.path = path /\ k3.process = s.clients[c].process
        /\ k3.timer = s.clients[c].timer /\ k3.serial = d /\ k3.available = on
    BY <2>3 DEF ClientState
  <2>5. k(c) = k3
    BY DEF k1, k2
  <2> HIDE DEF k, k3
  <2> QED BY <2>4, <2>5
<1> HIDE DEF k
<1>5. \A c \in Devices : of(c) \in ClientState /\ of(c).process = s.clients[c].process
        /\ of(c).timer = s.clients[c].timer
  BY <1>4 DEF ExtensionData
<1>6. \A c \in Devices : IF c \in meant THEN of(c).path = path /\ of(c).serial = d /\ of(c).available = on
                         ELSE of(c) = s.clients[c]
  BY <1>4
<1> HIDE DEF of
<1>7. clients \in [Devices -> ClientState] /\ \A c \in Devices : clients[c] = of(c)
  BY <1>5
<1>8. to \in [Paths -> Devices \cup {none}]
      /\ \A q \in Paths : to[q] = IF q = path THEN at ELSE s.deviceToConfig[q]
  BY <1>3 DEF ExtensionData
<1> HIDE DEF clients
<1>9. t = [s EXCEPT !.clients = clients, !.deviceToConfig = to]
  BY <1>1 DEF ExtensionData
<1> HIDE DEF to
<1>10. /\ t \in ExtensionData /\ t.process = s.process /\ t.owner = s.owner /\ t.widget = s.widget
       /\ t.resume = s.resume /\ t.suspended = s.suspended /\ t.clients = clients
       /\ t.deviceToConfig = to
  BY <1>7, <1>8, <1>9 DEF ExtensionData
<1>11. Aside(s, t)
  BY <1>5, <1>7, <1>10 DEF Aside
<1>12. \A c \in Devices :
         IF c \in meant
         THEN t.clients[c].path = path /\ t.clients[c].serial = d /\ t.clients[c].available = on
         ELSE t.clients[c] = s.clients[c]
  BY <1>6, <1>7, <1>10
<1>13. /\ \A q \in Paths : q # path => t.deviceToConfig[q] = s.deviceToConfig[q]
       /\ t.deviceToConfig[path] = at
  BY <1>8, <1>10
<1>14. Noticed(s, t, path, d, on)
  BY <1>12, <1>13 DEF Noticed, meant, at
<1> QED BY <1>11, <1>14

LEMMA AvailableProper ==
  ASSUME NEW s, Sound(s), NEW d \in Devices, NEW path \in Paths, NEW on \in BOOLEAN,
         NEW t, t = SetDeviceAvailable(s, path, d, on)
  PROVE  Proper(s, t)
<1>1. Aside(s, t)
  BY AvailableAside DEF Sound
<1> QED BY <1>1, AsideProper DEF Aside

\* The widget of a config shows a path, or none.
LEMMA SetPathFields ==
  ASSUME NEW s, s \in ExtensionData, NEW c \in Devices, NEW path \in Paths \cup {none},
         NEW t, t = SetPath(s, c, path)
  PROVE  /\ t \in ExtensionData /\ t.process = s.process /\ t.owner = s.owner
         /\ t.suspended = s.suspended /\ t.clients = s.clients
         /\ t.deviceToConfig = s.deviceToConfig /\ t.resume = s.resume /\ t.widget[c].path = path
         /\ \A d \in Devices : d # c => t.widget[d] = s.widget[d]
<1> DEFINE w == [s.widget[c] EXCEPT !.path = path]
           widget == [s.widget EXCEPT ![c] = w]
<1>1. w \in [path : Paths \cup {none}, connected : BOOLEAN] /\ w.path = path
  BY DEF ExtensionData
<1>2. t = [s EXCEPT !.widget = widget]
  BY DEF SetPath, ExtensionData
<1> HIDE DEF w
<1>3. /\ widget \in [Devices -> [path : Paths \cup {none}, connected : BOOLEAN]]
      /\ \A d \in Devices : widget[d] = IF d = c THEN w ELSE s.widget[d]
  BY <1>1 DEF ExtensionData
<1> HIDE DEF widget
<1> QED BY <1>1, <1>2, <1>3 DEF ExtensionData

LEMMA SetPathProper ==
  ASSUME NEW s, Sound(s), NEW c \in Devices, NEW path \in Paths \cup {none},
         NEW t, t = SetPath(s, c, path)
  PROVE  Proper(s, t)
<1>1. /\ t \in ExtensionData /\ t.process = s.process /\ t.owner = s.owner
      /\ t.suspended = s.suspended /\ t.resume = s.resume
  BY SetPathFields DEF Sound
<1> QED BY <1>1, AsideProper

LEMMA ClearAttemptsSame ==
  ASSUME NEW s, s \in ExtensionData, NEW c \in Devices
  PROVE  ClearAttempts(s, c) \in ExtensionData /\ Same(s, ClearAttempts(s, c))
<1>1. 0 \in 0..3
  OBVIOUS
<1> QED BY <1>1, AttemptsSame DEF ClearAttempts

LEMMA IncrementSame ==
  ASSUME NEW s, s \in ExtensionData, NEW c \in Devices, MayRetry(s, c)
  PROVE  IncrementAttempts(s, c) \in ExtensionData /\ Same(s, IncrementAttempts(s, c))
<1>1. s.clients[c].attempts \in 0..3 /\ s.clients[c].attempts < 3
  BY DEF MayRetry, ExtensionData, ClientState
<1>2. s.clients[c].attempts + 1 \in 0..3
  BY <1>1
<1>3. IncrementAttempts(s, c) = [s EXCEPT !.clients[c].attempts = s.clients[c].attempts + 1]
  BY DEF IncrementAttempts
<1> QED BY <1>2, <1>3, AttemptsSame

LEMMA UsbDeviceConnectedProper ==
  ASSUME NEW s, Sound(s), NEW d \in Devices, NEW path \in Paths, NEW failing,
         NEW t, t = UsbDeviceConnected(s, path, d, failing)
  PROVE  Proper(s, t)
<1> DEFINE found == SetDeviceAvailable(s, path, d, TRUE)
           known == SetPath(found, d, path)
           wanted == SetManuallyDisconnected(known, d, FALSE)
           ready == ClearAttempts(wanted, d)
<1>1. t = ready \/ (t = ConnectBridgeClient(ready, path, d, failing) /\ Ready(core))
  BY DEF UsbDeviceConnected
<1>2. Proper(s, found)
  BY AvailableProper
<1> HIDE DEF found
<1>3. Proper(found, known)
  BY <1>2, SetPathProper DEF Proper
<1> HIDE DEF known
<1>4. wanted \in ExtensionData /\ Proper(known, wanted)
  <2>1. Sound(known) /\ known \in ExtensionData
    BY <1>3 DEF Proper, Sound
  <2>2. wanted \in ExtensionData /\ Same(known, wanted)
    BY <2>1, SetManuallySame
  <2> HIDE DEF wanted
  <2> QED BY <2>1, <2>2, SameProper
<1> HIDE DEF wanted
<1>5. Proper(wanted, ready)
  <2>1. ready \in ExtensionData /\ Same(wanted, ready)
    BY <1>4, ClearAttemptsSame
  <2> HIDE DEF ready
  <2> QED BY <1>4, <2>1, SameProper DEF Proper
<1> HIDE DEF ready
<1>6. Proper(s, ready)
  BY <1>2, <1>3, <1>4, <1>5, ProperAfter
<1>7. CASE t = ready
  BY <1>6, <1>7
<1>8. CASE t = ConnectBridgeClient(ready, path, d, failing) /\ Ready(core)
  <2>1. Proper(ready, t)
    BY <1>6, <1>8, ConnectProper DEF Proper
  <2> QED BY <1>6, <2>1, ProperAfter
<1> QED BY <1>1, <1>7, <1>8

LEMMA UsbDeviceDisconnectedProper ==
  ASSUME NEW s, Sound(s), NEW d \in Devices, NEW path \in Paths,
         NEW t, t = UsbDeviceDisconnected(s, path, d)
  PROVE  Proper(s, t) /\ Fewer(s, t)
<1> DEFINE c == ByDevice(s, path)
           stopped == IF Running(s, c) THEN StopBridgeClient(s, path) ELSE s
           hidden == IF c = none THEN stopped ELSE SetPath(stopped, c, none)
           u == SetDeviceAvailable(hidden, path, d, FALSE)
<1>1. Sound(stopped) /\ Kept(s, stopped) /\ Less(s, stopped)
  <2>1. Kept(s, s) /\ Less(s, s)
    BY DEF Kept, Less
  <2> QED BY <2>1, StopSound
<1> HIDE DEF stopped
<1>2. /\ Sound(hidden) /\ hidden.process = stopped.process /\ hidden.owner = stopped.owner
      /\ hidden.resume = stopped.resume /\ hidden.suspended = stopped.suspended
  <2>1. CASE c = none
    BY <1>1, <2>1
  <2>2. CASE c # none
    <3>1. c \in Devices
      BY <2>2 DEF ByDevice, Sound, ExtensionData
    <3>2. hidden = SetPath(stopped, c, none) /\ stopped \in ExtensionData
      BY <1>1, <2>2 DEF Sound
    <3> HIDE DEF hidden, c
    <3>3. /\ hidden \in ExtensionData /\ hidden.process = stopped.process
          /\ hidden.owner = stopped.owner /\ hidden.resume = stopped.resume
          /\ hidden.suspended = stopped.suspended
      BY <3>1, <3>2, SetPathFields
    <3> QED BY <1>1, <3>3, SameSound
  <2> QED BY <2>1, <2>2
<1> HIDE DEF hidden
<1>3. Aside(hidden, u)
  BY <1>2, AvailableAside DEF Sound
<1>4. t = [u EXCEPT !.resume[path] = none]
  BY DEF UsbDeviceDisconnected, u, hidden, stopped
<1> HIDE DEF u
<1>5. /\ t \in ExtensionData /\ t.process = u.process /\ t.owner = u.owner
      /\ t.suspended = u.suspended /\ \A q \in Paths : t.resume[q] \in {none, u.resume[q]}
  <2> DEFINE resume == [u.resume EXCEPT ![path] = none]
  <2>1. u \in ExtensionData
    BY <1>3 DEF Aside
  <2>2. resume \in [Paths -> Devices \cup {none}] /\ \A q \in Paths : resume[q] \in {none, u.resume[q]}
    BY <2>1 DEF ExtensionData
  <2>3. t = [u EXCEPT !.resume = resume]
    BY <1>4, <2>1 DEF ExtensionData
  <2> HIDE DEF resume
  <2> QED BY <2>1, <2>2, <2>3 DEF ExtensionData
<1>6. t.process = hidden.process /\ t.owner = hidden.owner /\ t.suspended = s.suspended
      /\ \A q \in Paths : t.resume[q] \in {none, s.resume[q]}
  BY <1>1, <1>2, <1>3, <1>5 DEF Aside, Kept
<1>7. Sound(t) /\ Fewer(hidden, t)
  BY <1>2, <1>5, <1>6, SameSound
<1>8. Fewer(s, t)
  BY <1>1, <1>2, <1>7 DEF Fewer, Less
<1> QED BY <1>6, <1>7, <1>8 DEF Proper

LEMMA EstablishedFields ==
  ASSUME NEW s, s \in ExtensionData, NEW path \in Paths \cup {none},
         NEW t, t = HandleConnectionEstablished(s, path)
  PROVE  t \in ExtensionData /\ Kept(s, t) /\ t.process = s.process /\ t.owner = s.owner
<1> DEFINE c == ByDevice(s, path)
           k1 == [s.clients[c] EXCEPT !.attempts = 0]
           k == [k1 EXCEPT !.timer = none]
           clients == [s.clients EXCEPT ![c] = k]
<1>1. CASE c = none
  BY <1>1 DEF HandleConnectionEstablished, Kept
<1>2. CASE c # none
  <2>1. c \in Devices
    BY <1>2 DEF ByDevice, ExtensionData
  <2>2. t = [[s EXCEPT !.clients[c].attempts = 0] EXCEPT !.clients[c].timer = none]
    BY <1>2 DEF HandleConnectionEstablished
  <2> HIDE DEF c
  <2>3. s.clients[c] \in ClientState
    BY <2>1 DEF ExtensionData
  <2>4. k1 \in ClientState /\ k1.path = s.clients[c].path /\ k1.available = s.clients[c].available
        /\ k1.serial = s.clients[c].serial
    BY <2>3 DEF ClientState
  <2> DEFINE m1 == [s.clients EXCEPT ![c] = k1]
             r1 == [s EXCEPT !.clients = m1]
  <2>5. [s EXCEPT !.clients[c].attempts = 0] = r1
    BY <2>1 DEF ExtensionData
  <2> HIDE DEF k1
  <2>6. r1.clients = m1 /\ m1[c] = k1
    BY <2>1 DEF ExtensionData
  <2>7. [r1 EXCEPT !.clients[c].timer = none] = [r1 EXCEPT !.clients = [m1 EXCEPT ![c] = k]]
    BY <2>1, <2>6 DEF ExtensionData
  <2>8. [m1 EXCEPT ![c] = k] = clients
    <3> HIDE DEF k
    <3> QED BY <2>1 DEF ExtensionData
  <2>9. [r1 EXCEPT !.clients = [m1 EXCEPT ![c] = k]] = [s EXCEPT !.clients = clients]
    <3> HIDE DEF k, m1, clients
    <3> QED BY <2>8 DEF ExtensionData
  <2>10. t = [s EXCEPT !.clients = clients]
    <3> HIDE DEF m1, r1, k, clients
    <3> QED BY <2>2, <2>5, <2>7, <2>9
  <2>11. k \in ClientState /\ k.path = s.clients[c].path /\ k.available = s.clients[c].available
         /\ k.serial = s.clients[c].serial
    BY <2>4 DEF ClientState
  <2> HIDE DEF k, m1, r1
  <2>12. clients \in [Devices -> ClientState]
         /\ \A d \in Devices : clients[d] = IF d = c THEN k ELSE s.clients[d]
    BY <2>1, <2>11 DEF ExtensionData
  <2> HIDE DEF clients
  <2>13. /\ t \in ExtensionData /\ t.clients = clients /\ t.process = s.process /\ t.owner = s.owner
         /\ t.deviceToConfig = s.deviceToConfig /\ t.resume = s.resume /\ t.suspended = s.suspended
         /\ t.widget = s.widget
    BY <2>10, <2>12 DEF ExtensionData
  <2> QED BY <2>11, <2>12, <2>13 DEF Kept
<1> QED BY <1>1, <1>2

LEMMA ConnectionEstablishedProper ==
  ASSUME NEW s, Sound(s), NEW p \in Processes, s.process[p].running,
         NEW t, t = [HandleConnectionEstablished(s, s.process[p].path) EXCEPT !.process[p].established = TRUE]
  PROVE  Proper(s, t)
<1> DEFINE told == HandleConnectionEstablished(s, s.process[p].path)
           it == [s.process[p] EXCEPT !.established = TRUE]
           process == [s.process EXCEPT ![p] = it]
<1>1. s \in ExtensionData /\ s.process[p].path \in Paths
  BY DEF Sound
<1>2. told \in ExtensionData /\ Kept(s, told) /\ told.process = s.process /\ told.owner = s.owner
  BY <1>1, EstablishedFields
<1>3. t = [told EXCEPT !.process = process]
  <2> HIDE DEF told
  <2>1. t = [told EXCEPT !.process[p].established = TRUE]
    BY DEF told
  <2> QED BY <1>2, <2>1 DEF ExtensionData
<1> HIDE DEF told
<1>4. it \in ProcessData /\ it.running = s.process[p].running /\ it.path = s.process[p].path
  BY <1>1 DEF ExtensionData, ProcessData
<1> HIDE DEF it
<1>5. /\ process \in [Processes -> ProcessData]
      /\ \A q \in Processes : process[q] = IF q = p THEN it ELSE s.process[q]
  BY <1>1, <1>4 DEF ExtensionData
<1> HIDE DEF process
<1>6. /\ t \in ExtensionData /\ t.process = process /\ t.owner = s.owner
      /\ t.resume = told.resume /\ t.suspended = told.suspended
  BY <1>2, <1>3, <1>5 DEF ExtensionData
<1>7. \A q \in Processes : t.process[q].running = s.process[q].running
        /\ t.process[q].path = s.process[q].path
  BY <1>4, <1>5, <1>6
<1>8. Sound(t)
  BY <1>6, <1>7 DEF Sound
<1> QED BY <1>2, <1>6, <1>7, <1>8 DEF Proper, Fewer, Kept

LEMMA HandshakeSame ==
  ASSUME NEW s, s \in ExtensionData, NEW c \in Devices,
         NEW t, t = SetConnected(SetManuallyDisconnected([s EXCEPT !.auto[c] = FALSE], c, TRUE), c, FALSE)
  PROVE  t \in ExtensionData /\ Same(s, t)
<1> DEFINE off == [s EXCEPT !.auto[c] = FALSE]
           manual == SetManuallyDisconnected(off, c, TRUE)
<1>1. off \in ExtensionData /\ Same(s, off)
  <2> DEFINE auto == [s.auto EXCEPT ![c] = FALSE]
  <2>1. auto \in [Devices -> BOOLEAN] /\ off = [s EXCEPT !.auto = auto]
    BY DEF ExtensionData
  <2> HIDE DEF auto
  <2> QED BY <2>1 DEF ExtensionData, Same, Kept
<1> HIDE DEF off
<1>2. manual \in ExtensionData /\ Same(off, manual)
  BY <1>1, SetManuallySame
<1> HIDE DEF manual
<1>3. t \in ExtensionData /\ Same(manual, t)
  <2>1. t = SetConnected(manual, c, FALSE)
    BY DEF off, manual
  <2> QED BY <1>2, <2>1, SetConnectedSame
<1>4. Same(s, manual)
  BY <1>1, <1>2, SameTransitive
<1> QED BY <1>3, <1>4, SameTransitive

\* The connection timer of a config stops.
LEMMA TimerFields ==
  ASSUME NEW s, s \in ExtensionData, NEW c \in Devices, NEW t, t = UpdateTimer(s, c, none)
  PROVE  /\ t \in ExtensionData /\ Kept(s, t) /\ t.process = s.process /\ t.owner = s.owner
         /\ \A d \in Devices :
              /\ t.clients[d].process = s.clients[d].process
              /\ t.clients[d].timer \in {none, s.clients[d].timer}
<1> DEFINE k == [s.clients[c] EXCEPT !.timer = none]
           clients == [s.clients EXCEPT ![c] = k]
<1>1. s.clients[c] \in ClientState
  BY DEF ExtensionData
<1>2. k \in ClientState /\ k.path = s.clients[c].path /\ k.available = s.clients[c].available
      /\ k.serial = s.clients[c].serial /\ k.process = s.clients[c].process /\ k.timer = none
  BY <1>1 DEF ClientState
<1>3. t = [s EXCEPT !.clients = clients]
  BY DEF UpdateTimer, ExtensionData
<1> HIDE DEF k
<1>4. clients \in [Devices -> ClientState] /\ \A d \in Devices : clients[d] = IF d = c THEN k ELSE s.clients[d]
  BY <1>1, <1>2 DEF ExtensionData
<1> HIDE DEF clients
<1>5. /\ t \in ExtensionData /\ t.clients = clients /\ t.process = s.process /\ t.owner = s.owner
      /\ t.deviceToConfig = s.deviceToConfig /\ t.resume = s.resume /\ t.suspended = s.suspended
      /\ t.widget = s.widget
  BY <1>3, <1>4 DEF ExtensionData
<1> QED BY <1>2, <1>4, <1>5 DEF Kept

LEMMA ConnectionTimeoutProper ==
  ASSUME NEW s, Sound(s), NEW c \in Devices, NEW path, path = s.clients[c].timer,
         NEW fired, fired = UpdateTimer(s, c, none),
         NEW t, t = IF Running(fired, ByDevice(fired, path)) THEN StopBridgeClient(fired, path) ELSE fired
  PROVE  Proper(s, t)
<1>1. path \in Paths \cup {none} /\ s \in ExtensionData
  BY DEF Sound, ExtensionData, ClientState
<1>2. fired \in ExtensionData /\ Kept(s, fired) /\ fired.process = s.process /\ fired.owner = s.owner
  BY <1>1, TimerFields
<1>3. Proper(s, fired) /\ Sound(fired)
  BY <1>2, AsideProper, SameSound DEF Kept
<1>4. t = fired \/ t = StopBridgeClient(fired, path)
  OBVIOUS
<1> QED BY <1>1, <1>3, <1>4, StopProper, ProperAfter

LEMMA DisconnectProper ==
  ASSUME NEW s, Sound(s), NEW c \in Devices, NEW path \in Paths \cup {none},
         NEW t, t = DisconnectBridgeClient(s, path, c)
  PROVE  Proper(s, t)
<1> DEFINE manual == SetManuallyDisconnected(s, c, TRUE)
           shown == SetConnected(manual, c, FALSE)
<1>1. manual \in ExtensionData /\ Same(s, manual)
  BY SetManuallySame DEF Sound
<1> HIDE DEF manual
<1>2. shown \in ExtensionData /\ Same(manual, shown)
  BY <1>1, SetConnectedSame
<1>3. Same(s, shown)
  BY <1>1, <1>2 DEF Same, Kept
<1>4. t = StopBridgeClient(shown, path)
  BY DEF DisconnectBridgeClient, manual
<1> HIDE DEF shown
<1>5. Proper(s, shown) /\ Sound(shown)
  BY <1>2, <1>3, SameProper, SameSound DEF Same
<1> QED BY <1>4, <1>5, StopProper, ProperAfter

(***************************************************************************)
(* The loops, wherever the devices go                                      *)
(***************************************************************************)

LEMMA StopOneLess ==
  ASSUME NEW s, Sound(s), NEW c \in Devices, NEW t, t = StopOne(s, c)
  PROVE  Sound(t) /\ Kept(s, t) /\ Less(s, t)
<1>1. s.clients[c].path \in Paths \cup {none}
  BY DEF Sound, ExtensionData, ClientState
<1>2. t = s \/ t = StopBridgeClient(s, s.clients[c].path)
  BY DEF StopOne
<1>3. Kept(s, s) /\ Less(s, s)
  BY DEF Kept, Less
<1> QED BY <1>1, <1>2, <1>3, StopSound

LEMMA StopAllLess ==
  ASSUME NEW s, Sound(s), NEW t, t = StopAllBridgeClients(s)
  PROVE  Sound(t) /\ Kept(s, t) /\ Less(s, t)
<1> DEFINE Stopping == {r \in ExtensionData : Sound(r) /\ Kept(s, r) /\ Less(s, r)}
           T == [n \in 0..DeviceCount |-> Stopping]
           stopped == ForEach(StopOne, DeviceCount, s)
           widget == [c \in Devices |-> [stopped.widget[c] EXCEPT !.connected = FALSE]]
<1>1. s \in Stopping
  BY DEF Sound, Kept, Less
<1>2. \A n \in 1..DeviceCount : \A r \in Stopping : StopOne(r, n) \in Stopping
  <2> TAKE n \in 1..DeviceCount
  <2> TAKE r \in Stopping
  <2> DEFINE u == StopOne(r, n)
  <2>1. n \in Devices
    BY Numbers
  <2>2. Sound(r) /\ Kept(s, r) /\ Less(s, r)
    OBVIOUS
  <2>3. Sound(u) /\ Kept(r, u) /\ Less(r, u)
    BY <2>1, <2>2, StopOneLess
  <2> HIDE DEF u
  <2>4. u \in Stopping
    BY <2>2, <2>3, LessKept DEF Sound
  <2> QED BY <2>4 DEF u
<1>3. 0 \in 0..DeviceCount /\ DeviceCount \in 0..DeviceCount
      /\ \A n \in 1..DeviceCount : n \in 0..DeviceCount /\ n - 1 \in 0..DeviceCount
  BY Numbers
<1> HIDE DEF Stopping
<1>4. s \in T[0] /\ \A n \in 1..DeviceCount : \A r \in T[n - 1] : StopOne(r, n) \in T[n]
  BY <1>1, <1>2, <1>3
<1>5. T[DeviceCount] = Stopping
  BY <1>3
<1> HIDE DEF T
<1>6. stopped \in Stopping
  BY <1>4, <1>5, StopLoop
<1>7. t = [stopped EXCEPT !.widget = widget]
  BY DEF StopAllBridgeClients
<1> HIDE DEF stopped
<1>8. stopped \in ExtensionData /\ Sound(stopped) /\ Kept(s, stopped) /\ Less(s, stopped)
  BY <1>6 DEF Stopping
<1>9. /\ widget \in [Devices -> [path : Paths \cup {none}, connected : BOOLEAN]]
      /\ \A d \in Devices : widget[d].path = stopped.widget[d].path
  BY <1>8 DEF ExtensionData
<1> HIDE DEF widget
<1>10. t \in ExtensionData /\ Same(stopped, t)
  BY <1>7, <1>8, <1>9 DEF ExtensionData, Same, Kept
<1>11. Sound(t) /\ Less(stopped, t) /\ Kept(stopped, t)
  BY <1>8, <1>10, SameSound DEF Same
<1> QED BY <1>8, <1>11, LessKept

\* onServerConnectionStateChanged(Disconnected): what it notes, before it stops
\* everything.
Notes(s, resume) ==
  \A p \in Paths :
    LET at == {c \in Devices : Running(s, c) /\ s.clients[c].path = p}
    IN resume[p] = IF at = {} THEN s.resume[p] ELSE LastOf(at)

LEMMA LostFields ==
  ASSUME NEW s, s \in ExtensionData,
         NEW t, t = ServerLost(s)
  PROVE  \E resume \in [Paths -> Devices \cup {none}] :
           t = StopAllBridgeClients([s EXCEPT !.resume = resume]) /\ Notes(s, resume)
<1> DEFINE at(p) == {c \in Devices : Running(s, c) /\ s.clients[c].path = p}
           resume == [p \in Paths |-> IF at(p) = {} THEN s.resume[p] ELSE LastOf(at(p))]
<1>1. t = StopAllBridgeClients([s EXCEPT !.resume = resume])
  <2>1. \A p : at(p) = {c \in {e \in Devices : Running(s, e)} : s.clients[c].path = p}
    OBVIOUS
  <2>2. resume = [p \in Paths |-> IF {c \in {e \in Devices : Running(s, e)} : s.clients[c].path = p} = {}
                                  THEN s.resume[p]
                                  ELSE LastOf({c \in {e \in Devices : Running(s, e)} : s.clients[c].path = p})]
    <3> HIDE DEF at
    <3> QED BY <2>1
  <2> HIDE DEF resume
  <2> QED BY <2>2 DEF ServerLost
<1>2. \A p : at(p) \in SUBSET Devices
  OBVIOUS
<1>3. \A p \in Paths : resume[p] = IF at(p) = {} THEN s.resume[p] ELSE LastOf(at(p))
  OBVIOUS
<1>4. resume \in [Paths -> Devices \cup {none}]
  <2> HIDE DEF at
  <2>1. \A p \in Paths : (IF at(p) = {} THEN s.resume[p] ELSE LastOf(at(p))) \in Devices \cup {none}
    <3> TAKE p \in Paths
    <3>1. s.resume[p] \in Devices \cup {none}
      BY DEF ExtensionData
    <3>2. at(p) # {} => LastOf(at(p)) \in Devices
      BY <1>2, Greatest
    <3> QED BY <3>1, <3>2
  <2> QED BY <2>1
<1> HIDE DEF resume
<1>5. Notes(s, resume)
  BY <1>3 DEF Notes
<1> QED BY <1>1, <1>4, <1>5

LEMMA ServerLostSound ==
  ASSUME NEW s, Sound(s), NEW t, t = ServerLost(s)
  PROVE  Sound(t) /\ t.suspended = s.suspended /\ Fewer(s, t)
<1>1. s \in ExtensionData
  BY DEF Sound
<1>2. PICK resume \in [Paths -> Devices \cup {none}] : t = StopAllBridgeClients([s EXCEPT !.resume = resume])
  BY <1>1, LostFields
<1> DEFINE noted == [s EXCEPT !.resume = resume]
<1>3. noted \in ExtensionData /\ noted.process = s.process /\ noted.owner = s.owner
      /\ noted.suspended = s.suspended
  BY <1>1 DEF ExtensionData
<1>4. t = StopAllBridgeClients(noted)
  BY <1>2
<1> HIDE DEF noted
<1>5. Sound(noted) /\ Fewer(s, noted)
  BY <1>3, SameSound
<1>6. Sound(t) /\ Kept(noted, t) /\ Less(noted, t)
  BY <1>4, <1>5, StopAllLess
<1> QED BY <1>3, <1>5, <1>6 DEF Kept, Less, Fewer

\* What the loops of processConnectionRequests keep.
Serving(u) == {r \in ExtensionData : Sound(r) /\ Kept(u, r) /\ (u.suspended => Fewer(u, r))}

LEMMA ConnectServing ==
  ASSUME NEW u, NEW s \in Serving(u), NEW c \in Devices, NEW path \in Paths \cup {none}, NEW failing,
         NEW t, t = ConnectBridgeClient(s, path, c, failing)
  PROVE  t \in Serving(u)
<1>1. Sound(s) /\ Kept(u, s) /\ (u.suspended => Fewer(u, s)) /\ s.suspended = u.suspended
  BY DEF Serving, Kept
<1>2. Sound(t) /\ Kept(s, t) /\ (s.suspended => t = s)
  BY <1>1, ConnectSound
<1> QED BY <1>1, <1>2 DEF Serving, Kept, Sound

LEMMA ResumeServing ==
  ASSUME NEW u, NEW s \in Serving(u), NEW path \in Paths, NEW failing
  PROVE  ResumeOne(s, path, failing) \in Serving(u)
<1>1. CASE s.resume[path] = none
  BY <1>1 DEF ResumeOne
<1>2. CASE s.resume[path] # none
  <2>1. s.resume[path] \in Devices
    BY <1>2 DEF Serving, ExtensionData
  <2>2. ResumeOne(s, path, failing) = ConnectBridgeClient(s, path, s.resume[path], failing)
    BY <1>2 DEF ResumeOne
  <2> QED BY <2>1, <2>2, ConnectServing
<1> QED BY <1>1, <1>2

LEMMA AutoConnectServing ==
  ASSUME NEW u, NEW s \in Serving(u), NEW c \in Devices, NEW failing
  PROVE  AutoConnectOne(s, c, failing) \in Serving(u)
<1>1. \/ AutoConnectOne(s, c, failing) = s
      \/ AutoConnectOne(s, c, failing) = ConnectBridgeClient(s, s.widget[c].path, c, failing)
  BY DEF AutoConnectOne
<1>2. s.widget[c].path \in Paths \cup {none}
  BY DEF Serving, ExtensionData
<1> QED BY <1>1, <1>2, ConnectServing

LEMMA AllResumedServing ==
  ASSUME NEW u, NEW s \in Serving(u), NEW failing
  PROVE  AllResumed(s, failing) \in Serving(u)
<1> DEFINE T == [n \in 0..PathCount |-> Serving(u)]
<1>1. 0 \in 0..PathCount /\ PathCount \in 0..PathCount /\ Paths = 1..PathCount
      /\ \A n \in 1..PathCount : n \in 0..PathCount /\ n - 1 \in 0..PathCount
  BY Numbers
<1>2. s \in T[0] /\ \A n \in 1..PathCount : \A r \in T[n - 1] : ResumeOne(r, n, failing) \in T[n]
  BY <1>1, ResumeServing
<1>3. T[PathCount] = Serving(u)
  BY <1>1
<1> HIDE DEF T
<1> QED BY <1>2, <1>3, ResumeLoop

LEMMA AllConnectedServing ==
  ASSUME NEW u, NEW s \in Serving(u), NEW failing
  PROVE  AllConnected(s, failing) \in Serving(u)
<1> DEFINE T == [n \in 0..DeviceCount |-> Serving(u)]
<1>1. 0 \in 0..DeviceCount /\ DeviceCount \in 0..DeviceCount /\ Devices = 1..DeviceCount
      /\ \A n \in 1..DeviceCount : n \in 0..DeviceCount /\ n - 1 \in 0..DeviceCount
  BY Numbers
<1>2. s \in T[0] /\ \A n \in 1..DeviceCount : \A r \in T[n - 1] : AutoConnectOne(r, n, failing) \in T[n]
  BY <1>1, AutoConnectServing
<1>3. T[DeviceCount] = Serving(u)
  BY <1>1
<1> HIDE DEF T
<1> QED BY <1>2, <1>3, AutoConnectLoop

\* processConnectionRequests leaves the paths and the configs as they are, and
\* nothing to be resumed.
Served(s, t) ==
  /\ Sound(t) /\ NothingWaits(t) /\ t.suspended = s.suspended /\ (s.suspended => Fewer(s, t))
  /\ t.deviceToConfig = s.deviceToConfig
  /\ \A d \in Devices : t.clients[d].path = s.clients[d].path /\ t.clients[d].serial = s.clients[d].serial

LEMMA RequestsServed ==
  ASSUME NEW s, Sound(s), NEW failing, NEW t, t = ProcessConnectionRequests(s, failing)
  PROVE  Served(s, t)
<1> DEFINE nothing == [p \in Paths |-> none]
           first == AllResumed(s, failing)
           resumed == [first EXCEPT !.resume = nothing]
<1>1. s \in Serving(s)
  BY DEF Serving, Sound, Kept, Fewer
<1>2. first \in Serving(s)
  BY <1>1, AllResumedServing
<1>3. t = AllConnected(resumed, failing)
  BY DEF ProcessConnectionRequests, AllResumed, AllConnected
<1> HIDE DEF first
<1>4. nothing \in [Paths -> Devices \cup {none}] /\ \A q \in Paths : nothing[q] = none
  OBVIOUS
<1> HIDE DEF nothing
<1>5. first \in ExtensionData /\ Sound(first) /\ Kept(s, first) /\ (s.suspended => Fewer(s, first))
  BY <1>2 DEF Serving
<1>6. /\ resumed \in ExtensionData /\ resumed.process = first.process /\ resumed.owner = first.owner
      /\ resumed.suspended = first.suspended /\ resumed.clients = first.clients
      /\ resumed.deviceToConfig = first.deviceToConfig /\ resumed.resume = nothing
  BY <1>4, <1>5 DEF ExtensionData
<1> HIDE DEF resumed
<1>7. resumed \in Serving(resumed)
  <2>1. Sound(resumed)
    BY <1>5, <1>6, SameSound
  <2> QED BY <1>6, <2>1 DEF Serving, Kept, Fewer
<1>8. t \in Serving(resumed)
  BY <1>3, <1>7, AllConnectedServing
<1>9. Sound(t) /\ Kept(resumed, t) /\ (resumed.suspended => Fewer(resumed, t))
  BY <1>8 DEF Serving
<1> QED BY <1>4, <1>5, <1>6, <1>9 DEF Served, Kept, NothingWaits, Fewer

\* updateBridgeClientDeviceStates: nothing is started unless the server is ready.
Updated(s) == {r \in ExtensionData : /\ Sound(r) /\ r.suspended = s.suspended /\ r.resume = s.resume
                                     /\ (~Ready(core) => Fewer(s, r))}

LEMMA UpdateOneUpdated ==
  ASSUME plugged \in [Devices -> Paths \cup {none}], NEW u, NEW s \in Updated(u), NEW c \in Devices, NEW failing
  PROVE  UpdateOne(s, c, failing) \in Updated(u)
<1> DEFINE path == plugged[c]
           found == IF path = none THEN s ELSE SetDeviceAvailable(s, path, c, TRUE)
           shown == SetPath(found, c, path)
<1>1. Sound(s) /\ s.suspended = u.suspended /\ s.resume = u.resume /\ (~Ready(core) => Fewer(u, s))
      /\ s \in ExtensionData
  BY DEF Updated
<1>2. path \in Paths \cup {none}
  OBVIOUS
<1>3. \/ UpdateOne(s, c, failing) = shown
      \/ UpdateOne(s, c, failing) = ConnectBridgeClient(shown, path, c, failing) /\ Ready(core)
  BY DEF UpdateOne
<1> HIDE DEF path
<1>4. /\ found \in ExtensionData /\ found.process = s.process /\ found.owner = s.owner
      /\ found.suspended = s.suspended /\ found.resume = s.resume
  <2>1. CASE path = none
    BY <1>1, <2>1
  <2>2. CASE path # none
    <3>1. found = SetDeviceAvailable(s, path, c, TRUE) /\ path \in Paths
      BY <1>2, <2>2
    <3>2. Aside(s, SetDeviceAvailable(s, path, c, TRUE))
      BY <1>1, <3>1, AvailableAside
    <3> QED BY <3>1, <3>2 DEF Aside
  <2> QED BY <2>1, <2>2
<1> HIDE DEF found
<1>5. /\ shown \in ExtensionData /\ shown.process = s.process /\ shown.owner = s.owner
      /\ shown.suspended = s.suspended /\ shown.resume = s.resume
  BY <1>2, <1>4, SetPathFields
<1> HIDE DEF shown
<1>6. Sound(shown) /\ Fewer(s, shown)
  BY <1>1, <1>5, SameSound
<1>7. CASE UpdateOne(s, c, failing) = shown
  BY <1>1, <1>5, <1>6, <1>7 DEF Updated, Fewer
<1>8. CASE UpdateOne(s, c, failing) = ConnectBridgeClient(shown, path, c, failing) /\ Ready(core)
  <2> DEFINE t == ConnectBridgeClient(shown, path, c, failing)
  <2>1. Sound(t) /\ Kept(shown, t)
    BY <1>2, <1>6, ConnectSound
  <2> HIDE DEF t
  <2>2. t \in Updated(u)
    BY <1>1, <1>5, <1>8, <2>1 DEF Updated, Kept, Sound
  <2> QED BY <1>8, <2>2 DEF t
<1> QED BY <1>3, <1>7, <1>8

LEMMA UpdateUpdated ==
  ASSUME plugged \in [Devices -> Paths \cup {none}], NEW s, Sound(s), NEW failing
  PROVE  UpdateDeviceStates(s, failing) \in Updated(s)
<1> DEFINE T == [n \in 0..DeviceCount |-> Updated(s)]
<1>1. 0 \in 0..DeviceCount /\ DeviceCount \in 0..DeviceCount /\ Devices = 1..DeviceCount
      /\ \A n \in 1..DeviceCount : n \in 0..DeviceCount /\ n - 1 \in 0..DeviceCount
  BY Numbers
<1>2. s \in Updated(s)
  BY DEF Updated, Sound, Fewer
<1>3. s \in T[0] /\ \A n \in 1..DeviceCount : \A r \in T[n - 1] : UpdateOne(r, n, failing) \in T[n]
  BY <1>1, <1>2, UpdateOneUpdated
<1>4. T[DeviceCount] = Updated(s)
  BY <1>1
<1> HIDE DEF T
<1> QED BY <1>3, <1>4, UpdateLoop

(***************************************************************************)
(* The server's core                                                       *)
(***************************************************************************)

LEMMA StartTyped ==
  ASSUME NEW k \in CoreData, NEW fails \in BOOLEAN
  PROVE  /\ Start(k, fails) \in CoreData
         /\ Start(k, fails).connection = "Disconnected" => k.connection = "Disconnected"
         /\ k.state # "Started" => ~Ready(Start(k, fails))
<1>1. CASE k.state = "Started"
  BY <1>1 DEF Start
<1>2. CASE k.state # "Started"
  <2> DEFINE state == IF fails THEN "Stopped" ELSE "Started"
             ipc == IF k.ipc = "none" THEN k.ipc ELSE "closed"
             running == ~fails
  <2>1. /\ state \in ProcessStates /\ ipc \in {"none", "closed", "connected"}
        /\ running \in BOOLEAN
    BY DEF CoreData, ProcessStates
  <2>2. Start(k, fails) = [k EXCEPT !.state = state, !.connection = "Connecting",
                                    !.running = running, !.restart = FALSE, !.ipc = ipc]
    BY <1>2 DEF Start, CoreData
  <2> HIDE DEF state, ipc, running
  <2> QED BY <2>1, <2>2 DEF CoreData, Ready
<1> QED BY <1>1, <1>2

LEMMA StopTyped ==
  ASSUME NEW k \in CoreData
  PROVE  Stop(k) \in CoreData /\ Stop(k).connection = "Disconnected" /\ Stop(k).state # "Started"
<1> DEFINE state == IF k.state = "Stopped" THEN k.state ELSE "Stopping"
<1>1. state \in ProcessStates /\ state # "Started"
  BY DEF CoreData, ProcessStates
<1>2. Stop(k) = [k EXCEPT !.state = state, !.connection = "Disconnected"]
  BY DEF Stop, CoreData
<1> HIDE DEF state
<1> QED BY <1>1, <1>2 DEF CoreData

LEMMA RestartTyped ==
  ASSUME NEW k \in CoreData, NEW fails \in BOOLEAN
  PROVE  Restart(k, fails) \in CoreData /\ ~Ready(Restart(k, fails))
<1>1. Stop(k) \in CoreData /\ Stop(k).connection = "Disconnected" /\ Stop(k).state # "Started"
  BY StopTyped
<1>2. CASE k.running
  BY <1>1, <1>2 DEF Restart, CoreData, Ready
<1>3. CASE ~k.running
  BY <1>1, <1>3, StartTyped DEF Restart
<1> QED BY <1>2, <1>3

LEMMA FinishedTyped ==
  ASSUME NEW k \in CoreData, NEW code, NEW fails \in BOOLEAN
  PROVE  OnProcessFinished(k, code, fails) \in CoreData /\ ~Ready(OnProcessFinished(k, code, fails))
<1> DEFINE again == code = "success" /\ k.state = "Started"
           state == IF again THEN "RetryPending" ELSE "Stopped"
           ipc == IF k.ipc = "none" THEN k.ipc ELSE "closed"
           checking == k.checking \/ code = "duplicate"
           ended == [k EXCEPT !.state = state, !.connection = "Disconnected", !.running = FALSE,
                              !.retry = again, !.restart = FALSE, !.checking = checking, !.ipc = ipc]
<1>1. /\ state \in ProcessStates /\ ipc \in {"none", "closed", "connected"}
      /\ checking \in BOOLEAN /\ again \in BOOLEAN /\ state # "Started"
  BY DEF CoreData, ProcessStates
<1>2. OnProcessFinished(k, code, fails) = IF k.restart THEN Start(ended, fails) ELSE ended
  BY DEF OnProcessFinished, CoreData
<1> HIDE DEF again, state, ipc, checking
<1>3. ended \in CoreData /\ ended.state # "Started" /\ ~Ready(ended)
  BY <1>1 DEF CoreData, Ready
<1> HIDE DEF ended
<1> QED BY <1>2, <1>3, StartTyped

LEMMA RetryTyped ==
  ASSUME NEW k \in CoreData, NEW fails \in BOOLEAN
  PROVE  /\ RetryTimeout(k, fails) \in CoreData
         /\ RetryTimeout(k, fails).connection = "Disconnected" => k.connection = "Disconnected"
         /\ Ready(RetryTimeout(k, fails)) => Ready(k)
<1> DEFINE fired == [k EXCEPT !.retry = FALSE]
<1>1. fired \in CoreData /\ fired.connection = k.connection /\ fired.state = k.state
  BY DEF CoreData
<1>2. RetryTimeout(k, fails) = IF k.state = "RetryPending" THEN Start(fired, fails) ELSE fired
  BY DEF RetryTimeout
<1> HIDE DEF fired
<1> QED BY <1>1, <1>2, StartTyped DEF Ready, IsStarted

LEMMA OthersTyped ==
  ASSUME NEW k \in CoreData
  PROVE  /\ ExistingStopped(k) \in CoreData /\ ExistingStopped(k).connection = k.connection
         /\ (Ready(ExistingStopped(k)) => Ready(k))
         /\ ExistingStays(k) \in CoreData /\ ExistingStays(k).connection = k.connection
         /\ (Ready(ExistingStays(k)) => Ready(k))
         /\ ConnectIpc(k) \in CoreData /\ ConnectIpc(k).connection = k.connection
         /\ (Ready(ConnectIpc(k)) => Ready(k))
         /\ ShutDownIpc(k) \in CoreData /\ ShutDownIpc(k).connection = k.connection
         /\ (Ready(ShutDownIpc(k)) => Ready(k))
         /\ [k EXCEPT !.connection = "Listening"] \in CoreData
         /\ [k EXCEPT !.connection = "Listening"].connection = "Listening"
<1>1. ExistingStopped(k) \in CoreData /\ ExistingStopped(k).connection = k.connection
      /\ (Ready(ExistingStopped(k)) => Ready(k))
  BY DEF Ready, IsStarted, ExistingStopped, CoreData, ProcessStates
<1>2. ExistingStays(k) \in CoreData /\ ExistingStays(k).connection = k.connection
      /\ (Ready(ExistingStays(k)) => Ready(k))
  BY DEF Ready, IsStarted, ExistingStays, CoreData
<1>3. ConnectIpc(k) \in CoreData /\ ConnectIpc(k).connection = k.connection
      /\ (Ready(ConnectIpc(k)) => Ready(k))
  BY DEF Ready, IsStarted, ConnectIpc, CoreData
<1>4. ShutDownIpc(k) \in CoreData /\ ShutDownIpc(k).connection = k.connection
      /\ (Ready(ShutDownIpc(k)) => Ready(k))
  BY DEF Ready, IsStarted, ShutDownIpc, CoreData
<1>5. /\ [k EXCEPT !.connection = "Listening"] \in CoreData
      /\ [k EXCEPT !.connection = "Listening"].connection = "Listening"
  BY DEF CoreData
<1> QED BY <1>1, <1>2, <1>3, <1>4, <1>5


(***************************************************************************)
(* The steps, wherever the devices go                                      *)
(***************************************************************************)

\* A core is started only while the tool is closed and the server is ready.
StartsServed == Fewer(g, g') \/ (~g'.suspended /\ Ready(core'))

LEMMA LostSound ==
  ASSUME Sound(g), g' = Lost(g, core)
  PROVE  Sound(g') /\ Fewer(g, g')
<1>1. CASE core.connection = "Disconnected"
  BY <1>1 DEF Lost, Fewer
<1>2. CASE core.connection # "Disconnected"
  BY <1>2, ServerLostSound DEF Lost
<1> QED BY <1>1, <1>2

LEMMA CoreAnywhere ==
  ASSUME Anywhere, Typed, CoreNext
  PROVE  Anywhere' /\ Typed' /\ StartsServed
<1>1. UNCHANGED <<retries, plugged, udev, tracked>> /\ core \in CoreData /\ Sound(g)
      /\ (Ready(core) => NothingWaits(g))
  BY DEF CoreNext, StartCore, StopCore, RestartCore, CoreFinished, CoreRetryTimeout, CheckExisting,
         CoreIpc, CoreListening, ServerUnchanged, Typed, Anywhere
<1>2. ASSUME core' \in CoreData
      PROVE  Typed'
  BY <1>1, <1>2 DEF Typed
<1>3. ASSUME Sound(g'), Fewer(g, g'), Ready(core') => NothingWaits(g')
      PROVE  Anywhere' /\ StartsServed
  BY <1>3 DEF Anywhere, StartsServed
<1>4. ASSUME g' = g, Ready(core') => Ready(core)
      PROVE  Anywhere' /\ StartsServed
  BY <1>1, <1>3, <1>4 DEF Fewer
<1>5. CASE StartCore
  <2>1. PICK fails \in BOOLEAN : core' = Start(core, fails)
    BY <1>5 DEF StartCore
  <2> QED BY <1>1, <1>2, <1>4, <1>5, <2>1, StartTyped DEF StartCore
<1>6. CASE StopCore
  <2>1. core' \in CoreData /\ ~Ready(core')
    BY <1>1, <1>6, StopTyped DEF StopCore, Ready
  <2>2. Sound(g') /\ Fewer(g, g')
    BY <1>1, <1>6, LostSound DEF StopCore
  <2> QED BY <1>2, <1>3, <2>1, <2>2
<1>7. CASE RestartCore
  <2>1. core' \in CoreData /\ ~Ready(core')
    BY <1>1, <1>7, RestartTyped DEF RestartCore
  <2>2. Sound(g') /\ Fewer(g, g')
    BY <1>1, <1>7, LostSound DEF RestartCore
  <2> QED BY <1>2, <1>3, <2>1, <2>2
<1>8. CASE CoreFinished
  <2>1. core' \in CoreData /\ ~Ready(core')
    BY <1>1, <1>8, FinishedTyped DEF CoreFinished
  <2>2. Sound(g') /\ Fewer(g, g')
    BY <1>1, <1>8, LostSound DEF CoreFinished
  <2> QED BY <1>2, <1>3, <2>1, <2>2
<1>9. CASE CoreRetryTimeout
  <2>1. core' = RetryTimeout(core, FALSE) /\ g' = g
    BY <1>9 DEF CoreRetryTimeout
  <2> QED BY <1>1, <1>2, <1>4, <2>1, RetryTyped
<1>10. CASE CheckExisting
  <2>1. core' \in {ExistingStopped(core), ExistingStays(core)} /\ g' = g
    BY <1>10 DEF CheckExisting
  <2> QED BY <1>1, <1>2, <1>4, <2>1, OthersTyped
<1>11. CASE CoreIpc
  <2>1. core' \in {ConnectIpc(core), ShutDownIpc(core)} /\ g' = g
    BY <1>11 DEF CoreIpc
  <2> QED BY <1>1, <1>2, <1>4, <2>1, OthersTyped
<1>12. CASE \E failing \in SUBSET Devices : CoreListening(failing)
  <2>1. PICK failing \in SUBSET Devices : CoreListening(failing)
    BY <1>12
  <2>2. core' \in CoreData
    BY <1>1, <2>1, OthersTyped DEF CoreListening
  <2>3. ~Ready(core)
    BY <2>1 DEF CoreListening, Ready
  <2>4. CASE Ready(core')
    <3>1. g' = ProcessConnectionRequests(g, failing)
      BY <2>1, <2>3, <2>4 DEF CoreListening, Follow
    <3>2. Served(g, g')
      BY <1>1, <3>1, RequestsServed
    <3> QED BY <1>2, <2>2, <2>4, <3>2 DEF Served, Anywhere, StartsServed
  <2>5. CASE ~Ready(core')
    <3>1. g' = g
      BY <2>1, <2>5 DEF CoreListening, Follow
    <3> QED BY <1>2, <1>4, <2>2, <2>5, <3>1
  <2> QED BY <2>4, <2>5
<1> QED BY <1>5, <1>6, <1>7, <1>8, <1>9, <1>10, <1>11, <1>12 DEF CoreNext

LEMMA ProperAnywhere ==
  ASSUME Anywhere, Proper(g, g'), core' = core
  PROVE  Anywhere' /\ StartsServed
<1>1. Sound(g') /\ g'.suspended = g.suspended /\ (Fewer(g, g') \/ (~g.suspended /\ Ready(core)))
  BY DEF Proper
<1>2. Ready(core) => NothingWaits(g')
  BY DEF Proper, NothingWaits, Anywhere
<1> QED BY <1>1, <1>2 DEF Anywhere, StartsServed

LEMMA UsbAnywhere ==
  ASSUME Anywhere, Typed, UsbNext
  PROVE  Anywhere' /\ Typed' /\ StartsServed
<1>1. core' = core /\ retries' = retries
  BY DEF UsbNext, Plug, Unplug, HandleUdevEvent, CoreUnchanged
<1>2. plugged \in [Devices -> Paths \cup {none}] /\ udev \in Seq(UsbEvent)
      /\ tracked \in [Paths -> Devices \cup {none}] /\ Sound(g)
  BY DEF Typed, Anywhere
<1>3. ASSUME g' = g
      PROVE  Anywhere' /\ StartsServed
  BY <1>1, <1>3 DEF Anywhere, StartsServed, Fewer
<1>4. CASE \E d \in Devices : Unplug(d)
  <2>1. PICK d \in Devices : Unplug(d)
    BY <1>4
  <2>2. g' = g /\ tracked' = tracked /\ plugged[d] # none /\ plugged' = [plugged EXCEPT ![d] = none]
    BY <2>1 DEF Unplug
  <2>3. plugged[d] \in Paths
    BY <1>2, <2>2
  <2>4. udev' \in Seq(UsbEvent)
    <3>1. <<"remove", plugged[d], d>> \in UsbEvent
      BY <2>3 DEF UsbEvent
    <3>2. udev' = udev \/ udev' = Append(udev, <<"remove", plugged[d], d>>)
      BY <2>1 DEF Unplug
    <3>3. udev \in Seq(UsbEvent)
      BY <1>2
    <3> QED BY <3>1, <3>2, <3>3
  <2> QED BY <1>1, <1>2, <1>3, <2>2, <2>4 DEF Typed
<1>5. CASE \E d \in Devices : \E path \in Paths : Plug(d, path)
  <2>1. PICK d \in Devices, path \in Paths : Plug(d, path)
    BY <1>5
  <2>2. g' = g /\ tracked' = tracked /\ plugged' = [plugged EXCEPT ![d] = path]
    BY <2>1 DEF Plug
  <2>3. udev' \in Seq(UsbEvent)
    <3>1. <<"add", path, d>> \in UsbEvent
      BY DEF UsbEvent
    <3>2. udev' = udev \/ udev' = Append(udev, <<"add", path, d>>)
      BY <2>1 DEF Plug
    <3>3. udev \in Seq(UsbEvent)
      BY <1>2
    <3> QED BY <3>1, <3>2, <3>3
  <2> QED BY <1>1, <1>2, <1>3, <2>2, <2>3 DEF Typed
<1>6. CASE \E failing \in SUBSET Devices : HandleUdevEvent(failing)
  <2>1. PICK failing \in SUBSET Devices : HandleUdevEvent(failing)
    BY <1>6
  <2> DEFINE event == Head(udev)
             path == event[2]
  <2>2. udev # <<>> /\ udev' = Tail(udev) /\ plugged' = plugged
    BY <2>1 DEF HandleUdevEvent
  <2>3. udev' \in Seq(UsbEvent) /\ event \in UsbEvent
    BY <1>2, <2>2
  <2>4. path \in Paths /\ event[3] \in Devices
    BY <2>3 DEF UsbEvent
  <2>5. \/ /\ tracked' = [tracked EXCEPT ![path] = event[3]]
           /\ g' = UsbDeviceConnected(g, path, event[3], failing)
        \/ /\ tracked' = [tracked EXCEPT ![path] = none]
           /\ g' = g \/ (tracked[path] # none /\ g' = UsbDeviceDisconnected(g, path, tracked[path]))
    BY <2>1 DEF HandleUdevEvent
  <2> HIDE DEF event, path
  <2>6. tracked' \in [Paths -> Devices \cup {none}]
    BY <1>2, <2>4, <2>5
  <2>7. CASE g' = g
    BY <1>1, <1>2, <1>3, <2>2, <2>3, <2>6, <2>7 DEF Typed
  <2>8. CASE g' # g
    <3>1. Proper(g, g')
      <4>1. CASE g' = UsbDeviceConnected(g, path, event[3], failing)
        BY <1>2, <2>4, <4>1, UsbDeviceConnectedProper
      <4>2. CASE tracked[path] # none /\ g' = UsbDeviceDisconnected(g, path, tracked[path])
        <5>1. tracked[path] \in Devices
          BY <1>2, <2>4, <4>2
        <5> QED BY <1>2, <2>4, <4>2, <5>1, UsbDeviceDisconnectedProper
      <4> QED BY <2>5, <2>8, <4>1, <4>2
    <3> QED BY <1>1, <1>2, <2>2, <2>3, <2>6, <3>1, ProperAnywhere DEF Typed
  <2> QED BY <2>7, <2>8
<1> QED BY <1>4, <1>5, <1>6 DEF UsbNext

\* bridgeClientProcessFinished
LEMMA ProcessFinishedProper ==
  ASSUME NEW p \in Processes, NEW error \in BOOLEAN, Sound(g), ProcessFinished(p, error),
         retries \in [Devices -> 0..MaxRetries]
  PROVE  Proper(g, g') /\ retries' \in [Devices -> 0..MaxRetries]
<1> DEFINE path == g.process[p].path
           c == ByDevice(g, path)
           stopped == StopProcess(g, p)
           ended == HandleConnectionFinished(stopped, path)
           shown == SetConnected(ended, c, FALSE)
<1>1. path \in Paths /\ g \in ExtensionData
  BY DEF ProcessFinished, Sound
<1>2. Sound(stopped) /\ Kept(g, stopped) /\ Less(g, stopped)
  BY StopProcessSound
<1> HIDE DEF stopped
<1>3. Proper(g, stopped)
  BY <1>2, LessProper
<1>4. Sound(ended) /\ Kept(stopped, ended) /\ ended.process = stopped.process
      /\ ended.owner = stopped.owner
  BY <1>1, <1>2, FinishedSound
<1>5. Proper(g, ended) /\ ended \in ExtensionData
  <2>1. Less(stopped, ended)
    BY <1>4 DEF Less
  <2>2. Proper(stopped, ended)
    BY <1>4, <2>1, LessProper
  <2> QED BY <1>3, <1>4, <2>2, ProperAfter DEF Sound
<1> HIDE DEF ended
<1>6. CASE c = none
  <2>1. g' = stopped /\ retries' = retries
    BY <1>6 DEF ProcessFinished, stopped
  <2> QED BY <1>3, <2>1
<1>7. CASE c # none
  <2>1. c \in Devices
    BY <1>1, <1>7 DEF ByDevice, ExtensionData
  <2>2. \/ g' = SetPath(shown, c, none) /\ retries' = retries
        \/ g' = shown /\ retries' = retries
        \/ /\ MayRetry(shown, c) /\ g' = IncrementAttempts(shown, c)
           /\ retries[c] < MaxRetries /\ retries' = [retries EXCEPT ![c] = @ + 1]
        \/ g' = ClearAttempts(shown, c) /\ retries' = retries
    BY <1>7 DEF ProcessFinished, ended, stopped
  <2> HIDE DEF c
  <2>3. shown \in ExtensionData /\ Same(ended, shown)
    BY <1>5, <2>1, SetConnectedSame
  <2> HIDE DEF shown
  <2>4. Proper(g, shown) /\ Sound(shown)
    <3>1. Proper(ended, shown)
      BY <1>4, <2>3, SameProper
    <3>2. Proper(g, shown)
      BY <1>5, <3>1, ProperAfter
    <3> QED BY <3>2 DEF Proper
  <2>5. CASE g' = SetPath(shown, c, none) /\ retries' = retries
    BY <2>1, <2>4, <2>5, SetPathProper, ProperAfter
  <2>6. CASE g' = shown /\ retries' = retries
    BY <2>4, <2>6
  <2>7. CASE /\ MayRetry(shown, c) /\ g' = IncrementAttempts(shown, c)
             /\ retries[c] < MaxRetries /\ retries' = [retries EXCEPT ![c] = @ + 1]
    <3>1. g' \in ExtensionData /\ Same(shown, g')
      BY <2>1, <2>3, <2>7, IncrementSame
    <3>2. Proper(shown, g')
      BY <2>4, <3>1, SameProper
    <3>3. retries' \in [Devices -> 0..MaxRetries]
      BY <2>1, <2>7, ExtensionAssumption
    <3> QED BY <2>4, <3>2, <3>3, ProperAfter
  <2>8. CASE g' = ClearAttempts(shown, c) /\ retries' = retries
    <3>1. g' \in ExtensionData /\ Same(shown, g')
      BY <2>1, <2>3, <2>8, ClearAttemptsSame
    <3>2. Proper(shown, g')
      BY <2>4, <3>1, SameProper
    <3> QED BY <2>4, <2>8, <3>2, ProperAfter
  <2> QED BY <2>2, <2>5, <2>6, <2>7, <2>8
<1> QED BY <1>6, <1>7

LEMMA CloseToolSound ==
  ASSUME plugged \in [Devices -> Paths \cup {none}], Sound(g), NEW failing, CloseTool(failing)
  PROVE  /\ Sound(g') /\ ~g'.suspended /\ (Ready(core) => NothingWaits(g'))
         /\ Fewer(g, g') \/ Ready(core)
<1> DEFINE given == [g EXCEPT !.suspended = FALSE]
           updated == UpdateDeviceStates(given, failing)
<1>1. given \in ExtensionData /\ given.process = g.process /\ given.owner = g.owner
      /\ given.suspended = FALSE
  BY DEF Sound, ExtensionData
<1>2. g' = IF Ready(core) THEN ProcessConnectionRequests(updated, failing) ELSE updated
  BY DEF CloseTool
<1> HIDE DEF given
<1>3. Sound(given) /\ Fewer(g, given)
  BY <1>1, SameSound
<1>4. updated \in Updated(given)
  BY <1>3, UpdateUpdated
<1> HIDE DEF updated
<1>5. Sound(updated) /\ ~updated.suspended /\ (~Ready(core) => Fewer(given, updated))
  BY <1>1, <1>4 DEF Updated
<1>6. CASE Ready(core)
  <2>1. Served(updated, g')
    BY <1>2, <1>5, <1>6, RequestsServed
  <2> QED BY <1>5, <1>6, <2>1 DEF Served
<1>7. CASE ~Ready(core)
  BY <1>2, <1>3, <1>5, <1>7 DEF Fewer
<1> QED BY <1>6, <1>7

LEMMA BridgeAnywhere ==
  ASSUME Anywhere, Typed, BridgeNext
  PROVE  Anywhere' /\ Typed' /\ StartsServed
<1>1. Sound(g) /\ retries \in [Devices -> 0..MaxRetries] /\ g \in ExtensionData
      /\ plugged \in [Devices -> Paths \cup {none}] /\ tracked \in [Paths -> Devices \cup {none}]
  BY DEF Anywhere, Typed, Sound
<1>2. ASSUME Proper(g, g'), BridgeUnchanged, retries' \in [Devices -> 0..MaxRetries]
      PROVE  Anywhere' /\ Typed' /\ StartsServed
  BY <1>2, ProperAnywhere DEF BridgeUnchanged, Typed
<1>3. CASE \E p \in Processes : ConnectionEstablished(p)
  <2>1. PICK p \in Processes : ConnectionEstablished(p)
    BY <1>3
  <2>2. Proper(g, g')
    BY <1>1, <2>1, ConnectionEstablishedProper DEF ConnectionEstablished
  <2> QED BY <1>1, <1>2, <2>1, <2>2 DEF ConnectionEstablished
<1>4. CASE \E p \in Processes : HandshakeFailed(p)
  <2>1. PICK p \in Processes : HandshakeFailed(p)
    BY <1>4
  <2> DEFINE c == ByDevice(g, g.process[p].path)
  <2>2. c \in Devices
    <3>1. g.process[p].running /\ c # none
      BY <2>1 DEF HandshakeFailed
    <3>2. g.process[p].path \in Paths
      BY <1>1, <3>1 DEF Sound
    <3> QED BY <1>1, <3>1, <3>2 DEF ByDevice, ExtensionData
  <2>3. g' = SetConnected(SetManuallyDisconnected([g EXCEPT !.auto[c] = FALSE], c, TRUE), c, FALSE)
    BY <2>1 DEF HandshakeFailed
  <2> HIDE DEF c
  <2>4. g' \in ExtensionData /\ Same(g, g')
    BY <1>1, <2>2, <2>3, HandshakeSame
  <2>5. Proper(g, g')
    BY <1>1, <2>4, SameProper
  <2> QED BY <1>1, <1>2, <2>1, <2>5 DEF HandshakeFailed
<1>5. CASE \E p \in Processes : \E error \in BOOLEAN : ProcessFinished(p, error)
  <2>1. PICK p \in Processes, error \in BOOLEAN : ProcessFinished(p, error)
    BY <1>5
  <2>2. Proper(g, g') /\ retries' \in [Devices -> 0..MaxRetries]
    BY <1>1, <2>1, ProcessFinishedProper
  <2> QED BY <1>2, <2>1, <2>2 DEF ProcessFinished
<1>6. CASE \E c \in Devices : ConnectionTimeout(c)
  <2>1. PICK c \in Devices : ConnectionTimeout(c)
    BY <1>6
  <2>2. Proper(g, g')
    BY <1>1, <2>1, ConnectionTimeoutProper DEF ConnectionTimeout
  <2> QED BY <1>1, <1>2, <2>1, <2>2 DEF ConnectionTimeout
<1>7. CASE \E c \in Devices : \E failing \in SUBSET {c} : RetryTimer(c, failing)
  <2>0. PICK c \in Devices : \E failing \in SUBSET {c} : RetryTimer(c, failing)
    BY <1>7
  <2>1. PICK failing \in SUBSET {c} : RetryTimer(c, failing)
    BY <2>0
  <2>2. retries' \in [Devices -> 0..MaxRetries]
    BY <1>1, <2>1, ExtensionAssumption DEF RetryTimer
  <2> DEFINE path == g.clients[c].path
  <2>3. path \in Paths \cup {none}
    BY <1>1 DEF ExtensionData, ClientState
  <2>4. g' = g \/ (Ready(core) /\ g' = ConnectBridgeClient(g, path, c, failing))
    BY <2>1 DEF RetryTimer
  <2> HIDE DEF path
  <2>5. Proper(g, g')
    <3>1. Proper(g, g)
      BY <1>1 DEF Proper, Fewer
    <3> QED BY <1>1, <2>3, <2>4, <3>1, ConnectProper
  <2> QED BY <1>2, <2>1, <2>2, <2>5 DEF RetryTimer
<1>8. CASE \E c \in Devices : \E failing \in SUBSET {c} : Toggle(c, failing)
  <2>0. PICK c \in Devices : \E failing \in SUBSET {c} : Toggle(c, failing)
    BY <1>8
  <2>1. PICK failing \in SUBSET {c} : Toggle(c, failing)
    BY <2>0
  <2> DEFINE path == g.widget[c].path
  <2>2. path \in Paths \cup {none}
    BY <1>1 DEF ExtensionData
  <2>3. \/ g' = DisconnectBridgeClient(g, path, c)
        \/ g' = ConnectBridgeClient(g, path, c, failing) /\ Ready(core)
    BY <2>1 DEF Toggle
  <2> HIDE DEF path
  <2>4. Proper(g, g')
    BY <1>1, <2>2, <2>3, DisconnectProper, ConnectProper
  <2> QED BY <1>1, <1>2, <2>1, <2>4 DEF Toggle
<1>9. CASE OpenTool
  <2> DEFINE taken == [g EXCEPT !.suspended = TRUE]
  <2>1. g' = StopAllBridgeClients(taken) /\ UNCHANGED <<retries, core, plugged, tracked>> /\ udev' = <<>>
    BY <1>9 DEF OpenTool
  <2>2. taken \in ExtensionData /\ taken.process = g.process /\ taken.owner = g.owner
        /\ taken.resume = g.resume
    BY <1>1 DEF ExtensionData
  <2> HIDE DEF taken
  <2>3. Sound(taken) /\ Fewer(g, taken)
    BY <1>1, <2>2, SameSound
  <2>4. Sound(g') /\ Kept(taken, g') /\ Less(taken, g')
    BY <2>1, <2>3, StopAllLess
  <2>5. Fewer(g, g')
    BY <2>3, <2>4 DEF Fewer, Less
  <2>6. Ready(core) => NothingWaits(g')
    BY <2>2, <2>4 DEF Anywhere, NothingWaits, Kept
  <2>7. udev' \in Seq(UsbEvent)
    BY <2>1
  <2> QED BY <2>1, <2>4, <2>5, <2>6, <2>7 DEF Anywhere, Typed, StartsServed
<1>10. CASE \E failing \in SUBSET Devices : CloseTool(failing)
  <2>1. PICK failing \in SUBSET Devices : CloseTool(failing)
    BY <1>10
  <2>2. UNCHANGED <<retries, core, plugged, udev>>
    BY <2>1 DEF CloseTool
  <2>3. /\ Sound(g') /\ ~g'.suspended /\ (Ready(core) => NothingWaits(g'))
        /\ Fewer(g, g') \/ Ready(core)
    BY <1>1, <2>1, CloseToolSound
  <2>4. tracked' \in [Paths -> Devices \cup {none}]
    <3> DEFINE at(p) == CHOOSE d \in Devices : plugged[d] = p
    <3>1. tracked' = [p \in Paths |-> IF \E d \in Devices : plugged[d] = p THEN at(p) ELSE tracked[p]]
      BY <2>1 DEF CloseTool
    <3>2. \A p \in Paths : (\E d \in Devices : plugged[d] = p) => at(p) \in Devices
      OBVIOUS
    <3> HIDE DEF at
    <3> QED BY <1>1, <3>1, <3>2
  <2> QED BY <2>2, <2>3, <2>4 DEF Anywhere, Typed, StartsServed
<1> QED BY <1>3, <1>4, <1>5, <1>6, <1>7, <1>8, <1>9, <1>10 DEF BridgeNext

(***************************************************************************)
(* While the tables are current: stopping                                  *)
(***************************************************************************)

\* The process of a config has ended.
Ended(s, t, c) ==
  /\ \A d \in Devices : t.clients[d].process = IF d = c THEN none ELSE s.clients[d].process
  /\ \A p \in Processes : t.process[p] = IF p = s.clients[c].process THEN NoProcess ELSE s.process[p]

\* What Good says of one config.
LEMMA GoodFacts ==
  ASSUME NEW s, Good(s)
  PROVE  /\ s \in ExtensionData
         /\ \A c \in Devices :
              /\ s.clients[c] \in ClientState /\ s.clients[c].serial = c /\ c # none
              /\ s.clients[c].process # none =>
                   /\ s.clients[c].process \in Processes
                   /\ s.process[s.clients[c].process].running
                   /\ s.process[s.clients[c].process].config = c
         /\ \A p \in Processes : s.process[p] \in ProcessData /\ p # none
         /\ \A p \in Processes : s.process[p].running =>
              /\ s.process[p].config \in Devices /\ s.process[p].path \in Paths
              /\ s.clients[s.process[p].config].process = p
              /\ s.deviceToConfig[s.process[p].path] = s.process[p].config
              /\ s.owner[s.process[p].path] = p
         /\ \A path \in Paths : s.deviceToConfig[path] # none =>
              /\ s.deviceToConfig[path] \in Devices
              /\ s.clients[s.deviceToConfig[path]].path = path
         /\ \A path \in Paths : s.resume[path] # none => s.deviceToConfig[path] = s.resume[path]
         /\ none \notin Paths
<1>1. s \in ExtensionData /\ Linked(s) /\ Held(s)
  BY DEF Good
<1>2. Devices \subseteq Nat /\ Paths \subseteq Nat /\ Processes \subseteq Nat /\ none \notin Nat
  BY ManagerAssumption, ExtensionAssumption DEF Devices, Paths
<1>3. \A c \in Devices : s.clients[c] \in ClientState /\ c # none
        /\ s.clients[c].process \in Processes \cup {none}
  BY <1>1, <1>2 DEF ExtensionData, ClientState
<1>4. \A p \in Processes : s.process[p] \in ProcessData /\ p # none
        /\ s.process[p].config \in Devices \cup {none} /\ s.process[p].path \in Paths \cup {none}
  BY <1>1, <1>2 DEF ExtensionData, ProcessData
<1>5. \A path \in Paths : s.deviceToConfig[path] \in Devices \cup {none}
  BY <1>1 DEF ExtensionData
<1> QED BY <1>1, <1>2, <1>3, <1>4, <1>5 DEF Linked, Held, Current

LEMMA EndKeeps ==
  ASSUME NEW s, Good(s), NEW c \in Devices, NEW path \in Paths, s.deviceToConfig[path] = c,
         NEW p, p = s.clients[c].process, p # none,
         NEW t, t = HandleConnectionFinished(StopProcess(s, p), path)
  PROVE  Good(t) /\ Kept(s, t) /\ Ended(s, t, c)
<1> DEFINE at == s.process[p].path
<1>1. /\ p \in Processes /\ s.process[p].running /\ s.process[p].config = c /\ at \in Paths
      /\ s.deviceToConfig[at] = c /\ s.owner[at] = p /\ c # none /\ path # none
      /\ s \in ExtensionData /\ s.clients[c] \in ClientState
  BY GoodFacts
<1> HIDE DEF at
<1> DEFINE process == [s.process EXCEPT ![p] = NoProcess]
           owner == [s.owner EXCEPT ![at] = none]
           k == [s.clients[c] EXCEPT !.process = none, !.timer = none]
           clients == [s.clients EXCEPT ![c] = k]
           stopped == [s EXCEPT !.process = process, !.owner = owner]
<1>2. StopProcess(s, p) = stopped
  BY <1>1 DEF StopProcess, at, ExtensionData
<1>3. k \in ClientState /\ k.process = none /\ k.timer = none /\ k.path = s.clients[c].path
      /\ k.available = s.clients[c].available /\ k.serial = s.clients[c].serial
  BY <1>1 DEF ClientState
<1>4. t = [stopped EXCEPT !.clients = clients]
  <2>1. stopped.deviceToConfig = s.deviceToConfig /\ stopped.clients = s.clients
    BY <1>1 DEF ExtensionData
  <2>2. HandleConnectionFinished(stopped, path) = [stopped EXCEPT !.clients[c].process = none, !.clients[c].timer = none]
    BY <1>1, <2>1 DEF HandleConnectionFinished, ByDevice
  <2>3. stopped \in ExtensionData
    BY <1>1 DEF ExtensionData, NoProcess, ProcessData
  <2>4. ASSUME NEW r \in ExtensionData, r.clients = s.clients
        PROVE  [r EXCEPT !.clients[c].process = none, !.clients[c].timer = none]
                 = [r EXCEPT !.clients = clients]
    <3>1. [r EXCEPT !.clients[c].process = none, !.clients[c].timer = none]
            = [r EXCEPT !.clients = [r.clients EXCEPT ![c] = [r.clients[c] EXCEPT !.process = none, !.timer = none]]]
      BY <1>1, <2>4, TwoFields, Zenon
    <3>2. [r.clients EXCEPT ![c] = [r.clients[c] EXCEPT !.process = none, !.timer = none]] = clients
      BY <2>4, Zenon
    <3> QED BY <3>1, <3>2, Zenon
  <2> QED BY <1>2, <2>1, <2>2, <2>3, <2>4
<1> HIDE DEF k
<1>5. /\ clients \in [Devices -> ClientState] /\ process \in [Processes -> ProcessData]
      /\ owner \in [Paths -> Processes \cup {none}]
      /\ \A d \in Devices : clients[d] = IF d = c THEN k ELSE s.clients[d]
      /\ \A q \in Processes : process[q] = IF q = p THEN NoProcess ELSE s.process[q]
      /\ \A q \in Paths : owner[q] = IF q = at THEN none ELSE s.owner[q]
  BY <1>1, <1>3 DEF ExtensionData, NoProcess, ProcessData
<1> HIDE DEF clients, process, owner
<1>6. t \in ExtensionData /\ t.clients = clients /\ t.process = process /\ t.owner = owner
      /\ t.deviceToConfig = s.deviceToConfig /\ t.resume = s.resume /\ t.suspended = s.suspended
      /\ t.widget = s.widget
  BY <1>1, <1>4, <1>5 DEF ExtensionData
<1> HIDE DEF stopped
<1>7. Kept(s, t)
  BY <1>3, <1>5, <1>6 DEF Kept
<1>8. Ended(s, t, c)
  BY <1>3, <1>5, <1>6 DEF Ended
<1>9. Linked(t)
  BY <1>1, <1>6, <1>7, KeptLinked DEF Good
<1>10. Held(t)
  <2>1. \A q \in Processes :
          LET it == t.process[q]
          IN /\ it.running => /\ it.config # none /\ it.path # none
                              /\ t.clients[it.config].process = q
                              /\ t.deviceToConfig[it.path] = it.config
                              /\ t.owner[it.path] = q
             /\ it.established => it.running
    <3> TAKE q \in Processes
    <3>1. CASE q = p
      BY <1>5, <1>6, <3>1 DEF NoProcess
    <3>2. CASE q # p
      <4>1. t.process[q] = s.process[q]
        BY <1>5, <1>6, <3>2
      <4>2. s.process[q].running => /\ s.process[q].config \in Devices /\ s.process[q].path \in Paths
                                    /\ s.clients[s.process[q].config].process = q
                                    /\ s.deviceToConfig[s.process[q].path] = s.process[q].config
                                    /\ s.owner[s.process[q].path] = q
        BY GoodFacts
      <4>3. s.process[q].running => s.process[q].config # c /\ s.process[q].path # at
        BY <1>1, <3>2, <4>2
      <4>4. s.process[q].established => s.process[q].running
        BY DEF Good, Held
      <4>5. s.process[q].running => s.process[q].config # none /\ s.process[q].path # none
        BY DEF Good, Held
      <4> QED BY <1>5, <1>6, <4>1, <4>2, <4>3, <4>4, <4>5
    <3> QED BY <3>1, <3>2
  <2>2. \A q \in Paths : t.owner[q] # none =>
          t.process[t.owner[q]].running /\ t.process[t.owner[q]].path = q
    <3> SUFFICES ASSUME NEW q \in Paths, t.owner[q] # none
                 PROVE  t.process[t.owner[q]].running /\ t.process[t.owner[q]].path = q
      OBVIOUS
    <3>1. q # at /\ t.owner[q] = s.owner[q]
      BY <1>5, <1>6
    <3>2. s.process[s.owner[q]].running /\ s.process[s.owner[q]].path = q /\ s.owner[q] \in Processes
      BY <1>1, <3>1 DEF Good, Held, ExtensionData
    <3>3. s.owner[q] # p
      BY <3>1, <3>2 DEF at
    <3> QED BY <1>5, <1>6, <3>1, <3>2, <3>3
  <2>3. \A d \in Devices :
          LET it == t.clients[d]
          IN /\ it.process # none => t.process[it.process].running /\ t.process[it.process].config = d
             /\ it.timer # none => /\ t.deviceToConfig[it.timer] = d /\ it.process # none
                                   /\ ~t.process[it.process].established
    <3> TAKE d \in Devices
    <3>1. CASE d = c
      BY <1>3, <1>5, <1>6, <3>1
    <3>2. CASE d # c
      <4>1. t.clients[d] = s.clients[d]
        BY <1>5, <1>6, <3>2
      <4>2. s.clients[d].process # none =>
              /\ s.clients[d].process \in Processes /\ s.process[s.clients[d].process].running
              /\ s.process[s.clients[d].process].config = d
        BY GoodFacts
      <4>3. s.clients[d].process # p
        BY <1>1, <3>2, <4>2
      <4>4. s.clients[d].process # none => t.process[s.clients[d].process] = s.process[s.clients[d].process]
        BY <1>5, <1>6, <4>2, <4>3
      <4>5. s.clients[d].timer # none => /\ s.deviceToConfig[s.clients[d].timer] = d /\ s.clients[d].process # none
                                         /\ ~s.process[s.clients[d].process].established
        BY DEF Good, Held
      <4> QED BY <1>6, <4>1, <4>2, <4>4, <4>5
    <3> QED BY <3>1, <3>2
  <2> QED BY <2>1, <2>2, <2>3 DEF Held
<1> QED BY <1>6, <1>7, <1>8, <1>9, <1>10 DEF Good
\* Nothing runs for a config any more, and what ran for others does.
Stopped(s, t, c) ==
  /\ \A d \in Devices : t.clients[d].process = IF d = c THEN none ELSE s.clients[d].process
  /\ \A p \in Processes : t.process[p].running => t.process[p] = s.process[p]
  /\ \A p \in Processes : s.process[p].running /\ s.process[p].config # c => t.process[p] = s.process[p]

LEMMA EndedStopped ==
  ASSUME NEW s, Good(s), NEW c \in Devices, s.clients[c].process # none, NEW t, Ended(s, t, c)
  PROVE  Stopped(s, t, c)
<1>1. s.process[s.clients[c].process].config = c
  BY GoodFacts
<1> QED BY <1>1 DEF Stopped, Ended, NoProcess

\* A config for which nothing runs is not stopped again.
LEMMA NotRunning ==
  ASSUME NEW s, Good(s), NEW c \in Devices, s.clients[c].process = none, NEW t, Same(s, t)
  PROVE  Stopped(s, t, c)
BY DEF Stopped, Same

LEMMA SameAfter ==
  ASSUME NEW s, NEW t, NEW u, Kept(s, t), Same(t, u)
  PROVE  Kept(s, u) /\ \A c : Stopped(s, t, c) => Stopped(s, u, c)
BY DEF Kept, Same, Stopped

LEMMA KeptAfter ==
  ASSUME NEW s, NEW t, NEW u, Kept(s, t), Kept(t, u)
  PROVE  Kept(s, u)
BY DEF Kept

\* handleConnectionFinished of a config for which nothing runs.
LEMMA FinishedSame ==
  ASSUME NEW s, Good(s), NEW c \in Devices, NEW path \in Paths, s.deviceToConfig[path] = c,
         s.clients[c].process = none
  PROVE  HandleConnectionFinished(s, path) \in ExtensionData
         /\ Same(s, HandleConnectionFinished(s, path))
<1> DEFINE k == [s.clients[c] EXCEPT !.process = none, !.timer = none]
           clients == [s.clients EXCEPT ![c] = k]
           t == [s EXCEPT !.clients = clients]
<1>1. /\ s \in ExtensionData /\ s.clients[c] \in ClientState /\ c # none /\ path # none
      /\ s.clients \in [Devices -> ClientState]
  BY GoodFacts DEF ExtensionData
<1>2. s.clients[c].timer = none
  BY DEF Good, Held
<1>3. k \in ClientState /\ k.process = none /\ k.timer = none /\ k.path = s.clients[c].path
      /\ k.available = s.clients[c].available /\ k.serial = s.clients[c].serial
  BY <1>1 DEF ClientState
<1>4. HandleConnectionFinished(s, path) = t
  <2>1. HandleConnectionFinished(s, path) = [s EXCEPT !.clients[c].process = none, !.clients[c].timer = none]
    BY <1>1 DEF HandleConnectionFinished, ByDevice
  <2>2. [s EXCEPT !.clients[c].process = none, !.clients[c].timer = none] = [s EXCEPT !.clients = clients]
    BY <1>1, TwoFields, Zenon
  <2> QED BY <2>1, <2>2, Zenon
<1> HIDE DEF k
<1>5. /\ clients \in [Devices -> ClientState]
      /\ \A d \in Devices : clients[d] = IF d = c THEN k ELSE s.clients[d]
  BY <1>1, <1>3
<1> HIDE DEF clients
<1>6. /\ t \in ExtensionData /\ t.clients = clients /\ t.process = s.process /\ t.owner = s.owner
      /\ t.deviceToConfig = s.deviceToConfig /\ t.resume = s.resume /\ t.suspended = s.suspended
      /\ t.widget = s.widget
  BY <1>1, <1>5 DEF ExtensionData
<1> HIDE DEF t
<1>7. Same(s, t)
  BY <1>2, <1>3, <1>5, <1>6 DEF Same, Kept
<1> QED BY <1>4, <1>6, <1>7

LEMMA StopBridgeClientKeeps ==
  ASSUME NEW s, Good(s), NEW path \in Paths \cup {none}, NEW t, t = StopBridgeClient(s, path)
  PROVE  Good(t) /\ Kept(s, t) /\ Stopped(s, t, ByDevice(s, path))
<1>1. CASE ByDevice(s, path) = none
  <2>1. t = s
    BY <1>1 DEF StopBridgeClient
  <2>2. \A d \in Devices : d # none
    BY GoodFacts
  <2> QED BY <1>1, <2>1, <2>2 DEF Kept, Stopped
<1>2. CASE ByDevice(s, path) # none
  <2> DEFINE c == s.deviceToConfig[path]
  <2>1. path \in Paths /\ c \in Devices /\ ByDevice(s, path) = c /\ c # none /\ s \in ExtensionData
    BY <1>2, GoodFacts DEF ByDevice
  <2> HIDE DEF c
  <2>2. CASE s.clients[c].process # none
    <3> DEFINE r == HandleConnectionFinished(StopProcess(s, s.clients[c].process), path)
    <3>1. t = SetConnected(r, c, FALSE)
      BY <2>1, <2>2 DEF StopBridgeClient, Running
    <3>2. Good(r) /\ Kept(s, r) /\ Ended(s, r, c)
      BY <2>1, <2>2, EndKeeps DEF c
    <3> HIDE DEF r
    <3>3. Stopped(s, r, c)
      BY <2>1, <2>2, <3>2, EndedStopped
    <3>4. t \in ExtensionData /\ Same(r, t)
      BY <2>1, <3>1, <3>2, SetConnectedSame DEF Good
    <3>5. Good(t)
      BY <3>2, <3>4, SameGood
    <3> QED BY <2>1, <3>2, <3>3, <3>4, <3>5, SameAfter
  <2>3. CASE s.clients[c].process = none
    <3> DEFINE r == HandleConnectionFinished(s, path)
    <3>1. t = SetConnected(r, c, FALSE)
      BY <2>1, <2>3 DEF StopBridgeClient, Running
    <3>2. r \in ExtensionData /\ Same(s, r)
      BY <2>1, <2>3, FinishedSame DEF c
    <3> HIDE DEF r
    <3>3. Good(r) /\ Kept(s, r) /\ Stopped(s, r, c)
      BY <2>1, <2>3, <3>2, SameGood, NotRunning DEF Same
    <3>4. t \in ExtensionData /\ Same(r, t)
      BY <2>1, <3>1, <3>2, SetConnectedSame
    <3>5. Good(t)
      BY <3>3, <3>4, SameGood
    <3> QED BY <2>1, <3>3, <3>4, <3>5, SameAfter
  <2> QED BY <2>2, <2>3
<1> QED BY <1>1, <1>2
(***************************************************************************)
(* While the tables are current: starting                                  *)
(***************************************************************************)

\* The path of a config is held by nobody when nothing runs for the config.
LEMMA NobodyHolds ==
  ASSUME NEW s, Good(s), NEW c \in Devices, NEW path \in Paths, s.deviceToConfig[path] = c,
         s.clients[c].process = none
  PROVE  s.owner[path] = none /\ \A p \in Processes : s.process[p].running => s.process[p].config # c
<1>1. \A p \in Processes : p # none
  BY GoodFacts
<1>2. \A p \in Processes : s.process[p].running => s.process[p].config # c
  BY <1>1 DEF Good, Held
<1>3. SUFFICES ASSUME s.owner[path] # none PROVE FALSE
  BY <1>2
<1>4. /\ s.owner[path] \in Processes /\ s.process[s.owner[path]].running
      /\ s.process[s.owner[path]].path = path
  BY <1>3 DEF Good, Held, ExtensionData
<1>5. s.process[s.owner[path]].config = c
  BY <1>4, GoodFacts
<1> QED BY <1>2, <1>4, <1>5

LEMMA GoodSound == ASSUME NEW s, Good(s) PROVE Sound(s)
BY GoodFacts DEF Sound

LEMMA StartKeeps ==
  ASSUME NEW s, Good(s), NEW c \in Devices, NEW path \in Paths, s.deviceToConfig[path] = c,
         s.clients[c].process = none, NEW p \in Free(s),
         NEW t, t = UpdateTimer(UpdateProcess(StartProcess(s, p, path, c), c, p), c, path)
  PROVE  Good(t) /\ Kept(s, t)
<1>1. /\ p \in Processes /\ ~s.process[p].running /\ s \in ExtensionData /\ p # none
      /\ path # none /\ c # none
  BY GoodFacts DEF Free
<1>2. s.owner[path] = none /\ \A q \in Processes : s.process[q].running => s.process[q].config # c
  BY NobodyHolds
<1>3. Begun(s, t, p, path, c)
  BY <1>1, StartBegun
<1>4. /\ t \in ExtensionData /\ Kept(s, t) /\ t.deviceToConfig = s.deviceToConfig
      /\ t.process[p].running /\ t.process[p].path = path /\ t.process[p].config = c
      /\ ~t.process[p].established
      /\ \A q \in Processes : q # p => t.process[q] = s.process[q]
      /\ \A q \in Paths : t.owner[q] = IF q = path THEN p ELSE s.owner[q]
      /\ t.clients[c].process = p /\ t.clients[c].timer = path
      /\ \A d \in Devices : d # c => t.clients[d] = s.clients[d]
  BY <1>3 DEF Begun, Kept
<1>5. Linked(t)
  BY <1>1, <1>4, KeptLinked DEF Good
<1>6. Held(t)
  <2>1. \A q \in Processes :
          LET it == t.process[q]
          IN /\ it.running => /\ it.config # none /\ it.path # none
                              /\ t.clients[it.config].process = q
                              /\ t.deviceToConfig[it.path] = it.config
                              /\ t.owner[it.path] = q
             /\ it.established => it.running
    <3> TAKE q \in Processes
    <3>1. CASE q = p
      BY <1>1, <1>4, <3>1
    <3>2. CASE q # p
      <4>1. t.process[q] = s.process[q]
        BY <1>4, <3>2
      <4>2. s.process[q].running => /\ s.process[q].config \in Devices /\ s.process[q].path \in Paths
                                    /\ s.clients[s.process[q].config].process = q
                                    /\ s.deviceToConfig[s.process[q].path] = s.process[q].config
                                    /\ s.owner[s.process[q].path] = q
        BY GoodFacts
      <4>3. s.process[q].running => s.process[q].config # c /\ s.process[q].path # path
        BY <1>2, <4>2
      <4>4. s.process[q].established => s.process[q].running
        BY DEF Good, Held
      <4>5. s.process[q].running => s.process[q].config # none /\ s.process[q].path # none
        BY DEF Good, Held
      <4> QED BY <1>4, <4>1, <4>2, <4>3, <4>4, <4>5
    <3> QED BY <3>1, <3>2
  <2>2. \A q \in Paths : t.owner[q] # none =>
          t.process[t.owner[q]].running /\ t.process[t.owner[q]].path = q
    <3> SUFFICES ASSUME NEW q \in Paths, t.owner[q] # none
                 PROVE  t.process[t.owner[q]].running /\ t.process[t.owner[q]].path = q
      OBVIOUS
    <3>1. CASE q = path
      BY <1>4, <3>1
    <3>2. CASE q # path
      <4>1. t.owner[q] = s.owner[q]
        BY <1>4, <3>2
      <4>2. s.process[s.owner[q]].running /\ s.process[s.owner[q]].path = q /\ s.owner[q] \in Processes
        BY <1>1, <4>1 DEF Good, Held, ExtensionData
      <4>3. s.owner[q] # p
        BY <1>1, <4>2
      <4> QED BY <1>4, <4>1, <4>2, <4>3
    <3> QED BY <3>1, <3>2
  <2>3. \A d \in Devices :
          LET it == t.clients[d]
          IN /\ it.process # none => t.process[it.process].running /\ t.process[it.process].config = d
             /\ it.timer # none => /\ t.deviceToConfig[it.timer] = d /\ it.process # none
                                   /\ ~t.process[it.process].established
    <3> TAKE d \in Devices
    <3>1. CASE d = c
      BY <1>1, <1>4, <3>1
    <3>2. CASE d # c
      <4>1. t.clients[d] = s.clients[d]
        BY <1>4, <3>2
      <4>2. s.clients[d].process # none =>
              /\ s.clients[d].process \in Processes /\ s.process[s.clients[d].process].running
              /\ s.process[s.clients[d].process].config = d
        BY GoodFacts
      <4>3. s.clients[d].process # none => t.process[s.clients[d].process] = s.process[s.clients[d].process]
        BY <1>1, <1>4, <4>2
      <4>4. s.clients[d].timer # none => /\ s.deviceToConfig[s.clients[d].timer] = d /\ s.clients[d].process # none
                                         /\ ~s.process[s.clients[d].process].established
        BY DEF Good, Held
      <4> QED BY <1>4, <4>1, <4>2, <4>3, <4>4
    <3> QED BY <3>1, <3>2
  <2> QED BY <2>1, <2>2, <2>3 DEF Held
<1> QED BY <1>4, <1>5, <1>6 DEF Good

LEMMA StopForConnectKeeps ==
  ASSUME NEW s, Good(s), NEW c \in Devices, NEW path \in Paths, s.deviceToConfig[path] = c,
         NEW t, t = StopForConnect(s, path, c)
  PROVE  Good(t) /\ Kept(s, t) /\ t.clients[c].process = none
<1> DEFINE device == IF Running(s, ByDevice(s, path)) THEN StopBridgeClient(s, path) ELSE s
<1>1. path # none /\ c # none /\ ByDevice(s, path) = c
  BY GoodFacts DEF ByDevice
<1>2. Good(device) /\ Kept(s, device) /\ device.clients[c].process = none
  <2>1. CASE Running(s, c)
    <3>1. device = StopBridgeClient(s, path)
      BY <1>1, <2>1
    <3> QED BY <1>1, <3>1, StopBridgeClientKeeps DEF Stopped
  <2>2. CASE ~Running(s, c)
    BY <1>1, <2>2 DEF Running, Kept
  <2> QED BY <2>1, <2>2
<1> HIDE DEF device
<1>3. device.owner[path] = none
  <2>1. device.deviceToConfig[path] = c
    BY <1>2 DEF Kept
  <2> QED BY <1>2, <2>1, NobodyHolds
<1>4. t = device
  BY <1>1, <1>2, <1>3 DEF StopForConnect, Running, device
<1> QED BY <1>2, <1>4

\* bridgeClientConnectToggled, to connect a config at its path.
LEMMA ConnectKeeps ==
  ASSUME NEW s, Good(s), NEW c \in Devices, NEW path \in Paths \cup {none},
         path # none => s.deviceToConfig[path] = c,
         NEW failing, NEW t, t = ConnectBridgeClient(s, path, c, failing)
  PROVE  Good(t) /\ Kept(s, t) /\ (s.suspended => t = s)
<1> DEFINE manual == SetManuallyDisconnected(s, c, FALSE)
           stopped == StopForConnect(manual, path, c)
           p == Min(Free(stopped))
           failed == UpdateTimer(UpdateProcess(stopped, c, none), c, none)
           started == UpdateTimer(UpdateProcess(StartProcess(stopped, p, path, c), c, p), c, path)
<1>1. CASE s.suspended
  <2>1. t = s
    BY <1>1 DEF ConnectBridgeClient
  <2> QED BY <2>1 DEF Kept
<1>2. CASE ~s.suspended
  <2>1. Good(manual) /\ Kept(s, manual)
    <3>1. manual \in ExtensionData /\ Same(s, manual)
      BY SetManuallySame DEF Good
    <3> HIDE DEF manual
    <3> QED BY <3>1, SameGood DEF Same
  <2>2. CASE path = none
    <3>1. t = manual
      BY <1>2, <2>2 DEF ConnectBridgeClient
    <3> QED BY <1>2, <2>1, <3>1
  <2>3. CASE path # none
    <3> HIDE DEF manual
    <3>1. manual.deviceToConfig[path] = c /\ path \in Paths
      BY <2>1, <2>3 DEF Kept
    <3>2. Good(stopped) /\ Kept(manual, stopped) /\ stopped.clients[c].process = none
      BY <2>1, <3>1, StopForConnectKeeps
    <3> HIDE DEF stopped
    <3>3. Kept(s, stopped) /\ stopped.deviceToConfig[path] = c
      BY <2>1, <3>1, <3>2, KeptAfter DEF Kept
    <3>4. CASE c \in failing
      <4>1. t = SetConnected(failed, c, FALSE)
        BY <1>2, <2>3, <3>4 DEF ConnectBridgeClient, manual, stopped
      <4>2. failed = HandleConnectionFinished(stopped, path)
        <5>1. ByDevice(stopped, path) = c /\ c # none
          BY <2>3, <3>2, <3>3, GoodFacts DEF ByDevice
        <5> QED BY <5>1 DEF HandleConnectionFinished, UpdateTimer, UpdateProcess
      <4>3. failed \in ExtensionData /\ Same(stopped, failed)
        BY <3>1, <3>2, <3>3, <4>2, FinishedSame
      <4> HIDE DEF failed
      <4>4. Good(failed) /\ Kept(s, failed)
        BY <3>2, <3>3, <4>3, SameGood, SameAfter
      <4>5. t \in ExtensionData /\ Same(failed, t)
        BY <4>1, <4>3, SetConnectedSame
      <4> QED BY <1>2, <4>4, <4>5, SameGood, SameAfter
    <3>5. CASE c \notin failing
      <4>1. t = SetConnected(started, c, TRUE)
        BY <1>2, <2>3, <3>5 DEF ConnectBridgeClient, manual, stopped
      <4>2. p \in Free(stopped)
        <5>1. Sound(stopped)
          BY <3>2, GoodSound
        <5>2. stopped.owner[path] = none
          BY <3>1, <3>2, <3>3, NobodyHolds
        <5>3. \A q \in Processes : stopped.process[q].running => stopped.process[q].path # path
          BY <5>1, <5>2, Numbers DEF Sound
        <5> QED BY <3>1, <5>1, <5>3, SomeFree
      <4> HIDE DEF p
      <4>3. Good(started) /\ Kept(stopped, started)
        BY <3>1, <3>2, <3>3, <4>2, StartKeeps
      <4> HIDE DEF started
      <4>4. Kept(s, started)
        BY <3>3, <4>3, KeptAfter
      <4>5. t \in ExtensionData /\ Same(started, t)
        BY <4>1, <4>3, SetConnectedSame DEF Good
      <4> QED BY <1>2, <4>3, <4>4, <4>5, SameGood, SameAfter
    <3> QED BY <3>4, <3>5
  <2> QED BY <2>2, <2>3
<1> QED BY <1>1, <1>2
LEMMA StopOneKeeps ==
  ASSUME NEW s, Good(s), NEW c \in Devices, NEW t, t = StopOne(s, c)
  PROVE  /\ Good(t) /\ Kept(s, t) /\ t.clients[c].process = none
         /\ \A d \in Devices : s.clients[d].process = none => t.clients[d].process = none
<1>1. c # none /\ s \in ExtensionData
  BY GoodFacts
<1>2. CASE s.clients[c].process = none
  BY <1>1, <1>2 DEF StopOne, Running, Kept
<1>3. CASE s.clients[c].process # none
  <2> DEFINE p == s.clients[c].process
             path == s.clients[c].path
  <2>1. p \in Processes /\ s.process[p].running /\ s.process[p].config = c
    BY <1>3, GoodFacts
  <2>2. s.process[p].path \in Paths /\ s.deviceToConfig[s.process[p].path] = c
    BY <2>1, GoodFacts
  <2>3. path \in Paths /\ s.deviceToConfig[path] = c /\ path # none
    BY <1>1, <2>2, GoodFacts
  <2>4. t = StopBridgeClient(s, path)
    BY <1>1, <1>3 DEF StopOne, Running
  <2>5. ByDevice(s, path) = c
    BY <2>3 DEF ByDevice
  <2> HIDE DEF p, path
  <2> QED BY <2>3, <2>4, <2>5, StopBridgeClientKeeps DEF Stopped
<1> QED BY <1>2, <1>3

LEMMA StopAllLoop ==
  ASSUME NEW s, Good(s), NEW t, t = ForEach(StopOne, DeviceCount, s)
  PROVE  Good(t) /\ Kept(s, t) /\ \A d \in Devices : t.clients[d].process = none
<1> DEFINE After(n, r) == Good(r) /\ Kept(s, r) /\ \A d \in 1..n : r.clients[d].process = none
           T == [n \in 0..DeviceCount |-> {r \in ExtensionData : After(n, r)}]
<1>1. DeviceCount \in Nat /\ Devices = 1..DeviceCount /\ s \in ExtensionData
  BY Numbers DEF Good
<1>2. After(0, s)
  BY DEF Kept
<1>3. ASSUME NEW n \in 1..DeviceCount, NEW r \in ExtensionData, After(n - 1, r)
      PROVE  StopOne(r, n) \in ExtensionData /\ After(n, StopOne(r, n))
  <2>1. n \in Devices /\ 1..n \subseteq Devices
    BY <1>1, <1>3
  <2>2. /\ Good(StopOne(r, n)) /\ Kept(r, StopOne(r, n)) /\ StopOne(r, n).clients[n].process = none
        /\ \A d \in Devices : r.clients[d].process = none => StopOne(r, n).clients[d].process = none
    BY <1>3, <2>1, StopOneKeeps
  <2>3. Kept(s, StopOne(r, n))
    BY <1>3, <2>2, KeptAfter
  <2>4. \A d \in 1..n : d = n \/ d \in 1..(n - 1)
    BY <1>1, <1>3
  <2> QED BY <1>3, <2>1, <2>2, <2>3, <2>4 DEF Good
<1> HIDE DEF After
<1>4. \A n \in 1..DeviceCount : \A r \in T[n - 1] : StopOne(r, n) \in T[n]
  <2> TAKE n \in 1..DeviceCount
  <2>1. n - 1 \in 0..DeviceCount /\ n \in 0..DeviceCount
    BY <1>1
  <2> TAKE r \in T[n - 1]
  <2>2. r \in ExtensionData /\ After(n - 1, r)
    BY <2>1
  <2> QED BY <1>3, <2>1, <2>2
<1>5. s \in T[0]
  BY <1>1, <1>2
<1>6. t \in T[DeviceCount]
  <2> HIDE DEF T
  <2> QED BY <1>4, <1>5, StopLoop
<1>7. After(DeviceCount, t)
  BY <1>1, <1>6
<1> QED BY <1>1, <1>7 DEF After

(***************************************************************************)
(* While the tables are current: devices that come and go                  *)
(***************************************************************************)

\* The manager's data after setDeviceAvailable: the path leads to e, and only
\* the config d had the path and has it.
Noted(s, t, path, d, e) ==
  /\ Aside(s, t)
  /\ \A q \in Paths : q # path => t.deviceToConfig[q] = s.deviceToConfig[q]
  /\ t.deviceToConfig[path] = e /\ (e = none => ~t.clients[d].available)
  /\ \A c \in Devices :
       /\ t.clients[c].serial = c
       /\ c = d => t.clients[c].path = path
       /\ c # d => /\ t.clients[c].path = s.clients[c].path /\ s.clients[c].path # path
                   /\ t.clients[c].available = s.clients[c].available

\* Where every serial is still the config's own afterwards, the path and the
\* serial meant one config.
LEMMA MeantOne ==
  ASSUME NEW s, NEW d \in Devices, NEW path \in Paths, NEW on \in BOOLEAN,
         \A c \in Devices : s.clients[c].serial = c,
         NEW t, Aside(s, t), Noticed(s, t, path, d, on), \A c \in Devices : t.clients[c].serial = c
  PROVE  Noted(s, t, path, d, IF on THEN d ELSE none)
<1> DEFINE meant == Meant(s, path, d)
<1>1. \A c \in Devices : c \in meant <=> c = d \/ s.clients[c].path = path
  BY DEF Meant
<1>2. /\ \A c \in Devices :
           IF c \in meant
           THEN t.clients[c].path = path /\ t.clients[c].serial = d /\ t.clients[c].available = on
           ELSE t.clients[c] = s.clients[c]
      /\ \A q \in Paths : q # path => t.deviceToConfig[q] = s.deviceToConfig[q]
      /\ t.deviceToConfig[path] = IF meant = {} THEN s.deviceToConfig[path]
                                  ELSE IF on THEN LastOf(meant) ELSE none
  BY DEF Noticed
<1>3. meant \in SUBSET Devices
  BY DEF Meant
<1> HIDE DEF meant
<1>4. \A c \in Devices : c \in meant <=> c = d
  BY <1>1, <1>2
<1>5. LastOf(meant) = d /\ meant # {}
  <2>1. meant # {}
    BY <1>4
  <2>2. LastOf(meant) \in meant
    BY <1>3, <2>1, Greatest
  <2> QED BY <1>3, <1>4, <2>1, <2>2
<1>6. none # d
  BY Numbers
<1> QED BY <1>1, <1>2, <1>4, <1>5, <1>6 DEF Noted

LEMMA AvailableKeeps ==
  ASSUME NEW s, Good(s), NEW d \in Devices, NEW path \in Paths,
         NEW t, Noted(s, t, path, d, d), Current(t)
  PROVE  /\ Good(t) /\ t.process = s.process /\ t.suspended = s.suspended
         /\ t.deviceToConfig[path] = d
<1>1. /\ t \in ExtensionData /\ t.process = s.process /\ t.owner = s.owner /\ t.widget = s.widget
      /\ t.resume = s.resume /\ t.suspended = s.suspended
      /\ t.deviceToConfig[path] = d
      /\ \A q \in Paths : q # path => t.deviceToConfig[q] = s.deviceToConfig[q]
      /\ \A c \in Devices :
           /\ t.clients[c].serial = c /\ t.clients[c].process = s.clients[c].process
           /\ t.clients[c].timer = s.clients[c].timer
           /\ c = d => t.clients[c].path = path
           /\ c # d => t.clients[c].path = s.clients[c].path /\ s.clients[c].path # path
                      /\ t.clients[c].available = s.clients[c].available
  BY DEF Noted, Aside
<1>2. path \in Paths /\ path # none /\ d # none /\ s \in ExtensionData
  BY GoodFacts
<1>3. \A q \in Paths : s.deviceToConfig[q] # none =>
        /\ s.deviceToConfig[q] \in Devices /\ s.clients[s.deviceToConfig[q]].path = q
        /\ (q # path => s.deviceToConfig[q] # d) /\ (q = path => s.deviceToConfig[q] = d)
  <2> TAKE q \in Paths
  <2>1. s.deviceToConfig[q] # none =>
          s.deviceToConfig[q] \in Devices /\ s.clients[s.deviceToConfig[q]].path = q
    BY GoodFacts
  <2>2. q # path => s.deviceToConfig[q] # d
    BY <1>1, <1>2 DEF Current
  <2> QED BY <1>1, <2>1, <2>2
<1>4. Linked(t)
  <2>1. ASSUME NEW c \in Devices
        PROVE  /\ t.clients[c].available => t.clients[c].path # none /\ t.deviceToConfig[t.clients[c].path] = c
               /\ t.widget[c].path # none => t.deviceToConfig[t.widget[c].path] = c
    <3>1. /\ s.clients[c].available => s.clients[c].path # none /\ s.deviceToConfig[s.clients[c].path] = c
          /\ s.widget[c].path # none => s.deviceToConfig[s.widget[c].path] = c
          /\ s.clients[c].path \in Paths \cup {none} /\ s.widget[c].path \in Paths \cup {none}
          /\ c # none
      BY <1>2, <2>1, GoodFacts DEF Good, Linked, ExtensionData, ClientState
    <3>2. \A q \in Paths : s.deviceToConfig[q] = c => t.deviceToConfig[q] = c
      BY <1>1, <1>3, <3>1
    <3> QED BY <1>1, <1>2, <2>1, <3>1, <3>2
  <2> QED BY <2>1 DEF Linked
<1>5. Held(t)
  <2>1. \A p \in Processes :
          LET it == t.process[p]
          IN /\ it.running => /\ it.config # none /\ it.path # none
                              /\ t.clients[it.config].process = p
                              /\ t.deviceToConfig[it.path] = it.config
                              /\ t.owner[it.path] = p
             /\ it.established => it.running
    <3> TAKE p \in Processes
    <3>1. s.process[p].running => /\ s.process[p].config \in Devices /\ s.process[p].path \in Paths
                                  /\ s.clients[s.process[p].config].process = p
                                  /\ s.deviceToConfig[s.process[p].path] = s.process[p].config
                                  /\ s.owner[s.process[p].path] = p
      BY GoodFacts
    <3>2. /\ s.process[p].established => s.process[p].running
          /\ s.process[p].running => s.process[p].config # none /\ s.process[p].path # none
      BY DEF Good, Held
    <3> QED BY <1>1, <1>3, <3>1, <3>2
  <2>2. \A q \in Paths : t.owner[q] # none =>
          t.process[t.owner[q]].running /\ t.process[t.owner[q]].path = q
    BY <1>1 DEF Good, Held
  <2>3. \A c \in Devices :
          LET it == t.clients[c]
          IN /\ it.process # none => t.process[it.process].running /\ t.process[it.process].config = c
             /\ it.timer # none => /\ t.deviceToConfig[it.timer] = c /\ it.process # none
                                   /\ ~t.process[it.process].established
    <3> TAKE c \in Devices
    <3>1. /\ s.clients[c].process # none =>
               s.process[s.clients[c].process].running /\ s.process[s.clients[c].process].config = c
          /\ s.clients[c].timer # none =>
               /\ s.deviceToConfig[s.clients[c].timer] = c /\ s.clients[c].process # none
               /\ ~s.process[s.clients[c].process].established
      BY DEF Good, Held
    <3>2. s.clients[c].timer \in Paths \cup {none} /\ c # none
      BY <1>2, GoodFacts DEF ExtensionData, ClientState
    <3>3. \A q \in Paths : s.deviceToConfig[q] = c => t.deviceToConfig[q] = c
      BY <1>1, <1>3, <3>2
    <3> QED BY <1>1, <3>1, <3>2, <3>3
  <2> QED BY <2>1, <2>2, <2>3 DEF Held
<1> QED BY <1>1, <1>2, <1>4, <1>5 DEF Good

\* The widget of a config shows its path, or none.
LEMMA SetPathGood ==
  ASSUME NEW s, Good(s), NEW c \in Devices, NEW path \in Paths \cup {none},
         path # none => s.deviceToConfig[path] = c, NEW t, t = SetPath(s, c, path)
  PROVE  /\ Good(t) /\ t.process = s.process /\ t.suspended = s.suspended /\ t.clients = s.clients
         /\ t.deviceToConfig = s.deviceToConfig /\ t.resume = s.resume /\ t.widget[c].path = path
<1>1. s \in ExtensionData /\ Linked(s) /\ Held(s)
  BY DEF Good
<1>2. /\ t \in ExtensionData /\ t.process = s.process /\ t.owner = s.owner
      /\ t.suspended = s.suspended /\ t.clients = s.clients
      /\ t.deviceToConfig = s.deviceToConfig /\ t.resume = s.resume /\ t.widget[c].path = path
      /\ \A d \in Devices : d # c => t.widget[d] = s.widget[d]
  BY <1>1, SetPathFields
<1>3. Linked(t)
  BY <1>1, <1>2 DEF Linked, Current
<1>4. Held(t)
  BY <1>1, <1>2 DEF Held
<1> QED BY <1>2, <1>3, <1>4 DEF Good

LEMMA AwayGood ==
  ASSUME NEW s, Good(s), NEW d \in Devices, NEW path \in Paths,
         s.clients[d].process = none, s.widget[d].path = none,
         NEW u, Noted(s, u, path, d, none), NEW t, t = [u EXCEPT !.resume[path] = none], Current(t)
  PROVE  Good(t)
<1>1. /\ u \in ExtensionData /\ u.process = s.process /\ u.owner = s.owner /\ u.widget = s.widget
      /\ u.resume = s.resume /\ u.suspended = s.suspended
      /\ \A q \in Paths : q # path => u.deviceToConfig[q] = s.deviceToConfig[q]
      /\ u.deviceToConfig[path] = none /\ ~u.clients[d].available
      /\ \A c \in Devices :
           /\ u.clients[c].serial = c /\ u.clients[c].process = s.clients[c].process
           /\ u.clients[c].timer = s.clients[c].timer
           /\ c = d => u.clients[c].path = path
           /\ c # d => u.clients[c].path = s.clients[c].path /\ s.clients[c].path # path
                      /\ u.clients[c].available = s.clients[c].available
  BY DEF Noted, Aside
<1>2. /\ t \in ExtensionData /\ t.process = u.process /\ t.owner = u.owner /\ t.widget = u.widget
      /\ t.suspended = u.suspended /\ t.deviceToConfig = u.deviceToConfig /\ t.clients = u.clients
      /\ t.resume[path] = none /\ \A q \in Paths : q # path => t.resume[q] = u.resume[q]
  BY <1>1 DEF ExtensionData
<1>3. path # none /\ d # none /\ s \in ExtensionData
  BY GoodFacts
<1>4. \A q \in Paths : s.deviceToConfig[q] # none =>
        /\ s.deviceToConfig[q] \in Devices /\ s.clients[s.deviceToConfig[q]].path = q
        /\ (q # path => s.deviceToConfig[q] # d) /\ (q = path => s.deviceToConfig[q] = d)
  <2> TAKE q \in Paths
  <2>1. s.deviceToConfig[q] # none =>
          s.deviceToConfig[q] \in Devices /\ s.clients[s.deviceToConfig[q]].path = q
    BY GoodFacts
  <2>2. q # path => s.deviceToConfig[q] # d
    BY <1>1, <1>2, <1>3 DEF Current
  <2> QED BY <1>1, <2>1, <2>2
<1>5. Linked(t)
  <2>1. ASSUME NEW c \in Devices
        PROVE  /\ t.clients[c].available => t.clients[c].path # none /\ t.deviceToConfig[t.clients[c].path] = c
               /\ t.widget[c].path # none => t.deviceToConfig[t.widget[c].path] = c
    <3>1. /\ s.clients[c].available => s.clients[c].path # none /\ s.deviceToConfig[s.clients[c].path] = c
          /\ s.widget[c].path # none => s.deviceToConfig[s.widget[c].path] = c
          /\ s.clients[c].path \in Paths \cup {none} /\ s.widget[c].path \in Paths \cup {none}
          /\ c # none
      BY <1>3, <2>1, GoodFacts DEF Good, Linked, ExtensionData, ClientState
    <3>2. \A q \in Paths : c # d /\ s.deviceToConfig[q] = c => t.deviceToConfig[q] = c
      BY <1>1, <1>2, <1>4, <3>1
    <3> QED BY <1>1, <1>2, <1>3, <2>1, <3>1, <3>2
  <2> QED BY <2>1 DEF Linked
<1>6. Held(t)
  <2>1. \A p \in Processes :
          LET it == t.process[p]
          IN /\ it.running => /\ it.config # none /\ it.path # none
                              /\ t.clients[it.config].process = p
                              /\ t.deviceToConfig[it.path] = it.config
                              /\ t.owner[it.path] = p
             /\ it.established => it.running
    <3> TAKE p \in Processes
    <3>1. s.process[p].running => /\ s.process[p].config \in Devices /\ s.process[p].path \in Paths
                                  /\ s.clients[s.process[p].config].process = p /\ p # none
                                  /\ s.deviceToConfig[s.process[p].path] = s.process[p].config
                                  /\ s.owner[s.process[p].path] = p
      BY GoodFacts
    <3>2. /\ s.process[p].established => s.process[p].running
          /\ s.process[p].running => s.process[p].config # none /\ s.process[p].path # none
      BY DEF Good, Held
    <3>3. s.process[p].running => s.process[p].path # path
      BY <1>4, <3>1, <3>2
    <3> QED BY <1>1, <1>2, <3>1, <3>2, <3>3
  <2>2. \A q \in Paths : t.owner[q] # none =>
          t.process[t.owner[q]].running /\ t.process[t.owner[q]].path = q
    BY <1>1, <1>2 DEF Good, Held
  <2>3. \A c \in Devices :
          LET it == t.clients[c]
          IN /\ it.process # none => t.process[it.process].running /\ t.process[it.process].config = c
             /\ it.timer # none => /\ t.deviceToConfig[it.timer] = c /\ it.process # none
                                   /\ ~t.process[it.process].established
    <3> TAKE c \in Devices
    <3>1. /\ s.clients[c].process # none =>
               s.process[s.clients[c].process].running /\ s.process[s.clients[c].process].config = c
          /\ s.clients[c].timer # none =>
               /\ s.deviceToConfig[s.clients[c].timer] = c /\ s.clients[c].process # none
               /\ ~s.process[s.clients[c].process].established
      BY DEF Good, Held
    <3>2. s.clients[c].timer \in Paths \cup {none} /\ c # none
      BY <1>3, GoodFacts DEF ExtensionData, ClientState
    <3>3. \A q \in Paths : c # d /\ s.deviceToConfig[q] = c => t.deviceToConfig[q] = c
      BY <1>1, <1>2, <1>4, <3>2
    <3> QED BY <1>1, <1>2, <3>1, <3>2, <3>3
  <2> QED BY <2>1, <2>2, <2>3 DEF Held
<1> QED BY <1>1, <1>2, <1>5, <1>6 DEF Good

LEMMA UsbDeviceDisconnectedKeeps ==
  ASSUME NEW s, Good(s), NEW d \in Devices, NEW path \in Paths,
         NEW t, t = UsbDeviceDisconnected(s, path, d), Current(t)
  PROVE  Good(t)
<1> DEFINE c == ByDevice(s, path)
           stopped == IF Running(s, c) THEN StopBridgeClient(s, path) ELSE s
           hidden == IF c = none THEN stopped ELSE SetPath(stopped, c, none)
           u == SetDeviceAvailable(hidden, path, d, FALSE)
<1>1. path # none /\ d # none /\ c = s.deviceToConfig[path] /\ s \in ExtensionData
  BY GoodFacts DEF ByDevice
<1>2. c # none => c \in Devices /\ s.clients[c].path = path
  BY <1>1, GoodFacts
<1>3. Good(stopped) /\ Kept(s, stopped)
      /\ (c # none => stopped.clients[c].process = none)
  <2>1. CASE Running(s, c)
    <3>1. stopped = StopBridgeClient(s, path)
      BY <2>1
    <3>2. Good(stopped) /\ Kept(s, stopped) /\ Stopped(s, stopped, c)
      BY <1>1, <3>1, StopBridgeClientKeeps
    <3> QED BY <1>2, <3>2 DEF Stopped
  <2>2. CASE ~Running(s, c)
    BY <1>2, <2>2 DEF Running, Kept
  <2> QED BY <2>1, <2>2
<1> HIDE DEF stopped
<1>4. /\ Good(hidden) /\ hidden.clients = stopped.clients
      /\ hidden.deviceToConfig = stopped.deviceToConfig
      /\ c # none => hidden.widget[c].path = none
  <2>1. CASE c = none
    BY <1>3, <2>1
  <2>2. CASE c # none
    BY <1>2, <1>3, <2>2, SetPathGood
  <2> QED BY <2>1, <2>2
<1> HIDE DEF hidden
<1>5. hidden \in ExtensionData /\ \A e \in Devices : hidden.clients[e].serial = e
  BY <1>4, GoodFacts
<1>6. Aside(hidden, u) /\ Noticed(hidden, u, path, d, FALSE)
  BY <1>5, AvailableAside
<1>7. t = [u EXCEPT !.resume[path] = none]
  BY DEF UsbDeviceDisconnected, u, hidden, stopped
<1> HIDE DEF u
<1>8. t.clients = u.clients /\ t.deviceToConfig = u.deviceToConfig
  BY <1>6, <1>7 DEF Aside, ExtensionData
<1>9. Noted(hidden, u, path, d, none)
  <2>1. \A e \in Devices : u.clients[e].serial = e
    BY <1>8 DEF Current
  <2> QED BY <1>5, <1>6, <2>1, MeantOne
\* No other path leads to the device.
<1>10. \A q \in Paths : stopped.deviceToConfig[q] = d => c = d
  <2> TAKE q \in Paths
  <2>1. CASE q = path
    BY <1>1, <1>3, <2>1 DEF Kept
  <2>2. CASE q # path
    <3>1. t.deviceToConfig[q] = stopped.deviceToConfig[q] /\ t.clients[d].path = path
      BY <1>4, <1>8, <1>9, <2>2 DEF Noted
    <3> QED BY <1>1, <2>2, <3>1 DEF Current
  <2> QED BY <2>1, <2>2
<1>11. stopped.clients[d].process = none
  <2> SUFFICES ASSUME stopped.clients[d].process # none PROVE c = d
    BY <1>1, <1>3
  <2> DEFINE p == stopped.clients[d].process
  <2>1. p \in Processes /\ stopped.process[p].running /\ stopped.process[p].config = d
    BY <1>3, GoodFacts
  <2>2. stopped.process[p].path \in Paths /\ stopped.deviceToConfig[stopped.process[p].path] = d
    BY <1>3, <2>1, GoodFacts
  <2> QED BY <1>10, <2>2
<1>12. hidden.clients[d].process = none /\ hidden.widget[d].path = none
  <2>1. hidden.widget[d].path \in Paths \cup {none}
        /\ (hidden.widget[d].path # none => hidden.deviceToConfig[hidden.widget[d].path] = d)
    BY <1>4 DEF Good, Linked, ExtensionData
  <2> QED BY <1>1, <1>4, <1>10, <1>11, <2>1
<1>13. Good(hidden) /\ hidden.clients[d].process = none /\ hidden.widget[d].path = none
  BY <1>4, <1>12
<1> HIDE DEF c
<1> QED BY <1>7, <1>9, <1>13, AwayGood

LEMMA UsbDeviceConnectedKeeps ==
  ASSUME NEW s, Good(s), NEW d \in Devices, NEW path \in Paths, NEW failing,
         NEW t, t = UsbDeviceConnected(s, path, d, failing), Current(t)
  PROVE  Good(t)
<1> DEFINE found == SetDeviceAvailable(s, path, d, TRUE)
           known == SetPath(found, d, path)
           wanted == SetManuallyDisconnected(known, d, FALSE)
           ready == ClearAttempts(wanted, d)
<1>1. t = ready \/ t = ConnectBridgeClient(ready, path, d, failing)
  BY DEF UsbDeviceConnected
<1>2. s \in ExtensionData /\ \A c \in Devices : s.clients[c].serial = c
  BY GoodFacts
<1>3. Aside(s, found) /\ Noticed(s, found, path, d, TRUE)
  BY <1>2, AvailableAside
<1>4. found \in ExtensionData /\ found.process = s.process /\ found.owner = s.owner
  BY <1>3 DEF Aside
<1> HIDE DEF found
<1>5. /\ known \in ExtensionData /\ known.process = s.process /\ known.owner = s.owner
      /\ known.clients = found.clients /\ known.deviceToConfig = found.deviceToConfig
      /\ known.resume = found.resume
  BY <1>4, SetPathFields
<1>6. wanted \in ExtensionData /\ Same(known, wanted)
  <2> HIDE DEF known
  <2> QED BY <1>5, SetManuallySame
<1>7. ready \in ExtensionData /\ Same(wanted, ready)
  <2> HIDE DEF wanted
  <2> QED BY <1>6, ClearAttemptsSame
<1>8. Kept(ready, t) /\ Same(known, ready)
  <2> HIDE DEF known, wanted, ready
  <2>1. Same(known, ready)
    BY <1>6, <1>7, SameTransitive
  <2>2. Sound(s)
    BY GoodSound
  <2>3. Sound(ready)
    BY <1>5, <1>7, <2>1, <2>2, SameSound DEF Same
  <2>4. Kept(ready, ready)
    BY DEF Kept
  <2> QED BY <1>1, <2>1, <2>3, <2>4, ConnectSound
<1>9. Current(found)
  <2> HIDE DEF known, wanted, ready
  <2>1. Kept(known, t)
    BY <1>8, KeptAfter DEF Same
  <2>2. found.deviceToConfig \in [Paths -> Devices \cup {none}]
    BY <1>4 DEF ExtensionData
  <2> QED BY <1>5, <2>1, <2>2 DEF Kept, Current
<1>10. Noted(s, found, path, d, d)
  <2>1. \A c \in Devices : found.clients[c].serial = c
    BY <1>9 DEF Current
  <2> QED BY <1>2, <1>3, <2>1, MeantOne
<1>11. Good(found) /\ found.deviceToConfig[path] = d
  BY <1>9, <1>10, AvailableKeeps
<1>12. Good(known) /\ known.deviceToConfig[path] = d
  BY <1>11, SetPathGood
<1> HIDE DEF known, wanted, ready
<1>13. Good(ready) /\ ready.deviceToConfig[path] = d
  BY <1>7, <1>8, <1>12, SameGood DEF Same, Kept
<1> QED BY <1>1, <1>13, ConnectKeeps

(***************************************************************************)
(* While the tables are current: the handlers                              *)
(***************************************************************************)

\* What only changes what is to be resumed.
LEMMA ResumeGood ==
  ASSUME NEW s, Good(s), NEW resume \in [Paths -> Devices \cup {none}],
         \A q \in Paths : resume[q] # none => s.deviceToConfig[q] = resume[q],
         NEW t, t = [s EXCEPT !.resume = resume]
  PROVE  Good(t) /\ t.process = s.process /\ t.suspended = s.suspended
<1>1. s \in ExtensionData /\ Linked(s) /\ Held(s)
  BY DEF Good
<1>2. /\ t \in ExtensionData /\ t.process = s.process /\ t.owner = s.owner /\ t.widget = s.widget
      /\ t.clients = s.clients /\ t.deviceToConfig = s.deviceToConfig /\ t.resume = resume
      /\ t.suspended = s.suspended
  BY <1>1 DEF ExtensionData
<1>3. Linked(t)
  BY <1>1, <1>2 DEF Linked, Current
<1>4. Held(t)
  BY <1>1, <1>2 DEF Held
<1> QED BY <1>2, <1>3, <1>4 DEF Good

LEMMA RequestsGood ==
  ASSUME NEW s, Good(s), NEW failing, NEW t, t = ProcessConnectionRequests(s, failing)
  PROVE  Good(t)
<1> DEFINE S == {r \in ExtensionData : Good(r)}
           R == [n \in 0..PathCount |-> S]
           C == [n \in 0..DeviceCount |-> S]
           nothing == [p \in Paths |-> none]
           first == AllResumed(s, failing)
           resumed == [first EXCEPT !.resume = nothing]
<1>1. /\ 0 \in 0..PathCount /\ PathCount \in 0..PathCount /\ Paths = 1..PathCount
      /\ \A n \in 1..PathCount : n \in 0..PathCount /\ n - 1 \in 0..PathCount
      /\ 0 \in 0..DeviceCount /\ DeviceCount \in 0..DeviceCount /\ Devices = 1..DeviceCount
      /\ \A n \in 1..DeviceCount : n \in 0..DeviceCount /\ n - 1 \in 0..DeviceCount
  BY Numbers
<1>2. ASSUME NEW r \in S, NEW path \in Paths
      PROVE  ResumeOne(r, path, failing) \in S
  <2>1. CASE r.resume[path] = none
    BY <2>1 DEF ResumeOne
  <2>2. CASE r.resume[path] # none
    <3> DEFINE c == r.resume[path]
               u == ConnectBridgeClient(r, path, c, failing)
    <3>1. c \in Devices /\ r.deviceToConfig[path] = c
      <4>1. Good(r) /\ r \in ExtensionData
        OBVIOUS
      <4>2. r.deviceToConfig[path] = c
        BY <2>2, <4>1, GoodFacts
      <4>3. c \in Devices \cup {none}
        BY <4>1 DEF ExtensionData
      <4> QED BY <2>2, <4>2, <4>3
    <3>2. ResumeOne(r, path, failing) = u
      BY <2>2 DEF ResumeOne
    <3>3. Good(u)
      <4> HIDE DEF c
      <4> QED BY <3>1, ConnectKeeps
    <3> HIDE DEF u
    <3> QED BY <3>2, <3>3 DEF Good
  <2> QED BY <2>1, <2>2
<1>3. ASSUME NEW r \in S, NEW c \in Devices
      PROVE  AutoConnectOne(r, c, failing) \in S
  <2> DEFINE path == r.widget[c].path
             u == ConnectBridgeClient(r, path, c, failing)
  <2>1. AutoConnectOne(r, c, failing) = r \/ AutoConnectOne(r, c, failing) = u
    BY DEF AutoConnectOne
  <2>2. path \in Paths \cup {none} /\ (path # none => r.deviceToConfig[path] = c)
    BY DEF Good, Linked, ExtensionData
  <2>3. Good(u)
    <3> HIDE DEF path
    <3> QED BY <2>2, ConnectKeeps
  <2> HIDE DEF u
  <2> QED BY <2>1, <2>3 DEF Good
<1>4. s \in S
  BY DEF Good
<1> HIDE DEF S
<1>5. first \in S
  <2>1. s \in R[0] /\ \A n \in 1..PathCount : \A r \in R[n - 1] : ResumeOne(r, n, failing) \in R[n]
    BY <1>1, <1>2, <1>4
  <2>2. R[PathCount] = S
    BY <1>1
  <2> HIDE DEF R
  <2> QED BY <2>1, <2>2, ResumeLoop
<1>6. t = AllConnected(resumed, failing)
  BY DEF ProcessConnectionRequests, AllResumed, AllConnected
<1> HIDE DEF first
<1>7. resumed \in S
  <2>1. nothing \in [Paths -> Devices \cup {none}] /\ \A q \in Paths : nothing[q] = none
    OBVIOUS
  <2> HIDE DEF nothing
  <2>2. Good(first)
    BY <1>5 DEF S
  <2>3. Good(resumed)
    BY <2>1, <2>2, ResumeGood
  <2> HIDE DEF resumed
  <2> QED BY <2>3 DEF S, Good
<1> HIDE DEF resumed
<1>8. t \in S
  <2>1. resumed \in C[0] /\ \A n \in 1..DeviceCount : \A r \in C[n - 1] : AutoConnectOne(r, n, failing) \in C[n]
    BY <1>1, <1>3, <1>7
  <2>2. C[DeviceCount] = S
    BY <1>1
  <2> HIDE DEF C
  <2> QED BY <1>6, <2>1, <2>2, AutoConnectLoop
<1> QED BY <1>8 DEF S

LEMMA StopAllKeeps ==
  ASSUME NEW s, Good(s), NEW t, t = StopAllBridgeClients(s)
  PROVE  Good(t) /\ Quiet(t) /\ t.suspended = s.suspended
<1> DEFINE stopped == ForEach(StopOne, DeviceCount, s)
           widget == [c \in Devices |-> [stopped.widget[c] EXCEPT !.connected = FALSE]]
<1>1. Good(stopped) /\ Kept(s, stopped) /\ \A d \in Devices : stopped.clients[d].process = none
  BY StopAllLoop
<1>2. t = [stopped EXCEPT !.widget = widget]
  BY DEF StopAllBridgeClients
<1> HIDE DEF stopped
<1>3. stopped \in ExtensionData
  BY <1>1 DEF Good
<1>4. /\ widget \in [Devices -> [path : Paths \cup {none}, connected : BOOLEAN]]
      /\ \A d \in Devices : widget[d].path = stopped.widget[d].path
  BY <1>3 DEF ExtensionData
<1> HIDE DEF widget
<1>5. t \in ExtensionData /\ Same(stopped, t)
  BY <1>2, <1>3, <1>4 DEF ExtensionData, Same, Kept
<1>6. Good(t)
  BY <1>1, <1>5, SameGood
<1>7. Quiet(t)
  <2>1. \A d \in Devices : t.clients[d].process = none
    BY <1>1, <1>5 DEF Same
  <2> QED BY <1>6, <2>1, GoodFacts DEF Quiet
<1> QED BY <1>1, <1>5, <1>6, <1>7 DEF Kept, Same

\* onServerConnectionStateChanged(Disconnected)
LEMMA ServerLostKeeps ==
  ASSUME NEW s, Good(s), NEW t, t = ServerLost(s)
  PROVE  Good(t) /\ Quiet(t) /\ t.suspended = s.suspended
<1>1. s \in ExtensionData
  BY DEF Good
<1>2. PICK resume \in [Paths -> Devices \cup {none}] :
        t = StopAllBridgeClients([s EXCEPT !.resume = resume]) /\ Notes(s, resume)
  BY <1>1, LostFields
<1> DEFINE at(p) == {c \in Devices : Running(s, c) /\ s.clients[c].path = p}
<1>3. /\ t = StopAllBridgeClients([s EXCEPT !.resume = resume])
      /\ \A p \in Paths : resume[p] = IF at(p) = {} THEN s.resume[p] ELSE LastOf(at(p))
  BY <1>2 DEF Notes
<1> DEFINE noted == [s EXCEPT !.resume = resume]
\* What runs at a path runs for the path's config.
<1>4. ASSUME NEW p \in Paths, at(p) # {}
      PROVE  s.deviceToConfig[p] \in Devices /\ LastOf(at(p)) = s.deviceToConfig[p]
  <2>1. ASSUME NEW c \in Devices, c \in at(p)
        PROVE  c = s.deviceToConfig[p]
    <3>1. s.clients[c].process # none /\ s.clients[c].path = p
      BY <2>1 DEF Running
    <3> DEFINE q == s.clients[c].process
    <3>2. q \in Processes /\ s.process[q].running /\ s.process[q].config = c
      BY <2>1, <3>1, GoodFacts
    <3>3. s.process[q].path \in Paths /\ s.deviceToConfig[s.process[q].path] = c
      BY <3>2, GoodFacts
    <3>4. s.clients[c].path = s.process[q].path
      BY <2>1, <3>3, GoodFacts
    <3> QED BY <3>1, <3>3, <3>4
  <2>2. PICK c \in Devices : c \in at(p)
    BY <1>4
  <2>3. at(p) = {c} /\ c = s.deviceToConfig[p]
    <3> HIDE DEF at
    <3>1. c = s.deviceToConfig[p]
      BY <2>1, <2>2
    <3>2. at(p) \subseteq Devices
      BY DEF at
    <3> QED BY <2>1, <2>2, <3>1, <3>2
  <2>4. LastOf({c}) = c
    <3>1. c \in Nat
      BY <2>2, ManagerAssumption DEF Devices
    <3> QED BY <3>1 DEF LastOf, Max
  <2> HIDE DEF at
  <2> QED BY <2>2, <2>3, <2>4
<1> HIDE DEF at
<1>5. \A q \in Paths : s.resume[q] # none => s.deviceToConfig[q] = s.resume[q]
  BY GoodFacts
<1>6. \A q \in Paths : resume[q] # none => s.deviceToConfig[q] = resume[q]
  BY <1>4, <1>5, <1>3
<1>7. Good(noted) /\ noted.suspended = s.suspended
  BY <1>6, ResumeGood
<1>8. t = StopAllBridgeClients(noted)
  BY <1>3
<1> HIDE DEF noted
<1> QED BY <1>7, <1>8, StopAllKeeps

LEMMA ConnectionEstablishedKeeps ==
  ASSUME NEW s, Good(s), NEW p \in Processes, s.process[p].running,
         NEW t, t = [HandleConnectionEstablished(s, s.process[p].path) EXCEPT !.process[p].established = TRUE]
  PROVE  Good(t)
<1> DEFINE path == s.process[p].path
           c == s.process[p].config
           k1 == [s.clients[c] EXCEPT !.attempts = 0]
           k == [k1 EXCEPT !.timer = none]
           clients == [s.clients EXCEPT ![c] = k]
           it == [s.process[p] EXCEPT !.established = TRUE]
           process == [s.process EXCEPT ![p] = it]
           told == [s EXCEPT !.clients = clients]
<1>1. /\ c \in Devices /\ path \in Paths /\ s.deviceToConfig[path] = c /\ s.clients[c].process = p
      /\ s.clients[c] \in ClientState /\ s \in ExtensionData /\ s.process[p] \in ProcessData
      /\ c # none /\ path # none
  BY GoodFacts
<1>2. k1 \in ClientState /\ k1.path = s.clients[c].path /\ k1.available = s.clients[c].available
      /\ k1.serial = s.clients[c].serial /\ k1.process = p
  BY <1>1 DEF ClientState
<1>3. HandleConnectionEstablished(s, path) = told
  <2>1. HandleConnectionEstablished(s, path)
          = [[s EXCEPT !.clients[c].attempts = 0] EXCEPT !.clients[c].timer = none]
    BY <1>1 DEF HandleConnectionEstablished, ByDevice
  <2> DEFINE m1 == [s.clients EXCEPT ![c] = k1]
             r1 == [s EXCEPT !.clients = m1]
  <2>2. [s EXCEPT !.clients[c].attempts = 0] = r1
    BY <1>1 DEF ExtensionData
  <2> HIDE DEF k1
  <2>3. r1.clients = m1 /\ m1[c] = k1
    BY <1>1 DEF ExtensionData
  <2>4. [r1 EXCEPT !.clients[c].timer = none] = [r1 EXCEPT !.clients = [m1 EXCEPT ![c] = k]]
    BY <1>1, <2>3 DEF ExtensionData
  <2>5. [m1 EXCEPT ![c] = k] = clients
    <3> HIDE DEF k
    <3> QED BY <1>1 DEF ExtensionData
  <2>6. [r1 EXCEPT !.clients = [m1 EXCEPT ![c] = k]] = told
    <3> HIDE DEF k, m1, clients
    <3> QED BY <1>1, <2>5 DEF ExtensionData
  <2> HIDE DEF m1, r1, k, clients
  <2> QED BY <2>1, <2>2, <2>4, <2>6
<1> HIDE DEF k1
<1>4. k \in ClientState /\ k.path = s.clients[c].path /\ k.available = s.clients[c].available
      /\ k.serial = s.clients[c].serial /\ k.process = p /\ k.timer = none
  BY <1>2 DEF ClientState
<1>5. it \in ProcessData /\ it.running /\ it.path = path /\ it.config = c
  BY <1>1 DEF ProcessData
<1> HIDE DEF k
<1>6. clients \in [Devices -> ClientState] /\ \A d \in Devices : clients[d] = IF d = c THEN k ELSE s.clients[d]
  BY <1>1, <1>4 DEF ExtensionData
<1>7. t = [told EXCEPT !.process = process]
  <2>1. told.process = s.process
    BY <1>1 DEF ExtensionData
  <2> QED BY <1>3, <2>1
<1> HIDE DEF it
<1>8. /\ process \in [Processes -> ProcessData]
      /\ \A q \in Processes : process[q] = IF q = p THEN it ELSE s.process[q]
  BY <1>1, <1>5 DEF ExtensionData
<1> HIDE DEF clients, process
<1>9. /\ t \in ExtensionData /\ t.clients = clients /\ t.process = process /\ t.owner = s.owner
      /\ t.deviceToConfig = s.deviceToConfig /\ t.resume = s.resume /\ t.suspended = s.suspended
      /\ t.widget = s.widget
  BY <1>1, <1>6, <1>7, <1>8 DEF ExtensionData
<1> HIDE DEF told
<1>10. Kept(s, t)
  BY <1>4, <1>6, <1>9 DEF Kept
<1>11. Linked(t)
  BY <1>9, <1>10, KeptLinked DEF Good
<1>12. Held(t)
  <2>1. \A q \in Processes :
          LET r == t.process[q]
          IN /\ r.running => /\ r.config # none /\ r.path # none
                             /\ t.clients[r.config].process = q
                             /\ t.deviceToConfig[r.path] = r.config
                             /\ t.owner[r.path] = q
             /\ r.established => r.running
    <3> TAKE q \in Processes
    <3>1. CASE q = p
      <4>1. s.owner[path] = p
        BY GoodFacts
      <4>2. t.process[q].config = c /\ t.process[q].path = path /\ t.process[q].running
        BY <1>5, <1>8, <1>9, <3>1
      <4>3. t.clients[c].process = q /\ t.deviceToConfig[path] = c /\ t.owner[path] = q
        BY <1>1, <1>4, <1>6, <1>9, <3>1, <4>1
      <4> HIDE DEF c, path
      <4> QED BY <1>1, <4>2, <4>3
    <3>2. CASE q # p
      <4>1. t.process[q] = s.process[q]
        BY <1>8, <1>9, <3>2
      <4>2. s.process[q].running => /\ s.process[q].config \in Devices /\ s.process[q].path \in Paths
                                    /\ s.clients[s.process[q].config].process = q
                                    /\ s.deviceToConfig[s.process[q].path] = s.process[q].config
                                    /\ s.owner[s.process[q].path] = q
        BY GoodFacts
      <4>3. s.process[q].running => s.process[q].config # c
        BY <1>1, <3>2, <4>2
      <4>4. s.process[q].established => s.process[q].running
        BY DEF Good, Held
      <4>5. s.process[q].running => s.process[q].config # none /\ s.process[q].path # none
        BY DEF Good, Held
      <4> QED BY <1>6, <1>9, <4>1, <4>2, <4>3, <4>4, <4>5
    <3> QED BY <3>1, <3>2
  <2>2. \A q \in Paths : t.owner[q] # none =>
          t.process[t.owner[q]].running /\ t.process[t.owner[q]].path = q
    <3> SUFFICES ASSUME NEW q \in Paths, t.owner[q] # none
                 PROVE  t.process[t.owner[q]].running /\ t.process[t.owner[q]].path = q
      OBVIOUS
    <3>1. s.owner[q] # none /\ t.owner[q] = s.owner[q] /\ s \in ExtensionData
      BY <1>1, <1>9
    <3>2. s.process[s.owner[q]].running /\ s.process[s.owner[q]].path = q /\ s.owner[q] \in Processes
      BY <3>1 DEF Good, Held, ExtensionData
    <3> QED BY <1>5, <1>8, <1>9, <3>1, <3>2
  <2>3. \A d \in Devices :
          LET r == t.clients[d]
          IN /\ r.process # none => t.process[r.process].running /\ t.process[r.process].config = d
             /\ r.timer # none => /\ t.deviceToConfig[r.timer] = d /\ r.process # none
                                  /\ ~t.process[r.process].established
    <3> TAKE d \in Devices
    <3>1. CASE d = c
      BY <1>4, <1>5, <1>6, <1>8, <1>9, <3>1
    <3>2. CASE d # c
      <4>1. t.clients[d] = s.clients[d]
        BY <1>6, <1>9, <3>2
      <4>2. s.clients[d].process # none =>
              /\ s.clients[d].process \in Processes /\ s.process[s.clients[d].process].running
              /\ s.process[s.clients[d].process].config = d
        BY GoodFacts
      <4>3. s.clients[d].process # p
        BY <1>1, <3>2, <4>2, GoodFacts
      <4>4. s.clients[d].process # none => t.process[s.clients[d].process] = s.process[s.clients[d].process]
        BY <1>8, <1>9, <4>2, <4>3
      <4>5. s.clients[d].timer # none => /\ s.deviceToConfig[s.clients[d].timer] = d /\ s.clients[d].process # none
                                         /\ ~s.process[s.clients[d].process].established
        BY DEF Good, Held
      <4> QED BY <1>9, <4>1, <4>2, <4>4, <4>5
    <3> QED BY <3>1, <3>2
  <2> QED BY <2>1, <2>2, <2>3 DEF Held
<1> QED BY <1>9, <1>11, <1>12 DEF Good

\* The connection timer of a config stops.
LEMMA TimerStopped ==
  ASSUME NEW s, Good(s), NEW c \in Devices, NEW t, t = UpdateTimer(s, c, none)
  PROVE  Good(t) /\ Kept(s, t) /\ t.process = s.process
         /\ \A d \in Devices : t.clients[d].process = s.clients[d].process
<1>1. s \in ExtensionData
  BY DEF Good
<1>2. /\ t \in ExtensionData /\ Kept(s, t) /\ t.process = s.process /\ t.owner = s.owner
      /\ \A d \in Devices :
           /\ t.clients[d].process = s.clients[d].process
           /\ t.clients[d].timer \in {none, s.clients[d].timer}
  BY <1>1, TimerFields
<1>3. t.deviceToConfig = s.deviceToConfig
  BY <1>2 DEF Kept
<1>4. Linked(t)
  BY <1>1, <1>2, KeptLinked DEF Good
<1>5. Held(t)
  <2>1. Held(s)
    BY DEF Good
  <2>2. \A p \in Processes :
          LET it == t.process[p]
          IN /\ it.running => /\ it.config # none /\ it.path # none
                              /\ t.clients[it.config].process = p
                              /\ t.deviceToConfig[it.path] = it.config
                              /\ t.owner[it.path] = p
             /\ it.established => it.running
    <3> TAKE p \in Processes
    <3>1. s.process[p].running => s.process[p].config \in Devices
      BY GoodFacts
    <3> QED BY <1>2, <1>3, <2>1, <3>1 DEF Held
  <2>3. \A q \in Paths : t.owner[q] # none =>
          t.process[t.owner[q]].running /\ t.process[t.owner[q]].path = q
    BY <1>2, <2>1 DEF Held
  <2>4. \A d \in Devices :
          LET it == t.clients[d]
          IN /\ it.process # none => t.process[it.process].running /\ t.process[it.process].config = d
             /\ it.timer # none => /\ t.deviceToConfig[it.timer] = d /\ it.process # none
                                   /\ ~t.process[it.process].established
    BY <1>2, <1>3, <2>1 DEF Held
  <2> QED BY <2>2, <2>3, <2>4 DEF Held
<1> QED BY <1>2, <1>4, <1>5 DEF Good

LEMMA ConnectionTimeoutKeeps ==
  ASSUME NEW s, Good(s), NEW c \in Devices, s.clients[c].timer # none,
         NEW path, path = s.clients[c].timer, NEW fired, fired = UpdateTimer(s, c, none),
         NEW t, t = IF Running(fired, ByDevice(fired, path)) THEN StopBridgeClient(fired, path) ELSE fired
  PROVE  Good(t) /\ \A p \in Processes : s.process[p].established => t.process[p].running
<1>1. /\ Good(fired) /\ Kept(s, fired) /\ fired.process = s.process
      /\ \A d \in Devices : fired.clients[d].process = s.clients[d].process
  BY TimerStopped
<1>2. /\ s.clients[c].process # none /\ path \in Paths /\ path # none
      /\ s.clients[c].process \in Processes /\ s.deviceToConfig[path] = c
      /\ ~s.process[s.clients[c].process].established
  <2>1. s.clients[c].process # none /\ s.deviceToConfig[path] = c
        /\ ~s.process[s.clients[c].process].established
    BY DEF Good, Held
  <2>2. path \in Paths /\ s.clients[c].process \in Processes
    BY <2>1, GoodFacts DEF ClientState
  <2> QED BY <2>1, <2>2
<1>3. \A p \in Processes : s.process[p].established => s.process[p].running
  BY DEF Good, Held
<1>4. CASE t = fired
  BY <1>1, <1>3, <1>4
<1>5. CASE t # fired
  <2>1. t = StopBridgeClient(fired, path) /\ ByDevice(fired, path) = c
    BY <1>1, <1>2, <1>5 DEF ByDevice, Kept
  <2>2. Good(t) /\ Stopped(fired, t, c)
    BY <1>1, <1>2, <2>1, StopBridgeClientKeeps
  <2>3. ASSUME NEW p \in Processes, s.process[p].established
        PROVE  t.process[p].running
    <3>1. s.process[p].running
      BY <1>3, <2>3
    <3>2. s.process[p].config # c
      BY <1>2, <2>3, <3>1, GoodFacts
    <3> QED BY <1>1, <2>2, <2>3, <3>1, <3>2 DEF Stopped
  <2> QED BY <2>2, <2>3
<1> QED BY <1>4, <1>5

LEMMA DisconnectKeeps ==
  ASSUME NEW s, Good(s), NEW c \in Devices, NEW path \in Paths,
         NEW t, t = DisconnectBridgeClient(s, path, c)
  PROVE  Good(t)
<1> DEFINE manual == SetManuallyDisconnected(s, c, TRUE)
           shown == SetConnected(manual, c, FALSE)
<1>1. manual \in ExtensionData /\ Same(s, manual)
  BY SetManuallySame DEF Good
<1> HIDE DEF manual
<1>2. shown \in ExtensionData /\ Same(manual, shown)
  BY <1>1, SetConnectedSame
<1> HIDE DEF shown
<1>3. Same(s, shown)
  BY <1>1, <1>2, SameTransitive
<1>4. Good(shown)
  BY <1>2, <1>3, SameGood
<1>5. t = StopBridgeClient(shown, path)
  BY DEF DisconnectBridgeClient, manual, shown
<1> QED BY <1>4, <1>5, StopBridgeClientKeeps

\* bridgeClientProcessFinished
LEMMA ProcessFinishedKeeps ==
  ASSUME NEW p \in Processes, NEW error \in BOOLEAN, Good(g), ProcessFinished(p, error)
  PROVE  Good(g')
<1> DEFINE path == g.process[p].path
           c == g.process[p].config
           ended == HandleConnectionFinished(StopProcess(g, p), path)
           shown == SetConnected(ended, c, FALSE)
<1>1. /\ c \in Devices /\ path \in Paths /\ g.deviceToConfig[path] = c /\ g.clients[c].process = p
      /\ p # none /\ c # none /\ path # none
  BY GoodFacts DEF ProcessFinished
<1>2. ByDevice(g, path) = c
  BY <1>1 DEF ByDevice
<1>3. Good(ended)
  BY <1>1, EndKeeps
<1> HIDE DEF ended
<1>4. shown \in ExtensionData /\ Same(ended, shown)
  BY <1>1, <1>3, SetConnectedSame DEF Good
<1>5. Good(shown)
  BY <1>3, <1>4, SameGood
<1> HIDE DEF shown
<1>6. \/ g' = SetPath(shown, c, none) \/ g' = shown \/ g' = ClearAttempts(shown, c)
      \/ MayRetry(shown, c) /\ g' = IncrementAttempts(shown, c)
  BY <1>1, <1>2 DEF ProcessFinished, shown, ended
<1> HIDE DEF c
<1>7. CASE g' = SetPath(shown, c, none)
  BY <1>1, <1>5, <1>7, SetPathGood
<1>8. CASE g' = ClearAttempts(shown, c)
  BY <1>1, <1>4, <1>5, <1>8, ClearAttemptsSame, SameGood
<1>9. CASE MayRetry(shown, c) /\ g' = IncrementAttempts(shown, c)
  BY <1>1, <1>4, <1>5, <1>9, IncrementSame, SameGood
<1> QED BY <1>5, <1>6, <1>7, <1>8, <1>9

\* The tool takes the devices, or gives them back.
LEMMA SuspendGood ==
  ASSUME NEW s, Good(s), NEW on \in BOOLEAN, NEW t, t = [s EXCEPT !.suspended = on]
  PROVE  Good(t) /\ t.process = s.process
<1>1. s \in ExtensionData /\ Linked(s) /\ Held(s)
  BY DEF Good
<1>2. /\ t \in ExtensionData /\ t.process = s.process /\ t.owner = s.owner /\ t.widget = s.widget
      /\ t.clients = s.clients /\ t.deviceToConfig = s.deviceToConfig /\ t.resume = s.resume
  BY <1>1 DEF ExtensionData
<1>3. Linked(t)
  BY <1>1, <1>2 DEF Linked, Current
<1>4. Held(t)
  BY <1>1, <1>2 DEF Held
<1> QED BY <1>2, <1>3, <1>4 DEF Good

LEMMA OpenToolKeeps ==
  ASSUME Good(g), OpenTool
  PROVE  Good(g') /\ Quiet(g')
<1> DEFINE taken == [g EXCEPT !.suspended = TRUE]
<1>1. Good(taken)
  BY SuspendGood
<1>2. g' = StopAllBridgeClients(taken)
  BY DEF OpenTool
<1> HIDE DEF taken
<1> QED BY <1>1, <1>2, StopAllKeeps

(***************************************************************************)
(* While the tables are current: closing the tool                          *)
(***************************************************************************)

\* Two configs have been taken for one device.
Dup(r) == \E c, e \in Devices : /\ c # e /\ r.clients[c].serial = r.clients[e].serial
                                /\ r.clients[c].path = r.clients[e].path

\* Nothing has been started, every serial is the config's own, and what is
\* available or shown leads to the config: only a path that a device has left
\* may still lead to it.
Moved(s, r) ==
  /\ r.process = s.process /\ r.owner = s.owner /\ r.suspended = s.suspended /\ r.resume = s.resume
  /\ \A c \in Devices :
       LET k == r.clients[c]
           shown == r.widget[c].path
       IN /\ k.serial = c /\ k.process = none /\ k.timer = none
          /\ k.available => k.path # none /\ r.deviceToConfig[k.path] = c
          /\ shown # none => k.path = shown /\ r.deviceToConfig[shown] = c

LEMMA DupKept ==
  ASSUME NEW s, NEW t, Dup(s),
         \A c \in Devices : t.clients[c].path = s.clients[c].path /\ t.clients[c].serial = s.clients[c].serial
  PROVE  Dup(t)
BY DEF Dup

LEMMA DupStays ==
  ASSUME NEW s, Dup(s), NEW t, NEW path \in Paths, NEW d \in Devices, NEW on \in BOOLEAN,
         Noticed(s, t, path, d, on)
  PROVE  Dup(t)
<1>1. PICK c \in Devices, e \in Devices : /\ c # e /\ s.clients[c].serial = s.clients[e].serial
                                          /\ s.clients[c].path = s.clients[e].path
  BY DEF Dup
<1>2. c \in Meant(s, path, d) <=> e \in Meant(s, path, d)
  BY <1>1 DEF Meant
<1>3. t.clients[c].serial = t.clients[e].serial /\ t.clients[c].path = t.clients[e].path
  BY <1>1, <1>2 DEF Noticed
<1> QED BY <1>1, <1>3 DEF Dup

\* Every config has the serial of its own device.
OwnSerials(r) == \A c \in Devices : r.clients[c].serial = c

\* A device means its config alone, or its config and another become one.
LEMMA OneOrDup ==
  ASSUME NEW s, NEW t, NEW path \in Paths, NEW d \in Devices,
         OwnSerials(s), Noticed(s, t, path, d, TRUE)
  PROVE  Dup(t) \/ OwnSerials(t)
<1>1. \A c \in Devices : c \in Meant(s, path, d) <=> c = d \/ s.clients[c].path = path
  BY DEF Meant, OwnSerials
<1>2. /\ t.clients[d].path = path /\ t.clients[d].serial = d
      /\ \A c \in Devices : IF c \in Meant(s, path, d)
                            THEN t.clients[c].path = path /\ t.clients[c].serial = d
                            ELSE t.clients[c] = s.clients[c]
  BY <1>1 DEF Noticed
<1>3. CASE \E c \in Devices : c # d /\ c \in Meant(s, path, d)
  BY <1>2, <1>3 DEF Dup
<1>4. CASE \A c \in Devices : c # d => c \notin Meant(s, path, d)
  BY <1>2, <1>4 DEF OwnSerials
<1> QED BY <1>3, <1>4

LEMMA UpdateOneMoved ==
  ASSUME plugged \in [Devices -> Paths \cup {none}], NEW u, NEW s \in Updated(u), Dup(s) \/ Moved(u, s),
         NEW c \in Devices, NEW failing, NEW t, t = UpdateOne(s, c, failing)
  PROVE  Dup(t) \/ Moved(u, t)
<1> DEFINE path == plugged[c]
           found == IF path = none THEN s ELSE SetDeviceAvailable(s, path, c, TRUE)
           shown == SetPath(found, c, path)
<1>1. Sound(s) /\ s \in ExtensionData
  BY DEF Updated
<1>2. path \in Paths \cup {none} /\ none \notin Paths /\ none \notin Devices
  BY Numbers
<1>3. \/ t = shown
      \/ t = ConnectBridgeClient(shown, path, c, failing) /\ path # none /\ ByDevice(found, path) = none
  BY DEF UpdateOne
<1> HIDE DEF path
<1>4. path # none => Aside(s, found) /\ Noticed(s, found, path, c, TRUE)
  BY <1>1, <1>2, AvailableAside
<1>5. path = none => found = s
  OBVIOUS
<1>6. Sound(found) /\ found \in ExtensionData
  BY <1>1, <1>2, <1>4, <1>5, SameSound DEF Aside
<1> HIDE DEF found
<1>7. /\ Sound(shown) /\ shown.process = found.process /\ shown.owner = found.owner
      /\ shown.suspended = found.suspended /\ shown.clients = found.clients
      /\ shown.deviceToConfig = found.deviceToConfig /\ shown.resume = found.resume
      /\ shown.widget[c].path = path /\ \A d \in Devices : d # c => shown.widget[d] = found.widget[d]
  <2>1. /\ shown \in ExtensionData /\ shown.process = found.process /\ shown.owner = found.owner
        /\ shown.suspended = found.suspended /\ shown.clients = found.clients
        /\ shown.deviceToConfig = found.deviceToConfig /\ shown.resume = found.resume
        /\ shown.widget[c].path = path /\ \A d \in Devices : d # c => shown.widget[d] = found.widget[d]
    BY <1>2, <1>6, SetPathFields
  <2> HIDE DEF shown
  <2> QED BY <1>6, <2>1, SameSound
<1> HIDE DEF shown
<1>8. \A d \in Devices : t.clients[d].path = found.clients[d].path
                          /\ t.clients[d].serial = found.clients[d].serial
  <2>1. Kept(shown, t)
    <3>1. Kept(shown, shown)
      BY DEF Kept
    <3> QED BY <1>2, <1>3, <1>7, <3>1, ConnectSound
  <2> QED BY <1>7, <2>1 DEF Kept
<1>9. CASE Dup(s)
  <2>1. Dup(found)
    BY <1>2, <1>4, <1>5, <1>9, DupStays
  <2> QED BY <1>8, <2>1, DupKept
<1>10. CASE Moved(u, s) /\ path = none
  <2>1. t = shown /\ found = s
    BY <1>3, <1>5, <1>10
  <2> QED BY <1>7, <1>10, <2>1 DEF Moved
<1>11. CASE Moved(u, s) /\ path # none
  <2>1. \A d \in Devices : s.clients[d].serial = d
    BY <1>11 DEF Moved
  <2>2. CASE Dup(found)
    BY <1>8, <2>2, DupKept
  <2>3. CASE \A d \in Devices : found.clients[d].serial = d
    <3>1. Noted(s, found, path, c, c)
      BY <1>2, <1>4, <1>11, <2>1, <2>3, MeantOne
    <3>2. t = shown
      BY <1>2, <1>3, <1>11, <3>1 DEF Noted, ByDevice
    <3>3. /\ t.process = u.process /\ t.owner = u.owner /\ t.suspended = u.suspended
          /\ t.resume = u.resume
      BY <1>4, <1>7, <1>11, <3>2 DEF Moved, Aside
    <3>4. ASSUME NEW d \in Devices
          PROVE  LET k == t.clients[d]
                     at == t.widget[d].path
                 IN /\ k.serial = d /\ k.process = none /\ k.timer = none
                    /\ k.available => k.path # none /\ t.deviceToConfig[k.path] = d
                    /\ at # none => k.path = at /\ t.deviceToConfig[at] = d
      <4>1. LET k == s.clients[d]
                at == s.widget[d].path
            IN /\ k.serial = d /\ k.process = none /\ k.timer = none
               /\ k.available => k.path # none /\ s.deviceToConfig[k.path] = d
               /\ at # none => k.path = at /\ s.deviceToConfig[at] = d
               /\ k.path \in Paths \cup {none} /\ at \in Paths \cup {none}
        BY <1>1, <1>11 DEF Moved, ExtensionData, ClientState
      <4>2. t.clients[d].serial = d /\ t.clients[d].process = none /\ t.clients[d].timer = none
        BY <1>4, <1>7, <1>11, <2>3, <3>2, <4>1 DEF Aside
      <4>3. CASE d = c
        <5>1. t.clients[d].path = path /\ t.deviceToConfig[path] = c /\ t.widget[d].path = path
          BY <1>7, <3>1, <3>2, <4>3 DEF Noted
        <5> QED BY <1>11, <4>2, <4>3, <5>1
      <4>4. CASE d # c
        <5>1. /\ t.clients[d].path = s.clients[d].path /\ s.clients[d].path # path
              /\ t.clients[d].available = s.clients[d].available
              /\ t.widget[d].path = s.widget[d].path
              /\ \A q \in Paths : q # path => t.deviceToConfig[q] = s.deviceToConfig[q]
          BY <1>7, <3>1, <3>2, <4>4 DEF Noted, Aside
        <5> QED BY <4>1, <4>2, <5>1
      <4> QED BY <4>3, <4>4
    <3> QED BY <3>3, <3>4 DEF Moved
  <2>4. path \in Paths /\ Noticed(s, found, path, c, TRUE)
    BY <1>2, <1>4, <1>11
  <2>5. OwnSerials(s)
    BY <2>1 DEF OwnSerials
  <2>6. Dup(found) \/ OwnSerials(found)
    BY <2>4, <2>5, OneOrDup
  <2> QED BY <2>2, <2>3, <2>6 DEF OwnSerials
<1> QED BY <1>9, <1>10, <1>11

LEMMA UpdateMoved ==
  ASSUME plugged \in [Devices -> Paths \cup {none}], NEW s, Sound(s), Moved(s, s), NEW failing,
         NEW t, t = UpdateDeviceStates(s, failing)
  PROVE  t \in ExtensionData /\ (Dup(t) \/ Moved(s, t))
<1> DEFINE S == {r \in Updated(s) : Dup(r) \/ Moved(s, r)}
           T == [n \in 0..DeviceCount |-> S]
<1>1. /\ 0 \in 0..DeviceCount /\ DeviceCount \in 0..DeviceCount /\ Devices = 1..DeviceCount
      /\ \A n \in 1..DeviceCount : n \in 0..DeviceCount /\ n - 1 \in 0..DeviceCount
  BY Numbers
<1>2. s \in S
  BY DEF Updated, Sound, Fewer
<1>3. ASSUME NEW c \in Devices, NEW r \in S
      PROVE  UpdateOne(r, c, failing) \in S
  <2> DEFINE v == UpdateOne(r, c, failing)
  <2>1. v \in Updated(s)
    BY UpdateOneUpdated
  <2>2. Dup(v) \/ Moved(s, v)
    BY UpdateOneMoved
  <2> HIDE DEF v
  <2>3. v \in S
    BY <2>1, <2>2
  <2> QED BY <2>3 DEF v
<1> HIDE DEF S
<1>4. s \in T[0] /\ \A n \in 1..DeviceCount : \A r \in T[n - 1] : UpdateOne(r, n, failing) \in T[n]
  BY <1>1, <1>2, <1>3
<1>5. T[DeviceCount] = S
  BY <1>1
<1> HIDE DEF T
<1>6. t \in S
  BY <1>4, <1>5, UpdateLoop
<1> QED BY <1>6 DEF S, Updated

LEMMA CloseToolKeeps ==
  ASSUME Anywhere, Typed, Good(g), Quiet(g), NEW failing, CloseTool(failing), Current(g')
  PROVE  Good(g')
<1> DEFINE given == [g EXCEPT !.suspended = FALSE]
           updated == UpdateDeviceStates(given, failing)
<1>1. plugged \in [Devices -> Paths \cup {none}] /\ g \in ExtensionData
  BY DEF Typed, Good
<1>2. Good(given) /\ given.process = g.process
  BY SuspendGood
<1>3. given.resume = g.resume
  BY <1>1 DEF ExtensionData
<1>4. g' = IF Ready(core) THEN ProcessConnectionRequests(updated, failing) ELSE updated
  BY DEF CloseTool
<1> HIDE DEF given
<1>5. /\ \A p \in Processes : ~given.process[p].running /\ ~given.process[p].established
      /\ \A q \in Paths : given.owner[q] = none
      /\ \A c \in Devices : given.clients[c].process = none /\ given.clients[c].timer = none
  <2>1. \A p \in Processes : ~given.process[p].running
    BY <1>2 DEF Quiet
  <2>2. \A q \in Paths : given.owner[q] \in Processes \cup {none}
    BY <1>2 DEF Good, ExtensionData
  <2>3. \A c \in Devices : given.clients[c].process \in Processes \cup {none}
    BY <1>2 DEF Good, ExtensionData, ClientState
  <2> QED BY <1>2, <2>1, <2>2, <2>3 DEF Good, Held
<1>6. Moved(given, given)
  <2>1. \A c \in Devices :
          LET k == given.clients[c]
              shown == given.widget[c].path
          IN /\ k.serial = c
             /\ k.available => k.path # none /\ given.deviceToConfig[k.path] = c
             /\ shown # none => given.deviceToConfig[shown] = c
    BY <1>2 DEF Good, Linked, Current
  <2>2. \A c \in Devices : given.widget[c].path \in Paths \cup {none} /\ c # none
    BY <1>2, Numbers DEF Good, ExtensionData
  <2>3. \A q \in Paths : given.deviceToConfig[q] # none => given.clients[given.deviceToConfig[q]].path = q
    BY <1>2, GoodFacts
  <2>4. \A c \in Devices : given.widget[c].path # none => given.clients[c].path = given.widget[c].path
    BY <2>1, <2>2, <2>3
  <2> QED BY <1>5, <2>1, <2>4 DEF Moved
<1>7. updated \in ExtensionData /\ (Dup(updated) \/ Moved(given, updated))
  BY <1>1, <1>2, <1>6, GoodSound, UpdateMoved
<1>8. updated \in Updated(given)
  BY <1>1, <1>2, GoodSound, UpdateUpdated
<1> HIDE DEF updated
<1>9. /\ \A d \in Devices : g'.clients[d].path = updated.clients[d].path
                             /\ g'.clients[d].serial = updated.clients[d].serial
      /\ g'.deviceToConfig = updated.deviceToConfig
  <2>1. Sound(updated)
    BY <1>8 DEF Updated
  <2> QED BY <1>4, <2>1, RequestsServed DEF Served
<1>10. Moved(given, updated)
  BY <1>7, <1>9 DEF Current, Dup
<1>11. Current(updated)
  <2>1. CASE Ready(core)
    <3>1. \A q \in Paths : updated.resume[q] = none
      BY <1>3, <1>10, <2>1 DEF Anywhere, NothingWaits, Moved
    <3>2. updated.deviceToConfig \in [Paths -> Devices \cup {none}]
      BY <1>7 DEF ExtensionData
    <3> QED BY <1>9, <3>1, <3>2 DEF Current
  <2>2. CASE ~Ready(core)
    BY <1>4, <2>2
  <2> QED BY <2>1, <2>2
<1>12. Good(updated)
  <2>1. Linked(updated)
    BY <1>10, <1>11 DEF Linked, Moved
  <2>2. Held(updated)
    BY <1>5, <1>10 DEF Held, Moved
  <2> QED BY <1>7, <2>1, <2>2 DEF Good
<1> QED BY <1>4, <1>12, RequestsGood

(***************************************************************************)
(* The steps                                                               *)
(***************************************************************************)

\* A handler that keeps the tables keeps the rest: it starts cores only where
\* they are served.
LEMMA GoodClients ==
  ASSUME Clients, Good(g'), StartsServed, g'.suspended => g.suspended,
         core'.connection = "Disconnected" => core.connection = "Disconnected"
  PROVE  Clients'
<1>1. Fewer(g, g') /\ Quiet(g) => Quiet(g')
  BY DEF Fewer, Quiet
<1>2. Ready(core') => core'.connection # "Disconnected"
  BY DEF Ready
<1> QED BY <1>1, <1>2 DEF Clients, StartsServed

LEMMA LostKeeps ==
  ASSUME Clients, g' = Lost(g, core)
  PROVE  Clients'
<1>1. CASE core.connection = "Disconnected"
  BY <1>1 DEF Lost, Clients
<1>2. CASE core.connection # "Disconnected"
  BY <1>2, ServerLostKeeps DEF Lost, Clients
<1> QED BY <1>1, <1>2

LEMMA CoreClients ==
  ASSUME Clients, Typed, StartsServed, CoreNext
  PROVE  Clients'
<1>1. core \in CoreData /\ Good(g)
  BY DEF Typed, Clients
<1>2. ASSUME g' = g, core'.connection = "Disconnected" => core.connection = "Disconnected"
      PROVE  Clients'
  BY <1>1, <1>2 DEF Clients
<1>3. CASE StartCore
  <2>1. PICK fails \in BOOLEAN : core' = Start(core, fails)
    BY <1>3 DEF StartCore
  <2> QED BY <1>1, <1>2, <1>3, <2>1, StartTyped DEF StartCore
<1>4. CASE StopCore \/ RestartCore \/ CoreFinished
  BY <1>4, LostKeeps DEF StopCore, RestartCore, CoreFinished
<1>5. CASE CoreRetryTimeout
  <2>1. core' = RetryTimeout(core, FALSE) /\ g' = g
    BY <1>5 DEF CoreRetryTimeout
  <2> QED BY <1>1, <1>2, <2>1, RetryTyped
<1>6. CASE CheckExisting
  <2>1. core' \in {ExistingStopped(core), ExistingStays(core)} /\ g' = g
    BY <1>6 DEF CheckExisting
  <2> QED BY <1>1, <1>2, <2>1, OthersTyped
<1>7. CASE CoreIpc
  <2>1. core' \in {ConnectIpc(core), ShutDownIpc(core)} /\ g' = g
    BY <1>7 DEF CoreIpc
  <2> QED BY <1>1, <1>2, <2>1, OthersTyped
<1>8. CASE \E failing \in SUBSET Devices : CoreListening(failing)
  <2>1. PICK failing \in SUBSET Devices : CoreListening(failing)
    BY <1>8
  <2>2. core'.connection = "Listening"
    BY <1>1, <2>1, OthersTyped DEF CoreListening
  <2>3. g' = ProcessConnectionRequests(g, failing) \/ g' = g
    BY <2>1 DEF CoreListening, Follow
  <2>4. Good(g') /\ g'.suspended = g.suspended
    <3>1. CASE g' = ProcessConnectionRequests(g, failing)
      BY <1>1, <3>1, GoodSound, RequestsGood, RequestsServed DEF Served
    <3> QED BY <1>1, <2>3, <3>1
  <2> QED BY <2>2, <2>4, GoodClients
<1> QED BY <1>3, <1>4, <1>5, <1>6, <1>7, <1>8 DEF CoreNext

LEMMA UsbClients ==
  ASSUME Clients, Typed, StartsServed, UsbNext, Current(g')
  PROVE  Clients'
<1>1. core' = core /\ Good(g) /\ Sound(g)
  BY GoodSound DEF UsbNext, Plug, Unplug, HandleUdevEvent, CoreUnchanged, Clients
<1>2. udev \in Seq(UsbEvent) /\ tracked \in [Paths -> Devices \cup {none}]
  BY DEF Typed
<1>3. CASE \E d \in Devices : Unplug(d) \/ \E path \in Paths : Plug(d, path)
  BY <1>1, <1>3 DEF Plug, Unplug, Clients
<1>4. CASE \E failing \in SUBSET Devices : HandleUdevEvent(failing)
  <2>1. PICK failing \in SUBSET Devices : HandleUdevEvent(failing)
    BY <1>4
  <2> DEFINE event == Head(udev)
             path == event[2]
  <2>2. event \in UsbEvent
    BY <1>2, <2>1 DEF HandleUdevEvent
  <2>3. path \in Paths /\ event[3] \in Devices
    BY <2>2 DEF UsbEvent
  <2>4. \/ g' = UsbDeviceConnected(g, path, event[3], failing)
        \/ g' = g
        \/ tracked[path] # none /\ g' = UsbDeviceDisconnected(g, path, tracked[path])
    BY <2>1 DEF HandleUdevEvent
  <2> HIDE DEF event, path
  <2>5. CASE g' = UsbDeviceConnected(g, path, event[3], failing)
    <3>1. Good(g')
      BY <1>1, <2>3, <2>5, UsbDeviceConnectedKeeps
    <3>2. g'.suspended = g.suspended
      BY <1>1, <2>3, <2>5, UsbDeviceConnectedProper DEF Proper
    <3> QED BY <1>1, <3>1, <3>2, GoodClients
  <2>6. CASE g' = g
    BY <1>1, <2>6 DEF Clients
  <2>7. CASE tracked[path] # none /\ g' = UsbDeviceDisconnected(g, path, tracked[path])
    <3>1. tracked[path] \in Devices
      BY <1>2, <2>3, <2>7
    <3>2. Good(g')
      BY <1>1, <2>3, <2>7, <3>1, UsbDeviceDisconnectedKeeps
    <3>3. g'.suspended = g.suspended
      BY <1>1, <2>3, <2>7, <3>1, UsbDeviceDisconnectedProper DEF Proper
    <3> QED BY <1>1, <3>2, <3>3, GoodClients
  <2> QED BY <2>4, <2>5, <2>6, <2>7
<1> QED BY <1>3, <1>4 DEF UsbNext

LEMMA BridgeClients ==
  ASSUME Anywhere, Clients, Typed, StartsServed, BridgeNext, Current(g')
  PROVE  Clients'
<1>1. Good(g) /\ Sound(g) /\ g \in ExtensionData /\ retries \in [Devices -> 0..MaxRetries]
  BY GoodSound DEF Clients, Good, Typed
<1>2. ASSUME Good(g'), Proper(g, g'), core' = core
      PROVE  Clients'
  BY <1>2, GoodClients DEF Proper
<1>3. CASE \E p \in Processes : ConnectionEstablished(p)
  <2>1. PICK p \in Processes : ConnectionEstablished(p)
    BY <1>3
  <2>2. Good(g') /\ Proper(g, g')
    BY <1>1, <2>1, ConnectionEstablishedKeeps, ConnectionEstablishedProper DEF ConnectionEstablished
  <2> QED BY <1>2, <2>1, <2>2 DEF ConnectionEstablished, BridgeUnchanged
<1>4. CASE \E p \in Processes : HandshakeFailed(p)
  <2>1. PICK p \in Processes : HandshakeFailed(p)
    BY <1>4
  <2> DEFINE c == ByDevice(g, g.process[p].path)
  <2>2. c \in Devices
    <3>1. g.process[p].running /\ c # none
      BY <2>1 DEF HandshakeFailed
    <3> QED BY <1>1, <3>1, GoodFacts DEF ByDevice
  <2>3. g' = SetConnected(SetManuallyDisconnected([g EXCEPT !.auto[c] = FALSE], c, TRUE), c, FALSE)
    BY <2>1 DEF HandshakeFailed
  <2> HIDE DEF c
  <2>4. g' \in ExtensionData /\ Same(g, g')
    BY <1>1, <2>2, <2>3, HandshakeSame
  <2>5. Good(g') /\ Proper(g, g')
    BY <1>1, <2>4, SameGood, SameProper
  <2> QED BY <1>2, <2>1, <2>5 DEF HandshakeFailed, BridgeUnchanged
<1>5. CASE \E p \in Processes : \E error \in BOOLEAN : ProcessFinished(p, error)
  <2>1. PICK p \in Processes, error \in BOOLEAN : ProcessFinished(p, error)
    BY <1>5
  <2>2. Good(g') /\ Proper(g, g')
    BY <1>1, <2>1, ProcessFinishedKeeps, ProcessFinishedProper
  <2> QED BY <1>2, <2>1, <2>2 DEF ProcessFinished, BridgeUnchanged
<1>6. CASE \E c \in Devices : ConnectionTimeout(c)
  <2>1. PICK c \in Devices : ConnectionTimeout(c)
    BY <1>6
  <2>2. Good(g') /\ Proper(g, g')
    BY <1>1, <2>1, ConnectionTimeoutKeeps, ConnectionTimeoutProper DEF ConnectionTimeout
  <2> QED BY <1>2, <2>1, <2>2 DEF ConnectionTimeout, BridgeUnchanged
<1>7. CASE \E c \in Devices : \E failing \in SUBSET {c} : RetryTimer(c, failing)
  <2>0. PICK c \in Devices : \E failing \in SUBSET {c} : RetryTimer(c, failing)
    BY <1>7
  <2>1. PICK failing \in SUBSET {c} : RetryTimer(c, failing)
    BY <2>0
  <2> DEFINE path == g.clients[c].path
  <2>2. CASE g' = g
    BY <2>1, <2>2 DEF RetryTimer, BridgeUnchanged, Clients
  <2>3. CASE g' # g
    <3>1. Ready(core) /\ g.clients[c].available /\ g' = ConnectBridgeClient(g, path, c, failing)
      BY <2>1, <2>3 DEF RetryTimer
    <3>2. path \in Paths \cup {none} /\ g.deviceToConfig[path] = c
      BY <1>1, <3>1 DEF Good, Linked, ExtensionData, ClientState
    <3> HIDE DEF path
    <3>3. Good(g') /\ Proper(g, g')
      BY <1>1, <3>1, <3>2, ConnectKeeps, ConnectProper
    <3> QED BY <1>2, <2>1, <3>3 DEF RetryTimer, BridgeUnchanged
  <2> QED BY <2>2, <2>3
<1>8. CASE \E c \in Devices : \E failing \in SUBSET {c} : Toggle(c, failing)
  <2>0. PICK c \in Devices : \E failing \in SUBSET {c} : Toggle(c, failing)
    BY <1>8
  <2>1. PICK failing \in SUBSET {c} : Toggle(c, failing)
    BY <2>0
  <2> DEFINE path == g.widget[c].path
  <2>2. path \in Paths /\ g.deviceToConfig[path] = c
    BY <1>1, <2>1 DEF Toggle, Good, Linked, ExtensionData
  <2>3. \/ g' = DisconnectBridgeClient(g, path, c)
        \/ g' = ConnectBridgeClient(g, path, c, failing) /\ Ready(core)
    BY <2>1 DEF Toggle
  <2> HIDE DEF path
  <2>4. CASE g' = DisconnectBridgeClient(g, path, c)
    <3>1. Good(g') /\ Proper(g, g')
      BY <1>1, <2>2, <2>4, DisconnectKeeps, DisconnectProper
    <3> QED BY <1>2, <2>1, <3>1 DEF Toggle, BridgeUnchanged
  <2>5. CASE g' = ConnectBridgeClient(g, path, c, failing) /\ Ready(core)
    <3>1. Good(g') /\ Proper(g, g')
      BY <1>1, <2>2, <2>5, ConnectKeeps, ConnectProper
    <3> QED BY <1>2, <2>1, <3>1 DEF Toggle, BridgeUnchanged
  <2> QED BY <2>3, <2>4, <2>5
<1>9. CASE OpenTool
  <2>1. Good(g') /\ Quiet(g')
    BY <1>1, <1>9, OpenToolKeeps
  <2> QED BY <2>1 DEF Clients
<1>10. CASE \E failing \in SUBSET Devices : CloseTool(failing)
  <2>1. PICK failing \in SUBSET Devices : CloseTool(failing)
    BY <1>10
  <2>2. Quiet(g) /\ core' = core /\ plugged \in [Devices -> Paths \cup {none}]
    BY <2>1 DEF CloseTool, Clients, Typed
  <2>3. Good(g') /\ ~g'.suspended
    BY <1>1, <2>1, <2>2, CloseToolKeeps, CloseToolSound
  <2> QED BY <2>2, <2>3, GoodClients
<1> QED BY <1>3, <1>4, <1>5, <1>6, <1>7, <1>8, <1>9, <1>10 DEF BridgeNext

LEMMA InitIInv == Init => IInv
<1> SUFFICES ASSUME Init PROVE IInv
  OBVIOUS
<1>1. none \notin Devices /\ none \notin Paths /\ none \notin Processes
  BY Numbers
<1>2. \A c \in Devices : NewClient(c) \in ClientState
  BY DEF NewClient, ClientState
<1>3. NoProcess \in ProcessData
  BY DEF NoProcess, ProcessData
<1>4. /\ g.clients = [c \in Devices |-> NewClient(c)] /\ g.deviceToConfig = [p \in Paths |-> none]
      /\ g.process = [p \in Processes |-> NoProcess] /\ g.owner = [p \in Paths |-> none]
      /\ g.widget = [c \in Devices |-> [path |-> none, connected |-> FALSE]]
      /\ g.resume = [p \in Paths |-> none] /\ g.suspended = FALSE
  BY DEF Init
<1>5. g \in ExtensionData
  BY <1>2, <1>3 DEF Init, ExtensionData
<1>6. Linked(g)
  BY <1>4 DEF Linked, Current, NewClient
<1>7. Held(g)
  BY <1>1, <1>4 DEF Held, NewClient, NoProcess
<1>8. Quiet(g) /\ NothingWaits(g)
  BY <1>4 DEF Quiet, NoProcess, NothingWaits
<1>9. core \in CoreData
  BY DEF Init, NewCore, CoreData, ProcessStates
<1>10. retries \in [Devices -> 0..MaxRetries]
  BY ExtensionAssumption DEF Init
<1>11. udev \in Seq(UsbEvent)
  BY DEF Init
<1>12. plugged \in [Devices -> Paths \cup {none}] /\ tracked \in [Paths -> Devices \cup {none}]
  BY DEF Init
<1>13. Good(g)
  BY <1>5, <1>6, <1>7 DEF Good
<1>14. Anywhere
  BY <1>8, <1>13, GoodSound DEF Anywhere
<1> QED BY <1>8, <1>9, <1>10, <1>11, <1>12, <1>13, <1>14 DEF IInv, Clients, Typed

\* What a step keeps, and where it may start a core.
LEMMA NextIInv ==
  ASSUME IInv, Next
  PROVE  IInv' /\ StartsServed
<1>1. Anywhere /\ (current => Clients) /\ Typed
  BY DEF IInv
<1>2. Anywhere' /\ Typed' /\ StartsServed
  BY <1>1, CoreAnywhere, UsbAnywhere, BridgeAnywhere DEF Next
<1>3. ASSUME current' PROVE Clients'
  <2>1. current /\ Current(g')
    BY <1>3 DEF Next
  <2> QED BY <1>1, <1>2, <2>1, CoreClients, UsbClients, BridgeClients DEF Next
<1> QED BY <1>2, <1>3 DEF IInv

LEMMA SpecIInv == Spec => []IInv
<1>1. Init => IInv
  BY InitIInv
<1>2. IInv /\ [Next]_vars => IInv'
  <2> SUFFICES ASSUME IInv, [Next]_vars PROVE IInv'
    OBVIOUS
  <2>1. CASE Next
    BY <2>1, NextIInv
  <2>2. CASE UNCHANGED vars
    BY <2>2 DEF vars, IInv, Anywhere, Clients, Typed
  <2> QED BY <2>1, <2>2
<1> QED BY <1>1, <1>2, PTL DEF Spec

\* A running bridge core holds its path alone, whatever port a device is
\* plugged into; and while the manager's tables are current, it is the process
\* of its config, and its path leads to the config (stopBridgeClient,
\* setDeviceAvailable, BridgeClientProcess::forDevice).
THEOREM CoresAreReachable == Spec => []CoresReachable
<1>1. IInv => CoresReachable
  <2> SUFFICES ASSUME IInv PROVE CoresReachable
    OBVIOUS
  <2>1. Sound(g) /\ core \in CoreData /\ retries \in [Devices -> 0..MaxRetries]
        /\ plugged \in [Devices -> Paths \cup {none}] /\ (current => Good(g))
    BY DEF IInv, Anywhere, Clients, Typed
  <2>2. TypeOK
    BY <2>1 DEF TypeOK, Sound, CoreData
  <2>3. \A p \in Processes : g.process[p].running =>
          /\ g.owner[g.process[p].path] = p
          /\ current => /\ g.clients[g.process[p].config].process = p
                        /\ g.deviceToConfig[g.process[p].path] = g.process[p].config
    BY <2>1, GoodFacts DEF Sound
  <2> QED BY <2>2, <2>3 DEF CoresReachable
<1> QED BY <1>1, SpecIInv, PTL

\* No bridge core is started while the firmware tool has the devices or the
\* server is not ready, whatever port a device is plugged into; and while the
\* manager's tables are current, none goes on when the tool opens or the
\* server's connection is lost (openEsp32HidTools,
\* onServerConnectionStateChanged).
THEOREM OnlyServed == Spec => OnlyWhileServed
<1> DEFINE Starts == \A p \in Processes :
                       ~g.process[p].running /\ g'.process[p].running => ~g'.suspended /\ Ready(core')
           Goes == current /\ (g.suspended \/ core.connection = "Disconnected") =>
                     \A p \in Processes : ~g.process[p].running
<1>1. IInv /\ [Next]_vars => [Starts]_vars
  <2> SUFFICES ASSUME IInv, Next PROVE Starts
    OBVIOUS
  <2>1. StartsServed
    BY NextIInv
  <2> QED BY <2>1 DEF StartsServed, Fewer
<1>2. IInv => Goes
  BY DEF IInv, Clients, Quiet
<1>3. OnlyWhileServed <=> [][Starts]_vars /\ []Goes
  BY DEF OnlyWhileServed
<1> HIDE DEF Starts, Goes
<1> QED BY <1>1, <1>2, <1>3, SpecIInv, PTL DEF Spec

\* While the manager's tables are current, the connection timer never stops a
\* core that has reached the server (bridgeClientConnectionTimeout,
\* handleConnectionEstablished).
THEOREM TimeoutsSpare == Spec => TimeoutSpares
<1> DEFINE Spares == \A c \in Devices, p \in Processes :
                       current /\ g.process[p].established /\ ConnectionTimeout(c) => g'.process[p].running
<1>1. IInv => [Spares]_vars
  <2> SUFFICES ASSUME IInv, NEW c \in Devices, NEW p \in Processes, current,
                      g.process[p].established, ConnectionTimeout(c)
               PROVE  g'.process[p].running
    OBVIOUS
  <2>1. Good(g)
    BY DEF IInv, Clients
  <2> QED BY <2>1, ConnectionTimeoutKeeps DEF ConnectionTimeout
<1> QED BY <1>1, SpecIInv, PTL DEF TimeoutSpares
=============================================================================
