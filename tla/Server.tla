------------------------------- MODULE Server -------------------------------
(***************************************************************************)
(* The server's registry of computers and the focus it moves among them    *)
(* (src/lib/server/Server.cpp).                                            *)
(*                                                                         *)
(* Every handler runs to completion on the one event thread, so each is    *)
(* one action.  What interleaves is the order of events: input on the      *)
(* primary computer, hot keys, the screen saver, timers, clients that      *)
(* connect, hang up or never answer a close, and a reload of the           *)
(* configuration.                                                          *)
(*                                                                         *)
(* Pixels are abstracted to the side of the active computer the cursor is  *)
(* pushed against and a spot along that side; what a client is told is     *)
(* abstracted to whether it was last told to enter or to leave.            *)
(***************************************************************************)
EXTENDS Naturals, FiniteSets, Functions

CONSTANTS
  Proxies,     \* ClientProxy objects; an object is never born twice
  Primary,     \* the PrimaryClient
  Nobody,      \* nullptr
  Names,       \* computer names
  NoName,      \* the empty string
  OwnName,     \* the name each proxy was created with
  HDirs,       \* the horizontal sides of a computer in use
  VDirs,       \* the vertical sides in use
  NoDirection,
  Spots,       \* places along a side
  Configs,     \* the configurations the file may hold
  ScreenSaver  \* whether the platform reports the primary's screen saver

Computers == Proxies \cup {Primary}
Dirs == HDirs \cup VDirs

(* A configuration: names and aliases to canonical names, the links from   *)
(* each side, and the options it sets (an absent option keeps its value).  *)
OptionIDs == {"switchDelay", "switchTwoTap", "switchCorners", "disableLock", "defaultLock"}

IsConfig(k) ==
  /\ DOMAIN k = {"canonical", "link", "options"}
  /\ DOMAIN k.canonical \subseteq Names
  /\ \A n \in DOMAIN k.canonical :
       k.canonical[n] \in DOMAIN k.canonical /\ k.canonical[k.canonical[n]] = k.canonical[n]
  /\ k.link \in [Names \X Dirs \X Spots -> Names \cup {NoName}]
  /\ DOMAIN k.options \subseteq OptionIDs
  /\ \A o \in DOMAIN k.options : k.options[o] \in BOOLEAN

ASSUME ComputersAssumption ==
  /\ Primary \notin Proxies /\ Nobody \notin Computers
  /\ OwnName \in [Computers -> Names] /\ NoName \notin Names

ASSUME SidesAssumption == NoDirection \notin Dirs /\ ScreenSaver \in BOOLEAN

ASSUME ConfigsAssumption == \A k \in Configs : IsConfig(k)

VARIABLES
  cfg,          \* *m_config, the object a reload overwrites in place
  opt,          \* the members processOptions sets
  clients,      \* m_clients: canonical name to computer
  clientSet,    \* m_clientSet
  oldClients,   \* DOMAIN of m_oldClients: told to close, timer running
  waiting,      \* ClientListener's m_waitingClients
  hungUp,       \* proxies whose ClientProxyDisconnected event is queued
  deleted,      \* proxies already deleted
  active,       \* m_active
  entered,      \* connected computers last told to enter
  activeSaver,  \* m_activeSaver
  saverOn,      \* the primary's screen saver is running
  saverTold,    \* computers last told that it is
  locked,       \* m_lockedToComputer
  sw            \* the state shared by the tests for a switch at an edge

membership == <<clients, clientSet, oldClients, waiting, hungUp, deleted>>
focus      == <<active, entered>>
saver      == <<activeSaver, saverOn, saverTold>>
settings   == <<cfg, opt, locked>>
vars == <<membership, focus, saver, settings, sw>>

(***************************************************************************)
(* Names                                                                   *)
(***************************************************************************)
HasName(k, n) == n \in DOMAIN k.canonical                  \* isComputer
IsCanonicalName(k, n) == HasName(k, n) /\ k.canonical[n] = n

NameIn(k, c) ==
  IF HasName(k, OwnName[c]) THEN k.canonical[OwnName[c]] ELSE OwnName[c]

GetName(c) == NameIn(cfg, c)

(***************************************************************************)
(* getNeighbor walks the links from a computer and skips the names that    *)
(* are not connected; mapToNeighbor may walk on over computers a fast      *)
(* motion skips.  Both stop at the first missing link.                     *)
(***************************************************************************)
Walk(src, dir, spot) ==
  LET step[k \in Nat] ==
        IF k = 0 THEN src
        ELSE LET n == step[k-1]
             IN IF n \in Names THEN cfg.link[n, dir, spot] ELSE NoName
  IN [k \in 1..Cardinality(Names) |-> step[k]]

GetNeighbor(src, dir, spot) ==                \* a set: the first one, or none
  LET walk == Walk(src, dir, spot)
      hits == {k \in DOMAIN walk : walk[k] \in DOMAIN clients}
  IN {clients[walk[k]] : k \in {i \in hits : \A j \in hits : i <= j}}

MapToNeighbor(src, dir, spot) ==
  LET found == Range(Walk(src, dir, spot)) \cap DOMAIN clients
  IN IF found = {} THEN {Nobody} ELSE {clients[n] : n \in found}

(***************************************************************************)
(* The state of a switch being considered at an edge.  target is           *)
(* m_switchComputer, wait whether m_switchWaitTimer runs, waitAt the       *)
(* computer the recorded m_switchWaitX, m_switchWaitY lie on; late is      *)
(* whether the two-tap stopwatch has passed its delay.                     *)
(***************************************************************************)
NoSwitchPending ==
  [target |-> Nobody, dir |-> NoDirection, wait |-> FALSE, waitAt |-> Nobody,
   engaged |-> FALSE, armed |-> FALSE, late |-> FALSE]

StopTwoTap(s) == [s EXCEPT !.engaged = FALSE, !.armed = FALSE, !.late = FALSE]
StartTwoTap(s) == [s EXCEPT !.engaged = TRUE, !.armed = FALSE, !.late = FALSE]
StopWait(s) == [s EXCEPT !.wait = FALSE, !.waitAt = Nobody]
StartWait(s, dst) == [s EXCEPT !.wait = TRUE, !.waitAt = dst]

StopSwitch_KeepsTap(s) ==                                         \* mutant
  IF s.target = Nobody THEN s
  ELSE StopWait([s EXCEPT !.target = Nobody, !.dir = NoDirection])

StopSwitch(s) ==
  IF s.target = Nobody THEN s
  ELSE StopWait(StopTwoTap([s EXCEPT !.target = Nobody, !.dir = NoDirection]))

ArmTwoTap(s, away) ==
  IF s.engaged /\ s.late THEN StopTwoTap(s)
  ELSE [s EXCEPT !.armed = s.armed \/ (s.engaged /\ away)]

NoSwitch(s, away) == StopWait(ArmTwoTap(s, away))

(* isLockedToComputer; held is the primary's own answer (a button is down) *)
IsLocked(held) == ~opt["disableLock"] /\ (locked \/ held)

SecondTap_Unarmed(s, dir) == dir = s.dir /\ s.engaged /\ ~s.late   \* mutant

SecondTap(s, dir) == dir = s.dir /\ s.engaged /\ s.armed /\ ~s.late

(* isSwitchOkay before its corner and lock tests: the new state, and       *)
(* whether the two taps and the wait allow the switch now.                 *)
Consider(s, dst, dir) ==
  LET isNew  == dir # s.dir
      s1     == IF isNew \/ s.target = Nobody
                THEN [s EXCEPT !.dir = dir, !.target = dst] ELSE s
      allow  == opt["switchTwoTap"] /\ SecondTap(s, dir)
      s2     == IF opt["switchTwoTap"] /\ ~allow THEN StartTwoTap(s1) ELSE s1
      delay  == opt["switchDelay"] /\ ~allow
      s3     == IF delay /\ (isNew \/ ~s2.wait) THEN StartWait(s2, dst) ELSE s2
  IN [sw |-> s3, ok |-> allow \/ ~(opt["switchTwoTap"] \/ delay)]

IsSwitchOkay(s, dst, dir, corner, held) ==
  IF dst = Nobody THEN [sw |-> StopSwitch(s), ok |-> FALSE]
  ELSE LET c    == Consider(s, dst, dir)
           stop == (opt["switchCorners"] /\ corner) \/ (c.ok /\ IsLocked(held))
       IN [sw |-> IF stop THEN StopSwitch(c.sw) ELSE c.sw, ok |-> c.ok /\ ~stop]

(***************************************************************************)
(* Moving the focus.  leave() can fail on the primary only.  A handler     *)
(* that would use a deleted proxy has no defined outcome: it has no step.  *)
(***************************************************************************)
SwitchComputer(s, dst, canLeave) ==
  /\ dst \notin deleted /\ active \notin deleted
  /\ sw' = StopSwitch(s)
  /\ IF active = dst \/ (active = Primary /\ ~canLeave)
     THEN UNCHANGED focus
     ELSE /\ active' = dst
          /\ entered' = (entered \ {active}) \cup {dst}

Focus_NoActive == activeSaver                                     \* mutant

Focus_NoSaver == active                                           \* mutant

(* What forceLeaveClient takes for the computer with the cursor            *)
Focus == IF activeSaver # Nobody THEN activeSaver ELSE active

LeaveSwitch(gone) ==
  IF Focus \in gone /\ Focus = sw.target THEN StopSwitch(sw) ELSE sw

(* removeClient and forceLeaveClient, for every computer of gone; k is the *)
(* configuration names are looked up in.                                   *)
ForceLeave(gone, k) ==
  LET keys == {NameIn(k, c) : c \in gone \cap clientSet}
  IN /\ clients' = Restrict(clients, DOMAIN clients \ keys)
     /\ clientSet' = clientSet \ gone
     /\ saverTold' = saverTold \ gone
     /\ IF Focus \in gone
        THEN /\ active' = Primary
             /\ activeSaver' = Nobody
             /\ entered' = (entered \ gone)
                             \cup (IF activeSaver = Nobody THEN {Primary} ELSE {})
        ELSE /\ entered' = entered \ gone
             /\ UNCHANGED <<active, activeSaver>>

(***************************************************************************)
(* Clients come and go                                                     *)
(***************************************************************************)

(* ClientListener::handleUnknownClient: a handshake has succeeded.         *)
ClientWaits(c) ==
  /\ c \notin waiting \cup clientSet \cup oldClients \cup deleted
  /\ waiting' = waiting \cup {c}
  /\ UNCHANGED <<clients, clientSet, oldClients, hungUp, deleted, focus, saver, settings, sw>>

(* ClientProxy1_0::disconnect, for whatever reason                         *)
HangUp(c) ==
  /\ c \in (waiting \cup clientSet \cup oldClients) \ (hungUp \cup {Primary})
  /\ hungUp' = hungUp \cup {c}
  /\ UNCHANGED <<clients, clientSet, oldClients, waiting, deleted, focus, saver, settings, sw>>

(* ClientListener::handleClientDisconnected, before the server adopts it   *)
WaitingClientDisconnected(c) ==
  /\ c \in waiting \cap hungUp
  /\ waiting' = waiting \ {c} /\ hungUp' = hungUp \ {c}
  /\ deleted' = deleted \cup {c}
  /\ UNCHANGED <<clients, clientSet, oldClients, focus, saver, settings, sw>>

Known(c) == HasName(cfg, OwnName[c])
Duplicate(c) == GetName(c) \in DOMAIN clients

AddClient(c) ==
  /\ clients' = [n \in DOMAIN clients \cup {GetName(c)} |->
                   IF n = GetName(c) THEN c ELSE clients[n]]
  /\ clientSet' = clientSet \cup {c}

AdoptClient_Twice(c) ==                                           \* mutant
  /\ c \in waiting
  /\ Known(c)
  /\ waiting' = waiting \ {c}
  /\ AddClient(c)
  /\ saverTold' = IF activeSaver # Nobody THEN saverTold \cup {c} ELSE saverTold
  /\ UNCHANGED <<oldClients, hungUp, deleted, focus, activeSaver, saverOn, settings, sw>>

AdoptClient_Untold(c) ==                                          \* mutant
  /\ c \in waiting
  /\ Known(c) /\ ~Duplicate(c)
  /\ waiting' = waiting \ {c}
  /\ AddClient(c)
  /\ UNCHANGED <<oldClients, hungUp, deleted, focus, saver, settings, sw>>

AdoptClient(c) ==
  /\ c \in waiting
  /\ Known(c) /\ ~Duplicate(c)
  /\ waiting' = waiting \ {c}
  /\ AddClient(c)
  /\ saverTold' = IF activeSaver # Nobody THEN saverTold \cup {c} ELSE saverTold
  /\ UNCHANGED <<oldClients, hungUp, deleted, focus, activeSaver, saverOn, settings, sw>>

RefuseClient(c) ==
  /\ c \in waiting
  /\ ~Known(c) \/ Duplicate(c)
  /\ waiting' = waiting \ {c}
  /\ oldClients' = oldClients \cup {c}
  /\ ForceLeave({c}, cfg) /\ sw' = LeaveSwitch({c})
  /\ UNCHANGED <<hungUp, deleted, saverOn, settings>>

HandleClientDisconnected(c) ==
  /\ c \in hungUp \cap (clientSet \cup oldClients)
  /\ IF c \in clientSet
     THEN ForceLeave({c}, cfg) /\ sw' = LeaveSwitch({c})
     ELSE UNCHANGED <<clients, clientSet, saverTold, activeSaver, focus, sw>>
  /\ oldClients' = oldClients \ {c}
  /\ hungUp' = hungUp \ {c}
  /\ deleted' = deleted \cup {c}
  /\ UNCHANGED <<waiting, saverOn, settings>>

HandleClientCloseTimeout_IfHungUp(c) ==                           \* mutant
  /\ c \in oldClients \cap hungUp
  /\ oldClients' = oldClients \ {c}
  /\ hungUp' = hungUp \ {c}
  /\ deleted' = deleted \cup {c}
  /\ UNCHANGED <<clients, clientSet, waiting, focus, saver, settings, sw>>

(* Its disconnect handler goes with it: a queued event finds nobody.       *)
HandleClientCloseTimeout(c) ==
  /\ c \in oldClients
  /\ oldClients' = oldClients \ {c}
  /\ hungUp' = hungUp \ {c}
  /\ deleted' = deleted \cup {c}
  /\ UNCHANGED <<clients, clientSet, waiting, focus, saver, settings, sw>>

(***************************************************************************)
(* Configuration                                                           *)
(***************************************************************************)
OptionsOf(k, old) ==
  [o \in OptionIDs |-> IF o \in DOMAIN k.options THEN k.options[o] ELSE old[o]]

(* processOptions cancels the timers of the options it sets.               *)
OptionsSwitch(k, s) ==
  LET tap == IF "switchTwoTap" \in DOMAIN k.options THEN StopTwoTap(s) ELSE s
  IN IF "switchDelay" \in DOMAIN k.options THEN StopWait(tap) ELSE tap

(* The computers closeClients drops: those whose key k does not keep       *)
Dropped(k) ==
  {clients[n] : n \in {m \in DOMAIN clients : ~IsCanonicalName(k, m)}} \ {Primary}

CloseClients(gone, k) ==
  /\ ForceLeave(gone, k)
  /\ oldClients' = oldClients \cup gone
  /\ UNCHANGED <<waiting, hungUp, deleted, saverOn>>

(* ServerApp::reloadConfig reads the file over *m_config, then setConfig   *)
(* refuses what leaves the primary out.                                    *)
ReloadConfig(k) ==
  /\ cfg' = k
  /\ IF HasName(k, OwnName[Primary])
     THEN /\ CloseClients(Dropped(k), k)
          /\ opt' = OptionsOf(k, opt)
          /\ sw' = OptionsSwitch(k, LeaveSwitch(Dropped(k)))
     ELSE UNCHANGED <<membership, focus, saver, opt, sw>>
  /\ UNCHANGED locked

Disconnect_Primary ==                                             \* mutant
  /\ Cardinality(DOMAIN clients) > 1 \/ oldClients # {}
  /\ CloseClients(Range(clients), cfg)
  /\ sw' = LeaveSwitch(Range(clients))
  /\ UNCHANGED settings

(* ServerApp::forceReconnect: close everyone, they will connect again.     *)
Disconnect ==
  /\ Cardinality(DOMAIN clients) > 1 \/ oldClients # {}
  /\ CloseClients(Range(clients) \ {Primary}, cfg)
  /\ sw' = LeaveSwitch(Range(clients) \ {Primary})
  /\ UNCHANGED settings

(***************************************************************************)
(* Input on the primary computer                                           *)
(***************************************************************************)
SideTest(s, dir, dst, corner, held) ==
  IF dir = NoDirection THEN [sw |-> s, ok |-> FALSE]
  ELSE IsSwitchOkay(s, dst, dir, corner, held)

Targets(dir, spot) ==
  IF dir = NoDirection THEN {Nobody} ELSE MapToNeighbor(GetName(active), dir, spot)

MoveInside(away) ==
  /\ sw' = NoSwitch(sw, away)
  /\ UNCHANGED <<membership, focus, saver, settings>>

(* Both sides of a corner are tried, the horizontal one first.             *)
PushEdge(dh, dv, dsth, dstv, corner, held, canLeave) ==
  LET h == SideTest(sw, dh, dsth, corner, held)
      v == SideTest(h.sw, dv, dstv, corner, held)
  IN /\ \/ h.ok /\ SwitchComputer(h.sw, dsth, canLeave)
        \/ ~h.ok /\ v.ok /\ SwitchComputer(v.sw, dstv, canLeave)
        \/ ~h.ok /\ ~v.ok /\ sw' = v.sw /\ UNCHANGED focus
     /\ UNCHANGED <<membership, saver, settings>>

OnMouseMovePrimary ==
  /\ active = Primary
  /\ \/ \E away \in BOOLEAN : MoveInside(away)
     \/ \E dh \in HDirs \cup {NoDirection}, dv \in VDirs \cup {NoDirection}, spot \in Spots :
          /\ dh # NoDirection \/ dv # NoDirection
          /\ \E dsth \in Targets(dh, spot), dstv \in Targets(dv, spot),
                corner, held, canLeave \in BOOLEAN :
               PushEdge(dh, dv, dsth, dstv, corner, held, canLeave)

(* On a secondary only one side is tried, and a motion along the border    *)
(* that is being waited on leaves the wait alone.                          *)
OnMouseMoveSecondary ==
  /\ active # Primary /\ active \notin deleted
  /\ \/ sw.target # Nobody /\ \E away \in BOOLEAN : MoveInside(away)
     \/ \E dir \in Dirs, spot \in Spots :
          \E dst \in Targets(dir, spot), corner, held \in BOOLEAN :
            PushEdge(dir, NoDirection, dst, Nobody, corner, held, TRUE)

HandleSwitchWaitTimeout_Unlocked ==                               \* mutant
  /\ sw.wait
  /\ \E canLeave \in BOOLEAN : SwitchComputer(sw, sw.target, canLeave)
  /\ UNCHANGED <<membership, saver, settings>>

HandleSwitchWaitTimeout ==
  /\ sw.wait
  /\ \E held, canLeave \in BOOLEAN :
       IF IsLocked(held)
       THEN sw' = StopSwitch(sw) /\ UNCHANGED focus
       ELSE SwitchComputer(sw, sw.target, canLeave)
  /\ UNCHANGED <<membership, saver, settings>>

(* The two-tap stopwatch passes its delay.                                 *)
TwoTapLate ==
  /\ sw.engaged /\ ~sw.late
  /\ sw' = [sw EXCEPT !.late = TRUE]
  /\ UNCHANGED <<membership, focus, saver, settings>>

(* Hot keys: to a name, in a direction, to the next computer               *)
JumpTo(dst) ==
  /\ \E canLeave \in BOOLEAN : SwitchComputer(sw, dst, canLeave)
  /\ UNCHANGED <<membership, saver, settings>>

HandleSwitchToComputerEvent == \E n \in DOMAIN clients : JumpTo(clients[n])

(* nearestNeighbor looks along the rest of the side.                       *)
HandleSwitchInDirectionEvent ==
  \E dir \in Dirs, at, near \in Spots :
    LET here  == GetNeighbor(GetName(active), dir, at)
        along == GetNeighbor(GetName(active), dir, near)
    IN /\ active \notin deleted
       /\ \E dst \in IF here # {} THEN here ELSE along : JumpTo(dst)

HandleToggleComputerEvent ==
  /\ GetName(active) \in DOMAIN clients
  /\ \E n \in DOMAIN clients \ {GetName(active)} : JumpTo(clients[n])

HandleLockCursorToComputerEvent ==
  /\ locked' = ~locked
  /\ UNCHANGED <<membership, focus, saver, cfg, opt, sw>>

(***************************************************************************)
(* The primary's screen saver                                              *)
(***************************************************************************)
OnScreensaverActivated ==
  /\ ScreenSaver /\ ~saverOn
  /\ saverOn' = TRUE
  /\ activeSaver' = active
  /\ saverTold' = Range(clients)
  /\ IF active = Primary THEN UNCHANGED <<focus, sw>>
     ELSE SwitchComputer(sw, Primary, TRUE)
  /\ UNCHANGED <<membership, settings>>

OnScreensaverDeactivated ==
  /\ saverOn
  /\ saverOn' = FALSE
  /\ activeSaver' = Nobody
  /\ saverTold' = {}
  /\ IF activeSaver \in {Nobody, Primary} THEN UNCHANGED <<focus, sw>>
     ELSE \E canLeave \in BOOLEAN : SwitchComputer(sw, activeSaver, canLeave)
  /\ UNCHANGED <<membership, settings>>
-----------------------------------------------------------------------------
Init ==
  /\ cfg \in Configs /\ HasName(cfg, OwnName[Primary])
  /\ opt = OptionsOf(cfg, [o \in OptionIDs |-> FALSE])
  /\ clients = [n \in {GetName(Primary)} |-> Primary]
  /\ clientSet = {Primary}
  /\ oldClients = {} /\ waiting = {} /\ hungUp = {} /\ deleted = {}
  /\ active = Primary /\ entered = {Primary}
  /\ activeSaver = Nobody /\ saverOn = FALSE /\ saverTold = {}
  /\ \E scrollLock \in BOOLEAN :
       locked = (opt["defaultLock"] \/ (scrollLock /\ ~opt["disableLock"]))
  /\ sw = NoSwitchPending

Connections ==
  \E c \in Proxies :
    \/ ClientWaits(c) \/ HangUp(c) \/ WaitingClientDisconnected(c)
    \/ AdoptClient(c) \/ RefuseClient(c)
    \/ HandleClientDisconnected(c) \/ HandleClientCloseTimeout(c)

Input ==
  \/ OnMouseMovePrimary \/ OnMouseMoveSecondary
  \/ HandleSwitchWaitTimeout \/ TwoTapLate
  \/ HandleSwitchToComputerEvent \/ HandleSwitchInDirectionEvent
  \/ HandleToggleComputerEvent \/ HandleLockCursorToComputerEvent

Next ==
  \/ Connections \/ Input
  \/ OnScreensaverActivated \/ OnScreensaverDeactivated
  \/ Disconnect \/ \E k \in Configs : ReloadConfig(k)

Spec == Init /\ [][Next]_vars

(* The event loop delivers expired timers.                                 *)
Fairness ==
  /\ \A c \in Proxies : WF_vars(HandleClientCloseTimeout(c))
  /\ WF_vars(HandleSwitchWaitTimeout)

LiveSpec == Spec /\ Fairness
-----------------------------------------------------------------------------
(***************************************************************************)
(* Properties                                                              *)
(***************************************************************************)
SwitchType ==
  [target : Computers \cup {Nobody}, dir : Dirs \cup {NoDirection}, wait : BOOLEAN,
   waitAt : Computers \cup {Nobody}, engaged : BOOLEAN, armed : BOOLEAN, late : BOOLEAN]

TypeOK ==
  /\ cfg \in Configs /\ opt \in [OptionIDs -> BOOLEAN] /\ locked \in BOOLEAN
  /\ DOMAIN clients \subseteq Names
  /\ \A n \in DOMAIN clients : clients[n] \in Computers
  /\ clientSet \subseteq Computers
  /\ oldClients \subseteq Proxies /\ waiting \subseteq Proxies
  /\ hungUp \subseteq Proxies /\ deleted \subseteq Proxies
  /\ active \in Computers /\ entered \subseteq Computers
  /\ activeSaver \in Computers \cup {Nobody}
  /\ saverOn \in BOOLEAN /\ saverTold \subseteq Computers
  /\ sw \in SwitchType

(* m_clients and m_clientSet stay two views of the same computers, each    *)
(* under the name it has now, the primary among them; a proxy is being     *)
(* waited for, connected, closing or deleted, never two of these, so no    *)
(* handler of a connected client can reach a deleted one.                  *)
Registry ==
  /\ clientSet = Range(clients) /\ Primary \in clientSet
  /\ \A n \in DOMAIN clients : GetName(clients[n]) = n
  /\ clientSet \cap oldClients = {} /\ clientSet \cap waiting = {}
  /\ oldClients \cap waiting = {}
  /\ deleted \cap (clientSet \cup oldClients \cup waiting) = {}

(* The computer with the focus is connected, across hang-ups, closes,      *)
(* reloads and the screen saver (the comment in closeClient).              *)
ActiveConnected == active \in clientSet

(* The computer to return to after the screen saver is connected, and no   *)
(* loss of a client while the saver runs leaves a lost one to return to.   *)
SaverConnected == activeSaver \in clientSet \cup {Nobody}

SaverStaysConnected ==
  [][ActiveConnected /\ SaverConnected => SaverConnected']_vars

(* Exactly one connected computer believes it has the cursor, and it is    *)
(* the one input is relayed to.                                            *)
OneEntered == entered = {active}

Focused == ActiveConnected /\ OneEntered

(* While a first tap or a delayed switch is pending there is a computer to *)
(* switch to, which handleSwitchWaitTimeout hands to switchComputer's      *)
(* assertion, and no state of a cancelled switch is left behind.           *)
Tidy(s) ==
  /\ s.wait \/ s.engaged => s.target # Nobody
  /\ s.armed \/ s.late => s.engaged
  /\ s.target = Nobody <=> s.dir = NoDirection

PendingSwitch == Tidy(sw)

(* The computer a delayed switch will go to is still connected when the    *)
(* timer expires (the comment in forceLeaveClient).                        *)
SwitchTargetConnected == sw.wait => sw.target \in clientSet

(* The delayed switch goes to the computer its recorded position lies on   *)
(* (Server.h on the common state of the switch tests).                     *)
SwitchTargetFits == sw.wait => sw.target = sw.waitAt

(* Connected clients know that the primary's screen saver runs, those that *)
(* connect during it too (the comment in adoptClient), as long as the      *)
(* computer that had the cursor is connected; when it has left, adoptClient*)
(* no longer tells.                                                        *)
SaverSynced == activeSaver # Nobody => saverOn /\ clientSet \subseteq saverTold

(* When the primary has the focus, it has been entered: forceLeaveClient   *)
(* skips it only because of the screen saver (the comment there).          *)
PrimaryEntered == active = Primary => Primary \in entered

Crossing == OnMouseMovePrimary \/ OnMouseMoveSecondary \/ HandleSwitchWaitTimeout

(* A locked cursor never leaves its computer at an edge, at once or after  *)
(* the delay, whatever was pending when the lock was set.                  *)
LockHolds ==
  [][Crossing /\ locked /\ ~opt["disableLock"] => active' = active]_vars

(* With two-tap switching on and no delay, the cursor crosses an edge only *)
(* on a second tap in time, after leaving the edge it tapped first.        *)
TwoTapCrossing ==
  [][Crossing /\ opt["switchTwoTap"] /\ ~opt["switchDelay"] /\ active' # active =>
       sw.engaged /\ sw.armed /\ ~sw.late]_vars

(* A client told to close is gone in the end, even if it never answers.    *)
OldClientsDrain == \A c \in Proxies : c \in oldClients ~> c \notin oldClients

=============================================================================
