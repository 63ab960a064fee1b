---------------------------- MODULE ServerProofs ----------------------------
(* Theorems about Server for every set of proxies, names, sides and        *)
(* configurations.                                                         *)
EXTENDS Server, TLAPS

(***************************************************************************)
(* Lemmas about the operators on the state of a pending switch             *)
(***************************************************************************)

(* The operators that stop or arm a pending switch keep it tidy.           *)
LEMMA SwitchOps ==
  ASSUME NEW s \in SwitchType, Tidy(s)
  PROVE  /\ StopTwoTap(s) \in SwitchType /\ Tidy(StopTwoTap(s))
         /\ StopWait(s) \in SwitchType /\ Tidy(StopWait(s))
         /\ StopSwitch(s) \in SwitchType /\ Tidy(StopSwitch(s))
         /\ \A away \in BOOLEAN : NoSwitch(s, away) \in SwitchType /\ Tidy(NoSwitch(s, away))
BY DEF SwitchType, Tidy, StopTwoTap, StopWait, StopSwitch, ArmTwoTap, NoSwitch

(* Starting a tap or a wait needs a target.                                *)
LEMMA StartOps ==
  ASSUME NEW s \in SwitchType, Tidy(s), s.target # Nobody, NEW dst \in Computers
  PROVE  /\ StartTwoTap(s) \in SwitchType /\ Tidy(StartTwoTap(s))
         /\ StartTwoTap(s).target # Nobody
         /\ StartWait(s, dst) \in SwitchType /\ Tidy(StartWait(s, dst))
BY DEF SwitchType, Tidy, StartTwoTap, StartWait

(* The test for a switch has a target before it starts either.             *)
LEMMA ConsiderOp ==
  ASSUME NEW s \in SwitchType, Tidy(s), NEW dst \in Computers, NEW dir \in Dirs,
         opt \in [OptionIDs -> BOOLEAN]
  PROVE  Consider(s, dst, dir).sw \in SwitchType /\ Tidy(Consider(s, dst, dir).sw)
<1> DEFINE isNew == dir # s.dir
           s1 == IF isNew \/ s.target = Nobody
                 THEN [s EXCEPT !.dir = dir, !.target = dst] ELSE s
           allow == opt["switchTwoTap"] /\ SecondTap(s, dir)
           s2 == IF opt["switchTwoTap"] /\ ~allow THEN StartTwoTap(s1) ELSE s1
           s3 == IF (opt["switchDelay"] /\ ~allow) /\ (isNew \/ ~s2.wait)
                 THEN StartWait(s2, dst) ELSE s2
<1>1. s1 \in SwitchType /\ Tidy(s1) /\ s1.target # Nobody
  BY ComputersAssumption, SidesAssumption DEF SwitchType, Tidy
<1> HIDE DEF s1
<1>2. s2 \in SwitchType /\ Tidy(s2) /\ s2.target # Nobody BY <1>1, StartOps
<1> HIDE DEF s2
<1>3. s3 \in SwitchType /\ Tidy(s3) BY <1>2, StartOps
<1>4. Consider(s, dst, dir).sw = s3 BY DEF Consider, s1, s2
<1> QED BY <1>3, <1>4

LEMMA IsSwitchOkayOp ==
  ASSUME NEW s \in SwitchType, Tidy(s), NEW dst \in Computers \cup {Nobody}, NEW dir \in Dirs,
         NEW corner \in BOOLEAN, NEW held \in BOOLEAN, opt \in [OptionIDs -> BOOLEAN]
  PROVE  /\ IsSwitchOkay(s, dst, dir, corner, held).sw \in SwitchType
         /\ Tidy(IsSwitchOkay(s, dst, dir, corner, held).sw)
         /\ IsSwitchOkay(s, dst, dir, corner, held).ok => dst # Nobody
<1>1. CASE dst = Nobody BY <1>1, SwitchOps DEF IsSwitchOkay
<1>2. CASE dst # Nobody
  <2> DEFINE c == Consider(s, dst, dir)
  <2>1. c.sw \in SwitchType /\ Tidy(c.sw) BY <1>2, ConsiderOp
  <2>2. StopSwitch(c.sw) \in SwitchType /\ Tidy(StopSwitch(c.sw)) BY <2>1, SwitchOps
  <2> HIDE DEF c
  <2>3. \/ IsSwitchOkay(s, dst, dir, corner, held).sw = c.sw
        \/ IsSwitchOkay(s, dst, dir, corner, held).sw = StopSwitch(c.sw)
    BY <1>2 DEF IsSwitchOkay, c
  <2> QED BY <1>2, <2>1, <2>2, <2>3
<1> QED BY <1>1, <1>2

LEMMA SideTestOp ==
  ASSUME NEW s \in SwitchType, Tidy(s), NEW dst \in Computers \cup {Nobody},
         NEW dir \in Dirs \cup {NoDirection},
         NEW corner \in BOOLEAN, NEW held \in BOOLEAN, opt \in [OptionIDs -> BOOLEAN]
  PROVE  /\ SideTest(s, dir, dst, corner, held).sw \in SwitchType
         /\ Tidy(SideTest(s, dir, dst, corner, held).sw)
         /\ SideTest(s, dir, dst, corner, held).ok => dst # Nobody
BY IsSwitchOkayOp, SidesAssumption DEF SideTest

(* Whatever is found at an edge or by a hot key is connected.              *)
LEMMA NeighborsConnected ==
  ASSUME NEW src, NEW dir, NEW spot
  PROVE  /\ GetNeighbor(src, dir, spot) \subseteq Range(clients)
         /\ MapToNeighbor(src, dir, spot) \subseteq Range(clients) \cup {Nobody}
<1>1. GetNeighbor(src, dir, spot) \subseteq Range(clients)
  BY DEF GetNeighbor, Range
<1>2. MapToNeighbor(src, dir, spot) \subseteq Range(clients) \cup {Nobody}
  BY DEF MapToNeighbor, Range
<1> QED BY <1>1, <1>2

(***************************************************************************)
(* Types, together with the tidiness of a pending switch                   *)
(***************************************************************************)
Typed == TypeOK /\ PendingSwitch

ClientsType(f) == DOMAIN f \subseteq Names /\ \A n \in DOMAIN f : f[n] \in Computers

LEMMA SwitchComputerType ==
  ASSUME Typed, NEW s \in SwitchType, Tidy(s), NEW dst \in Computers, NEW canLeave \in BOOLEAN,
         SwitchComputer(s, dst, canLeave)
  PROVE  /\ active' \in Computers /\ entered' \subseteq Computers
         /\ sw' \in SwitchType /\ Tidy(sw')
BY SwitchOps DEF Typed, TypeOK, SwitchComputer, focus

LEMMA ForceLeaveType ==
  ASSUME Typed, NEW gone \in SUBSET Proxies, NEW k, ForceLeave(gone, k)
  PROVE  /\ ClientsType(clients') /\ clientSet' \subseteq Computers
         /\ saverTold' \subseteq Computers /\ entered' \subseteq Computers
         /\ active' \in Computers /\ activeSaver' \in Computers \cup {Nobody}
         /\ LeaveSwitch(gone) \in SwitchType /\ Tidy(LeaveSwitch(gone))
<1>1. ClientsType(clients')
  BY DEF Typed, TypeOK, ForceLeave, ClientsType, Restrict
<1>2. LeaveSwitch(gone) \in SwitchType /\ Tidy(LeaveSwitch(gone))
  BY SwitchOps DEF Typed, TypeOK, PendingSwitch, LeaveSwitch
<1>3. /\ clientSet' \subseteq Computers /\ saverTold' \subseteq Computers
      /\ entered' \subseteq Computers
      /\ active' \in Computers /\ activeSaver' \in Computers \cup {Nobody}
  BY DEF Typed, TypeOK, ForceLeave, Computers
<1> QED BY <1>1, <1>2, <1>3

LEMMA DroppedProxies ==
  ASSUME Typed
  PROVE  /\ \A k : Dropped(k) \subseteq Proxies
         /\ Range(clients) \ {Primary} \subseteq Proxies
         /\ Range(clients) \subseteq Computers
BY DEF Typed, TypeOK, Dropped, Range, Computers

LEMMA JumpType ==
  ASSUME Typed, NEW dst \in Computers, JumpTo(dst)
  PROVE  Typed'
<1>1. PICK canLeave \in BOOLEAN : SwitchComputer(sw, dst, canLeave) BY DEF JumpTo
<1>2. /\ active' \in Computers /\ entered' \subseteq Computers /\ sw' \in SwitchType /\ Tidy(sw')
  BY <1>1, SwitchComputerType DEF Typed, TypeOK, PendingSwitch
<1> QED BY <1>2 DEF Typed, TypeOK, PendingSwitch, JumpTo, membership, saver, settings

LEMMA MoveInsideType ==
  ASSUME Typed, NEW away \in BOOLEAN, MoveInside(away)
  PROVE  Typed'
<1>1. NoSwitch(sw, away) \in SwitchType /\ Tidy(NoSwitch(sw, away))
  BY SwitchOps DEF Typed, TypeOK, PendingSwitch
<1> QED
  BY <1>1 DEF Typed, TypeOK, PendingSwitch, MoveInside, membership, focus, saver, settings

(* A push at an edge or a corner, with whatever neighbours                 *)
AnyPush ==
  \E dh, dv \in Dirs \cup {NoDirection}, dsth, dstv \in Computers \cup {Nobody},
     corner, held, canLeave \in BOOLEAN :
    PushEdge(dh, dv, dsth, dstv, corner, held, canLeave)

(* A motion ends inside, or pushes.                                        *)
LEMMA MotionEnds ==
  ASSUME Typed, OnMouseMovePrimary \/ OnMouseMoveSecondary
  PROVE  (\E away \in BOOLEAN : MoveInside(away)) \/ AnyPush
<1>1. \A dir, spot : Targets(dir, spot) \subseteq Computers \cup {Nobody}
  BY NeighborsConnected DEF Targets, Typed, TypeOK, Range
<1>2. CASE OnMouseMovePrimary /\ ~\E away \in BOOLEAN : MoveInside(away)
  <2>1. PICK dh \in HDirs \cup {NoDirection}, dv \in VDirs \cup {NoDirection}, spot \in Spots :
          \E dsth \in Targets(dh, spot), dstv \in Targets(dv, spot),
             corner, held, canLeave \in BOOLEAN :
            PushEdge(dh, dv, dsth, dstv, corner, held, canLeave)
    BY <1>2 DEF OnMouseMovePrimary
  <2>2. dh \in Dirs \cup {NoDirection} /\ dv \in Dirs \cup {NoDirection} BY DEF Dirs
  <2> QED BY <1>1, <2>1, <2>2 DEF AnyPush
<1>3. CASE OnMouseMoveSecondary /\ ~\E away \in BOOLEAN : MoveInside(away)
  <2>1. \E dir \in Dirs, spot \in Spots :
          \E dst \in Targets(dir, spot), corner, held \in BOOLEAN :
            PushEdge(dir, NoDirection, dst, Nobody, corner, held, TRUE)
    BY <1>3 DEF OnMouseMoveSecondary
  <2> QED BY <1>1, <2>1 DEF AnyPush
<1> QED BY <1>2, <1>3

LEMMA AnyPushType ==
  ASSUME Typed, AnyPush
  PROVE  Typed'
<1>p. PICK dh \in Dirs \cup {NoDirection}, dv \in Dirs \cup {NoDirection},
           dsth \in Computers \cup {Nobody}, dstv \in Computers \cup {Nobody},
           corner \in BOOLEAN, held \in BOOLEAN, canLeave \in BOOLEAN :
        PushEdge(dh, dv, dsth, dstv, corner, held, canLeave)
  BY DEF AnyPush
<1> DEFINE h == SideTest(sw, dh, dsth, corner, held)
           v == SideTest(h.sw, dv, dstv, corner, held)
<1>1. h.sw \in SwitchType /\ Tidy(h.sw) /\ (h.ok => dsth # Nobody)
  BY SideTestOp DEF Typed, TypeOK, PendingSwitch
<1> HIDE DEF h
<1>2. v.sw \in SwitchType /\ Tidy(v.sw) /\ (v.ok => dstv # Nobody)
  BY <1>1, SideTestOp DEF Typed, TypeOK
<1> HIDE DEF v
<1>3. /\ \/ h.ok /\ SwitchComputer(h.sw, dsth, canLeave)
         \/ ~h.ok /\ v.ok /\ SwitchComputer(v.sw, dstv, canLeave)
         \/ ~h.ok /\ ~v.ok /\ sw' = v.sw /\ UNCHANGED focus
      /\ UNCHANGED <<membership, saver, settings>>
  BY <1>p DEF PushEdge, h, v
<1>4. /\ active' \in Computers /\ entered' \subseteq Computers /\ sw' \in SwitchType /\ Tidy(sw')
  <2>1. CASE h.ok /\ SwitchComputer(h.sw, dsth, canLeave)
    BY <2>1, <1>1, SwitchComputerType
  <2>2. CASE ~h.ok /\ v.ok /\ SwitchComputer(v.sw, dstv, canLeave)
    BY <2>2, <1>2, SwitchComputerType
  <2>3. CASE ~h.ok /\ ~v.ok /\ sw' = v.sw /\ UNCHANGED focus
    BY <2>3, <1>2 DEF Typed, TypeOK, focus
  <2> QED BY <1>3, <2>1, <2>2, <2>3
<1> QED BY <1>3, <1>4 DEF Typed, TypeOK, PendingSwitch, membership, saver, settings

LEMMA TypedInit == Init => Typed
<1> SUFFICES ASSUME Init PROVE Typed OBVIOUS
<1>1. opt \in [OptionIDs -> BOOLEAN]
  BY ConfigsAssumption DEF Init, OptionsOf, IsConfig
<1>2. sw \in SwitchType /\ Tidy(sw)
  BY DEF Init, NoSwitchPending, SwitchType, Tidy
<1>3. GetName(Primary) \in Names
  BY ConfigsAssumption, ComputersAssumption DEF Init, GetName, NameIn, HasName, IsConfig, Computers
<1>4. locked \in BOOLEAN
  BY <1>1 DEF Init, OptionIDs
<1> QED BY <1>1, <1>2, <1>3, <1>4 DEF Init, Typed, TypeOK, PendingSwitch, Computers

(* Clients come and go.                                                    *)
LEMMA TypedConnections == Typed /\ Connections => Typed'
<1> SUFFICES ASSUME Typed, Connections PROVE Typed' OBVIOUS
<1> USE DEF Typed, PendingSwitch, TypeOK, membership, focus, saver, settings, ClientsType
<1>0. PICK c \in Proxies :
         \/ ClientWaits(c) \/ HangUp(c) \/ WaitingClientDisconnected(c)
         \/ AdoptClient(c) \/ RefuseClient(c)
         \/ HandleClientDisconnected(c) \/ HandleClientCloseTimeout(c)
  BY DEF Connections
<1>a. c \in Computers /\ GetName(c) \in Names
  BY ConfigsAssumption, ComputersAssumption
  DEF GetName, NameIn, HasName, IsConfig, Computers
<1>1. CASE ClientWaits(c) BY <1>1 DEF ClientWaits
<1>2. CASE HangUp(c) BY <1>2 DEF HangUp
<1>3. CASE WaitingClientDisconnected(c) BY <1>3 DEF WaitingClientDisconnected
<1>4. CASE AdoptClient(c)
  <2>1. ClientsType(clients') BY <1>4, <1>a DEF AdoptClient, AddClient
  <2> QED BY <1>4, <1>a, <2>1 DEF AdoptClient, AddClient
<1>5. CASE RefuseClient(c)
  <2>1. ForceLeave({c}, cfg) BY <1>5 DEF RefuseClient
  <2> QED BY <1>5, <2>1, ForceLeaveType DEF RefuseClient
<1>6. CASE HandleClientDisconnected(c)
  <2>1. CASE c \in clientSet
    <3>1. ForceLeave({c}, cfg) BY <1>6, <2>1 DEF HandleClientDisconnected
    <3> QED BY <1>6, <2>1, <3>1, ForceLeaveType DEF HandleClientDisconnected
  <2>2. CASE c \notin clientSet BY <1>6, <2>2 DEF HandleClientDisconnected
  <2> QED BY <2>1, <2>2
<1>7. CASE HandleClientCloseTimeout(c) BY <1>7 DEF HandleClientCloseTimeout
<1> QED BY <1>0, <1>1, <1>2, <1>3, <1>4, <1>5, <1>6, <1>7

(* Input on the primary computer.                                          *)
LEMMA TypedInput == Typed /\ Input => Typed'
<1> SUFFICES ASSUME Typed, Input PROVE Typed' OBVIOUS
<1>a. /\ Range(clients) \subseteq Computers
      /\ \A n \in DOMAIN clients : clients[n] \in Computers
  BY DroppedProxies DEF Typed, TypeOK
<1>1. CASE OnMouseMovePrimary \/ OnMouseMoveSecondary
  <2>1. CASE \E away \in BOOLEAN : MoveInside(away) BY <2>1, MoveInsideType
  <2> QED BY <1>1, <2>1, MotionEnds, AnyPushType
<1>2. CASE HandleSwitchWaitTimeout
  <2>1. sw.target \in Computers
    BY <1>2 DEF HandleSwitchWaitTimeout, Typed, TypeOK, PendingSwitch, Tidy, SwitchType
  <2>2. PICK held \in BOOLEAN, canLeave \in BOOLEAN :
          IF IsLocked(held) THEN sw' = StopSwitch(sw) /\ UNCHANGED focus
          ELSE SwitchComputer(sw, sw.target, canLeave)
    BY <1>2 DEF HandleSwitchWaitTimeout
  <2>3. /\ active' \in Computers /\ entered' \subseteq Computers
        /\ sw' \in SwitchType /\ Tidy(sw')
    <3>1. CASE IsLocked(held)
      BY <2>2, <3>1, SwitchOps DEF Typed, TypeOK, PendingSwitch, focus
    <3>2. CASE ~IsLocked(held)
      BY <2>1, <2>2, <3>2, SwitchComputerType DEF Typed, TypeOK, PendingSwitch
    <3> QED BY <3>1, <3>2
  <2> QED
    BY <1>2, <2>3 DEF HandleSwitchWaitTimeout, Typed, TypeOK, PendingSwitch, membership, saver, settings
<1>3. CASE TwoTapLate
  BY <1>3 DEF TwoTapLate, Typed, TypeOK, PendingSwitch, Tidy, SwitchType,
              membership, focus, saver, settings
<1>4. CASE HandleSwitchToComputerEvent
  BY <1>4, <1>a, JumpType DEF HandleSwitchToComputerEvent
<1>5. CASE HandleSwitchInDirectionEvent
  <2>1. PICK dst \in Range(clients) : JumpTo(dst)
    BY <1>5, NeighborsConnected DEF HandleSwitchInDirectionEvent
  <2> QED BY <2>1, <1>a, JumpType
<1>6. CASE HandleToggleComputerEvent
  BY <1>6, <1>a, JumpType DEF HandleToggleComputerEvent
<1>7. CASE HandleLockCursorToComputerEvent
  BY <1>7 DEF HandleLockCursorToComputerEvent, Typed, TypeOK, PendingSwitch,
              membership, focus, saver
<1> QED BY <1>1, <1>2, <1>3, <1>4, <1>5, <1>6, <1>7 DEF Input

(* The screen saver and the configuration.                                 *)
LEMMA TypedSaver ==
  Typed /\ (OnScreensaverActivated \/ OnScreensaverDeactivated) => Typed'
<1> SUFFICES ASSUME Typed, OnScreensaverActivated \/ OnScreensaverDeactivated PROVE Typed'
  OBVIOUS
<1>a. Range(clients) \subseteq Computers BY DroppedProxies
<1>b. Primary \in Computers BY DEF Computers
<1>1. CASE OnScreensaverActivated
  <2>1. /\ active' \in Computers /\ entered' \subseteq Computers
        /\ sw' \in SwitchType /\ Tidy(sw')
    BY <1>1, <1>b, SwitchComputerType
    DEF OnScreensaverActivated, Typed, TypeOK, PendingSwitch, focus
  <2> QED
    BY <1>1, <1>a, <2>1
    DEF OnScreensaverActivated, Typed, TypeOK, PendingSwitch, membership, settings
<1>2. CASE OnScreensaverDeactivated
  <2>1. /\ active' \in Computers /\ entered' \subseteq Computers
        /\ sw' \in SwitchType /\ Tidy(sw')
    <3>1. CASE activeSaver \in {Nobody, Primary}
      BY <1>2, <3>1 DEF OnScreensaverDeactivated, Typed, TypeOK, PendingSwitch, focus
    <3>2. CASE activeSaver \notin {Nobody, Primary}
      <4>1. PICK canLeave \in BOOLEAN : SwitchComputer(sw, activeSaver, canLeave)
        BY <1>2, <3>2 DEF OnScreensaverDeactivated
      <4> QED BY <3>2, <4>1, SwitchComputerType DEF Typed, TypeOK, PendingSwitch
    <3> QED BY <3>1, <3>2
  <2> QED
    BY <1>2, <2>1
    DEF OnScreensaverDeactivated, Typed, TypeOK, PendingSwitch, membership, settings
<1> QED BY <1>1, <1>2

LEMMA OptionsSwitchOp ==
  ASSUME NEW s \in SwitchType, Tidy(s), NEW k
  PROVE  OptionsSwitch(k, s) \in SwitchType /\ Tidy(OptionsSwitch(k, s))
BY SwitchOps DEF OptionsSwitch

LEMMA TypedConfig ==
  Typed /\ (Disconnect \/ \E k \in Configs : ReloadConfig(k)) => Typed'
<1> SUFFICES ASSUME Typed, Disconnect \/ \E k \in Configs : ReloadConfig(k) PROVE Typed'
  OBVIOUS
<1>1. CASE Disconnect
  <2> DEFINE gone == Range(clients) \ {Primary}
  <2>1. gone \in SUBSET Proxies BY DroppedProxies
  <2>2. ForceLeave(gone, cfg) BY <1>1 DEF Disconnect, CloseClients
  <2>3. /\ oldClients' = oldClients \cup gone /\ sw' = LeaveSwitch(gone)
        /\ UNCHANGED <<waiting, hungUp, deleted, saverOn, settings>>
    BY <1>1 DEF Disconnect, CloseClients
  <2> HIDE DEF gone
  <2> QED
    BY <2>1, <2>2, <2>3, ForceLeaveType
    DEF Typed, TypeOK, PendingSwitch, ClientsType, settings
<1>2. CASE \E k \in Configs : ReloadConfig(k)
  <2>1. PICK k \in Configs : ReloadConfig(k) BY <1>2
  <2>2. CASE ~HasName(k, OwnName[Primary])
    BY <2>1, <2>2 DEF ReloadConfig, Typed, TypeOK, PendingSwitch, membership, focus, saver
  <2>3. CASE HasName(k, OwnName[Primary])
    <3>1. Dropped(k) \in SUBSET Proxies BY DroppedProxies
    <3>2. ForceLeave(Dropped(k), k) BY <2>1, <2>3 DEF ReloadConfig, CloseClients
    <3>3. OptionsOf(k, opt) \in [OptionIDs -> BOOLEAN]
      BY ConfigsAssumption DEF OptionsOf, IsConfig, Typed, TypeOK
    <3>4. LET s == OptionsSwitch(k, LeaveSwitch(Dropped(k))) IN s \in SwitchType /\ Tidy(s)
      BY <3>1, <3>2, ForceLeaveType, OptionsSwitchOp
    <3>5. /\ oldClients' = oldClients \cup Dropped(k)
          /\ cfg' = k /\ opt' = OptionsOf(k, opt)
          /\ sw' = OptionsSwitch(k, LeaveSwitch(Dropped(k)))
          /\ UNCHANGED <<waiting, hungUp, deleted, saverOn, locked>>
      BY <2>1, <2>3 DEF ReloadConfig, CloseClients
    <3> QED
      BY <3>1, <3>2, <3>3, <3>4, <3>5, ForceLeaveType
      DEF Typed, TypeOK, PendingSwitch, ClientsType
  <2> QED BY <2>1, <2>2, <2>3
<1> QED BY <1>1, <1>2

LEMMA TypedNext == Typed /\ [Next]_vars => Typed'
<1>1. Typed /\ UNCHANGED vars => Typed'
  BY DEF Typed, TypeOK, PendingSwitch, vars, membership, focus, saver, settings
<1> QED BY <1>1, TypedConnections, TypedInput, TypedSaver, TypedConfig DEF Next

LEMMA TypedAlways == Spec => []Typed
BY TypedInit, TypedNext, PTL DEF Spec

(* Every variable stays in its type, for all constants.                    *)
THEOREM TypeCorrect == Spec => []TypeOK
<1>1. Typed => TypeOK BY DEF Typed
<1> QED BY <1>1, TypedAlways, PTL

(* The delayed switch always finds a target in m_switchComputer, and a     *)
(* cancelled switch leaves neither timer nor tap behind.                   *)
THEOREM PendingSwitchHolds == Spec => []PendingSwitch
<1>1. Typed => PendingSwitch BY DEF Typed
<1> QED BY <1>1, TypedAlways, PTL

(***************************************************************************)
(* The registry.  A reload may drop computers and change links and         *)
(* options; when it also turns a name in use into another's alias, the     *)
(* registry breaks (README, 7), so that is excluded here.                  *)
(***************************************************************************)
StableNames ==
  \A k, l \in Configs, c \in Computers : NameIn(k, c) = NameIn(l, c)

LEMMA RegistryForceLeave ==
  ASSUME Typed, Registry, StableNames, NEW gone \in SUBSET Proxies, NEW k \in Configs,
         ForceLeave(gone, k)
  PROVE  /\ clientSet' = clientSet \ gone
         /\ clientSet' = Range(clients') /\ Primary \in clientSet'
         /\ DOMAIN clients' \subseteq DOMAIN clients
         /\ \A n \in DOMAIN clients' : clients'[n] = clients[n]
<1> DEFINE keys == {NameIn(k, c) : c \in gone \cap clientSet}
<1>1. /\ clients' = [n \in DOMAIN clients \ keys |-> clients[n]]
      /\ clientSet' = clientSet \ gone
  BY DEF ForceLeave, Restrict
<1>2. ASSUME NEW n \in DOMAIN clients
      PROVE  n \in keys <=> clients[n] \in gone
  <2>1. NameIn(k, clients[n]) = n /\ clients[n] \in clientSet
    BY DEF Registry, GetName, Typed, TypeOK, StableNames, Range
  <2>2. ASSUME n \in keys PROVE clients[n] \in gone
    <3>1. PICK c \in gone \cap clientSet : n = NameIn(k, c) BY <2>2
    <3>2. PICK m \in DOMAIN clients : clients[m] = c BY <3>1 DEF Registry, Range
    <3>3. NameIn(k, c) = m
      BY <3>2 DEF Registry, GetName, Typed, TypeOK, StableNames
    <3> QED BY <3>1, <3>2, <3>3
  <2> QED BY <2>1, <2>2
<1>3. clientSet' = Range(clients')
  BY <1>1, <1>2 DEF Registry, Range
<1>4. Primary \in clientSet' BY <1>1, ComputersAssumption DEF Registry
<1> QED BY <1>1, <1>3, <1>4

LEMMA RegistryInit == Init => Registry
BY DEF Init, Registry, Range

LEMMA RegistryConnections ==
  ASSUME Typed, Registry, StableNames, Connections
  PROVE  Registry'
<1> USE DEF membership, focus, saver, settings
<1>0. PICK c \in Proxies :
         \/ ClientWaits(c) \/ HangUp(c) \/ WaitingClientDisconnected(c)
         \/ AdoptClient(c) \/ RefuseClient(c)
         \/ HandleClientDisconnected(c) \/ HandleClientCloseTimeout(c)
  BY DEF Connections
<1>a. c # Primary /\ c \in Computers BY ComputersAssumption DEF Computers
<1>b. cfg \in Configs BY DEF Typed, TypeOK
<1>1. CASE ClientWaits(c) BY <1>1 DEF ClientWaits, Registry, GetName
<1>2. CASE HangUp(c) BY <1>2 DEF HangUp, Registry, GetName
<1>3. CASE WaitingClientDisconnected(c)
  BY <1>3 DEF WaitingClientDisconnected, Registry, GetName
<1>4. CASE AdoptClient(c)
  <2>1. /\ clients' = [n \in DOMAIN clients \cup {GetName(c)} |->
                         IF n = GetName(c) THEN c ELSE clients[n]]
        /\ clientSet' = clientSet \cup {c} /\ cfg' = cfg
        /\ waiting' = waiting \ {c} /\ c \in waiting
        /\ GetName(c) \notin DOMAIN clients
        /\ UNCHANGED <<oldClients, deleted>>
    BY <1>4 DEF AdoptClient, AddClient, Duplicate
  <2>2. Range(clients') = Range(clients) \cup {c} BY <2>1 DEF Range
  <2>3. \A n \in DOMAIN clients' : NameIn(cfg', clients'[n]) = n
    BY <2>1 DEF Registry, GetName
  <2> QED BY <2>1, <2>2, <2>3 DEF Registry, GetName
<1>5. CASE RefuseClient(c)
  <2>1. ForceLeave({c}, cfg) BY <1>5 DEF RefuseClient
  <2>2. /\ waiting' = waiting \ {c} /\ c \in waiting
        /\ oldClients' = oldClients \cup {c} /\ UNCHANGED <<deleted, cfg>>
    BY <1>5 DEF RefuseClient
  <2>3. /\ clientSet' = clientSet \ {c} /\ clientSet' = Range(clients')
        /\ Primary \in clientSet' /\ DOMAIN clients' \subseteq DOMAIN clients
        /\ \A n \in DOMAIN clients' : clients'[n] = clients[n]
    BY <1>b, <2>1, RegistryForceLeave
  <2>4. \A n \in DOMAIN clients' : NameIn(cfg', clients'[n]) = n
    BY <2>2, <2>3 DEF Registry, GetName
  <2> QED BY <2>2, <2>3, <2>4 DEF Registry, GetName
<1>6. CASE HandleClientDisconnected(c)
  <2>1. CASE c \in clientSet
    <3>1. ForceLeave({c}, cfg) BY <1>6, <2>1 DEF HandleClientDisconnected
    <3>2. /\ oldClients' = oldClients \ {c} /\ deleted' = deleted \cup {c}
          /\ UNCHANGED <<waiting, cfg>>
      BY <1>6 DEF HandleClientDisconnected
    <3>3. /\ clientSet' = clientSet \ {c} /\ clientSet' = Range(clients')
          /\ Primary \in clientSet' /\ DOMAIN clients' \subseteq DOMAIN clients
          /\ \A n \in DOMAIN clients' : clients'[n] = clients[n]
      BY <1>b, <3>1, RegistryForceLeave
    <3>4. \A n \in DOMAIN clients' : NameIn(cfg', clients'[n]) = n
      BY <3>2, <3>3 DEF Registry, GetName
    <3> QED BY <2>1, <3>2, <3>3, <3>4 DEF Registry, GetName
  <2>2. CASE c \notin clientSet
    BY <1>6, <2>2 DEF HandleClientDisconnected, Registry, GetName
  <2> QED BY <2>1, <2>2
<1>7. CASE HandleClientCloseTimeout(c)
  BY <1>7 DEF HandleClientCloseTimeout, Registry, GetName
<1> QED BY <1>0, <1>1, <1>2, <1>3, <1>4, <1>5, <1>6, <1>7

LEMMA RegistryConfig ==
  ASSUME Typed, Registry, StableNames, Disconnect \/ \E k \in Configs : ReloadConfig(k)
  PROVE  Registry'
<1>b. cfg \in Configs BY DEF Typed, TypeOK
<1>1. CASE Disconnect
  <2> DEFINE gone == Range(clients) \ {Primary}
  <2>1. gone \in SUBSET Proxies BY DroppedProxies
  <2>2. /\ ForceLeave(gone, cfg) /\ oldClients' = oldClients \cup gone
        /\ UNCHANGED <<waiting, deleted, cfg>>
    BY <1>1 DEF Disconnect, CloseClients, settings
  <2>3. gone \subseteq clientSet BY DEF Registry
  <2> HIDE DEF gone
  <2> QED BY <1>b, <2>1, <2>2, <2>3, RegistryForceLeave DEF Registry, GetName
<1>2. CASE \E k \in Configs : ReloadConfig(k)
  <2>1. PICK k \in Configs : ReloadConfig(k) BY <1>2
  <2>2. \A c \in Computers : NameIn(cfg', c) = NameIn(cfg, c)
    BY <2>1, <1>b DEF ReloadConfig, StableNames
  <2>3. CASE ~HasName(k, OwnName[Primary])
    BY <2>1, <2>2, <2>3 DEF ReloadConfig, Registry, GetName, membership, Typed, TypeOK
  <2>4. CASE HasName(k, OwnName[Primary])
    <3>1. Dropped(k) \in SUBSET Proxies /\ Dropped(k) \subseteq clientSet
      BY DroppedProxies DEF Dropped, Registry, Range
    <3>2. /\ ForceLeave(Dropped(k), k) /\ oldClients' = oldClients \cup Dropped(k)
          /\ UNCHANGED <<waiting, deleted>>
      BY <2>1, <2>4 DEF ReloadConfig, CloseClients
    <3> QED BY <2>2, <3>1, <3>2, RegistryForceLeave DEF Registry, GetName, Typed, TypeOK
  <2> QED BY <2>3, <2>4
<1> QED BY <1>1, <1>2

(* Neither way a mouse motion can end touches the registry, the screen     *)
(* saver's state or the configuration.                                     *)
LEMMA MotionKeeps ==
  /\ \A away : MoveInside(away) => UNCHANGED <<membership, saver, cfg>>
  /\ \A dh, dv, dsth, dstv, corner, held, canLeave :
       PushEdge(dh, dv, dsth, dstv, corner, held, canLeave)
         => UNCHANGED <<membership, saver, cfg>>
<1>1. ASSUME NEW away, MoveInside(away) PROVE UNCHANGED <<membership, saver, cfg>>
  BY <1>1 DEF MoveInside, settings
<1>2. ASSUME NEW dh, NEW dv, NEW dsth, NEW dstv, NEW corner, NEW held, NEW canLeave,
             PushEdge(dh, dv, dsth, dstv, corner, held, canLeave)
      PROVE  UNCHANGED <<membership, saver, cfg>>
  <2>1. UNCHANGED <<membership, saver, settings>> BY <1>2 DEF PushEdge
  <2> QED BY <2>1 DEF settings
<1> QED BY <1>1, <1>2

(* Input touches neither the registry nor the screen saver's state.        *)
LEMMA InputKeeps ==
  ASSUME Input
  PROVE  UNCHANGED <<membership, saver, cfg>>
<1> USE DEF settings
<1>1. CASE OnMouseMovePrimary
  BY <1>1, MotionKeeps, Zenon DEF OnMouseMovePrimary
<1>2. CASE OnMouseMoveSecondary
  BY <1>2, MotionKeeps, Zenon DEF OnMouseMoveSecondary
<1>3. CASE HandleSwitchWaitTimeout BY <1>3 DEF HandleSwitchWaitTimeout
<1>4. CASE TwoTapLate BY <1>4 DEF TwoTapLate
<1>5. CASE HandleSwitchToComputerEvent
  BY <1>5 DEF HandleSwitchToComputerEvent, JumpTo
<1>6. CASE HandleSwitchInDirectionEvent
  BY <1>6 DEF HandleSwitchInDirectionEvent, JumpTo
<1>7. CASE HandleToggleComputerEvent BY <1>7 DEF HandleToggleComputerEvent, JumpTo
<1>8. CASE HandleLockCursorToComputerEvent
  BY <1>8 DEF HandleLockCursorToComputerEvent
<1> QED BY <1>1, <1>2, <1>3, <1>4, <1>5, <1>6, <1>7, <1>8 DEF Input

LEMMA RegistryNext ==
  ASSUME Typed, Registry, StableNames, [Next]_vars
  PROVE  Registry'
<1>1. CASE UNCHANGED <<membership, cfg>> BY <1>1 DEF Registry, GetName, membership
<1>2. CASE UNCHANGED vars BY <1>1, <1>2 DEF vars, settings
<1>3. CASE OnScreensaverActivated \/ OnScreensaverDeactivated
  BY <1>1, <1>3 DEF OnScreensaverActivated, OnScreensaverDeactivated, settings
<1> QED
  BY <1>1, <1>2, <1>3, RegistryConnections, RegistryConfig, InputKeeps DEF Next

(* As long as no reload renames a computer in use, m_clients and           *)
(* m_clientSet agree and connected, closing and deleted proxies are apart. *)
THEOREM RegistryHolds == ASSUME StableNames PROVE Spec => []Registry
<1>1. Typed /\ Registry /\ [Next]_vars => Registry' BY RegistryNext
<1> QED BY <1>1, RegistryInit, TypedAlways, PTL DEF Spec

(***************************************************************************)
(* The computer to return to                                               *)
(***************************************************************************)

(* Every step leaves connections and the screen saver's state alone, adopts*)
(* a client, drops some with forceLeaveClient, or is the screen saver's.   *)
Adopts ==
  \E c : /\ clientSet' = clientSet \cup {c}
         /\ saverTold' = IF activeSaver # Nobody THEN saverTold \cup {c} ELSE saverTold
         /\ UNCHANGED <<activeSaver, saverOn>>

SaverStarts ==
  /\ activeSaver' = active /\ saverOn' = TRUE /\ saverTold' = Range(clients)
  /\ UNCHANGED clientSet

SaverStops == activeSaver' = Nobody /\ UNCHANGED clientSet

LEMMA SaverSteps ==
  ASSUME [Next]_vars
  PROVE  \/ UNCHANGED <<clientSet, saver>>
         \/ Adopts
         \/ \E gone, k : ForceLeave(gone, k) /\ UNCHANGED saverOn
         \/ SaverStarts
         \/ SaverStops
<1> USE DEF membership, focus, saver, settings
<1>1. CASE Connections
  <2>0. PICK c \in Proxies :
           \/ ClientWaits(c) \/ HangUp(c) \/ WaitingClientDisconnected(c)
           \/ AdoptClient(c) \/ RefuseClient(c)
           \/ HandleClientDisconnected(c) \/ HandleClientCloseTimeout(c)
    BY <1>1 DEF Connections
  <2>1. CASE ClientWaits(c) \/ HangUp(c) \/ WaitingClientDisconnected(c)
    BY <2>1 DEF ClientWaits, HangUp, WaitingClientDisconnected
  <2>2. CASE AdoptClient(c) BY <2>2 DEF AdoptClient, AddClient, Adopts
  <2>3. CASE RefuseClient(c)
    <3>1. ForceLeave({c}, cfg) /\ UNCHANGED saverOn BY <2>3 DEF RefuseClient
    <3> QED BY <3>1
  <2>4. CASE HandleClientDisconnected(c)
    <3>1. CASE c \in clientSet
      <4>1. ForceLeave({c}, cfg) /\ UNCHANGED saverOn
        BY <2>4, <3>1 DEF HandleClientDisconnected
      <4> QED BY <4>1
    <3>2. CASE c \notin clientSet BY <2>4, <3>2 DEF HandleClientDisconnected
    <3> QED BY <3>1, <3>2
  <2>5. CASE HandleClientCloseTimeout(c) BY <2>5 DEF HandleClientCloseTimeout
  <2> QED BY <2>0, <2>1, <2>2, <2>3, <2>4, <2>5
<1>2. CASE Input BY <1>2, InputKeeps
<1>3. CASE OnScreensaverActivated BY <1>3 DEF OnScreensaverActivated, SaverStarts
<1>4. CASE OnScreensaverDeactivated BY <1>4 DEF OnScreensaverDeactivated, SaverStops
<1>5. CASE Disconnect
  <2>1. ForceLeave(Range(clients) \ {Primary}, cfg) /\ UNCHANGED saverOn
    BY <1>5 DEF Disconnect, CloseClients
  <2> QED BY <2>1
<1>6. CASE \E k \in Configs : ReloadConfig(k)
  <2>1. PICK k \in Configs : ReloadConfig(k) BY <1>6
  <2>2. CASE HasName(k, OwnName[Primary])
    <3>1. ForceLeave(Dropped(k), k) /\ UNCHANGED saverOn
      BY <2>1, <2>2 DEF ReloadConfig, CloseClients
    <3> QED BY <3>1
  <2>3. CASE ~HasName(k, OwnName[Primary])
    BY <2>1, <2>3 DEF ReloadConfig
  <2> QED BY <2>2, <2>3
<1> QED BY <1>1, <1>2, <1>3, <1>4, <1>5, <1>6 DEF Next, vars

(* Losing or dropping clients never leaves a lost computer to return to    *)
(* after the screen saver: forceLeaveClient forgets m_activeSaver with it. *)
THEOREM SaverStays == Spec => SaverStaysConnected
<1>1. ASSUME [Next]_vars, ActiveConnected, SaverConnected PROVE SaverConnected'
  <2>1. CASE \E gone, k : ForceLeave(gone, k)
    BY <1>1, <2>1 DEF ForceLeave, Focus, SaverConnected
  <2>2. CASE UNCHANGED <<clientSet, saver>> BY <1>1, <2>2 DEF SaverConnected, saver
  <2>3. CASE Adopts BY <1>1, <2>3 DEF SaverConnected, Adopts
  <2>4. CASE SaverStarts BY <1>1, <2>4 DEF ActiveConnected, SaverConnected, SaverStarts
  <2>5. CASE SaverStops BY <2>5 DEF SaverConnected, SaverStops
  <2> QED BY <1>1, <2>1, <2>2, <2>3, <2>4, <2>5, SaverSteps
<1>2. [Next]_vars => [ActiveConnected /\ SaverConnected => SaverConnected']_vars
  BY <1>1
<1> QED BY <1>2, PTL DEF Spec, SaverStaysConnected

(* While there is a computer to return to, every connected client has been *)
(* told of the screen saver, those adopted meanwhile too.  The saver tells *)
(* the clients of m_clients, so the registry has to agree with m_clientSet.*)
THEOREM SaverSyncedHolds == ASSUME StableNames PROVE Spec => []SaverSynced
<1>1. Init => SaverSynced BY DEF Init, SaverSynced
<1>2. ASSUME SaverSynced, Registry, [Next]_vars PROVE SaverSynced'
  <2>1. CASE UNCHANGED <<clientSet, saver>> BY <1>2, <2>1 DEF SaverSynced, saver
  <2>2. CASE Adopts BY <1>2, <2>2 DEF SaverSynced, Adopts
  <2>3. CASE \E gone, k : ForceLeave(gone, k) /\ UNCHANGED saverOn
    BY <1>2, <2>3 DEF SaverSynced, ForceLeave
  <2>4. CASE SaverStarts BY <1>2, <2>4 DEF SaverSynced, SaverStarts, Registry
  <2>5. CASE SaverStops BY <2>5 DEF SaverSynced, SaverStops
  <2> QED BY <1>2, <2>1, <2>2, <2>3, <2>4, <2>5, SaverSteps
<1> QED BY <1>1, <1>2, RegistryHolds, PTL DEF Spec

(***************************************************************************)
(* The lock                                                                *)
(***************************************************************************)

(* With the cursor locked no test for a switch says yes.                   *)
LEMMA LockedSideTest ==
  ASSUME locked, ~opt["disableLock"], NEW s, NEW dir, NEW dst, NEW corner, NEW held
  PROVE  ~SideTest(s, dir, dst, corner, held).ok
<1>1. IsLocked(held) BY DEF IsLocked
<1> QED BY <1>1 DEF SideTest, IsSwitchOkay

LEMMA LockedPush ==
  ASSUME locked, ~opt["disableLock"], NEW dh, NEW dv, NEW dsth, NEW dstv,
         NEW corner, NEW held, NEW canLeave,
         PushEdge(dh, dv, dsth, dstv, corner, held, canLeave)
  PROVE  active' = active
<1> DEFINE h == SideTest(sw, dh, dsth, corner, held)
           v == SideTest(h.sw, dv, dstv, corner, held)
<1>1. ~h.ok /\ ~v.ok BY LockedSideTest
<1> HIDE DEF h
<1> QED BY <1>1 DEF PushEdge, h, focus

(* A locked cursor stays on its computer at every edge and when a delayed  *)
(* switch becomes due: onMouseMove*, isSwitchOkay, handleSwitchWaitTimeout. *)
THEOREM LockAlwaysHolds == Spec => LockHolds
<1>1. ASSUME Crossing, locked, ~opt["disableLock"] PROVE active' = active
  <2>1. CASE OnMouseMovePrimary
    BY <1>1, <2>1, LockedPush DEF OnMouseMovePrimary, MoveInside, focus
  <2>2. CASE OnMouseMoveSecondary
    BY <1>1, <2>2, LockedPush DEF OnMouseMoveSecondary, MoveInside, focus
  <2>3. CASE HandleSwitchWaitTimeout
    BY <1>1, <2>3 DEF HandleSwitchWaitTimeout, IsLocked, focus
  <2> QED BY <1>1, <2>1, <2>2, <2>3 DEF Crossing
<1>2. [Next]_vars => [Crossing /\ locked /\ ~opt["disableLock"] => active' = active]_vars
  BY <1>1
<1> QED BY <1>2, PTL DEF Spec, LockHolds

(***************************************************************************)
(* The focus.  A delayed switch can go to a computer that has left, and the*)
(* end of the screen saver to one that is not entered (README, 7); without *)
(* either, the focus is sound.                                             *)
(***************************************************************************)
NoDelay ==
  \A k \in Configs : "switchDelay" \in DOMAIN k.options => ~k.options["switchDelay"]

Undelayed == ~opt["switchDelay"] /\ ~sw.wait

NoSaver == activeSaver = Nobody /\ ~saverOn

FInv == Typed /\ Registry /\ Undelayed /\ NoSaver /\ Focused

(* Without the option no test for a switch starts the wait.                *)
LEMMA NoWaitOps ==
  ASSUME NEW s \in SwitchType, ~s.wait
  PROVE  /\ ~StopSwitch(s).wait /\ ~StopTwoTap(s).wait /\ ~StopWait(s).wait
         /\ \A away \in BOOLEAN : ~NoSwitch(s, away).wait
BY DEF SwitchType, StopTwoTap, StopWait, StopSwitch, ArmTwoTap, NoSwitch

LEMMA NoWaitSideTest ==
  ASSUME NEW s \in SwitchType, Tidy(s), ~s.wait, ~opt["switchDelay"],
         opt \in [OptionIDs -> BOOLEAN],
         NEW dst \in Computers \cup {Nobody}, NEW dir \in Dirs \cup {NoDirection},
         NEW corner \in BOOLEAN, NEW held \in BOOLEAN
  PROVE  ~SideTest(s, dir, dst, corner, held).sw.wait
<1>1. CASE dir = NoDirection BY <1>1 DEF SideTest
<1>2. CASE dir # NoDirection /\ dst = Nobody
  BY <1>2, NoWaitOps DEF SideTest, IsSwitchOkay
<1>3. CASE dir # NoDirection /\ dst # Nobody
  <2> DEFINE s1 == IF dir # s.dir \/ s.target = Nobody
                   THEN [s EXCEPT !.dir = dir, !.target = dst] ELSE s
             allow == opt["switchTwoTap"] /\ SecondTap(s, dir)
             s2 == IF opt["switchTwoTap"] /\ ~allow THEN StartTwoTap(s1) ELSE s1
             c == Consider(s, dst, dir)
  <2>1. s1 \in SwitchType /\ ~s1.wait BY <1>3 DEF SwitchType
  <2>2. s2 \in SwitchType /\ ~s2.wait BY <2>1 DEF SwitchType, StartTwoTap
  <2>3. c.sw = s2 BY DEF Consider
  <2>4. ~c.sw.wait /\ ~StopSwitch(c.sw).wait BY <2>2, <2>3, NoWaitOps
  <2> HIDE DEF c
  <2>5. \/ SideTest(s, dir, dst, corner, held).sw = c.sw
        \/ SideTest(s, dir, dst, corner, held).sw = StopSwitch(c.sw)
    BY <1>3 DEF SideTest, IsSwitchOkay, c
  <2> QED BY <2>4, <2>5
<1> QED BY <1>1, <1>2, <1>3

(* What a switch leaves when it goes to a connected computer.              *)
LEMMA SwitchFocused ==
  ASSUME Focused, NEW s \in SwitchType, ~s.wait, NEW dst \in clientSet, NEW canLeave,
         SwitchComputer(s, dst, canLeave), UNCHANGED <<clientSet, opt>>
  PROVE  Focused' /\ ~sw'.wait
<1>1. ~sw'.wait BY NoWaitOps DEF SwitchComputer
<1> QED BY <1>1 DEF Focused, ActiveConnected, OneEntered, SwitchComputer, focus

(* What losing clients leaves: the primary takes over from a lost one.     *)
LEMMA ForceLeaveFocused ==
  ASSUME Typed, Focused, NoSaver, NEW gone \in SUBSET Proxies, NEW k, ForceLeave(gone, k),
         Primary \in clientSet, ~sw.wait
  PROVE  Focused' /\ activeSaver' = Nobody /\ ~LeaveSwitch(gone).wait
<1>1. ~LeaveSwitch(gone).wait BY NoWaitOps DEF LeaveSwitch, Typed, TypeOK
<1>2. Focus = active BY DEF Focus, NoSaver
<1>3. Primary \notin gone BY ComputersAssumption
<1>4. clientSet' = clientSet \ gone /\ activeSaver = Nobody /\ entered = {active}
  BY DEF ForceLeave, NoSaver, Focused, OneEntered
<1>5. CASE active \in gone
  <2>1. /\ active' = Primary /\ activeSaver' = Nobody
        /\ entered' = (entered \ gone) \cup {Primary}
    BY <1>2, <1>4, <1>5 DEF ForceLeave
  <2> QED BY <1>1, <1>3, <1>4, <1>5, <2>1 DEF Focused, ActiveConnected, OneEntered
<1>6. CASE active \notin gone
  <2>1. UNCHANGED <<active, activeSaver>> /\ entered' = entered \ gone
    BY <1>2, <1>6 DEF ForceLeave
  <2> QED BY <1>1, <1>4, <1>6, <2>1 DEF Focused, ActiveConnected, OneEntered
<1> QED BY <1>5, <1>6
LEMMA FocusedJump ==
  ASSUME FInv, NEW dst \in clientSet, JumpTo(dst)
  PROVE  Focused' /\ ~sw'.wait
<1>1. PICK canLeave \in BOOLEAN : SwitchComputer(sw, dst, canLeave) BY DEF JumpTo
<1> QED
  BY <1>1, SwitchFocused
  DEF FInv, Typed, TypeOK, Undelayed, JumpTo, membership, settings

(* A push at an edge or a corner, with connected neighbours                *)
Push ==
  \E dh, dv \in Dirs \cup {NoDirection}, dsth, dstv \in clientSet \cup {Nobody},
     corner, held, canLeave \in BOOLEAN :
    PushEdge(dh, dv, dsth, dstv, corner, held, canLeave)

LEMMA FocusedPush ==
  ASSUME FInv, Push
  PROVE  Focused' /\ ~sw'.wait /\ opt' = opt
<1>p. PICK dh \in Dirs \cup {NoDirection}, dv \in Dirs \cup {NoDirection},
           dsth \in clientSet \cup {Nobody}, dstv \in clientSet \cup {Nobody},
           corner \in BOOLEAN, held \in BOOLEAN, canLeave \in BOOLEAN :
        PushEdge(dh, dv, dsth, dstv, corner, held, canLeave)
  BY DEF Push
<1> DEFINE h == SideTest(sw, dh, dsth, corner, held)
           v == SideTest(h.sw, dv, dstv, corner, held)
<1>a. clientSet \subseteq Computers BY DEF FInv, Typed, TypeOK
<1>b. opt \in [OptionIDs -> BOOLEAN] /\ ~opt["switchDelay"]
  BY DEF FInv, Typed, TypeOK, Undelayed
<1>1. h.sw \in SwitchType /\ Tidy(h.sw) /\ (h.ok => dsth # Nobody) /\ ~h.sw.wait
  BY <1>a, <1>b, SideTestOp, NoWaitSideTest
  DEF FInv, Typed, TypeOK, PendingSwitch, Undelayed
<1> HIDE DEF h
<1>2. v.sw \in SwitchType /\ (v.ok => dstv # Nobody) /\ ~v.sw.wait
  BY <1>a, <1>b, <1>1, SideTestOp, NoWaitSideTest
<1> HIDE DEF v
<1>3. /\ \/ h.ok /\ SwitchComputer(h.sw, dsth, canLeave)
         \/ ~h.ok /\ v.ok /\ SwitchComputer(v.sw, dstv, canLeave)
         \/ ~h.ok /\ ~v.ok /\ sw' = v.sw /\ UNCHANGED focus
      /\ UNCHANGED <<clientSet, opt>>
  BY <1>p DEF PushEdge, h, v, membership, settings
<1>4. Focused BY DEF FInv
<1>5. CASE h.ok /\ SwitchComputer(h.sw, dsth, canLeave)
  BY <1>1, <1>3, <1>4, <1>5, SwitchFocused
<1>6. CASE ~h.ok /\ v.ok /\ SwitchComputer(v.sw, dstv, canLeave)
  BY <1>2, <1>3, <1>4, <1>6, SwitchFocused
<1>7. CASE ~h.ok /\ ~v.ok /\ sw' = v.sw /\ UNCHANGED focus
  BY <1>2, <1>3, <1>4, <1>7 DEF Focused, ActiveConnected, OneEntered, focus
<1>8. Focused' /\ ~sw'.wait BY <1>3, <1>5, <1>6, <1>7
<1> QED BY <1>3, <1>8

LEMMA FocusedInput ==
  ASSUME FInv, Input
  PROVE  Focused' /\ ~sw'.wait /\ opt' = opt
<1>a. /\ Range(clients) = clientSet
      /\ \A n \in DOMAIN clients : clients[n] \in clientSet
  BY DEF FInv, Registry, Range
<1>b. \A dir \in Dirs \cup {NoDirection}, spot \in Spots :
        Targets(dir, spot) \subseteq clientSet \cup {Nobody}
  BY <1>a, NeighborsConnected DEF Targets
<1>c. ASSUME NEW away \in BOOLEAN, MoveInside(away) PROVE Focused' /\ ~sw'.wait /\ opt' = opt
  BY <1>c, NoWaitOps
  DEF FInv, Typed, TypeOK, Undelayed, Focused, ActiveConnected, OneEntered,
      MoveInside, membership, focus, settings
<1>1. CASE OnMouseMovePrimary
  <2>1. CASE ~\E away \in BOOLEAN : MoveInside(away)
    <3>1. \E dh, dv \in Dirs \cup {NoDirection}, spot \in Spots :
            \E dsth \in Targets(dh, spot), dstv \in Targets(dv, spot),
               corner, held, canLeave \in BOOLEAN :
              PushEdge(dh, dv, dsth, dstv, corner, held, canLeave)
      BY <1>1, <2>1 DEF OnMouseMovePrimary, Dirs
    <3>2. Push BY <1>b, <3>1 DEF Push
    <3> QED BY <3>2, FocusedPush
  <2> QED BY <1>c, <2>1
<1>2. CASE OnMouseMoveSecondary
  <2>1. CASE ~\E away \in BOOLEAN : MoveInside(away)
    <3>1. \E dir \in Dirs, spot \in Spots :
            \E dst \in Targets(dir, spot), corner, held \in BOOLEAN :
              PushEdge(dir, NoDirection, dst, Nobody, corner, held, TRUE)
      BY <1>2, <2>1 DEF OnMouseMoveSecondary
    <3>2. Push BY <1>b, <3>1 DEF Push
    <3> QED BY <3>2, FocusedPush
  <2> QED BY <1>c, <2>1
<1>3. CASE HandleSwitchWaitTimeout
  BY <1>3 DEF HandleSwitchWaitTimeout, FInv, Undelayed
<1>4. CASE TwoTapLate
  BY <1>4
  DEF TwoTapLate, FInv, Typed, TypeOK, SwitchType, Undelayed, Focused, ActiveConnected,
      OneEntered, membership, focus, settings
<1>j. ASSUME NEW dst \in clientSet, JumpTo(dst) PROVE Focused' /\ ~sw'.wait /\ opt' = opt
  BY <1>j, FocusedJump DEF JumpTo, settings
<1>5. CASE HandleSwitchToComputerEvent
  BY <1>5, <1>a, <1>j DEF HandleSwitchToComputerEvent
<1>6. CASE HandleSwitchInDirectionEvent
  <2>1. PICK dst \in Range(clients) : JumpTo(dst)
    BY <1>6, NeighborsConnected DEF HandleSwitchInDirectionEvent
  <2> QED BY <2>1, <1>a, <1>j
<1>7. CASE HandleToggleComputerEvent
  BY <1>7, <1>a, <1>j DEF HandleToggleComputerEvent
<1>8. CASE HandleLockCursorToComputerEvent
  BY <1>8
  DEF HandleLockCursorToComputerEvent, FInv, Undelayed, Focused, ActiveConnected,
      OneEntered, membership, focus
<1> QED BY <1>1, <1>2, <1>3, <1>4, <1>5, <1>6, <1>7, <1>8 DEF Input

LEMMA FocusedConnections ==
  ASSUME FInv, Connections
  PROVE  Focused' /\ activeSaver' = Nobody /\ ~sw'.wait
<1> USE DEF membership, focus, saver
<1>a. /\ Typed /\ Focused /\ NoSaver /\ ~sw.wait /\ Primary \in clientSet
      /\ active \in clientSet /\ entered = {active} /\ activeSaver = Nobody
  BY DEF FInv, Undelayed, Registry, NoSaver, Focused, ActiveConnected, OneEntered
<1>0. PICK c \in Proxies :
         \/ ClientWaits(c) \/ HangUp(c) \/ WaitingClientDisconnected(c)
         \/ AdoptClient(c) \/ RefuseClient(c)
         \/ HandleClientDisconnected(c) \/ HandleClientCloseTimeout(c)
  BY DEF Connections
<1>1. CASE ClientWaits(c) \/ HangUp(c) \/ WaitingClientDisconnected(c)
           \/ HandleClientCloseTimeout(c)
  BY <1>a, <1>1
  DEF ClientWaits, HangUp, WaitingClientDisconnected, HandleClientCloseTimeout,
      Focused, ActiveConnected, OneEntered
<1>2. CASE AdoptClient(c)
  BY <1>a, <1>2 DEF AdoptClient, AddClient, Focused, ActiveConnected, OneEntered
<1>3. ASSUME ForceLeave({c}, cfg), sw' = LeaveSwitch({c})
      PROVE  Focused' /\ activeSaver' = Nobody /\ ~sw'.wait
  BY <1>3, <1>a, ForceLeaveFocused
<1>4. CASE RefuseClient(c) BY <1>3, <1>4 DEF RefuseClient
<1>5. CASE HandleClientDisconnected(c)
  <2>1. CASE c \in clientSet BY <1>3, <1>5, <2>1 DEF HandleClientDisconnected
  <2>2. CASE c \notin clientSet
    BY <1>a, <1>5, <2>2
    DEF HandleClientDisconnected, Focused, ActiveConnected, OneEntered
  <2> QED BY <2>1, <2>2
<1> QED BY <1>0, <1>1, <1>2, <1>4, <1>5

LEMMA FocusedConfig ==
  ASSUME FInv, NoDelay, Disconnect \/ \E k \in Configs : ReloadConfig(k)
  PROVE  Focused' /\ activeSaver' = Nobody /\ ~sw'.wait /\ ~opt'["switchDelay"]
<1>a. /\ Typed /\ Focused /\ NoSaver /\ ~sw.wait /\ Primary \in clientSet
      /\ ~opt["switchDelay"]
  BY DEF FInv, Undelayed, Registry
<1>1. CASE Disconnect
  <2> DEFINE gone == Range(clients) \ {Primary}
  <2>1. gone \in SUBSET Proxies BY <1>a, DroppedProxies
  <2>2. ForceLeave(gone, cfg) /\ sw' = LeaveSwitch(gone) /\ opt' = opt
    BY <1>1 DEF Disconnect, CloseClients, settings
  <2> HIDE DEF gone
  <2> QED BY <1>a, <2>1, <2>2, ForceLeaveFocused
<1>2. CASE \E k \in Configs : ReloadConfig(k)
  <2>1. PICK k \in Configs : ReloadConfig(k) BY <1>2
  <2>2. CASE ~HasName(k, OwnName[Primary])
    BY <1>a, <2>1, <2>2
    DEF ReloadConfig, membership, focus, saver, NoSaver, Focused, ActiveConnected, OneEntered
  <2>3. CASE HasName(k, OwnName[Primary])
    <3>1. Dropped(k) \in SUBSET Proxies BY <1>a, DroppedProxies
    <3>2. /\ ForceLeave(Dropped(k), k) /\ opt' = OptionsOf(k, opt)
          /\ sw' = OptionsSwitch(k, LeaveSwitch(Dropped(k)))
      BY <2>1, <2>3 DEF ReloadConfig, CloseClients
    <3>3. Focused' /\ activeSaver' = Nobody /\ ~LeaveSwitch(Dropped(k)).wait
      BY <1>a, <3>1, <3>2, ForceLeaveFocused
    <3>4. ~opt'["switchDelay"] BY <1>a, <3>2 DEF OptionsOf, OptionIDs, NoDelay
    <3>5. LeaveSwitch(Dropped(k)) \in SwitchType
      BY <1>a, <3>1, <3>2, ForceLeaveType
    <3>6. ~sw'.wait
      BY <3>2, <3>3, <3>5 DEF OptionsSwitch, StopWait, StopTwoTap, SwitchType
    <3> QED BY <3>3, <3>4, <3>6
  <2> QED BY <2>2, <2>3
<1> QED BY <1>1, <1>2

LEMMA FInvInit == ASSUME NoDelay, Init PROVE FInv
<1>1. Typed /\ Registry BY TypedInit, RegistryInit
<1>2. ~opt["switchDelay"] BY DEF Init, OptionsOf, OptionIDs, NoDelay
<1> QED
  BY <1>1, <1>2
  DEF FInv, Init, Undelayed, NoSaver, Focused, ActiveConnected, OneEntered, NoSwitchPending

LEMMA FInvNext ==
  ASSUME StableNames, NoDelay, ScreenSaver = FALSE, FInv, [Next]_vars
  PROVE  FInv'
<1>1. Typed' /\ Registry' BY TypedNext, RegistryNext DEF FInv
<1>2. CASE Connections
  <2>1. saverOn' = saverOn /\ opt' = opt
    BY <1>2
    DEF Connections, ClientWaits, HangUp, WaitingClientDisconnected, AdoptClient,
        RefuseClient, HandleClientDisconnected, HandleClientCloseTimeout, saver, settings
  <2> QED BY <1>1, <1>2, <2>1, FocusedConnections DEF FInv, Undelayed, NoSaver
<1>3. CASE Input
  BY <1>1, <1>3, FocusedInput, InputKeeps DEF FInv, Undelayed, NoSaver, saver
<1>4. CASE OnScreensaverActivated \/ OnScreensaverDeactivated
  BY <1>4 DEF OnScreensaverActivated, OnScreensaverDeactivated, FInv, NoSaver
<1>5. CASE Disconnect \/ \E k \in Configs : ReloadConfig(k)
  <2>1. saverOn' = saverOn
    BY <1>5 DEF Disconnect, ReloadConfig, CloseClients, saver
  <2> QED BY <1>1, <1>5, <2>1, FocusedConfig DEF FInv, Undelayed, NoSaver
<1>6. CASE UNCHANGED vars
  BY <1>1, <1>6
  DEF FInv, Undelayed, NoSaver, Focused, ActiveConnected, OneEntered,
      vars, membership, focus, saver, settings
<1> QED BY <1>2, <1>3, <1>4, <1>5, <1>6 DEF Next

(* Without the switch delay, the screen saver and renaming reloads, the    *)
(* computer with the focus is always connected and is the one computer     *)
(* that believes it has the cursor.                                        *)
THEOREM FocusHolds ==
  ASSUME StableNames, NoDelay, ScreenSaver = FALSE
  PROVE  Spec => []Focused
<1>1. Init => FInv BY FInvInit
<1>2. FInv /\ [Next]_vars => FInv' BY FInvNext
<1>3. FInv => Focused BY DEF FInv
<1> QED BY <1>1, <1>2, <1>3, PTL DEF Spec

(***************************************************************************)
(* Two taps.  A wait that began under the switch delay could be due after  *)
(* a reload has turned the delay off; processOptions stops it.             *)
(***************************************************************************)
WaitDelayed == sw.wait => opt["switchDelay"]

(* The test of one side leaves the taps as they are, or not armed; and it  *)
(* allows a switch only if they were.                                      *)
SameTaps(r, s) == r.engaged = s.engaged /\ r.armed = s.armed /\ r.late = s.late

LEMMA TapOps ==
  ASSUME NEW s \in SwitchType
  PROVE  /\ StopSwitch(s).armed => SameTaps(StopSwitch(s), s)
         /\ ~StartTwoTap(s).armed
BY DEF SwitchType, SameTaps, StopSwitch, StopWait, StopTwoTap, StartTwoTap

LEMMA TapSideTest ==
  ASSUME NEW s \in SwitchType, Tidy(s), opt["switchTwoTap"], ~opt["switchDelay"],
         opt \in [OptionIDs -> BOOLEAN],
         NEW dst \in Computers \cup {Nobody}, NEW dir \in Dirs \cup {NoDirection},
         NEW corner \in BOOLEAN, NEW held \in BOOLEAN
  PROVE  /\ SideTest(s, dir, dst, corner, held).ok => s.engaged /\ s.armed /\ ~s.late
         /\ SideTest(s, dir, dst, corner, held).sw.armed
              => SameTaps(SideTest(s, dir, dst, corner, held).sw, s)
<1>1. CASE dir = NoDirection BY <1>1 DEF SideTest, SameTaps
<1>2. CASE dir # NoDirection /\ dst = Nobody
  BY <1>2, TapOps DEF SideTest, IsSwitchOkay
<1>3. CASE dir # NoDirection /\ dst # Nobody
  <2> DEFINE s1 == IF dir # s.dir \/ s.target = Nobody
                   THEN [s EXCEPT !.dir = dir, !.target = dst] ELSE s
             allow == SecondTap(s, dir)
             s2 == IF ~allow THEN StartTwoTap(s1) ELSE s1
             c == Consider(s, dst, dir)
  <2>1. s1 \in SwitchType /\ SameTaps(s1, s) BY <1>3 DEF SwitchType, SameTaps
  <2> HIDE DEF s1
  <2>2. s2 \in SwitchType /\ (s2.armed => SameTaps(s2, s))
    BY <2>1, TapOps DEF SwitchType, StartTwoTap
  <2> HIDE DEF s2
  <2>3. c.sw = s2 /\ (c.ok => SecondTap(s, dir)) BY DEF Consider, s1, s2
  <2> HIDE DEF c
  <2>4. StopSwitch(c.sw).armed => SameTaps(StopSwitch(c.sw), s)
    BY <2>2, <2>3, TapOps DEF SameTaps, StopSwitch, StopWait, StopTwoTap, SwitchType
  <2>5. \/ SideTest(s, dir, dst, corner, held).sw = c.sw
        \/ SideTest(s, dir, dst, corner, held).sw = StopSwitch(c.sw)
    BY <1>3 DEF SideTest, IsSwitchOkay, c
  <2>6. SideTest(s, dir, dst, corner, held).ok => c.ok
    BY <1>3 DEF SideTest, IsSwitchOkay, c
  <2> QED BY <2>2, <2>3, <2>4, <2>5, <2>6 DEF SecondTap
<1> QED BY <1>1, <1>2, <1>3

LEMMA PushTaps ==
  ASSUME Typed, WaitDelayed, AnyPush
  PROVE  /\ WaitDelayed'
         /\ opt["switchTwoTap"] /\ ~opt["switchDelay"] /\ active' # active
              => sw.engaged /\ sw.armed /\ ~sw.late
<1>p. PICK dh \in Dirs \cup {NoDirection}, dv \in Dirs \cup {NoDirection},
           dsth \in Computers \cup {Nobody}, dstv \in Computers \cup {Nobody},
           corner \in BOOLEAN, held \in BOOLEAN, canLeave \in BOOLEAN :
        PushEdge(dh, dv, dsth, dstv, corner, held, canLeave)
  BY DEF AnyPush
<1> DEFINE h == SideTest(sw, dh, dsth, corner, held)
           v == SideTest(h.sw, dv, dstv, corner, held)
<1>a. opt \in [OptionIDs -> BOOLEAN] /\ sw \in SwitchType /\ Tidy(sw)
  BY DEF Typed, TypeOK, PendingSwitch
<1>1. h.sw \in SwitchType /\ Tidy(h.sw) BY <1>a, SideTestOp
<1>2. ~opt["switchDelay"] => ~h.sw.wait BY <1>a, NoWaitSideTest DEF WaitDelayed
<1>3. opt["switchTwoTap"] /\ ~opt["switchDelay"] =>
        /\ h.ok => sw.engaged /\ sw.armed /\ ~sw.late
        /\ h.sw.armed => SameTaps(h.sw, sw)
  BY <1>a, TapSideTest
<1> HIDE DEF h
<1>4. v.sw \in SwitchType BY <1>1, <1>a, SideTestOp
<1>5. ~opt["switchDelay"] => ~v.sw.wait BY <1>a, <1>1, <1>2, NoWaitSideTest
<1>6. opt["switchTwoTap"] /\ ~opt["switchDelay"] /\ v.ok =>
        h.sw.engaged /\ h.sw.armed /\ ~h.sw.late
  BY <1>a, <1>1, TapSideTest
<1> HIDE DEF v
<1>7. /\ \/ h.ok /\ SwitchComputer(h.sw, dsth, canLeave)
         \/ ~h.ok /\ v.ok /\ SwitchComputer(v.sw, dstv, canLeave)
         \/ ~h.ok /\ ~v.ok /\ sw' = v.sw /\ UNCHANGED active
      /\ UNCHANGED opt
  BY <1>p DEF PushEdge, h, v, settings, focus
<1>8. WaitDelayed'
  BY <1>1, <1>2, <1>4, <1>5, <1>7, NoWaitOps DEF WaitDelayed, SwitchComputer
<1>9. opt["switchTwoTap"] /\ ~opt["switchDelay"] /\ active' # active
        => sw.engaged /\ sw.armed /\ ~sw.late
  BY <1>3, <1>6, <1>7 DEF SameTaps
<1> QED BY <1>8, <1>9

LEMMA WaitDelayedNext ==
  ASSUME Typed, WaitDelayed, [Next]_vars
  PROVE  WaitDelayed'
<1>a. opt \in [OptionIDs -> BOOLEAN] /\ sw \in SwitchType /\ Tidy(sw)
  BY DEF Typed, TypeOK, PendingSwitch
<1>1. ASSUME UNCHANGED opt,
             \/ UNCHANGED sw
             \/ sw' = StopSwitch(sw)
             \/ \E gone : sw' = LeaveSwitch(gone)
             \/ \E away \in BOOLEAN : sw' = NoSwitch(sw, away)
             \/ sw' = [sw EXCEPT !.late = TRUE]
      PROVE  WaitDelayed'
  <2>1. sw.wait \/ ~sw'.wait BY <1>a, <1>1, NoWaitOps DEF LeaveSwitch, SwitchType
  <2> QED BY <1>1, <2>1 DEF WaitDelayed
<1>2. CASE Connections
  <2>0. PICK c \in Proxies :
           \/ ClientWaits(c) \/ HangUp(c) \/ WaitingClientDisconnected(c)
           \/ AdoptClient(c) \/ RefuseClient(c)
           \/ HandleClientDisconnected(c) \/ HandleClientCloseTimeout(c)
    BY <1>2 DEF Connections
  <2>1. UNCHANGED opt /\ (UNCHANGED sw \/ sw' = LeaveSwitch({c}))
    BY <2>0
    DEF ClientWaits, HangUp, WaitingClientDisconnected, AdoptClient, RefuseClient,
        HandleClientDisconnected, HandleClientCloseTimeout, settings
  <2> QED BY <1>1, <2>1
<1>3. CASE OnMouseMovePrimary \/ OnMouseMoveSecondary
  <2>1. CASE AnyPush BY <2>1, PushTaps
  <2>2. CASE \E away \in BOOLEAN : MoveInside(away)
    BY <1>1, <2>2 DEF MoveInside, settings
  <2> QED BY <1>3, <2>1, <2>2, MotionEnds
<1>4. CASE HandleSwitchWaitTimeout
  BY <1>1, <1>4 DEF HandleSwitchWaitTimeout, SwitchComputer, settings
<1>5. CASE TwoTapLate BY <1>1, <1>5 DEF TwoTapLate, settings
<1>6. CASE HandleSwitchToComputerEvent \/ HandleSwitchInDirectionEvent
           \/ HandleToggleComputerEvent
  BY <1>1, <1>6
  DEF HandleSwitchToComputerEvent, HandleSwitchInDirectionEvent,
      HandleToggleComputerEvent, JumpTo, SwitchComputer, settings
<1>7. CASE HandleLockCursorToComputerEvent
  BY <1>1, <1>7 DEF HandleLockCursorToComputerEvent
<1>8. CASE OnScreensaverActivated \/ OnScreensaverDeactivated
  BY <1>1, <1>8
  DEF OnScreensaverActivated, OnScreensaverDeactivated, SwitchComputer, settings
<1>9. CASE Disconnect BY <1>1, <1>9 DEF Disconnect, CloseClients, settings
<1>10. CASE \E k \in Configs : ReloadConfig(k)
  <2>1. PICK k \in Configs : ReloadConfig(k) BY <1>10
  <2>2. CASE ~HasName(k, OwnName[Primary])
    BY <1>1, <2>1, <2>2 DEF ReloadConfig
  <2>3. CASE HasName(k, OwnName[Primary])
    <3> DEFINE left == LeaveSwitch(Dropped(k))
    <3>1. opt' = OptionsOf(k, opt) /\ sw' = OptionsSwitch(k, left)
      BY <2>1, <2>3 DEF ReloadConfig
    <3>2. left \in SwitchType /\ (sw.wait \/ ~left.wait)
      BY <1>a, SwitchOps, NoWaitOps DEF LeaveSwitch
    <3> HIDE DEF left
    <3>3. "switchDelay" \in DOMAIN k.options => ~sw'.wait
      BY <3>1, <3>2 DEF OptionsSwitch, StopWait, StopTwoTap, SwitchType
    <3>4. sw'.wait => left.wait
      BY <3>1, <3>2 DEF OptionsSwitch, StopWait, StopTwoTap, SwitchType
    <3>5. "switchDelay" \notin DOMAIN k.options => opt'["switchDelay"] = opt["switchDelay"]
      BY <3>1 DEF OptionsOf, OptionIDs
    <3> QED BY <3>2, <3>3, <3>4, <3>5 DEF WaitDelayed
  <2> QED BY <2>2, <2>3
<1>11. CASE UNCHANGED vars BY <1>1, <1>11 DEF vars, settings
<1> QED
  BY <1>2, <1>3, <1>4, <1>5, <1>6, <1>7, <1>8, <1>9, <1>10, <1>11 DEF Next, Input

(* With two-tap switching on and no delay, a second tap in time, after     *)
(* leaving the edge, is the only way across it: at a corner the test of    *)
(* one side never arms the other, and a wait that a reload overtook is     *)
(* never due.                                                              *)
THEOREM TwoTapHolds == Spec => TwoTapCrossing
<1> DEFINE Tapped == Crossing /\ opt["switchTwoTap"] /\ ~opt["switchDelay"] /\ active' # active
                       => sw.engaged /\ sw.armed /\ ~sw.late
<1>1. Init => WaitDelayed BY DEF Init, WaitDelayed, NoSwitchPending
<1>2. Typed /\ WaitDelayed /\ [Next]_vars => WaitDelayed' BY WaitDelayedNext
<1>3. ASSUME Typed, WaitDelayed PROVE Tapped
  <2>1. CASE OnMouseMovePrimary \/ OnMouseMoveSecondary
    <3>1. CASE AnyPush BY <1>3, <3>1, PushTaps
    <3>2. CASE \E away \in BOOLEAN : MoveInside(away) BY <3>2 DEF MoveInside, focus
    <3> QED BY <1>3, <2>1, <3>1, <3>2, MotionEnds
  <2>2. CASE HandleSwitchWaitTimeout
    BY <1>3, <2>2 DEF HandleSwitchWaitTimeout, WaitDelayed
  <2> QED BY <2>1, <2>2 DEF Crossing
<1>4. Typed /\ WaitDelayed /\ [Next]_vars => [Tapped]_vars BY <1>3
<1> HIDE DEF Tapped
<1>5. Spec => [][Tapped]_vars BY <1>1, <1>2, <1>4, TypedAlways, PTL DEF Spec
<1> QED BY <1>5 DEF TwoTapCrossing, Tapped

=============================================================================
