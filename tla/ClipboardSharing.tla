-------------------------- MODULE ClipboardSharing --------------------------
(***************************************************************************)
(* The shared clipboard: who owns it, what the server keeps of it and who  *)
(* has been sent it (src/lib/server/Server.cpp, PrimaryClient.cpp,         *)
(* ClientProxy1_0.cpp, ClientProxy1_6.cpp; src/lib/client/Client.cpp,      *)
(* ServerProxy.cpp).                                                       *)
(*                                                                         *)
(* One of the two clipboards, with sharing enabled.  The n-th copy of the  *)
(* run is the number n, which is also its time; 0 is an empty clipboard.   *)
(* The chunks of a clipboard are events of one queue and nothing of their  *)
(* kind comes between them, so they are one event and one message, at the  *)
(* place of the last.  A grab is written to the connection at once, and    *)
(* may overtake the data that waits in that queue.                         *)
(***************************************************************************)
EXTENDS Naturals, Sequences, SequencesExt

CONSTANTS Clients,      \* computers that share a clipboard with the server
          Bridges,      \* computers behind a bridge: they have no clipboard
          Primary,      \* the server's own computer
          Large,        \* copies above the size limit
          MaxCopies,    \* bound: copies, over the run
          MaxMoves,     \* bound: switches over the run; a lost connection counts as two
          MaxUnderWay   \* bound: events and messages under way, for the user to do more
ASSUME SharingAssumption ==
  /\ Primary \notin Clients \cup Bridges /\ Clients \cap Bridges = {}
  /\ {MaxCopies, MaxMoves, MaxUnderWay} \subseteq Nat /\ Large \subseteq Nat

VARIABLES
  s,     \* the server and its computer: owner, seq, clip and data (m_clipboards), dirty and
         \* cached (of the clients' proxies), clients, active, seqNum, queue (its events),
         \* screen and seqOfPrimary (of its computer), noticed (it owns the selection),
         \* and, as a history, from: whose grab or data is the last that counted
  c,     \* c[k]: a client: up, own, time, active, seq, queue, screen, noticed
  down,  \* down[k]: what the server has written to client k
  up,    \* up[k]: what client k has written to the server
  claim, \* history: the last copy, if it was made on the active computer, and by whom
  used   \* bounds: [copies, moves] so far

vars == <<s, c, down, up, claim, used>>

Computers == {Primary} \cup Clients
UnderWay ==
  Len(s.queue) + FoldFunction(+, 0, [k \in Clients |-> Len(c[k].queue) + Len(down[k]) + Len(up[k])])
\* Nothing is under way.
Quiet == UnderWay = 0
NoClaim == [copy |-> 0, by |-> Primary]
\* A connected client has taken the clipboard (enableSecondary).
NewClient(active) ==
  [up |-> TRUE, own |-> FALSE, time |-> 0, active |-> active, seq |-> 0,
   queue |-> <<>>, screen |-> 0, noticed |-> TRUE]

Init ==
  /\ s = [owner |-> Primary, seq |-> 0, clip |-> 0, data |-> 0,
          dirty |-> [k \in Computers |-> k # Primary], cached |-> [k \in Clients |-> 0],
          clients |-> Clients, active |-> Primary, seqNum |-> 0, queue |-> <<>>,
          screen |-> 0, seqOfPrimary |-> 0, noticed |-> FALSE, from |-> Primary]
  /\ c = [k \in Clients |-> NewClient(FALSE)]
  /\ down = [k \in Clients |-> <<>>] /\ up = [k \in Clients |-> <<>>]
  /\ claim = NoClaim /\ used = [copies |-> 0, moves |-> 0]

Fits(copy) == copy \notin Large
Write(channel, k, message) == [channel EXCEPT ![k] = Append(@, message)]

(***************************************************************************)
(* The server                                                              *)
(***************************************************************************)

\* PrimaryClient::setClipboard, ClientProxy1_6::setClipboard: nothing for a
\* computer that has it already.
SetClipboard(t, k, copy) ==
  IF ~t.dirty[k] THEN t
  ELSE IF k = Primary
    THEN [t EXCEPT !.dirty[k] = FALSE, !.screen = copy, !.noticed = TRUE]
  ELSE [t EXCEPT !.dirty[k] = FALSE, !.cached[k] = copy,
                 !.queue = Append(@, [type |-> "Sending", of |-> k, copy |-> copy])]

X_SenderOnly(t, sender) ==
  [t EXCEPT !.dirty = [k \in Computers |-> @[k] /\ k # sender]]

\* Every computer but the sender lacks the new data.
SetDirty(t, sender) ==
  [t EXCEPT !.dirty = [k \in Computers |->
     IF k \in t.clients \cup {Primary} THEN k # sender ELSE @[k]]]

\* onClipboardChanged, which asserts that the sender is the owner.
OnClipboardChanged(t, sender, seq) ==
  LET copy == IF sender = Primary THEN t.screen ELSE t.cached[sender]
      got == [t EXCEPT !.clip = copy]
      told == SetDirty([got EXCEPT !.data = copy, !.from = sender], sender)
  IN IF seq < t.seq THEN t
     ELSE IF ~Fits(copy) \/ copy = t.data THEN got
     ELSE IF t.active \in Bridges THEN told ELSE SetClipboard(told, t.active, copy)

\* What every computer but the grabber does; its data is not known yet.
Grabbed(t, grabber, seq) ==
  LET others == t.clients \ {grabber}
      taken == [t EXCEPT !.owner = grabber, !.from = grabber, !.seq = seq, !.clip = 0, !.data = 0,
                         !.dirty = [k \in Computers |->
                            IF k \in t.clients \cup {Primary} THEN k # grabber ELSE @[k]]]
      told == IF grabber = Primary THEN taken
              ELSE [taken EXCEPT !.screen = 0, !.noticed = TRUE]
  IN IF grabber = Primary /\ t.active \in Clients
     THEN OnClipboardChanged(told, Primary, seq) ELSE told

\* An old grab is ignored, except the primary's.
GrabCounts(t, grabber, seq) == grabber = Primary \/ seq >= t.seq

HandleClipboardGrabbed ==
  LET event == Head(s.queue)
      counts == GrabCounts(s, event.of, event.seq)
      popped == [s EXCEPT !.queue = Tail(@)]
  IN /\ s.queue # <<>> /\ event.type = "Grabbed"
     /\ s' = IF counts THEN Grabbed(popped, event.of, event.seq) ELSE popped
     /\ down' = IF ~counts THEN down
                ELSE [k \in Clients |-> IF k \in s.clients \ {event.of}
                                        THEN Append(down[k], [type |-> "Grab"]) ELSE down[k]]
     /\ UNCHANGED <<c, up, claim, used>>

HandleClipboardChanged ==
  LET event == Head(s.queue)
  IN /\ s.queue # <<>> /\ event.type = "Changed"
     /\ s' = OnClipboardChanged([s EXCEPT !.queue = Tail(@)], event.of, event.seq)
     /\ UNCHANGED <<c, down, up, claim, used>>

\* The handler of ClipboardSending.
ServerSends ==
  LET event == Head(s.queue)
  IN /\ s.queue # <<>> /\ event.type = "Sending"
     /\ s' = [s EXCEPT !.queue = Tail(@)]
     /\ down' = Write(down, event.of, [type |-> "Data", copy |-> event.copy])
     /\ UNCHANGED <<c, up, claim, used>>

\* recvGrabClipboard, recvClipboard
ServerReceives(k) ==
  LET message == Head(up[k])
      event == [type |-> IF message.type = "Grab" THEN "Grabbed" ELSE "Changed",
                of |-> k, seq |-> message.seq]
      posted == [s EXCEPT !.queue = Append(@, event)]
  IN /\ k \in s.clients /\ up[k] # <<>> /\ up' = [up EXCEPT ![k] = Tail(@)]
     /\ s' = IF message.type = "Grab" THEN posted
             ELSE [posted EXCEPT !.cached[k] = message.copy]
     /\ UNCHANGED <<c, down, claim, used>>

\* The primary's clipboard is read when it is left for a client, or when a
\* bridge is.
ReadsPrimary(t, dst) ==
  /\ t.active = Primary \/ (t.active \in Bridges /\ dst # Primary)
  /\ dst \notin Bridges /\ t.owner = Primary

\* switchComputer.  The claim of a copy ends when the user goes on from the next
\* computer before the server knows that the copy's computer is the owner.
SwitchComputer(dst) ==
  LET read == IF ReadsPrimary(s, dst) THEN OnClipboardChanged(s, Primary, s.seq) ELSE s
      over == [read EXCEPT !.active = dst, !.seqNum = @ + 1,
                           !.seqOfPrimary = IF dst = Primary THEN s.seqNum + 1 ELSE @]
      left == IF s.active \in Clients THEN Write(down, s.active, [type |-> "Leave"]) ELSE down
  IN /\ used.moves < MaxMoves /\ used' = [used EXCEPT !.moves = @ + 1]
     /\ UnderWay < MaxUnderWay
     /\ dst \in {Primary} \cup s.clients \cup Bridges /\ dst # s.active
     /\ s' = IF dst \in Bridges \/ ~Fits(over.clip) THEN over
             ELSE SetClipboard(over, dst, over.clip)
     /\ down' = IF dst \in Clients THEN Write(left, dst, [type |-> "Enter", seq |-> over.seqNum])
                ELSE left
     /\ claim' = IF s.active # claim.by /\ s.owner # claim.by THEN NoClaim ELSE claim
     /\ UNCHANGED <<c, up>>

\* A client's connection is removed with the proxy's events; the primary is
\* entered with the number of before.
RemoveClient(k) ==
  /\ k \in s.clients /\ ~c[k].up
  /\ s' = [s EXCEPT !.clients = @ \ {k}, !.queue = SelectSeq(@, LAMBDA e : e.of # k),
                    !.active = IF @ = k THEN Primary ELSE @,
                    !.seqOfPrimary = IF s.active = k THEN s.seqNum ELSE @]
  /\ down' = [down EXCEPT ![k] = <<>>] /\ up' = [up EXCEPT ![k] = <<>>]
  /\ claim' = IF s.active = k THEN NoClaim ELSE claim
  /\ UNCHANGED <<c, used>>

(***************************************************************************)
(* A client                                                                *)
(***************************************************************************)

\* sendClipboard: what is of another time, and fits, is sent.  m_sentClipboard
\* and m_dataClipboard keep back a second copy of the same text, which different
\* numbers leave out.
SendClipboard(t) ==
  IF (t.time # 0 /\ t.screen = t.time) \/ ~Fits(t.screen) THEN t
  ELSE [t EXCEPT !.time = t.screen,
                 !.queue = Append(@, [type |-> "Sending", seq |-> t.seq, copy |-> t.screen])]

ClientHandlesGrabbed(k) ==
  LET grabbed == [c[k] EXCEPT !.queue = Tail(@), !.own = TRUE, !.time = 0]
  IN /\ c[k].up /\ c[k].queue # <<>> /\ Head(c[k].queue).type = "Grabbed"
     /\ up' = Write(up, k, [type |-> "Grab", seq |-> c[k].seq])
     /\ c' = [c EXCEPT ![k] = IF c[k].active THEN grabbed ELSE SendClipboard(grabbed)]
     /\ UNCHANGED <<s, down, claim, used>>

ClientSends(k) ==
  LET event == Head(c[k].queue)
  IN /\ c[k].up /\ c[k].queue # <<>> /\ event.type = "Sending"
     /\ up' = Write(up, k, [type |-> "Data", seq |-> event.seq, copy |-> event.copy])
     /\ c' = [c EXCEPT ![k].queue = Tail(@)]
     /\ UNCHANGED <<s, down, claim, used>>

X_LeaveSendsNone(t) == [t EXCEPT !.active = FALSE]

\* leave: the clipboard that the client owns is sent.
Leave(t) == LET left == [t EXCEPT !.active = FALSE] IN IF t.own THEN SendClipboard(left) ELSE left

\* grabClipboard and setClipboard: the computer's clipboard is the server's.
Take(t, copy) == [t EXCEPT !.screen = copy, !.noticed = TRUE, !.own = FALSE]

ClientReceives(k) ==
  LET message == Head(down[k])
  IN /\ c[k].up /\ down[k] # <<>> /\ down' = [down EXCEPT ![k] = Tail(@)]
     /\ c' = [c EXCEPT ![k] =
                CASE message.type = "Enter" -> [@ EXCEPT !.active = TRUE, !.seq = message.seq]
                  [] message.type = "Leave" -> Leave(@)
                  [] message.type = "Grab" -> Take(@, 0)
                  [] message.type = "Data" -> Take(@, message.copy)]
     /\ UNCHANGED <<s, up, claim, used>>

\* The connection is lost; the client is not told to leave and keeps m_active.
HangUp(k) ==
  /\ used.moves + 2 <= MaxMoves /\ used' = [used EXCEPT !.moves = @ + 2]
  /\ UnderWay < MaxUnderWay /\ c[k].up
  /\ c' = [c EXCEPT ![k].up = FALSE, ![k].queue = <<>>]
  /\ claim' = IF claim.by = k THEN NoClaim ELSE claim
  /\ UNCHANGED <<s, down, up>>

\* handleConnected, and adoptClient on the server.
Connect(k) ==
  /\ ~c[k].up /\ k \notin s.clients
  /\ c' = [c EXCEPT ![k] = NewClient(c[k].active)]
  /\ s' = [s EXCEPT !.clients = @ \cup {k}, !.dirty[k] = TRUE, !.cached[k] = 0]
  /\ UNCHANGED <<down, up, claim, used>>

(***************************************************************************)
(* Somebody copies.  The platform tells of it when it owned the selection; *)
(* some platforms tell of it always.                                       *)
(***************************************************************************)
\* Nothing is under way, and no client whose grab the server has ignored takes
\* itself for the owner: it would send its clipboard when it is left.
Settled == Quiet /\ \A k \in Clients : c[k].own => s.owner = k

\* A copy is claimed if it fits, is made on the active computer, and the computer
\* tells of it or has the server's clipboard: the primary does not when data of
\* a former owner has come after its grab.
CopyOnPrimary(noticed) ==
  LET copy == used.copies + 1
      event == [type |-> "Grabbed", of |-> Primary, seq |-> s.seqOfPrimary]
  IN /\ used.copies < MaxCopies /\ used' = [used EXCEPT !.copies = copy]
     /\ UnderWay < MaxUnderWay /\ (s.noticed => noticed)
     /\ s' = [s EXCEPT !.screen = copy, !.noticed = FALSE,
                       !.queue = IF noticed THEN Append(@, event) ELSE @]
     /\ claim' = IF /\ s.active = Primary /\ Settled /\ Fits(copy)
                    /\ noticed \/ (s.owner = Primary /\ s.from = Primary)
                 THEN [copy |-> copy, by |-> Primary] ELSE NoClaim
     /\ UNCHANGED <<c, down, up>>

CopyOnClient(k, noticed) ==
  LET copy == used.copies + 1
  IN /\ used.copies < MaxCopies /\ used' = [used EXCEPT !.copies = copy]
     /\ UnderWay < MaxUnderWay /\ c[k].up /\ (c[k].noticed => noticed)
     /\ c' = [c EXCEPT ![k].screen = copy, ![k].noticed = FALSE,
                       ![k].queue = IF noticed THEN Append(@, [type |-> "Grabbed"]) ELSE @]
     /\ claim' = IF s.active = k /\ Settled /\ Fits(copy) /\ (noticed \/ c[k].own)
                 THEN [copy |-> copy, by |-> k] ELSE NoClaim
     /\ UNCHANGED <<s, down, up>>

Next ==
  \/ HandleClipboardGrabbed \/ HandleClipboardChanged \/ ServerSends
  \/ \E dst \in Computers \cup Bridges : SwitchComputer(dst)
  \/ \E noticed \in BOOLEAN : CopyOnPrimary(noticed)
  \/ \E k \in Clients : \/ ServerReceives(k) \/ RemoveClient(k)
                        \/ ClientHandlesGrabbed(k) \/ ClientSends(k) \/ ClientReceives(k)
                        \/ HangUp(k) \/ Connect(k)
                        \/ \E noticed \in BOOLEAN : CopyOnClient(k, noticed)

Spec == Init /\ [][Next]_vars

(***************************************************************************)
(* Properties                                                              *)
(***************************************************************************)
Screen(k) == IF k = Primary THEN s.screen ELSE c[k].screen

\* The types of the variables; the active computer is connected, and what the
\* server has of clients that are not does not count.
TypeOK ==
  /\ s.owner \in Computers /\ s.from \in Computers /\ s.clients \subseteq Clients
  /\ {s.clip, s.data, s.screen} \cup {s.cached[k] : k \in Clients} \subseteq 0..MaxCopies
  /\ s.active \in {Primary} \cup Bridges \cup s.clients
  /\ {s.seq, s.seqOfPrimary} \cup {c[k].seq : k \in Clients} \subseteq 0..s.seqNum
  /\ s.dirty \in [Computers -> BOOLEAN] /\ s.noticed \in BOOLEAN
  /\ \A k \in Clients : /\ {c[k].time, c[k].screen} \subseteq 0..MaxCopies
                        /\ {c[k].up, c[k].own, c[k].active, c[k].noticed} \subseteq BOOLEAN
                        /\ c[k].up => k \in s.clients
  /\ claim \in [copy : 0..MaxCopies, by : Computers]

\* What was copied on the active computer while the owner was settled, and
\* fits, is on the computer the user has switched to once everything has been
\* delivered, whoever owned the clipboard before, whoever came back, and over a
\* bridge (handleClipboardGrabbed, onClipboardChanged, switchComputer, leave).
\* Three claims end earlier: a focus that falls back to the primary with a lost
\* connection brings nothing (forceLeaveClient sends no clipboard); a user who
\* goes on to a third computer before the grab is known finds the data of the
\* former owner, who is left with a newer number; and a client whose grab was
\* ignored keeps others from a claim until it is told to take the clipboard,
\* since the server neither tells it nor refuses its data.
CopyArrives ==
  (Quiet /\ claim.copy # 0 /\ s.active \in {Primary} \cup s.clients /\ s.active # claim.by)
    => Screen(s.active) = claim.copy

\* A computer that the server takes to have the clipboard's data, and that has
\* not taken the clipboard since, has it: the data can be overtaken by a grab,
\* but not by a later transfer.
CleanAgrees ==
  TypeOK /\ (Quiet => \A k \in s.clients : (~s.dirty[k] /\ s.from # k /\ c[k].up /\ ~c[k].own) => c[k].screen = s.data)

\* The assertion of onClipboardChanged (Server.cpp:1473): data comes from the
\* owner.  Does not hold: the primary may grab with an older number while a
\* client's data is on its way.
ExpectedSender ==
  (s.queue # <<>> /\ Head(s.queue).type = "Changed" /\ Head(s.queue).seq >= s.seq)
    => s.owner = Head(s.queue).of
=============================================================================
