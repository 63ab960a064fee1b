------------------------------ MODULE KeyState ------------------------------
(***************************************************************************)
(* The keys a client holds down on its own computer for the server         *)
(* (src/lib/deskflow/KeyState.cpp), as functions of a record               *)
(*   server     the local key each button of the server presses            *)
(*              (m_serverKeys)                                             *)
(*   synthetic  how many buttons hold each local key (m_syntheticKeys)     *)
(*   down       the local keys the operating system has down               *)
(* The modifiers mapKey presses and restores around a keystroke are left   *)
(* out; a modifier key of the keyboard is a key like the others.           *)
(***************************************************************************)
EXTENDS Naturals, FiniteSets

CONSTANTS Buttons,   \* the server's key buttons; 0 is a keystroke of its configuration
          Keys,      \* key IDs
          Unmapped,  \* no local key
          LocalOf    \* the local key a key ID is typed with, or Unmapped
ASSUME KeyAssumption ==
  /\ 0 \in Buttons /\ Buttons \subseteq Nat /\ Unmapped \notin Keys
  /\ LocalOf \in [Keys -> Keys \cup {Unmapped}]

NoKeys == [server |-> [b \in Buttons |-> Unmapped],
           synthetic |-> [k \in Keys |-> 0], down |-> {}]

\* A repeat may type another key than the press did, after a dead key; it is
\* ignored for a button that is not down.
FakeKeyRepeat(k, id, button) ==
  LET old == k.server[button]
      new == LocalOf[id]
  IN IF Unmapped \in {old, new} THEN k
     ELSE [server |-> [k.server EXCEPT ![button] = new],
           synthetic |-> [k.synthetic EXCEPT ![old] = @ - 1, ![new] = @ + 1],
           down |-> (k.down \ {old}) \cup {new}]

\* A button that is already down is a repeat.
FakeKeyDown(k, id, button) ==
  LET new == LocalOf[id]
  IN IF k.server[button] # Unmapped THEN FakeKeyRepeat(k, id, button)
     ELSE IF new = Unmapped THEN k
     ELSE [server |-> [k.server EXCEPT ![button] = new],
           synthetic |-> [k.synthetic EXCEPT ![new] = @ + 1],
           down |-> k.down \cup {new}]

FakeKeyUp(k, button) ==
  LET old == k.server[button]
  IN IF old = Unmapped THEN k
     ELSE [server |-> [k.server EXCEPT ![button] = Unmapped],
           synthetic |-> [k.synthetic EXCEPT ![old] = @ - 1],
           down |-> k.down \ {old}]

FakeAllKeysUp(k) ==
  [NoKeys EXCEPT !.down = {key \in k.down : k.synthetic[key] = 0}]

\* updateKeyState: what the server holds down is forgotten.
UpdateKeyState(k) == [NoKeys EXCEPT !.down = k.down]

\* XWindowsComputer::refreshKeyboard, when the keyboard mapping has changed.
X_OnlyUpdates(k) == UpdateKeyState(k)
RefreshKeyboard(k) == UpdateKeyState(FakeAllKeysUp(k))

Releases(k) == {key \in Keys : k.synthetic[key] > 0}
=============================================================================
