----------------------------- MODULE MCKeyRelay -----------------------------
(* A keyboard with Control, three keystroke actions that share a button, a  *)
(* client with a keyboard, which has no media key, and one with a device.   *)
EXTENDS KeyRelay

CONSTANTS ctrl, a, k, mute, pc, dongle

MCIdOf == [b \in {1} |-> ctrl]
MCLocalOf == [i \in Keys |-> IF i = mute THEN Unmapped ELSE i]
MCHotKeys == {[id |-> a, mask |-> {}, to |-> {}],
              [id |-> k, mask |-> {ctrl}, to |-> {pc, dongle}],
              [id |-> mute, mask |-> {}, to |-> {dongle}]}
=============================================================================
