--------------------------- MODULE BridgeKeyboard ---------------------------
(***************************************************************************)
(* The keyboard of a bridge client: the server's key events as the reports *)
(* its device sends (src/lib/platform/bridge/BridgeKeyboard.cpp), as       *)
(* functions of a record                                                   *)
(*   active   the keys held, by button: a key or a modifier (m_activeKeys) *)
(*   media    the media keys held, by button (m_pressedConsumerControls)   *)
(*   current  the modifiers last computed (m_currentHidModifiers)          *)
(* and of what the device holds down.  Each operation gives the record it  *)
(* leaves and the reports it sends, in order.  Left and right modifiers    *)
(* and AltGr are not told apart, a key goes by its ID, and every ID has a  *)
(* usage.                                                                  *)
(***************************************************************************)
EXTENDS Naturals, Sequences, SequencesExt

CONSTANTS Modifiers,  \* the key IDs of modifier keys
          Media,      \* the key IDs of media keys
          IdOf,       \* the key ID of a button that has one key
          NoUsage,    \* no key in a report
          AsPressed   \* sendsKeysAsPressed(): the device has the server's layout

\* A report: what it does to the key, and the modifiers it sets.
Press(mods, key) == [press |-> TRUE, mods |-> mods, key |-> key]
Release(mods, key) == [press |-> FALSE, mods |-> mods, key |-> key]
\* A consumer control report has no modifiers.
PressMedia(id) == [press |-> TRUE, media |-> id]
ReleaseMedia(id) == [press |-> FALSE, media |-> id]

\* The device: a report is applied to the keys it holds down.
Apply(down, r) ==
  IF "media" \in DOMAIN r
    THEN IF r.press THEN down \cup {r.media} ELSE down \ {r.media}
  ELSE LET others == (down \ Modifiers) \ {r.key}
       IN others \cup r.mods \cup (IF r.press THEN {r.key} \ {NoUsage} ELSE {})
ApplyAll(down, reports) == FoldLeft(Apply, down, reports)

NoActive == [active |-> <<>>, media |-> <<>>, current |-> {}]

Without(table, button) == [b \in DOMAIN table \ {button} |-> table[b]]
With(table, button, entry) ==
  [b \in DOMAIN table \cup {button} |-> IF b = button THEN entry ELSE table[b]]

\* heldModifierBits
Held(active) == UNION {active[b].bit : b \in DOMAIN active}
Bit(id) == {id} \cap Modifiers
Usage(id) == IF id \in Modifiers \cup Media THEN NoUsage ELSE id
KeyModifiers(mask, held) == IF AsPressed THEN held \cup mask ELSE mask

KeyDown(k, id, mask, button) ==
  LET mods == KeyModifiers(mask, Held(k.active) \cup Bit(id)) \cup Bit(id)
  IN IF id \in Media
     THEN [next |-> [k EXCEPT !.media = With(@, button, id)],
           reports |-> <<PressMedia(id)>>]
     ELSE [next |-> [k EXCEPT !.current = mods,
                       !.active = With(@, button, [key |-> Usage(id), bit |-> Bit(id)])],
           reports |-> <<Press(mods, Usage(id))>>]

KeyRepeat(k, id, mask) ==
  LET mods == KeyModifiers(mask, Held(k.active) \cup Bit(id)) \cup Bit(id)
  IN [next |-> k,
      reports |-> IF id \in Media THEN <<PressMedia(id), ReleaseMedia(id)>>
                  ELSE <<Press(mods, Usage(id)), Release(mods, Usage(id))>>]

\* The key a button releases that is not known to be down.
UnknownKey(button) == IF button = 0 THEN NoUsage ELSE Usage(IdOf[button])

KeyUp(k, button) ==
  LET known == button \in DOMAIN k.active
      entry == IF known THEN k.active[button] ELSE [key |-> UnknownKey(button), bit |-> {}]
      left == Without(k.active, button)
      mods == IF AsPressed \/ entry.bit = {} THEN Held(left) ELSE k.current \ entry.bit
  IN IF button \in DOMAIN k.media
     THEN [next |-> [k EXCEPT !.media = Without(@, button)],
           reports |-> <<ReleaseMedia(k.media[button])>>]
     ELSE [next |-> [k EXCEPT !.active = left, !.current = mods],
           reports |-> <<Release(mods, entry.key)>>]

\* The media keys, then the keys by button, each with the modifiers that are
\* left; the table is in that order.
ByButton(table) == SetToSortSeq(DOMAIN table, LAMBDA a, b : a < b)

X_NoMedia(k) ==
  LET order == ByButton(k.active)
      gone(i) == UNION {k.active[order[j]].bit : j \in 1..i}
  IN [next |-> NoActive,
      reports |-> [i \in DOMAIN order |-> Release(k.current \ gone(i), k.active[order[i]].key)]]

AllKeysUp(k) ==
  LET order == ByButton(k.active)
      gone(i) == UNION {k.active[order[j]].bit : j \in 1..i}
      held(i) == UNION {k.active[order[j]].bit : j \in (i + 1)..Len(order)}
      mods(i) == IF AsPressed THEN held(i) ELSE k.current \ gone(i)
      media == ByButton(k.media)
  IN [next |-> NoActive,
      reports |-> [i \in DOMAIN media |-> ReleaseMedia(k.media[media[i]])]
                  \o [i \in DOMAIN order |-> Release(mods(i), k.active[order[i]].key)]]

\* The keys a button stands for.
Of(k, button) ==
  {k.media[b] : b \in DOMAIN k.media \cap {button}}
    \cup UNION {({k.active[b].key} \ {NoUsage}) \cup k.active[b].bit :
               b \in DOMAIN k.active \cap {button}}

\* What allKeysUp releases, and the modifiers set without a key of their own.
Known(k) ==
  ({k.active[b].key : b \in DOMAIN k.active} \ {NoUsage}) \cup Held(k.active)
    \cup {k.media[b] : b \in DOMAIN k.media}
Borrowed(k) == k.current \ Held(k.active)
=============================================================================
