------------------------------ MODULE MCServer ------------------------------
(* Small instances of Server: a primary, two clients, and a third proxy    *)
(* that connects under the name of the first.                              *)
EXTENDS Server, TLC

CONSTANTS c1, c2, c3

(* Two proxies of the same name may be exchanged in safety runs.           *)
SameName == Permutations({c1, c3})

MCNames == {"srv", "A", "B"}
MCOwnName ==
  [c \in Computers |-> CASE c = Primary -> "srv" [] c = c2 -> "B" [] OTHER -> "A"]

(* A and B share the primary's right side; B is also below it and wraps    *)
(* around to it.                                                           *)
MCLink ==
  [<<n, d, p>> \in MCNames \X Dirs \X Spots |->
     CASE n = "srv" /\ d = "right" -> IF p = 1 THEN "A" ELSE "B"
       [] n = "srv" /\ d = "down"  -> "B"
       [] n = "A" /\ d = "right"   -> "B"
       [] n = "B" /\ d = "right"   -> "srv"
       [] OTHER                    -> NoName]

Config(canonical, options) ==
  [canonical |-> canonical, link |-> MCLink, options |-> options]

Itself(S) == [n \in S |-> n]
Both == Itself(MCNames)
OnlyA == Itself({"srv", "A"})
Renamed == ("srv" :> "srv") @@ ("A" :> "B") @@ ("B" :> "B")

Immediate == [o \in {} |-> FALSE]
TwoTap == ("switchTwoTap" :> TRUE) @@ ("switchCorners" :> TRUE)
Delayed == "switchDelay" :> TRUE
NoDelay == ("switchDelay" :> FALSE) @@ ("disableLock" :> TRUE)

TwoTapConfigs == {Config(Both, TwoTap), Config(OnlyA, TwoTap)}
DelayConfigs == {Config(Both, Delayed), Config(OnlyA, NoDelay)}

(* A reload that gives a connected computer another name: see README, 7.   *)
RenamingConfigs == {Config(Both, Immediate), Config(Renamed, Immediate)}
=============================================================================
