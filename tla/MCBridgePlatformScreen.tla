------------------------ MODULE MCBridgePlatformScreen ------------------------
(* Small instances of BridgePlatformScreen: two slots, a profile that       *)
(* changes the size and one whose size is not valid.                        *)
EXTENDS BridgePlatformScreen

CONSTANTS none, wide, odd

MCProfiles == {none, wide, odd}
MCSizeOf == [p \in MCProfiles |-> IF p = wide THEN 2 ELSE IF p = none THEN 1 ELSE 0]
MCStored == [s \in {0, 1} |-> IF s = 0 THEN none ELSE wide]
MCRequests ==
  {[command |-> "profiles", slot |-> 0, profile |-> none],
   [command |-> "switch", slot |-> 0, profile |-> none],
   [command |-> "switch", slot |-> 1, profile |-> none],
   [command |-> "set", slot |-> 1, profile |-> odd]}
==============================================================================
