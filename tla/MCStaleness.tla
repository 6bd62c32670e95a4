---------------------------- MODULE MCStaleness -----------------------------
(***************************************************************************)
(* Instances of Staleness for TLC: one path and two sources, both ranked   *)
(* by a group or by an override, one of them ranked and the other unlisted, *)
(* both let through, or neither known to the engine.                       *)
(***************************************************************************)
EXTENDS Staleness

CONSTANTS top, backup, depth

MCRefs == {top, backup}
SameRef == [r \in MCRefs |-> r]

NoOverride == [p \in Paths |-> << >>]
GroupOf(sources) == <<[sources |-> sources, inactive |-> FALSE]>>

Grouped == [overrides |-> NoOverride, fanOut |-> {}, groups |-> GroupOf(<<top, backup>>)]
OneListed == [overrides |-> NoOverride, fanOut |-> {}, groups |-> GroupOf(<<top>>)]
Overridden == [overrides |-> [p \in Paths |-> <<[sourceRef |-> backup, timeout |-> 0],
                                               [sourceRef |-> top, timeout |-> 1]>>],
               fanOut |-> {}, groups |-> << >>]
FannedOut == [overrides |-> NoOverride, fanOut |-> Paths, groups |-> GroupOf(<<top, backup>>)]
Unconfigured == [overrides |-> NoOverride, fanOut |-> {}, groups |-> << >>]

SomeConfigs == {Grouped, OneListed, Overridden, FannedOut, Unconfigured}
OneConfig == {Grouped}

ShortTimeout == [p \in Paths |-> 1]
=============================================================================
