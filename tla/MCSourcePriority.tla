-------------------------- MODULE MCSourcePriority --------------------------
(***************************************************************************)
(* Instances of SourcePriority for TLC: a device known by a CAN name on    *)
(* one transport, its raw reference before the address claim, a backup     *)
(* and an unlisted source, on one measured path.                           *)
(***************************************************************************)
EXTENDS SourcePriority

CONSTANTS top, rawTop, backup, unlisted, speed

MCRefs == {top, rawTop, backup, unlisted}
MCCanonicalOf == [r \in MCRefs |-> IF r = rawTop THEN top ELSE r]
MCIdentityOf == [r \in MCRefs |-> r]

NoOverrides == [p \in Paths |-> << >>]
Ranked(timeout) ==
  [p \in Paths |-> IF p = speed
     THEN <<[sourceRef |-> top, timeout |-> 0], [sourceRef |-> backup, timeout |-> timeout]>>
     ELSE << >>]
Group(sources, off) == [sources |-> sources, inactive |-> off]

\* One group; two groups whose sources meet on a path; an override; an
\* override that disables the top source; one made dormant; none at all.
OneGroup == [overrides |-> NoOverrides, fanOut |-> {}, groups |-> <<Group(<<top, backup>>, FALSE)>>]
TwoGroups == [overrides |-> NoOverrides, fanOut |-> {},
              groups |-> <<Group(<<top>>, FALSE), Group(<<backup>>, FALSE)>>]
Override == [overrides |-> Ranked(2), fanOut |-> {}, groups |-> << >>]
Disabled == [overrides |-> [p \in Paths |-> IF p = speed
               THEN <<[sourceRef |-> top, timeout |-> -1], [sourceRef |-> backup, timeout |-> 1]>>
               ELSE << >>],
             fanOut |-> {}, groups |-> <<Group(<<top, backup>>, FALSE)>>]
Dormant == [overrides |-> Ranked(1), fanOut |-> {}, groups |-> <<Group(<<top, backup>>, TRUE)>>]
FanOut == [overrides |-> NoOverrides, fanOut |-> {speed}, groups |-> <<Group(<<top, backup>>, FALSE)>>]
None == [overrides |-> NoOverrides, fanOut |-> {}, groups |-> << >>]

AllConfigs == {OneGroup, TwoGroups, Override, Disabled, Dormant, FanOut, None}
OneConfig == {OneGroup}
TwoGroupsOnly == {TwoGroups}

\* Time passes and the backup goes on publishing, whatever the others do.
BackupSpec == Spec /\ WF_vars(Tick) /\ WF_vars(Publish(backup, speed))
BackupWins == BackupTakesOver(backup, speed)
=============================================================================
