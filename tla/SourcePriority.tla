--------------------------- MODULE SourcePriority ---------------------------
(***************************************************************************)
(* The source-priority engine of src/deltaPriority.ts: which of several    *)
(* sources of a path of the own vessel reaches subscribers, and how a path *)
(* fails over when its winner falls silent.                                *)
(*                                                                         *)
(* Time is kept as ages: the age of an event is how long ago it happened,  *)
(* and every age from MaxAge on counts as MaxAge, which no timeout         *)
(* reaches.  The engine only ever compares millis - latest.timestamp with  *)
(* a timeout, so nothing it can tell apart is lost.                        *)
(***************************************************************************)
EXTENDS Integers, Sequences, FiniteSets, Functions

CONSTANTS
  Paths,           \* paths of the own vessel
  EventPaths,      \* those under notifications
  Refs,            \* $source references as deltas carry them
  CanonicalOf,     \* [Refs -> Refs]: what a reference becomes once the
                   \* device's address claim has been seen
  IdentityOf,      \* [Refs -> identities]: the CAN name, or the reference
  NoSource,        \* the '' of an unset latest entry; no reference
  Configs,         \* the settings a user may save
  FallbackMs,      \* timeout of every rank but the first of a group
  UnknownSourceTimeout,
  MaxAge           \* bound: ages from here on are the same

\* A configuration: per path a list of [sourceRef, timeout] (empty when there
\* is no override), the fan-out paths, and the groups in their saved order.  A
\* fan-out path is one whose override is the single entry '*' with timeout 0.
Identities == {IdentityOf[r] : r \in Refs}
ConfigType ==
  [overrides : [Paths -> Seq([sourceRef : Refs, timeout : Int])],
   fanOut : SUBSET Paths,
   groups : Seq([sources : Seq(Refs), inactive : BOOLEAN])]

\* The identities some configuration ranks.
Listed ==
  {IdentityOf[r] : r \in
     UNION {UNION ({Range(c.groups[g].sources) : g \in DOMAIN c.groups}
                   \cup {{e.sourceRef : e \in Range(c.overrides[p])} : p \in Paths})
            : c \in Configs}}

ASSUME ConstantsAssumption ==
  /\ EventPaths \subseteq Paths
  /\ IsFiniteSet(Refs)
  /\ CanonicalOf \in [Refs -> Refs]
  /\ \A r \in Refs : CanonicalOf[CanonicalOf[r]] = CanonicalOf[r]
  /\ DOMAIN IdentityOf = Refs
  /\ NoSource \notin Refs \cup Identities
  /\ {FallbackMs, UnknownSourceTimeout, MaxAge} \subseteq Nat
  /\ FallbackMs < MaxAge /\ UnknownSourceTimeout < MaxAge
  /\ Configs \subseteq ConfigType
  /\ \A c \in Configs, p \in Paths : \A i \in DOMAIN c.overrides[p] :
       c.overrides[p][i].timeout < MaxAge
  /\ \A c \in Configs : \A p \in c.fanOut : c.overrides[p] = << >>
  /\ \A c \in Configs :    \* no rank reaches that of Lowest
       /\ \A p \in Paths : Len(c.overrides[p]) <= Cardinality(Refs)
       /\ \A g \in DOMAIN c.groups : Len(c.groups[g].sources) <= Cardinality(Refs)

VARIABLES
  config,          \* the settings the engine was built from
  claimed,         \* references whose address claim has been seen
  latest,          \* [Paths -> [source, age]]: contextPathTimestamps
  pathToGroupId,   \* [Paths -> index of the claiming group, or 0]
  publishers,      \* [Paths -> SUBSET Identities]: pathSeenPublishers
  cached,          \* [Paths -> SUBSET Refs]: references in the delta cache
  heard            \* history: [Paths -> [Listed -> age]] of the last delta the
                   \* engine was given from each identity that may be ranked

vars == <<config, claimed, latest, pathToGroupId, publishers, cached, heard>>

Ages == 0..MaxAge
Older(age) == IF age < MaxAge THEN age + 1 ELSE MaxAge
Unset == [source |-> NoSource, age |-> MaxAge]
NeverHeard == [p \in Paths |-> [i \in Listed |-> MaxAge]]

-----------------------------------------------------------------------------
(* Rankings: what a configuration says, as functions from identities to    *)
(* [precedence, timeout].                                                  *)

Canonicalise(r) == IF r \in claimed THEN CanonicalOf[r] ELSE r

ActiveGroups == {g \in DOMAIN config.groups : ~config.groups[g].inactive}
GroupIdentities(g) == {IdentityOf[s] : s \in Range(config.groups[g].sources)}

\* isOverrideDormantUnderGroups: every ranked source belongs to a group, and
\* the last group that lists it is inactive.
OverrideIdentities(p) ==
  {IdentityOf[e.sourceRef] : e \in Range(config.overrides[p])}
OverrideIsDormant(p) ==
  /\ p \notin config.fanOut
  /\ \A i \in OverrideIdentities(p) :
       \E g \in DOMAIN config.groups \ ActiveGroups :
         /\ i \in GroupIdentities(g)
         /\ \A h \in DOMAIN config.groups : h > g => i \notin GroupIdentities(h)

\* The '*' of a fan-out path is an override like any other, which ranks no
\* source there is.
HasOverride(p) ==
  p \in config.fanOut \/ (config.overrides[p] # << >> /\ ~OverrideIsDormant(p))

\* Rank i of a list, the later of two entries of one identity.
RankIn(refs, i) ==
  CHOOSE n \in DOMAIN refs : /\ IdentityOf[refs[n]] = i
                             /\ \A m \in DOMAIN refs : IdentityOf[refs[m]] = i => m <= n

OverridePrecedences(p) ==
  LET entries == config.overrides[p]
      refs == [n \in DOMAIN entries |-> entries[n].sourceRef]
  IN  [i \in OverrideIdentities(p) |->
        [precedence |-> RankIn(refs, i) - 1, timeout |-> entries[RankIn(refs, i)].timeout]]

GroupPrecedences(g) ==
  LET refs == config.groups[g].sources
  IN  [i \in GroupIdentities(g) |->
        [precedence |-> RankIn(refs, i) - 1,
         timeout |-> IF RankIn(refs, i) = 1 THEN 0 ELSE FallbackMs]]

\* The first active group that lists an identity, or 0.
SourceToGroupId(i) ==
  LET owners == {g \in ActiveGroups : i \in GroupIdentities(g)}
  IN  IF owners = {} THEN 0 ELSE CHOOSE g \in owners : \A h \in owners : g <= h

\* Without any override or active group the engine passes everything through.
Passthrough ==
  /\ \A p \in Paths : config.overrides[p] = << >> /\ p \notin config.fanOut
  /\ ActiveGroups = {}

\* Notifications and fan-out paths bypass the engine.
Bypasses(p) == p \in EventPaths \/ p \in config.fanOut

\* resolvePrecedences: the override of the path, else the ranking of the
\* source's own group, else that of the group that claimed the path, else none.
NoRanking == [i \in {} |-> [precedence |-> 0, timeout |-> 0]]

ResolvePrecedences(p, i) ==
  IF HasOverride(p) THEN OverridePrecedences(p)
  ELSE IF SourceToGroupId(i) # 0 THEN GroupPrecedences(SourceToGroupId(i))
  ELSE IF pathToGroupId[p] # 0 THEN GroupPrecedences(pathToGroupId[p])
  ELSE NoRanking

-----------------------------------------------------------------------------
(* isPreferredValue: does a value of source s displace the latest one?     *)

Identity(s) == IF s = NoSource THEN NoSource ELSE IdentityOf[Canonicalise(s)]

IsKnown(ranking, s) == Identity(s) \in DOMAIN ranking

Highest == [precedence |-> 0, timeout |-> 0]
Lowest ==    \* below every rank: POSITIVE_INFINITY
  [precedence |-> Cardinality(Refs), timeout |-> UnknownSourceTimeout]

GetPrecedence(ranking, s, default) ==
  IF IsKnown(ranking, s) THEN ranking[Identity(s)] ELSE default

\* The incoming source's own timeout governs; an unranked source must outwait
\* the ranked winner's timeout as well.
HoldTimeout(ranking, winner, incoming) ==
  LET w == GetPrecedence(ranking, winner, Highest).timeout
      s == GetPrecedence(ranking, incoming, Lowest).timeout
  IN  IF IsKnown(ranking, winner) /\ ~IsKnown(ranking, incoming) /\ w > s
        THEN w ELSE s

\* Faulty variants: a source takes over at its timeout and not after it; an
\* unranked winner is treated like any other.
IsPreferredValueAtTimeout(ranking, winner, incoming) ==
  LET w == GetPrecedence(ranking, winner.source, Highest)
      s == GetPrecedence(ranking, incoming, Lowest)
  IN
  /\ s.timeout >= 0
  /\ \/ IsKnown(ranking, incoming) /\ ~IsKnown(ranking, winner.source)
     \/ winner.source = incoming
     \/ w.precedence >= s.precedence
     \/ winner.age >= HoldTimeout(ranking, winner.source, incoming)

IsPreferredValueNoDisplacing(ranking, winner, incoming) ==
  LET w == GetPrecedence(ranking, winner.source, Highest)
      s == GetPrecedence(ranking, incoming, Lowest)
  IN
  /\ s.timeout >= 0
  /\ \/ winner.source = incoming
     \/ w.precedence >= s.precedence
     \/ winner.age > HoldTimeout(ranking, winner.source, incoming)

IsPreferredValue(ranking, winner, incoming) ==
  LET w == GetPrecedence(ranking, winner.source, Highest)
      s == GetPrecedence(ranking, incoming, Lowest)
  IN
  /\ s.timeout >= 0
  /\ \/ IsKnown(ranking, incoming) /\ ~IsKnown(ranking, winner.source)
     \/ /\ winner.source = incoming
        /\ IsKnown(ranking, winner.source) \/ ~IsKnown(ranking, incoming)
     \/ w.precedence >= s.precedence
     \/ winner.age > HoldTimeout(ranking, winner.source, incoming)

-----------------------------------------------------------------------------
Init ==
  /\ config \in Configs
  /\ claimed = {}
  /\ latest = [p \in Paths |-> Unset]
  /\ pathToGroupId = [p \in Paths |-> 0]
  /\ publishers = [p \in Paths |-> {}]
  /\ cached = [p \in Paths |-> {}]
  /\ heard = NeverHeard

\* Faulty variant: the path is claimed by the source, not by its group.
ClaimBySource(p, i) ==
  IF ~HasOverride(p) /\ pathToGroupId[p] = 0 /\ SourceToGroupId(i) # 0
    THEN pathToGroupId' = [pathToGroupId EXCEPT ![p] = i]
    ELSE UNCHANGED pathToGroupId

\* A group claims a path with the first delta of one of its sources, unless
\* the path has an override.
Claim(p, i) ==
  IF ~HasOverride(p) /\ pathToGroupId[p] = 0 /\ SourceToGroupId(i) # 0
    THEN pathToGroupId' = [pathToGroupId EXCEPT ![p] = SourceToGroupId(i)]
    ELSE UNCHANGED pathToGroupId

\* A delta of the own vessel with a value of path p from reference r.  The
\* delta cache takes it before the engine looks at it (dispatchDelta).
Publish(r, p) ==
  LET s == Canonicalise(r)
      i == IdentityOf[s]
      ranking == ResolvePrecedences(p, i)
  IN
  /\ cached' = [cached EXCEPT ![p] = @ \cup {r}]
  /\ UNCHANGED <<config, claimed>>
  /\ \/ /\ Passthrough \/ Bypasses(p)
        /\ UNCHANGED <<latest, pathToGroupId, publishers, heard>>
     \/ /\ ~(Passthrough \/ Bypasses(p))
        /\ heard' = [heard EXCEPT ![p] = [j \in Listed |-> IF j = i THEN 0 ELSE @[j]]]
        /\ publishers' = [publishers EXCEPT ![p] = @ \cup {i}]
        /\ Claim(p, i)
        /\ latest' = IF ranking # NoRanking /\ IsPreferredValue(ranking, latest[p], s)
                       THEN [latest EXCEPT ![p] = [source |-> s, age |-> 0]]
                       ELSE latest

\* sourceRefChanged: the address claim of a device arrives.
SourceRefChanged(r) ==
  /\ r \notin claimed
  /\ CanonicalOf[r] # r
  /\ claimed' = claimed \cup {r}
  /\ UNCHANGED <<config, latest, pathToGroupId, publishers, cached, heard>>

\* The engine forgets every winner when it is rebuilt; its publishers are
\* seeded from the delta cache, and a contested path is claimed for the group
\* of one of them (the cache's order is left open).
SeedPublishers == [p \in Paths |-> {IdentityOf[Canonicalise(r)] : r \in cached[p]}]

SeedClaims(seeds, claims) ==
  \A p \in Paths :
    LET owners == {SourceToGroupId(i) : i \in seeds[p]} \ {0}
    IN  IF Cardinality(seeds[p]) >= 2 /\ owners # {}
          THEN claims[p] \in owners
          ELSE claims[p] = 0

\* activateSourcePriorities, after the user saved the settings c.
ActivateSourcePriorities(c) ==
  /\ config' = c
  /\ latest' = [p \in Paths |-> Unset]
  /\ heard' = NeverHeard
  /\ publishers' = IF Passthrough' THEN [p \in Paths |-> {}] ELSE SeedPublishers
  /\ pathToGroupId' \in [Paths -> 0..Len(c.groups)]
  /\ (SeedClaims(publishers, pathToGroupId))'
  /\ UNCHANGED <<claimed, cached>>

\* removeSource: the cache forgets a source, and with it what the publishers
\* are seeded from.  The engine is not told.
ForgetSource(r) ==
  /\ \E p \in Paths : r \in cached[p]
  /\ cached' = [p \in Paths |-> cached[p] \ {r}]
  /\ UNCHANGED <<config, claimed, latest, pathToGroupId, publishers, heard>>

Tick ==
  /\ latest' = [p \in Paths |-> [latest[p] EXCEPT !.age = Older(@)]]
  /\ heard' = [p \in Paths |-> [i \in Listed |-> Older(heard[p][i])]]
  /\ UNCHANGED <<config, claimed, pathToGroupId, publishers, cached>>

Next ==
  \/ \E r \in Refs, p \in Paths : Publish(r, p)
  \/ \E r \in Refs : SourceRefChanged(r) \/ ForgetSource(r)
  \/ \E c \in Configs : ActivateSourcePriorities(c)
  \/ Tick

Spec == Init /\ [][Next]_vars

-----------------------------------------------------------------------------
TypeOK ==
  /\ config \in Configs
  /\ claimed \subseteq Refs
  /\ latest \in [Paths -> [source : Refs \cup {NoSource}, age : Ages]]
  /\ pathToGroupId \in [Paths -> Nat]
  /\ publishers \in [Paths -> SUBSET Identities]
  /\ cached \in [Paths -> SUBSET Refs]
  /\ heard \in [Paths -> [Listed -> Ages]]

\* The ranking that decides path p: its override, or the claiming group's.
RankingOf(p) ==
  IF HasOverride(p) THEN OverridePrecedences(p)
  ELSE IF pathToGroupId[p] # 0 THEN GroupPrecedences(pathToGroupId[p])
  ELSE NoRanking

\* No source of another active group publishes p: groups are derived so that
\* sources sharing a path share a group, but only when they are saved.
SoleRanking(p) ==
  HasOverride(p) \/ \A i \in publishers[p] : SourceToGroupId(i) \in {0, pathToGroupId[p]}

Enabled(ranking, i) == i \in DOMAIN ranking /\ ranking[i].timeout >= 0

\* The shortest silence after which anything else may take over.
Failovers(p) ==
  {UnknownSourceTimeout} \cup
    {RankingOf(p)[i].timeout :
       i \in {j \in DOMAIN RankingOf(p) : RankingOf(p)[j].precedence > 0
                                           /\ RankingOf(p)[j].timeout >= 0}}

\* "While it is publishing data, its values always win": as long as the
\* top-ranked source was heard within every failover timeout, it is the winner.
TopSourceHolds ==
  \A p \in Paths \ EventPaths : \A i \in Listed :
    /\ SoleRanking(p)
    /\ Enabled(RankingOf(p), i)
    /\ RankingOf(p)[i].precedence = 0
    /\ \A t \in Failovers(p) : heard[p][i] <= t
    /\ heard[p][i] < MaxAge
    => Identity(latest[p].source) = i

\* Whatever an unranked source won while the ranked ones were silent, the next
\* delta of any enabled ranked source ends it (isPreferredValue): an unranked
\* winner may not renew itself in front of one.  Where two groups meet on a path
\* this would also take it from a source that the other group ranks, which
\* ClaimedPathKeepsRanking is about.
RankedSourceDisplacesUnranked ==
  [][\A r \in Refs, p \in Paths :
       LET i == IdentityOf[Canonicalise(r)]
           ranking == ResolvePrecedences(p, i)
       IN  /\ Publish(r, p) /\ ~Bypasses(p) /\ ~Passthrough
           /\ SoleRanking(p)' /\ Enabled(ranking, i)
           => IsKnown(ranking, latest'[p].source)]_vars

\* "Every other rank has a Fallback after value: the number of milliseconds the
\* currently-winning source must be silent before that rank is allowed to take
\* over": a source ranked below the winner, or not at all, takes over with its
\* next value if and only if the winner itself was last heard longer ago than
\* its timeout, whatever other sources published, claimed or had held back in
\* the meantime.  An unranked source waits for the safety window and for the
\* timeout of the winner; the other listed sources are not asked, although the
\* docs say so (UnlistedWaitsForAllListed).  (A winner that has changed its
\* name since is heard under another.)
WaitOf(ranking, w, i) ==
  IF i \in DOMAIN ranking THEN ranking[i].timeout
  ELSE IF ranking[w].timeout > UnknownSourceTimeout THEN ranking[w].timeout
  ELSE UnknownSourceTimeout

RanksAbove(ranking, w, i) ==
  i \in DOMAIN ranking => /\ Enabled(ranking, i)
                          /\ ranking[w].precedence < ranking[i].precedence

FallbackRunsFromWinner ==
  [][\A r \in Refs, p \in Paths :
       LET i == IdentityOf[Canonicalise(r)]
           w == Identity(latest[p].source)
           ranking == ResolvePrecedences(p, i)
       IN  /\ Publish(r, p) /\ ~Bypasses(p) /\ ~Passthrough
           /\ Canonicalise(latest[p].source) = latest[p].source
           /\ Enabled(ranking, w) /\ RanksAbove(ranking, w, i)
           => (Identity(latest'[p].source) = i <=> heard[p][w] > WaitOf(ranking, w, i))]_vars

\* A ranked source that goes on publishing wins the path in the end when every
\* other ranked source has fallen silent for good, whatever unranked sources
\* publish and however often the settings are saved.
BackupTakesOver(b, p) ==
  LET alone == /\ \A i \in Listed \ {IdentityOf[b]} : heard[p][i] = MaxAge
               /\ ~Bypasses(p) /\ ~Passthrough
               /\ Enabled(ResolvePrecedences(p, IdentityOf[b]), IdentityOf[b])
  IN  <>[]alone => []<>(latest[p].source = b)

\* "Once claimed, every delta on that path - including from sources NOT in the
\* group - resolves against the claiming group's ranking": while the winner that
\* the claiming group ranks was heard within the safety window and its own
\* timeout, no source that group does not rank takes the path from it.  The code
\* asks the group of the source first.
ClaimedPathKeepsRanking ==
  [][\A r \in Refs, p \in Paths :
       LET i == IdentityOf[Canonicalise(r)]
           w == Identity(latest[p].source)
           ranking == GroupPrecedences(pathToGroupId[p])
       IN  /\ Publish(r, p) /\ ~Bypasses(p) /\ ~Passthrough
           /\ ~HasOverride(p) /\ pathToGroupId[p] # 0
           /\ i \notin DOMAIN ranking /\ Enabled(ranking, w)
           /\ heard[p][w] <= WaitOf(ranking, w, i)
           => latest'[p].source = latest[p].source]_vars

\* "Data from a source that is not listed in the priority table for a path is
\* held back until every listed source has been silent for a safety window".
UnlistedWaitsForAllListed ==
  [][\A p \in Paths :
       /\ UNCHANGED config
       /\ latest'[p] # latest[p]
       /\ latest'[p].age = 0
       /\ RankingOf(p) # NoRanking
       /\ ~IsKnown(RankingOf(p), latest'[p].source)
       => \A i \in DOMAIN RankingOf(p) :
            Enabled(RankingOf(p), i) => heard[p][i] > UnknownSourceTimeout]_vars
=============================================================================
