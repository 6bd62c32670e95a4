--------------------------- MODULE StalenessProofs --------------------------
(***************************************************************************)
(* Theorems about Staleness and PreferredSources: the delta cache, the     *)
(* priority engine and the staleness enforcer together, for any paths,     *)
(* references, settings and timeouts.                                      *)
(***************************************************************************)
EXTENDS Staleness, SourcePriorityProofs

-----------------------------------------------------------------------------
(* The steps, by what they do to the engine and to the cache.              *)

LEMMA IngestStep ==
  ASSUME StaleTypeOK, NEW r \in Refs, NEW p \in Paths,
         NEW cachedValue \in {"number", "null"}, NEW sentValue \in {"number", "null", "timedOut"},
         Ingest(r, p, cachedValue, sentValue)
  PROVE  /\ TypeOK' /\ PreferredTypeOK'
         /\ DOMAIN leafValue' = Paths
         /\ \A q \in Paths : leafValue'[q] \in [cached'[q] -> {"number", "null"}]
         /\ shown' \in [Paths -> Shown]
<1>1. TypeOK'
  <2>1. Publish(r, p)
    BY DEF Ingest
  <2>2. Next
    BY <2>1 DEF Next
  <2> QED BY <2>2, TypeStep DEF StaleTypeOK
<1>2. PreferredTypeOK'
  <2>1. Canonicalise(r) \in Refs
    BY Canonical
  <2> QED BY <2>1 DEF Ingest, NotePreferred, NotedOnValue, NotedAtIngest, StaleTypeOK,
                      PreferredTypeOK
<1>3. cached' = [cached EXCEPT ![p] = @ \cup {r}] /\ cached \in [Paths -> SUBSET Refs]
  BY DEF Ingest, Publish, StaleTypeOK, TypeOK
<1>4. leafValue' = [leafValue EXCEPT ![p] = WithEntry(@, r, cachedValue)]
      /\ DOMAIN leafValue = Paths
      /\ \A q \in Paths : leafValue[q] \in [cached[q] -> {"number", "null"}]
  BY DEF Ingest, StaleTypeOK
<1>5. \A q \in Paths : leafValue'[q] \in [cached'[q] -> {"number", "null"}]
  BY <1>3, <1>4 DEF WithEntry
<1>6. shown' \in [Paths -> Shown]
  BY DEF Ingest, StaleTypeOK, Shown
<1> QED BY <1>1, <1>2, <1>4, <1>5, <1>6

LEMMA RepreferredType ==
  ASSUME PreferredTypeOK, NEW preferred \in [Paths -> Refs \cup {NoSource}],
         Repreferred(preferred)
  PROVE  PreferredTypeOK'
BY DEF PreferredTypeOK, Repreferred

LEMMA PreferOthersStep ==
  ASSUME NEW r \in Refs, PreferOthers(r)
  PROVE  \E preferred \in [Paths -> Refs \cup {NoSource}] : Repreferred(preferred)
<1>1. {NoSource} \cup {Canonicalise(q) : q \in Refs} \subseteq Refs \cup {NoSource}
  BY Canonical
<1>2. PICK preferred \in [Paths -> {NoSource} \cup {Canonicalise(q) : q \in Refs}] :
        Repreferred(preferred)
  BY DEF PreferOthers
<1> QED BY <1>1, <1>2

LEMMA DropUnroutedStep ==
  ASSUME PreferredTypeOK, DropUnrouted
  PROVE  \E preferred \in [Paths -> Refs \cup {NoSource}] : Repreferred(preferred)
BY DEF DropUnrouted, PreferredTypeOK

LEMMA StaleTypeInit == StaleInit => StaleTypeOK
<1> SUFFICES ASSUME StaleInit PROVE StaleTypeOK
  OBVIOUS
<1>1. TypeOK
  BY TypeInit DEF StaleInit
<1>2. PreferredTypeOK
  BY DEF StaleInit, PreferredInit, PreferredTypeOK, NoPreferences
<1>3. shown \in [Paths -> Shown]
  BY DEF StaleInit, NothingShown, Shown
<1>4. \A p \in Paths : cached[p] = {}
  BY DEF StaleInit, Init
<1> QED BY <1>1, <1>2, <1>3, <1>4 DEF StaleInit, StaleTypeOK

LEMMA StaleTypeStep == StaleTypeOK /\ [StaleNext]_allVars => StaleTypeOK'
<1> SUFFICES ASSUME StaleTypeOK, [StaleNext]_allVars PROVE StaleTypeOK'
  OBVIOUS
<1> TypeOK /\ PreferredTypeOK
  BY DEF StaleTypeOK
<1> MaxAge \in Nat
  BY ConstantsAssumption
<1>1. ASSUME NEW r \in Refs, NEW p \in Paths, NEW value \in {"number", "null"},
             Measure(r, p, value)
      PROVE  StaleTypeOK'
  <2>1. Ingest(r, p, value, value)
    BY <1>1 DEF Measure
  <2>2. cached' = [cached EXCEPT ![p] = @ \cup {r}] /\ cached \in [Paths -> SUBSET Refs]
    BY <2>1 DEF Ingest, Publish, TypeOK
  <2>3. silence' = [silence EXCEPT ![p] = WithEntry(@, r, 0)] /\ DOMAIN silence = Paths
        /\ \A q \in Paths : silence[q] \in [cached[q] -> Ages]
    BY <1>1 DEF Measure, StaleTypeOK
  <2>4. \A q \in Paths : silence'[q] \in [cached'[q] -> Ages]
    <3>1. 0 \in Ages
      BY DEF Ages
    <3> QED BY <2>2, <2>3, <3>1 DEF WithEntry
  <2>5. timedOut' \subseteq Paths \X Refs
    BY <1>1 DEF Measure, OnIncoming, StaleTypeOK
  <2> QED BY <2>1, <2>3, <2>4, <2>5, IngestStep DEF StaleTypeOK
<1>2. ASSUME NEW r \in Refs, NEW p \in Paths, Sweep(r, p) PROVE StaleTypeOK'
  <2>1. Ingest(r, p, "null", "timedOut")
    BY <1>2 DEF Sweep
  <2>2. cached' = cached
    BY <1>2, <2>1 DEF Sweep, Ingest, Publish, TypeOK
  <2>3. silence' = silence /\ timedOut' \subseteq Paths \X Refs
    BY <1>2 DEF Sweep, StaleTypeOK
  <2> QED BY <2>1, <2>2, <2>3, IngestStep DEF StaleTypeOK
<1>3. ASSUME NEW r \in Refs, RemoveSource(r) PROVE StaleTypeOK'
  <2>1. PreferredTypeOK'
    BY <1>3, PreferOthersStep, RepreferredType DEF RemoveSource
  <2>2. cached' = [p \in Paths |-> cached[p] \ {r}] /\ cached \in [Paths -> SUBSET Refs]
    BY <1>3 DEF RemoveSource, ForgetSource, TypeOK
  <2>3. TypeOK'
    BY <1>3, <2>2 DEF RemoveSource, ForgetSource, TypeOK
  <2>4. \A p \in Paths : leafValue[p] \in [cached[p] -> {"number", "null"}]
                         /\ silence[p] \in [cached[p] -> Ages]
    BY DEF StaleTypeOK
  <2>5. \A p \in Paths : /\ leafValue'[p] \in [cached'[p] -> {"number", "null"}]
                         /\ silence'[p] \in [cached'[p] -> Ages]
    BY <1>3, <2>2, <2>4 DEF RemoveSource, Restrict
  <2>6. shown' \in [Paths -> Shown]
    BY <1>3 DEF RemoveSource, NothingShown, Shown, StaleTypeOK
  <2>7. DOMAIN leafValue' = Paths /\ DOMAIN silence' = Paths /\ timedOut' = timedOut
    BY <1>3 DEF RemoveSource
  <2> QED BY <2>1, <2>3, <2>5, <2>6, <2>7 DEF StaleTypeOK
<1>4. ASSUME NEW c \in Configs, ActivateSourcePriorities(c), DropUnrouted, UNCHANGED staleVars
      PROVE  StaleTypeOK'
  <2>1. Next
    BY <1>4 DEF Next
  <2>2. PreferredTypeOK'
    BY <1>4, DropUnroutedStep, RepreferredType
  <2>3. UNCHANGED <<cached, leafValue, silence, timedOut, shown>>
    BY <1>4 DEF ActivateSourcePriorities, staleVars
  <2> QED BY <2>1, <2>2, <2>3, TypeStep DEF StaleTypeOK
<1>5. CASE (EmitLivePreferred \/ LoadLivePreferred) /\ UNCHANGED <<vars, staleVars>>
  <2>1. PreferredTypeOK'
    BY <1>5 DEF EmitLivePreferred, LoadLivePreferred, PreferredTypeOK
  <2>2. TypeOK'
    BY <1>5, TypeStep
  <2> QED BY <1>5, <2>1, <2>2 DEF StaleTypeOK, vars, staleVars
<1>6. CASE TimePasses
  <2>1. TypeOK'
    BY <1>6, TypeStep DEF TimePasses, Next
  <2>2. PreferredTypeOK'
    BY <1>6 DEF TimePasses, preferredVars, PreferredTypeOK
  <2>3. \A age \in Ages : Older(age) \in Ages
    BY DEF Ages, Older
  <2>4. cached' = cached /\ silence' = [p \in Paths |-> [r \in cached[p] |-> Older(silence[p][r])]]
        /\ \A p \in Paths : silence[p] \in [cached[p] -> Ages]
    BY <1>6 DEF TimePasses, Tick, StaleTypeOK
  <2>5. DOMAIN silence' = Paths /\ \A p \in Paths : silence'[p] \in [cached'[p] -> Ages]
    BY <2>3, <2>4
  <2> QED BY <1>6, <2>1, <2>2, <2>4, <2>5 DEF TimePasses, StaleTypeOK
<1>7. CASE UNCHANGED allVars
  <2>1. TypeOK'
    BY <1>7, TypeStep DEF allVars
  <2> QED BY <1>7, <2>1 DEF allVars, vars, preferredVars, staleVars, PreferredTypeOK, StaleTypeOK
<1> QED BY <1>1, <1>2, <1>3, <1>4, <1>5, <1>6, <1>7 DEF StaleNext

\* Every state of the cache, the marks and what a subscriber is shown has its
\* type, through every sweep, recovery, removal of a source and change of the
\* settings.
THEOREM StalenessTypeCorrect == StaleSpec => []StaleTypeOK
BY StaleTypeInit, StaleTypeStep, PTL DEF StaleSpec

-----------------------------------------------------------------------------
LEMMA NotingKeepsWinners ==
  ASSUME PreferredTypeOK, NoStaleWinner, NEW r \in Refs, NEW p \in Paths, NotePreferred(r, p)
  PROVE  NoStaleWinner'
<1> DEFINE noted == IF Dispatched(r, p) THEN NotedOnValue(r, p) ELSE NotedAtIngest(r, p)
<1>1. preferredSources' = [preferredSources EXCEPT ![p] = noted]
      /\ livePreferredDirtyPaths' =
           livePreferredDirtyPaths \cup (IF noted # NotedAtIngest(r, p) THEN {p} ELSE {})
      /\ livePreferredSources' = livePreferredSources
  BY DEF NotePreferred
<1> HIDE DEF noted
<1> SUFFICES ASSUME NEW q \in Paths \ livePreferredDirtyPaths'
             PROVE  livePreferredSources'[q] \in {NoSource, preferredSources'[q]}
  BY DEF NoStaleWinner
<1>2. livePreferredSources[q] \in {NoSource, preferredSources[q]}
  BY <1>1 DEF NoStaleWinner
<1>3. CASE q # p
  BY <1>1, <1>2, <1>3 DEF PreferredTypeOK
<1>4. CASE q = p
  <2>1. preferredSources'[p] = NotedAtIngest(r, p)
    BY <1>1, <1>4 DEF PreferredTypeOK
  <2> QED BY <1>1, <1>2, <1>4, <2>1 DEF NotedAtIngest
<1> QED BY <1>3, <1>4

LEMMA RepreferringKeepsWinners ==
  ASSUME NoStaleWinner, NEW preferred \in [Paths -> Refs \cup {NoSource}],
         Repreferred(preferred)
  PROVE  NoStaleWinner'
BY DEF Repreferred, NoStaleWinner

LEMMA WinnersStep == StaleTypeOK /\ NoStaleWinner /\ [StaleNext]_allVars => NoStaleWinner'
<1> SUFFICES ASSUME StaleTypeOK, NoStaleWinner, [StaleNext]_allVars PROVE NoStaleWinner'
  OBVIOUS
<1> PreferredTypeOK
  BY DEF StaleTypeOK
<1>1. ASSUME NEW r \in Refs, NEW p \in Paths, NEW value \in {"number", "null"},
             Measure(r, p, value) \/ Sweep(r, p)
      PROVE  NoStaleWinner'
  BY <1>1, NotingKeepsWinners DEF Measure, Sweep, Ingest
<1>2. ASSUME NEW r \in Refs, RemoveSource(r) PROVE NoStaleWinner'
  BY <1>2, PreferOthersStep, RepreferringKeepsWinners DEF RemoveSource
<1>3. CASE DropUnrouted
  BY <1>3, DropUnroutedStep, RepreferringKeepsWinners
<1>4. CASE EmitLivePreferred \/ LoadLivePreferred
  BY <1>4 DEF EmitLivePreferred, LoadLivePreferred, NoStaleWinner
<1>5. CASE TimePasses
  BY <1>5 DEF TimePasses, preferredVars, NoStaleWinner
<1>6. CASE UNCHANGED allVars
  BY <1>6 DEF allVars, preferredVars, NoStaleWinner
<1> QED BY <1>1, <1>2, <1>3, <1>4, <1>5, <1>6 DEF StaleNext

\* The admin UI never keeps a winner that was dropped or replaced without the
\* path being marked for the next message of the feed (onValue, removeSource,
\* setRoutesPathPredicate and the feed's timer).
THEOREM NoWinnerIsStale == StaleSpec => []NoStaleWinner
<1>1. StaleInit => NoStaleWinner
  BY DEF StaleInit, PreferredInit, NoPreferences, NoStaleWinner
<1> QED BY <1>1, StaleTypeInit, StaleTypeStep, WinnersStep, PTL DEF StaleSpec

-----------------------------------------------------------------------------
(* BlankAfterFailover.  Any timeout of a ranking is below MaxAge, so the   *)
(* longest of them exists.                                                 *)

Bounded(ranking) ==
  \A i \in DOMAIN ranking : ranking[i].timeout \in Int /\ ranking[i].timeout < MaxAge

\* Every timeout of an override's ranking is that of one of its entries.
LEMMA OverrideTimeouts ==
  ASSUME TypeOK, NEW p \in Paths, NEW j \in DOMAIN OverridePrecedences(p)
  PROVE  \E n \in DOMAIN config.overrides[p] :
           /\ OverridePrecedences(p)[j].timeout = config.overrides[p][n].timeout
           /\ config.overrides[p][n].timeout \in Int
<1> DEFINE entries == config.overrides[p]
           refs == [n \in DOMAIN entries |-> entries[n].sourceRef]
<1>1. entries \in Seq([sourceRef : Refs, timeout : Int])
  BY ConfigParts
<1> SUFFICES \E n \in DOMAIN entries :
               /\ OverridePrecedences(p)[j].timeout = entries[n].timeout
               /\ entries[n].timeout \in Int
  OBVIOUS
<1> HIDE DEF entries
<1>2. Len(entries) \in Nat /\ DOMAIN entries = 1..Len(entries)
  BY <1>1
<1>3. \A n \in 1..Len(entries) : entries[n] \in [sourceRef : Refs, timeout : Int]
  BY <1>1, ElementOfSeq
<1>4. refs \in Seq(Refs) /\ Len(refs) = Len(entries) /\ DOMAIN refs = DOMAIN entries
  <2>1. refs \in [1..Len(entries) -> Refs]
    BY <1>2, <1>3
  <2>2. refs \in Seq(Refs)
    BY <1>2, <2>1, SeqDef
  <2> QED BY <1>2, <2>1, <2>2
<1>5. \A i \in OverrideIdentities(p) : \E n \in DOMAIN refs : IdentityOf[refs[n]] = i
  BY <1>4 DEF entries, OverrideIdentities, Range
<1>6. OverridePrecedences(p) =
        [i \in OverrideIdentities(p) |->
          [precedence |-> RankIn(refs, i) - 1, timeout |-> entries[RankIn(refs, i)].timeout]]
  BY DEF entries, OverridePrecedences
<1> HIDE DEF refs
<1>7. \A i \in OverrideIdentities(p) : RankIn(refs, i) \in 1..Len(entries)
  BY <1>4, <1>5, RankInList
<1>8. j \in OverrideIdentities(p)
      /\ OverridePrecedences(p)[j].timeout = entries[RankIn(refs, j)].timeout
  BY <1>6
<1>9. RankIn(refs, j) \in DOMAIN entries /\ entries[RankIn(refs, j)].timeout \in Int
  BY <1>2, <1>3, <1>7, <1>8
<1> QED BY <1>8, <1>9

LEMMA OverrideIsBounded ==
  ASSUME TypeOK, NEW p \in Paths
  PROVE  Bounded(OverridePrecedences(p))
<1>1. \A n \in DOMAIN config.overrides[p] : config.overrides[p][n].timeout < MaxAge
  BY ConstantsAssumption DEF TypeOK
<1> QED BY <1>1, OverrideTimeouts DEF Bounded

LEMMA GroupIsBounded == ASSUME NEW g PROVE Bounded(GroupPrecedences(g))
BY ConstantsAssumption DEF Bounded, GroupPrecedences

LEMMA RankingIsBounded ==
  ASSUME TypeOK, NEW p \in Paths
  PROVE  Bounded(RankingOf(p)) /\ \A i : Bounded(ResolvePrecedences(p, i))
BY OverrideIsBounded, GroupIsBounded DEF RankingOf, ResolvePrecedences, NoRanking, Bounded

LEMMA LongestExists ==
  ASSUME NEW T \in SUBSET Int, 0 \in T, \A t \in T : t < MaxAge
  PROVE  Max(T) \in T /\ \A t \in T : t <= Max(T)
<1> DEFINE D == {d \in Nat : \E t \in T : d = MaxAge - t}
<1>1. MaxAge \in Nat
  BY ConstantsAssumption
<1>2. D \in SUBSET Nat /\ D # {}
  <2>1. MaxAge - 0 \in D
    BY <1>1
  <2> QED BY <2>1
<1>3. PICK least \in D : \A d \in D : least <= d
  <2> HIDE DEF D
  <2> QED BY <1>2, LeastExists
<1>4. PICK longest \in T : least = MaxAge - longest
  OBVIOUS
<1>5. \A t \in T : MaxAge - t \in D
  BY <1>1
<1>6. \A t \in T : longest >= t
  BY <1>1, <1>3, <1>4, <1>5
<1> QED BY <1>6 DEF Max

LEMMA FloorCovers ==
  ASSUME TypeOK, NEW p \in Paths, NEW i \in DOMAIN RankingOf(p)
  PROVE  RankingOf(p)[i].timeout <= FailoverFloor(p) /\ FailoverFloor(p) \in Int
<1> DEFINE ranking == RankingOf(p)
           timeouts == {0} \cup {ranking[j].timeout : j \in DOMAIN ranking}
<1>1. FailoverFloor(p) = Max(timeouts)
  BY DEF FailoverFloor, RankingOf
<1>2. timeouts \in SUBSET Int /\ 0 \in timeouts /\ \A t \in timeouts : t < MaxAge
  BY RankingIsBounded, ConstantsAssumption DEF Bounded
<1>3. ranking[i].timeout \in timeouts
  OBVIOUS
<1> HIDE DEF timeouts, ranking
<1>4. ranking[i].timeout <= Max(timeouts) /\ Max(timeouts) \in Int
  BY <1>2, <1>3, LongestExists
<1> QED BY <1>1, <1>4 DEF ranking

\* The step of BlankAfterFailover.
BlankingStep ==
  \A r \in Refs, p \in Paths :
    /\ <<p, r>> \in timedOut' \ timedOut
    /\ IsKnown(RankingOf(p), r) /\ Canonicalise(r) = latest[p].source
    =>
      \A i \in publishers[p] \cap DOMAIN RankingOf(p) :
        silence[p][r] > RankingOf(p)[i].timeout

LEMMA BlankingWaits == StaleTypeOK /\ [StaleNext]_allVars => BlankingStep
<1> SUFFICES ASSUME StaleTypeOK, [StaleNext]_allVars, NEW r \in Refs, NEW p \in Paths,
                    <<p, r>> \in timedOut' \ timedOut, NEW i \in DOMAIN RankingOf(p)
             PROVE  silence[p][r] > RankingOf(p)[i].timeout
  BY DEF BlankingStep
<1>1. Sweep(r, p)
  <2>1. ASSUME NEW q \in Refs, NEW x \in Paths, NEW value \in {"number", "null"},
               Measure(q, x, value)
        PROVE  timedOut' \subseteq timedOut
    BY <2>1 DEF Measure, OnIncoming
  <2>2. ASSUME NEW q \in Refs, NEW x \in Paths, Sweep(q, x) PROVE timedOut' = timedOut \cup {<<x, q>>}
    BY <2>2 DEF Sweep
  <2>3. ASSUME NEW q \in Refs, RemoveSource(q) PROVE timedOut' = timedOut
    BY <2>3 DEF RemoveSource
  <2>4. CASE UNCHANGED staleVars \/ TimePasses \/ UNCHANGED allVars
    BY <2>4 DEF TimePasses, allVars, staleVars
  <2>5. PICK q \in Refs, x \in Paths : Sweep(q, x)
    BY <2>1, <2>3, <2>4 DEF StaleNext
  <2>6. x = p /\ q = r
    BY <2>2, <2>5
  <2> QED BY <2>5, <2>6
<1>2. r \in cached[p] /\ silence[p][r] > FailoverFloor(p)
  BY <1>1 DEF Sweep, IsStale, Exceeded
<1>3. silence[p][r] \in Ages
  BY <1>2 DEF StaleTypeOK
<1>4. TypeOK
  BY DEF StaleTypeOK
<1>5. RankingOf(p)[i].timeout <= FailoverFloor(p) /\ FailoverFloor(p) \in Int
      /\ RankingOf(p)[i].timeout \in Int
  BY <1>4, FloorCovers, RankingIsBounded DEF Bounded
<1> QED BY <1>2, <1>3, <1>5 DEF Ages

\* When the winner of a ranked path is blanked, every other source ranked for
\* the path and seen on it has had its turn to take over (the failover floor of
\* the sweep).
THEOREM BlankingWaitsForFailover == StaleSpec => BlankAfterFailover
<1>1. StaleTypeOK /\ [StaleNext]_allVars => [BlankingStep]_allVars
  BY BlankingWaits
<1>2. [BlankingStep]_allVars <=>
        [\A r \in Refs, p \in Paths :
           /\ <<p, r>> \in timedOut' \ timedOut
           /\ IsKnown(RankingOf(p), r) /\ Canonicalise(r) = latest[p].source
           =>
             \A i \in publishers[p] \cap DOMAIN RankingOf(p) :
               silence[p][r] > RankingOf(p)[i].timeout]_allVars
  BY DEF BlankingStep
<1> QED BY StalenessTypeCorrect, <1>1, <1>2, PTL DEF StaleSpec, BlankAfterFailover

-----------------------------------------------------------------------------
(* BlankMeansSilent.  A source is shown as timed out only while the engine *)
(* would let its next value through: it is the winner of the path, or the  *)
(* path has none.  That is so unless the settings disable it.              *)

NobodyDisabled ==
  \A c \in Configs, p \in Paths : \A n \in DOMAIN c.overrides[p] :
    c.overrides[p][n].timeout >= 0

\* What is claimed is claimed for a group that lists somebody.
ClaimsHaveSources ==
  \A p \in Paths : pathToGroupId[p] # 0 => GroupIdentities(pathToGroupId[p]) # {}

\* A path has a winner only if the engine ranks its sources.
WinnersAreRanked ==
  \A p \in Paths : latest[p].source # NoSource =>
    ~Passthrough /\ ~Bypasses(p) /\ RankingOf(p) # NoRanking

UnsetIsOld == \A p \in Paths : latest[p].source = NoSource => latest[p].age = MaxAge

\* There are no address claims in StaleSpec.
WinnersInv ==
  StaleTypeOK /\ claimed = {} /\ ClaimsHaveSources /\ WinnersAreRanked /\ UnsetIsOld

BlankIsWinner ==
  \A p \in Paths : shown[p].value = "timedOut" =>
    /\ shown[p].source \in cached[p]
    /\ silence[p][shown[p].source] > BaseTimeout[p]
    /\ latest[p].source \in {NoSource, shown[p].source}

LEMMA GroupIsProper ==
  ASSUME NEW g, GroupIdentities(g) # {}
  PROVE  GroupPrecedences(g) # NoRanking
<1>1. DOMAIN GroupPrecedences(g) = GroupIdentities(g) /\ DOMAIN NoRanking = {}
  BY DEF GroupPrecedences, NoRanking
<1> QED BY <1>1

LEMMA ResolvedIsProper ==
  ASSUME TypeOK, NEW p \in Paths, RankingOf(p) # NoRanking, NEW i
  PROVE  ResolvePrecedences(p, i) # NoRanking
<1>1. CASE HasOverride(p) \/ SourceToGroupId(i) = 0
  BY <1>1 DEF ResolvePrecedences, RankingOf
<1>2. CASE ~HasOverride(p) /\ SourceToGroupId(i) # 0
  BY <1>2, GroupOfSource, GroupIsProper DEF ResolvePrecedences
<1> QED BY <1>1, <1>2

LEMMA NothingClaimed ==
  ASSUME claimed = {}, NEW r \in Refs
  PROVE  Canonicalise(r) = r /\ Identity(r) = IdentityOf[r]
BY ConstantsAssumption DEF Canonicalise, Identity

\* What the engine does with a value, once it is known whether it lets it pass.
LEMMA PublishedLatest ==
  ASSUME claimed = {}, TypeOK, NEW r \in Refs, NEW p \in Paths, Publish(r, p)
  PROVE  LET ranking == ResolvePrecedences(p, IdentityOf[r])
         IN  IF Dispatched(r, p) /\ ~Passthrough /\ ~Bypasses(p) /\ ranking # NoRanking
             THEN latest' = [latest EXCEPT ![p] = [source |-> r, age |-> 0]]
             ELSE latest' = latest
<1>1. Canonicalise(r) = r
  BY NothingClaimed
<1> QED BY <1>1 DEF Publish, Dispatched

LEMMA PublishKeepsWinnersInv ==
  ASSUME WinnersInv, NEW r \in Refs, NEW p \in Paths, Publish(r, p)
  PROVE  claimed' = {} /\ ClaimsHaveSources' /\ WinnersAreRanked' /\ UnsetIsOld'
<1> TypeOK
  BY DEF WinnersInv, StaleTypeOK
<1> DEFINE ranking == ResolvePrecedences(p, IdentityOf[r])
<1>1. claimed' = {} /\ UNCHANGED config /\ Canonicalise(r) = r
  BY NothingClaimed DEF Publish, WinnersInv
<1>2. pathToGroupId' = pathToGroupId
      \/ /\ ~HasOverride(p) /\ pathToGroupId[p] = 0 /\ SourceToGroupId(IdentityOf[r]) # 0
         /\ pathToGroupId' = [pathToGroupId EXCEPT ![p] = SourceToGroupId(IdentityOf[r])]
  BY <1>1 DEF Publish, Claim
<1>3. ClaimsHaveSources'
  <2> SUFFICES ASSUME NEW q \in Paths, pathToGroupId'[q] # 0
               PROVE  GroupIdentities(pathToGroupId'[q]) # {}
    BY <1>1, SameConfig DEF ClaimsHaveSources
  <2>1. CASE pathToGroupId'[q] = pathToGroupId[q]
    BY <2>1 DEF WinnersInv, ClaimsHaveSources
  <2>2. CASE pathToGroupId'[q] # pathToGroupId[q]
    <3>1. pathToGroupId'[q] = SourceToGroupId(IdentityOf[r])
      BY <1>2, <2>2 DEF TypeOK
    <3> QED BY <3>1, GroupOfSource
  <2> QED BY <2>1, <2>2
<1>4. /\ latest' \in {latest, [latest EXCEPT ![p] = [source |-> r, age |-> 0]]}
      /\ latest' # latest => ~Passthrough /\ ~Bypasses(p) /\ ranking # NoRanking
  BY PublishedLatest DEF WinnersInv
<1>5. UnsetIsOld'
  <2>1. r # NoSource
    BY ConstantsAssumption
  <2>2. latest \in [Paths -> [source : Refs \cup {NoSource}, age : Ages]]
    BY DEF WinnersInv, StaleTypeOK, TypeOK
  <2> QED BY <1>4, <2>1, <2>2 DEF WinnersInv, UnsetIsOld
<1>6. Passthrough' = Passthrough /\ \A q \in Paths : Bypasses(q)' = Bypasses(q)
  BY <1>1 DEF Passthrough, Bypasses, ActiveGroups
<1>7. WinnersAreRanked'
  <2> SUFFICES ASSUME NEW q \in Paths, latest'[q].source # NoSource
               PROVE  ~Passthrough /\ ~Bypasses(q) /\ RankingOf(q)' # NoRanking
    BY <1>6 DEF WinnersAreRanked, NoRanking
  <2>1. CASE latest'[q] = latest[q]
    <3>1. ~Passthrough /\ ~Bypasses(q) /\ RankingOf(q) # NoRanking
      BY <2>1 DEF WinnersInv, WinnersAreRanked
    <3>2. CASE pathToGroupId'[q] = pathToGroupId[q]
      BY <1>1, <3>1, <3>2, SameRanking
    <3>3. CASE pathToGroupId'[q] # pathToGroupId[q]
      BY <1>2, <3>1, <3>3 DEF RankingOf, TypeOK
    <3> QED BY <3>1, <3>2, <3>3
  <2>2. CASE latest'[q] # latest[q]
    <3>1. q = p /\ ~Passthrough /\ ~Bypasses(p) /\ ranking # NoRanking
      BY <1>4, <2>2 DEF TypeOK
    <3>2. CASE HasOverride(p)
      BY <1>1, <3>1, <3>2, SameConfig DEF RankingOf, ResolvePrecedences
    <3>3. CASE ~HasOverride(p)
      <4>1. pathToGroupId'[p] # 0
        <5>1. CASE SourceToGroupId(IdentityOf[r]) = 0
          BY <1>2, <3>1, <3>3, <5>1 DEF ResolvePrecedences
        <5>2. CASE SourceToGroupId(IdentityOf[r]) # 0
          BY <1>1, <3>1, <3>3, <5>2 DEF Publish, Claim, TypeOK
        <5> QED BY <5>1, <5>2
      <4>2. GroupIdentities(pathToGroupId'[p]) # {}
        BY <1>1, <1>3, <4>1, SameConfig DEF ClaimsHaveSources
      <4> QED BY <1>1, <3>1, <3>3, <4>1, <4>2, GroupIsProper, SameConfig DEF RankingOf
    <3> QED BY <3>1, <3>2, <3>3
  <2> QED BY <2>1, <2>2
<1> QED BY <1>1, <1>3, <1>5, <1>7

LEMMA OverrideIsPatient ==
  ASSUME TypeOK, NobodyDisabled, NEW p \in Paths, NEW j \in DOMAIN OverridePrecedences(p)
  PROVE  OverridePrecedences(p)[j].timeout >= 0
<1>1. \A n \in DOMAIN config.overrides[p] : config.overrides[p][n].timeout >= 0
  BY DEF NobodyDisabled, TypeOK
<1> QED BY <1>1, OverrideTimeouts

\* No ranking disables or outwaits anybody.
LEMMA RankingIsPatient ==
  ASSUME TypeOK, NobodyDisabled, NEW p \in Paths, NEW i,
         NEW j \in DOMAIN ResolvePrecedences(p, i)
  PROVE  ResolvePrecedences(p, i)[j].timeout \in 0..(MaxAge - 1)
<1>1. Bounded(ResolvePrecedences(p, i))
  BY RankingIsBounded
<1>2. \A g : \A k \in DOMAIN GroupPrecedences(g) : GroupPrecedences(g)[k].timeout >= 0
  BY ConstantsAssumption DEF GroupPrecedences
<1>3. \A k \in DOMAIN OverridePrecedences(p) : OverridePrecedences(p)[k].timeout >= 0
  BY OverrideIsPatient
<1>4. ResolvePrecedences(p, i)[j].timeout >= 0
  BY <1>2, <1>3 DEF ResolvePrecedences, NoRanking
<1> QED BY <1>1, <1>4, ConstantsAssumption DEF Bounded

\* The winner of a path, or anybody while it has none, is let through.
LEMMA WinnerIsDispatched ==
  ASSUME WinnersInv, NobodyDisabled, NEW r \in Refs, NEW p \in Paths,
         latest[p].source \in {NoSource, r}
  PROVE  Dispatched(r, p)
<1> DEFINE ranking == ResolvePrecedences(p, IdentityOf[r])
<1>1. Canonicalise(r) = r /\ TypeOK
  BY NothingClaimed DEF WinnersInv, StaleTypeOK
<1>2. \A j \in DOMAIN ranking : ranking[j].timeout \in 0..(MaxAge - 1)
  BY <1>1, RankingIsPatient DEF WinnersInv
<1> SUFFICES IsPreferredValue(ranking, latest[p], r)
  BY <1>1 DEF Dispatched
<1> HIDE DEF ranking
<1>3. \A source : /\ GetPrecedence(ranking, source, Highest).timeout \in 0..(MaxAge - 1)
                  /\ GetPrecedence(ranking, source, Lowest).timeout \in 0..(MaxAge - 1)
  BY <1>2, ConstantsAssumption DEF GetPrecedence, IsKnown, Highest, Lowest
<1>4. CASE latest[p].source = r
  BY <1>3, <1>4 DEF IsPreferredValue
<1>5. CASE latest[p].source = NoSource
  <2>1. latest[p].age = MaxAge
    BY <1>5 DEF WinnersInv, UnsetIsOld
  <2>2. HoldTimeout(ranking, latest[p].source, r) \in 0..(MaxAge - 1)
    BY <1>3 DEF HoldTimeout
  <2>3. latest[p].age > HoldTimeout(ranking, latest[p].source, r)
    BY <2>1, <2>2, ConstantsAssumption
  <2> QED BY <1>3, <2>3 DEF IsPreferredValue
<1> QED BY <1>4, <1>5

LEMMA WinnersStay ==
  ASSUME WinnersInv, UNCHANGED <<config, pathToGroupId>>,
         \A p \in Paths : latest'[p].source = latest[p].source
  PROVE  ClaimsHaveSources' /\ WinnersAreRanked'
<1>1. Passthrough' = Passthrough /\ \A p \in Paths : Bypasses(p)' = Bypasses(p)
  BY DEF Passthrough, Bypasses, ActiveGroups
<1>2. \A p \in Paths : RankingOf(p)' = RankingOf(p)
  BY SameRanking
<1>3. ClaimsHaveSources'
  BY SameConfig DEF WinnersInv, ClaimsHaveSources
<1> QED BY <1>1, <1>2, <1>3 DEF WinnersInv, WinnersAreRanked, NoRanking

LEMMA WinnersInvStep == WinnersInv /\ [StaleNext]_allVars => WinnersInv'
<1> SUFFICES ASSUME WinnersInv, [StaleNext]_allVars PROVE WinnersInv'
  OBVIOUS
<1>1. StaleTypeOK'
  BY StaleTypeStep DEF WinnersInv
<1>2. ASSUME NEW r \in Refs, NEW p \in Paths, Publish(r, p) PROVE WinnersInv'
  BY <1>1, <1>2, PublishKeepsWinnersInv DEF WinnersInv
<1>3. ASSUME NEW c \in Configs, ActivateSourcePriorities(c) PROVE WinnersInv'
  <2>1. claimed' = {} /\ \A p \in Paths : latest'[p].source = NoSource /\ latest'[p].age = MaxAge
    BY <1>3 DEF ActivateSourcePriorities, Unset, WinnersInv
  <2>2. ClaimsHaveSources'
    <3> SUFFICES ASSUME NEW p \in Paths, pathToGroupId'[p] # 0
                 PROVE  GroupIdentities(pathToGroupId[p])' # {}
      BY DEF ClaimsHaveSources
    <3>1. pathToGroupId'[p] \in {SourceToGroupId(i)' : i \in publishers'[p]} \ {0}
      BY <1>3 DEF ActivateSourcePriorities, SeedClaims
    <3>2. PICK i \in publishers'[p] : pathToGroupId'[p] = SourceToGroupId(i)'
      BY <3>1
    <3>3. i \in GroupIdentities(SourceToGroupId(i))'
      BY <1>1, <3>1, <3>2, GroupsOfNextState DEF GroupsAreActive, StaleTypeOK
    <3> QED BY <3>2, <3>3 DEF GroupIdentities
  <2> QED BY <1>1, <2>1, <2>2 DEF WinnersInv, WinnersAreRanked, UnsetIsOld
<1>4. CASE TimePasses
  <2>1. UNCHANGED <<config, claimed, pathToGroupId>>
    BY <1>4 DEF TimePasses, Tick
  <2>2. \A p \in Paths : /\ latest'[p].source = latest[p].source
                         /\ latest'[p].age = Older(latest[p].age)
    BY <1>4 DEF TimePasses, Tick, WinnersInv, StaleTypeOK, TypeOK
  <2>3. UnsetIsOld'
    BY <2>2, ConstantsAssumption DEF WinnersInv, UnsetIsOld, Older
  <2> QED BY <1>1, <2>1, <2>2, <2>3, WinnersStay DEF WinnersInv
<1>5. CASE UNCHANGED <<config, claimed, latest, pathToGroupId>>
  BY <1>1, <1>5, WinnersStay DEF WinnersInv, UnsetIsOld
<1>6. CASE StaleNext
  BY <1>2, <1>3, <1>4, <1>5, <1>6
     DEF StaleNext, Measure, Sweep, Ingest, RemoveSource, ForgetSource, vars
<1>7. CASE UNCHANGED allVars
  BY <1>5, <1>7 DEF allVars, vars
<1> QED BY <1>6, <1>7

\* What a value of r does to the other paths, and to the winner of its own.
LEMMA IngestKeepsBlanks ==
  ASSUME WinnersInv, BlankIsWinner, NEW r \in Refs, NEW p \in Paths,
         NEW cachedValue, NEW sentValue, Ingest(r, p, cachedValue, sentValue),
         NEW q \in Paths, shown'[q].value = "timedOut"
  PROVE  /\ latest'[q].source \in {NoSource, shown'[q].source}
         /\ shown'[q].source \in cached'[q]
         /\ IF q = p /\ Dispatched(r, p)
            THEN shown'[q].source = r /\ sentValue = "timedOut"
            ELSE shown'[q] = shown[q]
<1>1. claimed = {} /\ TypeOK /\ Publish(r, p) /\ shown \in [Paths -> Shown]
  BY DEF WinnersInv, StaleTypeOK, Ingest
<1>2. cached' = [cached EXCEPT ![p] = @ \cup {r}] /\ cached \in [Paths -> SUBSET Refs]
  BY <1>1 DEF Publish, TypeOK
<1>3. CASE q = p /\ Dispatched(r, p)
  <2>1. shown'[q] = [source |-> r, value |-> sentValue]
    BY <1>1, <1>3 DEF Ingest
  <2>2. latest'[p].source \in {NoSource, r}
    <3>1. CASE Passthrough \/ Bypasses(p) \/ ResolvePrecedences(p, IdentityOf[r]) = NoRanking
      <4>1. latest' = latest
        BY <1>1, <3>1, PublishedLatest
      <4>2. latest[p].source = NoSource
        BY <1>1, <3>1, ResolvedIsProper DEF WinnersInv, WinnersAreRanked
      <4> QED BY <4>1, <4>2
    <3>2. CASE ~(Passthrough \/ Bypasses(p) \/ ResolvePrecedences(p, IdentityOf[r]) = NoRanking)
      <4>1. latest' = [latest EXCEPT ![p] = [source |-> r, age |-> 0]]
        BY <1>1, <1>3, <3>2, PublishedLatest
      <4> QED BY <1>1, <4>1 DEF TypeOK
    <3> QED BY <3>1, <3>2
  <2> QED BY <1>2, <1>3, <2>1, <2>2
<1>4. CASE ~(q = p /\ Dispatched(r, p))
  <2>1. shown'[q] = shown[q]
    BY <1>1, <1>4 DEF Ingest
  <2>2. latest'[q] = latest[q]
    BY <1>1, <1>4, PublishedLatest DEF TypeOK
  <2> QED BY <1>2, <1>4, <2>1, <2>2 DEF BlankIsWinner
<1> QED BY <1>3, <1>4

LEMMA BlankStep ==
  WinnersInv /\ NobodyDisabled /\ BlankIsWinner /\ [StaleNext]_allVars => BlankIsWinner'
<1> SUFFICES ASSUME WinnersInv, NobodyDisabled, BlankIsWinner, [StaleNext]_allVars,
                    NEW q \in Paths, shown'[q].value = "timedOut"
             PROVE  /\ shown'[q].source \in cached'[q]
                    /\ silence'[q][shown'[q].source] > BaseTimeout[q]
                    /\ latest'[q].source \in {NoSource, shown'[q].source}
  BY DEF BlankIsWinner
<1>1. StaleTypeOK /\ TypeOK /\ DOMAIN silence = Paths /\ BaseTimeout[q] \in 0..(MaxAge - 1)
      /\ MaxAge \in Nat /\ silence[q] \in [cached[q] -> Ages]
  BY StalenessAssumption, ConstantsAssumption DEF WinnersInv, StaleTypeOK
<1>2. shown[q].value = "timedOut" =>
        /\ shown[q].source \in cached[q]
        /\ silence[q][shown[q].source] > BaseTimeout[q]
        /\ latest[q].source \in {NoSource, shown[q].source}
  BY DEF BlankIsWinner
<1>3. ASSUME NEW r \in Refs, NEW p \in Paths, NEW value \in {"number", "null"},
             Measure(r, p, value)
      PROVE  /\ shown'[q].source \in cached'[q]
             /\ silence'[q][shown'[q].source] > BaseTimeout[q]
             /\ latest'[q].source \in {NoSource, shown'[q].source}
  <2>1. Ingest(r, p, value, value) /\ value # "timedOut"
    BY <1>3 DEF Measure
  <2>2. ~(q = p /\ Dispatched(r, p)) /\ shown'[q] = shown[q]
    BY <2>1, IngestKeepsBlanks
  <2>3. ~(q = p /\ shown[q].source = r)
    BY <1>2, <2>2, WinnerIsDispatched
  <2>4. silence'[q][shown[q].source] = silence[q][shown[q].source]
    BY <1>1, <1>2, <1>3, <2>2, <2>3 DEF Measure, WithEntry
  <2> QED BY <1>2, <2>1, <2>2, <2>4, IngestKeepsBlanks
<1>4. ASSUME NEW r \in Refs, NEW p \in Paths, Sweep(r, p)
      PROVE  /\ shown'[q].source \in cached'[q]
             /\ silence'[q][shown'[q].source] > BaseTimeout[q]
             /\ latest'[q].source \in {NoSource, shown'[q].source}
  <2>1. Ingest(r, p, "null", "timedOut") /\ silence' = silence
        /\ silence[p][r] > BaseTimeout[p]
    BY <1>4 DEF Sweep, IsStale, Exceeded
  <2>2. silence[q][shown'[q].source] > BaseTimeout[q]
    BY <1>2, <2>1, IngestKeepsBlanks
  <2> QED BY <2>1, <2>2, IngestKeepsBlanks
<1>5. ASSUME NEW r \in Refs, RemoveSource(r)
      PROVE  /\ shown'[q].source \in cached'[q]
             /\ silence'[q][shown'[q].source] > BaseTimeout[q]
             /\ latest'[q].source \in {NoSource, shown'[q].source}
  <2>1. shown[q].source # r /\ shown'[q] = shown[q]
    BY <1>5, StalenessAssumption DEF RemoveSource, NothingShown
  <2>2. silence'[q][shown[q].source] = silence[q][shown[q].source]
        /\ shown[q].source \in cached'[q] /\ latest' = latest
    BY <1>2, <1>5, <2>1 DEF RemoveSource, ForgetSource, Restrict
  <2> QED BY <1>2, <2>1, <2>2
<1>6. ASSUME NEW c \in Configs, ActivateSourcePriorities(c), UNCHANGED staleVars
      PROVE  /\ shown'[q].source \in cached'[q]
             /\ silence'[q][shown'[q].source] > BaseTimeout[q]
             /\ latest'[q].source \in {NoSource, shown'[q].source}
  BY <1>2, <1>6 DEF ActivateSourcePriorities, Unset, staleVars
<1>7. CASE TimePasses
  <2>1. shown' = shown /\ cached' = cached
    BY <1>7 DEF TimePasses, Tick
  <2>2. latest'[q].source = latest[q].source
    BY <1>1, <1>7 DEF TimePasses, Tick, TypeOK
  <2>3. silence'[q][shown[q].source] = Older(silence[q][shown[q].source])
    BY <1>2, <1>7, <2>1 DEF TimePasses
  <2>4. silence[q][shown[q].source] \in Ages
    BY <1>1, <1>2, <2>1
  <2> QED BY <1>1, <1>2, <2>1, <2>2, <2>3, <2>4 DEF Older, Ages
<1>8. CASE UNCHANGED <<vars, staleVars>>
  BY <1>2, <1>8 DEF vars, staleVars
<1> QED BY <1>3, <1>4, <1>5, <1>6, <1>7, <1>8 DEF StaleNext, allVars

\* Unless the settings disable a source, a path is shown as timed out only
\* while the source in whose name it was blanked is silent: its next value is
\* let through and replaces the blank (sweep, engine and cache together).
THEOREM BlankedSourcesAreSilent ==
  ASSUME NobodyDisabled
  PROVE  StaleSpec => []BlankMeansSilent
<1>1. StaleInit => WinnersInv /\ BlankIsWinner
  <2> SUFFICES ASSUME StaleInit PROVE WinnersInv /\ BlankIsWinner
    OBVIOUS
  <2>1. claimed = {} /\ \A p \in Paths : /\ latest[p] = Unset /\ pathToGroupId[p] = 0
                                         /\ shown[p] = NothingShown
    BY DEF StaleInit, Init
  <2> QED BY <2>1, StaleTypeInit, StalenessAssumption
          DEF WinnersInv, ClaimsHaveSources, WinnersAreRanked, UnsetIsOld, Unset,
              BlankIsWinner, NothingShown
<1>2. WinnersInv /\ BlankIsWinner /\ [StaleNext]_allVars => (WinnersInv /\ BlankIsWinner)'
  BY WinnersInvStep, BlankStep
<1>3. BlankIsWinner => BlankMeansSilent
  BY DEF BlankIsWinner, BlankMeansSilent
<1> QED BY <1>1, <1>2, <1>3, PTL DEF StaleSpec

-----------------------------------------------------------------------------
(* The enforcer and the feeds only ever use the engine: each of their steps *)
(* is a step of SourcePriority or leaves it alone, so that whatever holds   *)
(* of the engine holds of it in StaleSpec, where the nulls of a sweep pass  *)
(* for values of the silent source.                                         *)

LEMMA EngineSteps == [StaleNext]_allVars => [Next]_vars
<1> SUFFICES ASSUME [StaleNext]_allVars PROVE [Next]_vars
  OBVIOUS
<1>1. ASSUME NEW r \in Refs, NEW p \in Paths, NEW cachedValue, NEW sentValue,
             Ingest(r, p, cachedValue, sentValue)
      PROVE  Next
  BY <1>1 DEF Ingest, Next
<1>2. ASSUME NEW r \in Refs, RemoveSource(r) PROVE Next
  BY <1>2 DEF RemoveSource, Next
<1>3. ASSUME NEW c \in Configs, ActivateSourcePriorities(c) PROVE Next
  BY <1>3 DEF Next
<1>4. TimePasses => Next
  BY DEF TimePasses, Next
<1>5. CASE StaleNext
  BY <1>1, <1>2, <1>3, <1>4, <1>5 DEF StaleNext, Measure, Sweep
<1>6. CASE UNCHANGED allVars
  BY <1>6 DEF allVars
<1> QED BY <1>5, <1>6

\* The engine with the enforcer around it is still the engine: dispatchDelta
\* hands the enforcer's nulls to it like any other delta.
THEOREM StalenessUsesEngine == StaleSpec => Spec
<1>1. StaleInit => Init
  BY DEF StaleInit
<1> QED BY <1>1, EngineSteps, PTL DEF StaleSpec, Spec

\* So the enforcer cannot make the engine break its promises: the top-ranked
\* source holds its path, a ranked source displaces an unranked one, and a
\* fallback runs from the winner's last value.
THEOREM PrioritiesSurviveSweeps ==
  ASSUME RankedAreCanonical
  PROVE  StaleSpec =>
           []TopSourceHolds /\ RankedSourceDisplacesUnranked /\ FallbackRunsFromWinner
BY StalenessUsesEngine, TopSourceAlwaysWins, RankedSourcesDisplace, FallbackIsFromWinner, PTL

-----------------------------------------------------------------------------
(* DisplayCanExpire.  Whose number is on display is the winner of the path, *)
(* or the path has none: the values of that source are all let through, so  *)
(* that display, cache and marks follow it together.                        *)

NumberIsWinner ==
  \A p \in Paths : shown[p].value = "number" =>
    LET r == shown[p].source
    IN  /\ r \in cached[p] /\ leafValue[p][r] = "number" /\ <<p, r>> \notin timedOut
        /\ latest[p].source \in {NoSource, r}

\* The winner after a value of r that was let through is r, unless the engine
\* does not decide the path.
LEMMA DispatchedWins ==
  ASSUME WinnersInv, NEW r \in Refs, NEW p \in Paths, Publish(r, p), Dispatched(r, p)
  PROVE  latest'[p].source \in {NoSource, r}
<1>1. claimed = {} /\ TypeOK
  BY DEF WinnersInv, StaleTypeOK
<1>2. CASE Passthrough \/ Bypasses(p) \/ ResolvePrecedences(p, IdentityOf[r]) = NoRanking
  <2>1. latest' = latest
    BY <1>1, <1>2, PublishedLatest
  <2>2. latest[p].source = NoSource
    BY <1>1, <1>2, ResolvedIsProper DEF WinnersInv, WinnersAreRanked
  <2> QED BY <2>1, <2>2
<1>3. CASE ~(Passthrough \/ Bypasses(p) \/ ResolvePrecedences(p, IdentityOf[r]) = NoRanking)
  <2>1. latest' = [latest EXCEPT ![p] = [source |-> r, age |-> 0]]
    BY <1>1, <1>3, PublishedLatest
  <2> QED BY <1>1, <2>1 DEF TypeOK
<1> QED BY <1>2, <1>3

\* A value that is held back is of another source than the one on display, and
\* changes neither its entry in the cache nor who won the path.
LEMMA HeldBackIsAnother ==
  ASSUME WinnersInv, NobodyDisabled, NumberIsWinner, NEW r \in Refs, NEW p \in Paths,
         NEW cachedValue, NEW sentValue, Ingest(r, p, cachedValue, sentValue),
         NEW q \in Paths, ~(q = p /\ Dispatched(r, p)), shown[q].value = "number"
  PROVE  /\ ~(q = p /\ shown[q].source = r)
         /\ shown'[q] = shown[q] /\ latest'[q] = latest[q]
         /\ shown[q].source \in cached'[q]
         /\ leafValue'[q][shown[q].source] = leafValue[q][shown[q].source]
<1>1. claimed = {} /\ TypeOK /\ Publish(r, p) /\ shown \in [Paths -> Shown]
      /\ DOMAIN leafValue = Paths /\ leafValue[q] \in [cached[q] -> {"number", "null"}]
  BY DEF WinnersInv, StaleTypeOK, Ingest
<1>2. shown[q].source \in cached[q] /\ latest[q].source \in {NoSource, shown[q].source}
  BY DEF NumberIsWinner
<1>3. ~(q = p /\ shown[q].source = r)
  BY <1>2, WinnerIsDispatched
<1>4. shown'[q] = shown[q]
  BY <1>1 DEF Ingest
<1>5. latest'[q] = latest[q]
  BY <1>1, PublishedLatest DEF TypeOK
<1>6. cached' = [cached EXCEPT ![p] = @ \cup {r}] /\ cached \in [Paths -> SUBSET Refs]
  BY <1>1 DEF Publish, TypeOK
<1>7. leafValue'[q][shown[q].source] = leafValue[q][shown[q].source]
  BY <1>1, <1>2, <1>3 DEF Ingest, WithEntry
<1> QED BY <1>2, <1>3, <1>4, <1>5, <1>6, <1>7

LEMMA NumberStep ==
  WinnersInv /\ NobodyDisabled /\ NumberIsWinner /\ [StaleNext]_allVars => NumberIsWinner'
<1> SUFFICES ASSUME WinnersInv, NobodyDisabled, NumberIsWinner, [StaleNext]_allVars,
                    NEW q \in Paths, shown'[q].value = "number"
             PROVE  LET r == shown'[q].source
                    IN  /\ r \in cached'[q] /\ leafValue'[q][r] = "number"
                        /\ <<q, r>> \notin timedOut'
                        /\ latest'[q].source \in {NoSource, r}
  BY DEF NumberIsWinner
<1> DEFINE Goal == LET r == shown'[q].source
                   IN  /\ r \in cached'[q] /\ leafValue'[q][r] = "number"
                       /\ <<q, r>> \notin timedOut'
                       /\ latest'[q].source \in {NoSource, r}
<1>1. /\ TypeOK /\ shown \in [Paths -> Shown] /\ DOMAIN leafValue = Paths
      /\ leafValue[q] \in [cached[q] -> {"number", "null"}]
  BY DEF WinnersInv, StaleTypeOK
<1>2. shown[q].value = "number" =>
        /\ shown[q].source \in cached[q] /\ leafValue[q][shown[q].source] = "number"
        /\ <<q, shown[q].source>> \notin timedOut
        /\ latest[q].source \in {NoSource, shown[q].source}
  BY DEF NumberIsWinner
<1>3. ASSUME NEW r \in Refs, NEW p \in Paths, NEW value \in {"number", "null"},
             Measure(r, p, value)
      PROVE  Goal
  <2>1. Ingest(r, p, value, value) /\ Publish(r, p)
        /\ timedOut' = IF Dispatched(r, p) THEN timedOut \ {<<p, r>>} ELSE timedOut
    BY <1>3 DEF Measure, OnIncoming, Ingest
  <2>2. CASE q = p /\ Dispatched(r, p)
    <3>1. shown'[q] = [source |-> r, value |-> value]
      BY <1>1, <2>1, <2>2 DEF Ingest
    <3>2. leafValue'[q][r] = value /\ r \in cached'[q]
      BY <1>1, <2>1, <2>2 DEF Ingest, WithEntry, Publish, TypeOK
    <3>3. latest'[q].source \in {NoSource, r}
      BY <2>1, <2>2, DispatchedWins
    <3> QED BY <2>1, <2>2, <3>1, <3>2, <3>3
  <2>3. CASE ~(q = p /\ Dispatched(r, p))
    <3>1. shown'[q] = shown[q]
      BY <1>1, <2>1, <2>3 DEF Ingest
    <3> QED BY <1>2, <2>1, <2>3, <3>1, HeldBackIsAnother
  <2> QED BY <2>2, <2>3
<1>4. ASSUME NEW r \in Refs, NEW p \in Paths, Sweep(r, p) PROVE Goal
  <2>1. Ingest(r, p, "null", "timedOut") /\ timedOut' = timedOut \cup {<<p, r>>}
    BY <1>4 DEF Sweep
  <2>2. ~(q = p /\ Dispatched(r, p)) /\ shown'[q] = shown[q]
    BY <1>1, <2>1 DEF Ingest
  <2> QED BY <1>2, <2>1, <2>2, HeldBackIsAnother
<1>5. ASSUME NEW r \in Refs, RemoveSource(r) PROVE Goal
  <2>1. shown[q].source # r /\ shown'[q] = shown[q]
    BY <1>5, StalenessAssumption DEF RemoveSource, NothingShown
  <2>2. /\ leafValue'[q][shown[q].source] = leafValue[q][shown[q].source]
        /\ shown[q].source \in cached'[q] /\ latest' = latest /\ timedOut' = timedOut
    BY <1>2, <1>5, <2>1 DEF RemoveSource, ForgetSource, Restrict
  <2> QED BY <1>2, <2>1, <2>2
<1>6. ASSUME NEW c \in Configs, ActivateSourcePriorities(c), UNCHANGED staleVars PROVE Goal
  BY <1>2, <1>6 DEF ActivateSourcePriorities, Unset, staleVars
<1>7. CASE TimePasses
  <2>1. UNCHANGED <<shown, cached, leafValue, timedOut>>
    BY <1>7 DEF TimePasses, Tick
  <2>2. latest'[q].source = latest[q].source
    BY <1>1, <1>7 DEF TimePasses, Tick, TypeOK
  <2> QED BY <1>2, <2>1, <2>2
<1>8. CASE UNCHANGED <<vars, staleVars>>
  BY <1>2, <1>8 DEF vars, staleVars
<1> QED BY <1>3, <1>4, <1>5, <1>6, <1>7, <1>8 DEF StaleNext, allVars

\* Unless the settings disable a source, a number on display is one that the
\* sweep will still blank when its source falls silent: its source is cached
\* with that number, and no mark of an earlier timeout is left (sweep, engine,
\* onIncoming and removeSource together).
THEOREM NumbersCanExpire ==
  ASSUME NobodyDisabled
  PROVE  StaleSpec => []DisplayCanExpire
<1>1. StaleInit => WinnersInv /\ NumberIsWinner
  <2> SUFFICES ASSUME StaleInit PROVE WinnersInv /\ NumberIsWinner
    OBVIOUS
  <2>1. claimed = {} /\ \A p \in Paths : /\ latest[p] = Unset /\ pathToGroupId[p] = 0
                                         /\ shown[p] = NothingShown
    BY DEF StaleInit, Init
  <2> QED BY <2>1, StaleTypeInit, StalenessAssumption
          DEF WinnersInv, ClaimsHaveSources, WinnersAreRanked, UnsetIsOld, Unset,
              NumberIsWinner, NothingShown
<1>2. WinnersInv /\ NumberIsWinner /\ [StaleNext]_allVars => (WinnersInv /\ NumberIsWinner)'
  BY WinnersInvStep, NumberStep
<1>3. NumberIsWinner => DisplayCanExpire
  BY DEF NumberIsWinner, DisplayCanExpire
<1> QED BY <1>1, <1>2, <1>3, PTL DEF StaleSpec

-----------------------------------------------------------------------------
(* "If two GPS units provide navigation.position and one goes silent, only  *)
(* the value from that source times out" (staleness.ts).  It does not hold  *)
(* of a source ranked above the winner, as LiveValueStays shows; it does of *)
(* the sources below, because the clock of a winner runs no longer than the *)
(* source has been silent.                                                  *)

\* The null of a source ranked below a winner that published within its timeout
\* reaches nobody: not the subscriber, whatever has timed out, recovered, been
\* removed or been configured before.
LowerSourceTimesOutAlone ==
  [][\A r \in Refs, p \in Paths :
       LET i == IdentityOf[Canonicalise(r)]
           w == latest[p].source
           ranking == ResolvePrecedences(p, i)
       IN  /\ Sweep(r, p) /\ ~Bypasses(p) /\ ~Passthrough
           /\ Enabled(ranking, i) /\ Enabled(ranking, Identity(w))
           /\ ranking[Identity(w)].precedence < ranking[i].precedence
           /\ w \in cached[p] /\ silence[p][w] <= ranking[i].timeout
           => shown' = shown]_allVars

WinnerIsFresh ==
  \A p \in Paths : \A w \in Refs :
    latest[p].source = w /\ w \in cached[p] => latest[p].age <= silence[p][w]

LEMMA FreshStep ==
  WinnersInv /\ NobodyDisabled /\ WinnerIsFresh /\ [StaleNext]_allVars => WinnerIsFresh'
<1> SUFFICES ASSUME WinnersInv, NobodyDisabled, WinnerIsFresh, [StaleNext]_allVars,
                    NEW q \in Paths, NEW w \in Refs, latest'[q].source = w, w \in cached'[q]
             PROVE  latest'[q].age <= silence'[q][w]
  BY DEF WinnerIsFresh
<1>1. /\ StaleTypeOK /\ TypeOK /\ claimed = {} /\ DOMAIN silence = Paths
      /\ silence[q] \in [cached[q] -> Ages]
  BY DEF WinnersInv, StaleTypeOK
<1>2. latest[q].source = w /\ w \in cached[q] => latest[q].age <= silence[q][w]
  BY DEF WinnerIsFresh
<1>3. MaxAge \in Nat /\ w # NoSource
  BY ConstantsAssumption
<1>4. ASSUME NEW r \in Refs, NEW p \in Paths, NEW cachedValue, NEW sentValue,
             Ingest(r, p, cachedValue, sentValue)
      PROVE  /\ cached' = [cached EXCEPT ![p] = @ \cup {r}]
             /\ IF q = p /\ w = r THEN latest'[q].age = 0
                ELSE latest'[q] = latest[q]
  <2>1. Publish(r, p)
    BY <1>4 DEF Ingest
  <2>2. cached' = [cached EXCEPT ![p] = @ \cup {r}]
    BY <2>1 DEF Publish
  <2>3. latest' \in {latest, [latest EXCEPT ![p] = [source |-> r, age |-> 0]]}
    BY <1>1, <2>1, PublishedLatest
  <2>4. CASE q = p /\ w = r
    <3>1. CASE latest' = [latest EXCEPT ![p] = [source |-> r, age |-> 0]]
      BY <1>1, <2>4, <3>1, <2>2 DEF TypeOK
    <3>2. CASE latest' = latest
      <4>1. latest[p].source = r
        BY <2>4, <3>2
      <4>2. Dispatched(r, p)
        BY <4>1, WinnerIsDispatched
      <4>3. ~Passthrough /\ ~Bypasses(p) /\ RankingOf(p) # NoRanking
        BY <1>3, <2>4, <4>1 DEF WinnersInv, WinnersAreRanked
      <4>4. ResolvePrecedences(p, IdentityOf[r]) # NoRanking
        BY <1>1, <4>3, ResolvedIsProper
      <4>5. latest' = [latest EXCEPT ![p] = [source |-> r, age |-> 0]]
        BY <1>1, <2>1, <4>2, <4>3, <4>4, PublishedLatest
      <4> QED BY <1>1, <2>2, <2>4, <4>5 DEF TypeOK
    <3> QED BY <2>3, <3>1, <3>2
  <2>5. CASE ~(q = p /\ w = r)
    BY <1>1, <2>2, <2>3, <2>5 DEF TypeOK
  <2> QED BY <2>4, <2>5
<1>5. ASSUME NEW r \in Refs, NEW p \in Paths, NEW value \in {"number", "null"},
             Measure(r, p, value)
      PROVE  latest'[q].age <= silence'[q][w]
  <2>1. /\ Ingest(r, p, value, value)
        /\ silence' = [silence EXCEPT ![p] = WithEntry(@, r, 0)]
    BY <1>5 DEF Measure
  <2>2. CASE q = p /\ w = r
    <3>1. silence'[q][w] = 0
      BY <1>1, <2>1, <2>2 DEF WithEntry
    <3> QED BY <1>4, <2>1, <2>2, <3>1
  <2>3. CASE ~(q = p /\ w = r)
    <3>1. w \in cached[q] /\ latest'[q] = latest[q]
      BY <1>1, <1>4, <2>1, <2>3 DEF TypeOK
    <3>2. silence'[q][w] = silence[q][w]
      BY <1>1, <2>1, <2>3, <3>1 DEF WithEntry
    <3> QED BY <1>2, <3>1, <3>2
  <2> QED BY <2>2, <2>3
<1>6. ASSUME NEW r \in Refs, NEW p \in Paths, Sweep(r, p)
      PROVE  latest'[q].age <= silence'[q][w]
  <2>1. Ingest(r, p, "null", "timedOut") /\ silence' = silence /\ r \in cached[p]
    BY <1>6 DEF Sweep
  <2>2. w \in cached[q] /\ silence[q][w] \in Ages
    BY <1>1, <1>4, <2>1 DEF TypeOK
  <2>3. CASE q = p /\ w = r
    BY <1>4, <2>1, <2>2, <2>3 DEF Ages
  <2>4. CASE ~(q = p /\ w = r)
    BY <1>2, <1>4, <2>1, <2>2, <2>4
  <2> QED BY <2>3, <2>4
<1>7. ASSUME NEW r \in Refs, RemoveSource(r) PROVE latest'[q].age <= silence'[q][w]
  <2>1. w \in cached[q] \ {r} /\ silence'[q][w] = silence[q][w] /\ latest' = latest
    BY <1>7 DEF RemoveSource, ForgetSource, Restrict
  <2> QED BY <1>2, <2>1
<1>8. ASSUME NEW c \in Configs, ActivateSourcePriorities(c)
      PROVE  latest'[q].age <= silence'[q][w]
  BY <1>3, <1>8 DEF ActivateSourcePriorities, Unset
<1>9. CASE TimePasses
  <2>1. cached' = cached /\ latest[q].source = w /\ latest'[q].age = Older(latest[q].age)
    BY <1>1, <1>9 DEF TimePasses, Tick, TypeOK
  <2>2. silence'[q][w] = Older(silence[q][w]) /\ silence[q][w] \in Ages
    BY <1>1, <1>9, <2>1 DEF TimePasses
  <2>3. latest[q].age \in Ages
    BY <1>1 DEF TypeOK
  <2> QED BY <1>2, <1>3, <2>1, <2>2, <2>3 DEF Older, Ages
<1>10. CASE UNCHANGED <<vars, staleVars>>
  BY <1>2, <1>10 DEF vars, staleVars
<1> QED BY <1>5, <1>6, <1>7, <1>8, <1>9, <1>10 DEF StaleNext, allVars

TimesOutAloneStep ==
  \A r \in Refs, p \in Paths :
    LET i == IdentityOf[Canonicalise(r)]
        w == latest[p].source
        ranking == ResolvePrecedences(p, i)
    IN  /\ Sweep(r, p) /\ ~Bypasses(p) /\ ~Passthrough
        /\ Enabled(ranking, i) /\ Enabled(ranking, Identity(w))
        /\ ranking[Identity(w)].precedence < ranking[i].precedence
        /\ w \in cached[p] /\ silence[p][w] <= ranking[i].timeout
        => shown' = shown

LEMMA TimesOutAlone == WinnersInv /\ ClockInv /\ WinnerIsFresh => TimesOutAloneStep
<1> SUFFICES ASSUME WinnersInv, ClockInv, WinnerIsFresh, NEW r \in Refs, NEW p \in Paths
             PROVE  LET i == IdentityOf[Canonicalise(r)]
                        w == latest[p].source
                        ranking == ResolvePrecedences(p, i)
                    IN  /\ Sweep(r, p) /\ ~Bypasses(p) /\ ~Passthrough
                        /\ Enabled(ranking, i) /\ Enabled(ranking, Identity(w))
                        /\ ranking[Identity(w)].precedence < ranking[i].precedence
                        /\ w \in cached[p] /\ silence[p][w] <= ranking[i].timeout
                        => shown' = shown
  BY DEF TimesOutAloneStep
<1> DEFINE i == IdentityOf[Canonicalise(r)]
           w == latest[p].source
           ranking == ResolvePrecedences(p, i)
<1> SUFFICES ASSUME Sweep(r, p), ~Bypasses(p), ~Passthrough,
                    Enabled(ranking, i), Enabled(ranking, Identity(w)),
                    ranking[Identity(w)].precedence < ranking[i].precedence,
                    w \in cached[p], silence[p][w] <= ranking[i].timeout
             PROVE  shown' = shown
  OBVIOUS
<1>1. /\ TypeOK /\ claimed = {} /\ Canonicalise(r) = r /\ w \in Refs
      /\ silence[p][w] \in Ages /\ latest[p].age \in Ages
  BY NothingClaimed DEF WinnersInv, StaleTypeOK, TypeOK
<1>2. latest[p].age <= silence[p][w]
  BY <1>1 DEF WinnerIsFresh
<1>3. Ranking(ranking)
  BY <1>1, ResolvedRanking DEF ClockInv
<1>4. Identity(r) = i
  BY <1>1, NothingClaimed
<1>5. Dispatched(r, p) <=>
        Passthrough \/ Bypasses(p) \/ ranking = NoRanking \/ IsPreferredValue(ranking, latest[p], r)
  BY <1>1 DEF Dispatched
<1>6. w = latest[p].source
  OBVIOUS
<1> HIDE DEF i, w, ranking
<1>7. /\ i \in DOMAIN ranking /\ Identity(w) \in DOMAIN ranking /\ ranking # NoRanking
      /\ ranking[i].precedence \in Nat /\ ranking[Identity(w)].precedence \in Nat
      /\ ranking[i].timeout \in Int
  BY <1>3 DEF Enabled, NoRanking, Ranking
<1>8. ~IsPreferredValue(ranking, latest[p], r)
  <2>1. IsKnown(ranking, w) /\ IsKnown(ranking, r)
    BY <1>4, <1>7 DEF IsKnown
  <2>2. /\ GetPrecedence(ranking, r, Lowest) = ranking[i]
        /\ GetPrecedence(ranking, w, Highest) = ranking[Identity(w)]
        /\ HoldTimeout(ranking, w, r) = ranking[i].timeout
    BY <1>4, <2>1 DEF GetPrecedence, HoldTimeout
  <2>3. ~(ranking[Identity(w)].precedence >= ranking[i].precedence)
    BY <1>7
  <2>4. w # r
    BY <1>4, <1>7
  <2>5. ~(latest[p].age > ranking[i].timeout)
    BY <1>1, <1>2, <1>7 DEF Ages
  <2> QED BY <1>6, <2>1, <2>2, <2>3, <2>4, <2>5 DEF IsPreferredValue
<1>9. ~Dispatched(r, p)
  BY <1>5, <1>7, <1>8
<1> QED BY <1>9 DEF Sweep, Ingest

\* When a source falls silent, only its value times out: the null of a source
\* that is ranked below the winner of its path reaches no subscriber as long as
\* that winner published within the fallback, unless the settings disable a
\* source (sweep and isPreferredValue together).
THEOREM LowerSourcesTimeOutAlone ==
  ASSUME NobodyDisabled
  PROVE  StaleSpec => LowerSourceTimesOutAlone
<1>1. StaleInit => WinnersInv /\ WinnerIsFresh
  <2> SUFFICES ASSUME StaleInit PROVE WinnersInv /\ WinnerIsFresh
    OBVIOUS
  <2>1. claimed = {} /\ \A p \in Paths : /\ latest[p] = Unset /\ pathToGroupId[p] = 0
                                         /\ cached[p] = {}
    BY DEF StaleInit, Init
  <2> QED BY <2>1, StaleTypeInit
          DEF WinnersInv, ClaimsHaveSources, WinnersAreRanked, UnsetIsOld, Unset, WinnerIsFresh
<1>2. WinnersInv /\ WinnerIsFresh /\ [StaleNext]_allVars => (WinnersInv /\ WinnerIsFresh)'
  BY WinnersInvStep, FreshStep
<1>3. WinnersInv /\ ClockInv /\ WinnerIsFresh => TimesOutAloneStep
  BY TimesOutAlone
<1>4. [TimesOutAloneStep]_allVars <=>
        [\A r \in Refs, p \in Paths :
           LET i == IdentityOf[Canonicalise(r)]
               w == latest[p].source
               ranking == ResolvePrecedences(p, i)
           IN  /\ Sweep(r, p) /\ ~Bypasses(p) /\ ~Passthrough
               /\ Enabled(ranking, i) /\ Enabled(ranking, Identity(w))
               /\ ranking[Identity(w)].precedence < ranking[i].precedence
               /\ w \in cached[p] /\ silence[p][w] <= ranking[i].timeout
               => shown' = shown]_allVars
  BY DEF TimesOutAloneStep
<1>5. StaleSpec => []ClockInv
  BY StalenessUsesEngine, ClockInit, ClockStep, PTL DEF Spec
<1> QED BY <1>1, <1>2, <1>3, <1>4, <1>5, PTL DEF StaleSpec, LowerSourceTimesOutAlone
=============================================================================
