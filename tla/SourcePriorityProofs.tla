------------------------ MODULE SourcePriorityProofs ------------------------
(***************************************************************************)
(* Theorems about SourcePriority, for any paths, references, settings and  *)
(* timeouts.                                                               *)
(***************************************************************************)
EXTENDS SourcePriority, TLAPS, FiniteSetTheorems, SequenceTheorems, WellFoundedInduction

-----------------------------------------------------------------------------
(* Numbers: what the CHOOSEs of SourceToGroupId and RankIn find.           *)

LEMMA LeastExists ==
  ASSUME NEW S \in SUBSET Nat, S # {}
  PROVE  \E m \in S : \A n \in S : m <= n
<1>1. PICK m \in S : \A n \in S : <<n, m>> \notin OpToRel(<, Nat)
  BY NatLessThanWellFounded, WFMin
<1>2. ASSUME NEW n \in S PROVE m <= n
  <2>1. n < m => <<n, m>> \in OpToRel(<, Nat)
    BY DEF OpToRel
  <2>2. ~(n < m)
    BY <1>1, <2>1
  <2> QED BY <2>2
<1> QED BY <1>2

LEMMA GreatestExists ==
  ASSUME NEW N \in Nat, NEW S \in SUBSET (1..N), S # {}
  PROVE  \E m \in S : \A n \in S : n <= m
<1> DEFINE T == {k \in Nat : \E n \in S : k = N - n}
<1>1. T \in SUBSET Nat /\ T # {}
  <2>1. PICK n \in S : TRUE
    OBVIOUS
  <2>2. N - n \in T
    BY <2>1
  <2> QED BY <2>2
<1>2. PICK k \in T : \A j \in T : k <= j
  <2> HIDE DEF T
  <2> QED BY <1>1, LeastExists
<1>3. PICK m \in S : k = N - m
  OBVIOUS
<1>4. \A n \in S : n \in Int /\ N - n \in T
  OBVIOUS
<1> QED BY <1>2, <1>3, <1>4

\* The rank of an identity that a list has is one of its places in the list.
LEMMA RankInList ==
  ASSUME NEW refs \in Seq(Refs), NEW i, \E n \in DOMAIN refs : IdentityOf[refs[n]] = i
  PROVE  RankIn(refs, i) \in 1..Len(refs) /\ IdentityOf[refs[RankIn(refs, i)]] = i
<1> DEFINE S == {n \in 1..Len(refs) : IdentityOf[refs[n]] = i}
<1>1. Len(refs) \in Nat /\ DOMAIN refs = 1..Len(refs) /\ S # {}
  OBVIOUS
<1>2. PICK m \in S : \A n \in S : n <= m
  <2> HIDE DEF S
  <2>1. S \in SUBSET (1..Len(refs))
    BY DEF S
  <2> QED BY <1>1, <2>1, GreatestExists
<1>3. \E n \in DOMAIN refs : /\ IdentityOf[refs[n]] = i
                             /\ \A k \in DOMAIN refs : IdentityOf[refs[k]] = i => k <= n
  BY <1>1, <1>2
<1> QED BY <1>1, <1>3 DEF RankIn

-----------------------------------------------------------------------------
(* Rankings: their entries are numbers, and only one identity is on top.   *)

Ranking(ranking) ==
  /\ \A i \in DOMAIN ranking : ranking[i].precedence \in Nat /\ ranking[i].timeout \in Int
  /\ \A i \in DOMAIN ranking : ranking[i].precedence < Cardinality(Refs)
  /\ \A i, j \in DOMAIN ranking :
       ranking[i].precedence = 0 /\ ranking[j].precedence = 0 => i = j

LEMMA ConfigParts ==
  ASSUME TypeOK
  PROVE  /\ config.groups \in Seq([sources : Seq(Refs), inactive : BOOLEAN])
         /\ \A p \in Paths : config.overrides[p] \in Seq([sourceRef : Refs, timeout : Int])
BY ConstantsAssumption DEF TypeOK, ConfigType

LEMMA OverrideIsRanking ==
  ASSUME TypeOK, NEW p \in Paths
  PROVE  Ranking(OverridePrecedences(p))
<1> DEFINE entries == config.overrides[p]
           refs == [n \in DOMAIN entries |-> entries[n].sourceRef]
<1>1. entries \in Seq([sourceRef : Refs, timeout : Int])
  BY ConfigParts
<1> HIDE DEF entries
<1>2. refs \in Seq(Refs) /\ Len(refs) = Len(entries)
      /\ DOMAIN refs = DOMAIN entries /\ DOMAIN entries = 1..Len(entries)
  <2>1. Len(entries) \in Nat /\ DOMAIN entries = 1..Len(entries)
    BY <1>1
  <2>2. \A n \in 1..Len(entries) : entries[n] \in [sourceRef : Refs, timeout : Int]
    BY <1>1, ElementOfSeq
  <2>3. refs \in [1..Len(entries) -> Refs]
    BY <2>1, <2>2
  <2>4. refs \in Seq(Refs)
    BY <2>1, <2>3, SeqDef
  <2> QED BY <2>1, <2>3, <2>4
<1>3. \A i \in OverrideIdentities(p) : \E n \in DOMAIN refs : IdentityOf[refs[n]] = i
  BY <1>2 DEF entries, OverrideIdentities, Range
<1>4. \A i \in OverrideIdentities(p) :
        RankIn(refs, i) \in 1..Len(refs) /\ IdentityOf[refs[RankIn(refs, i)]] = i
  <2> HIDE DEF refs
  <2> QED BY <1>2, <1>3, RankInList
<1>5. OverridePrecedences(p) =
        [i \in OverrideIdentities(p) |->
          [precedence |-> RankIn(refs, i) - 1, timeout |-> entries[RankIn(refs, i)].timeout]]
  BY DEF entries, OverridePrecedences
<1> HIDE DEF refs
<1>6. \A n \in 1..Len(entries) : entries[n].timeout \in Int
  <2>1. \A n \in 1..Len(entries) : entries[n] \in [sourceRef : Refs, timeout : Int]
    BY <1>1, ElementOfSeq
  <2> QED BY <2>1
<1>7. Len(refs) <= Cardinality(Refs) /\ Len(refs) \in Nat /\ Cardinality(Refs) \in Nat
  BY <1>1, <1>2, ConstantsAssumption, FS_CardinalityType DEF entries, TypeOK
<1> QED BY <1>2, <1>4, <1>5, <1>6, <1>7 DEF Ranking

LEMMA GroupIsRanking ==
  ASSUME TypeOK, NEW g \in DOMAIN config.groups
  PROVE  Ranking(GroupPrecedences(g))
<1> DEFINE refs == config.groups[g].sources
<1>1. refs \in Seq(Refs)
  <2>1. config.groups \in Seq([sources : Seq(Refs), inactive : BOOLEAN])
    BY ConfigParts
  <2>2. config.groups[g] \in [sources : Seq(Refs), inactive : BOOLEAN]
    BY <2>1, ElementOfSeq, LenProperties
  <2> QED BY <2>2
<1>2. \A i \in GroupIdentities(g) : \E n \in DOMAIN refs : IdentityOf[refs[n]] = i
  BY DEF GroupIdentities, Range
<1>3. GroupPrecedences(g) =
        [i \in GroupIdentities(g) |->
          [precedence |-> RankIn(refs, i) - 1,
           timeout |-> IF RankIn(refs, i) = 1 THEN 0 ELSE FallbackMs]]
  BY DEF GroupPrecedences
<1> HIDE DEF refs
<1>4. \A i \in GroupIdentities(g) :
        RankIn(refs, i) \in 1..Len(refs) /\ IdentityOf[refs[RankIn(refs, i)]] = i
  BY <1>1, <1>2, RankInList
<1>5. Len(refs) \in Nat /\ FallbackMs \in Nat
  BY <1>1, ConstantsAssumption
<1>6. Len(refs) <= Cardinality(Refs) /\ Cardinality(Refs) \in Nat
  BY ConstantsAssumption, FS_CardinalityType DEF refs, TypeOK
<1> QED BY <1>3, <1>4, <1>5, <1>6 DEF Ranking

-----------------------------------------------------------------------------
(* References and groups.                                                  *)

LEMMA Canonical ==
  ASSUME NEW r \in Refs
  PROVE  Canonicalise(r) \in Refs /\ Canonicalise(Canonicalise(r)) = Canonicalise(r)
BY ConstantsAssumption DEF Canonicalise

LEMMA SomeReference == ASSUME NEW r \in Refs PROVE Cardinality(Refs) \in Nat \ {0}
BY ConstantsAssumption, FS_CardinalityType, FS_EmptySet

\* The canonical reference of a source is of the identity it is ranked by.
LEMMA IdentityOfCanonical ==
  ASSUME NEW r \in Refs
  PROVE  Identity(Canonicalise(r)) = IdentityOf[Canonicalise(r)]
BY Canonical, ConstantsAssumption DEF Identity

LEMMA GroupIndices ==
  ASSUME TypeOK
  PROVE  ActiveGroups \subseteq DOMAIN config.groups /\ DOMAIN config.groups \subseteq Nat \ {0}
<1>1. DOMAIN config.groups = 1..Len(config.groups) /\ Len(config.groups) \in Nat
  BY ConfigParts, LenProperties
<1> QED BY <1>1 DEF ActiveGroups

LEMMA GroupOfSource ==
  ASSUME TypeOK, NEW i
  PROVE  /\ SourceToGroupId(i) \in Nat
         /\ SourceToGroupId(i) # 0 => SourceToGroupId(i) \in ActiveGroups
         /\ SourceToGroupId(i) # 0 => i \in GroupIdentities(SourceToGroupId(i))
         /\ \A g \in ActiveGroups : i \in GroupIdentities(g) => SourceToGroupId(i) # 0
<1> DEFINE owners == {g \in ActiveGroups : i \in GroupIdentities(g)}
<1>1. owners \subseteq ActiveGroups /\ owners \in SUBSET Nat /\ 0 \notin owners
  BY GroupIndices
<1>2. CASE owners = {}
  BY <1>2 DEF SourceToGroupId
<1>3. CASE owners # {}
  <2>1. SourceToGroupId(i) = CHOOSE g \in owners : \A h \in owners : g <= h
    BY <1>3 DEF SourceToGroupId
  <2> HIDE DEF owners
  <2>2. \E g \in owners : \A h \in owners : g <= h
    BY <1>1, <1>3, LeastExists
  <2>3. SourceToGroupId(i) \in owners
    BY <2>1, <2>2
  <2>4. i \in GroupIdentities(SourceToGroupId(i))
    BY <2>3 DEF owners
  <2> QED BY <1>1, <2>3, <2>4
<1> QED BY <1>2, <1>3

-----------------------------------------------------------------------------
LEMMA TypeInit == Init => TypeOK
BY ConstantsAssumption DEF Init, TypeOK, Unset, NeverHeard, Ages, Identities

\* What Publish does to the variables of the engine that it may change.
LEMMA PublishSteps ==
  ASSUME NEW r \in Refs, NEW p \in Paths, Publish(r, p),
         ~(UNCHANGED <<latest, pathToGroupId, publishers, heard>>)
  PROVE  LET s == Canonicalise(r)
             i == IdentityOf[s]
         IN  /\ ~Passthrough /\ ~Bypasses(p)
             /\ heard' = [heard EXCEPT ![p] = [j \in Listed |-> IF j = i THEN 0 ELSE @[j]]]
             /\ publishers' = [publishers EXCEPT ![p] = @ \cup {i}]
             /\ Claim(p, i)
             /\ latest' = IF /\ ResolvePrecedences(p, i) # NoRanking
                             /\ IsPreferredValue(ResolvePrecedences(p, i), latest[p], s)
                            THEN [latest EXCEPT ![p] = [source |-> s, age |-> 0]]
                            ELSE latest
BY DEF Publish

LEMMA TypeStep == TypeOK /\ [Next]_vars => TypeOK'
<1> SUFFICES ASSUME TypeOK, [Next]_vars PROVE TypeOK'
  OBVIOUS
<1> USE ConstantsAssumption
<1>1. ASSUME NEW r \in Refs, NEW p \in Paths, Publish(r, p) PROVE TypeOK'
  <2>1. cached' \in [Paths -> SUBSET Refs] /\ config' = config /\ claimed' = claimed
    BY <1>1 DEF Publish, TypeOK
  <2>2. CASE UNCHANGED <<latest, pathToGroupId, publishers, heard>>
    BY <2>1, <2>2 DEF TypeOK
  <2>3. CASE ~(UNCHANGED <<latest, pathToGroupId, publishers, heard>>)
    <3> DEFINE s == Canonicalise(r)
               i == IdentityOf[s]
    <3>1. s \in Refs /\ i \in Identities
      BY Canonical DEF Identities
    <3> HIDE DEF s
    <3>2. heard' = [heard EXCEPT ![p] = [j \in Listed |-> IF j = i THEN 0 ELSE @[j]]]
          /\ publishers' = [publishers EXCEPT ![p] = @ \cup {i}]
          /\ Claim(p, i)
          /\ latest' \in {latest, [latest EXCEPT ![p] = [source |-> s, age |-> 0]]}
      BY <1>1, <2>3, PublishSteps DEF s
    <3>3. heard' \in [Paths -> [Listed -> Ages]]
      BY <3>2 DEF TypeOK, Ages
    <3>4. publishers' \in [Paths -> SUBSET Identities]
      BY <3>1, <3>2 DEF TypeOK
    <3>5. pathToGroupId' \in [Paths -> Nat]
      BY <3>2, GroupOfSource DEF TypeOK, Claim
    <3>6. latest' \in [Paths -> [source : Refs \cup {NoSource}, age : Ages]]
      <4>1. 0 \in Ages
        BY DEF Ages
      <4>2. [source |-> s, age |-> 0] \in [source : Refs \cup {NoSource}, age : Ages]
        BY <3>1, <4>1
      <4> QED BY <3>2, <4>2 DEF TypeOK
    <3> QED BY <2>1, <3>3, <3>4, <3>5, <3>6 DEF TypeOK
  <2> QED BY <2>2, <2>3
<1>2. ASSUME NEW r \in Refs, SourceRefChanged(r) PROVE TypeOK'
  BY <1>2 DEF SourceRefChanged, TypeOK
<1>6. ASSUME NEW r \in Refs, ForgetSource(r) PROVE TypeOK'
  BY <1>6 DEF ForgetSource, TypeOK
<1>3. ASSUME NEW c \in Configs, ActivateSourcePriorities(c) PROVE TypeOK'
  <2>1. Len(c.groups) \in Nat
    BY LenProperties DEF ConfigType
  <2>2. pathToGroupId' \in [Paths -> Nat]
    BY <1>3, <2>1 DEF ActivateSourcePriorities
  <2>3. publishers' \in [Paths -> SUBSET Identities]
    <3>1. SeedPublishers \in [Paths -> SUBSET Identities]
      BY Canonical DEF SeedPublishers, Identities, TypeOK
    <3> QED BY <1>3, <3>1 DEF ActivateSourcePriorities
  <2>4. latest' \in [Paths -> [source : Refs \cup {NoSource}, age : Ages]]
        /\ heard' \in [Paths -> [Listed -> Ages]]
    BY <1>3 DEF ActivateSourcePriorities, Unset, NeverHeard, Ages
  <2> QED BY <1>3, <2>2, <2>3, <2>4 DEF ActivateSourcePriorities, TypeOK
<1>4. CASE Tick
  <2>1. \A age \in Ages : Older(age) \in Ages
    BY DEF Ages, Older
  <2> QED BY <1>4, <2>1 DEF Tick, TypeOK
<1>5. CASE UNCHANGED vars
  BY <1>5 DEF vars, TypeOK
<1> QED BY <1>1, <1>2, <1>3, <1>4, <1>5, <1>6 DEF Next

\* Every state of the engine, the cache's references and the claims has its
\* type, whatever is published, claimed and saved.
THEOREM PriorityTypeCorrect == Spec => []TypeOK
BY TypeInit, TypeStep, PTL DEF Spec

-----------------------------------------------------------------------------
\* The next value of an enabled ranked source ends what an unranked one won.
DisplacingStep ==
  \A r \in Refs, p \in Paths :
    LET i == IdentityOf[Canonicalise(r)]
        ranking == ResolvePrecedences(p, i)
    IN  /\ Publish(r, p) /\ ~Bypasses(p) /\ ~Passthrough
        /\ SoleRanking(p)' /\ Enabled(ranking, i)
        => IsKnown(ranking, latest'[p].source)

LEMMA RankedDisplaces == TypeOK => DisplacingStep
<1> SUFFICES ASSUME TypeOK, NEW r \in Refs, NEW p \in Paths, Publish(r, p), ~Bypasses(p),
                    ~Passthrough,
                    Enabled(ResolvePrecedences(p, IdentityOf[Canonicalise(r)]),
                            IdentityOf[Canonicalise(r)])
             PROVE  IsKnown(ResolvePrecedences(p, IdentityOf[Canonicalise(r)]),
                            latest'[p].source)
  BY DEF DisplacingStep
<1> DEFINE s == Canonicalise(r)
           i == IdentityOf[s]
           ranking == ResolvePrecedences(p, i)
<1>1. Identity(s) = i /\ s \in Refs
  BY Canonical, IdentityOfCanonical
<1>2. latest' = IF ranking # NoRanking /\ IsPreferredValue(ranking, latest[p], s)
                  THEN [latest EXCEPT ![p] = [source |-> s, age |-> 0]]
                  ELSE latest
  BY DEF Publish
<1>3. Enabled(ranking, i)
  OBVIOUS
<1> SUFFICES IsKnown(ranking, latest'[p].source)
  OBVIOUS
<1> HIDE DEF s, ranking
<1>4. i \in DOMAIN ranking /\ ranking # NoRanking
  BY <1>3 DEF Enabled, NoRanking
<1>5. CASE IsPreferredValue(ranking, latest[p], s)
  BY <1>1, <1>2, <1>4, <1>5 DEF TypeOK, IsKnown
<1>6. CASE ~IsPreferredValue(ranking, latest[p], s)
  <2>1. GetPrecedence(ranking, s, Lowest).timeout >= 0
    BY <1>1, <1>3, <1>4 DEF GetPrecedence, IsKnown, Enabled
  <2> QED BY <1>1, <1>2, <1>4, <1>6, <2>1 DEF IsPreferredValue, IsKnown
<1> QED BY <1>5, <1>6

\* Whatever an unranked source won while the ranked ones were silent, the next
\* delta of any enabled ranked source ends it (isPreferredValue).
THEOREM RankedSourcesDisplace == Spec => RankedSourceDisplacesUnranked
<1>1. Spec => []TypeOK
  BY PriorityTypeCorrect
<1>2. TypeOK /\ [Next]_vars => [DisplacingStep]_vars
  BY RankedDisplaces
<1>3. [DisplacingStep]_vars <=>
        [\A r \in Refs, p \in Paths :
           LET i == IdentityOf[Canonicalise(r)]
               ranking == ResolvePrecedences(p, i)
           IN  /\ Publish(r, p) /\ ~Bypasses(p) /\ ~Passthrough
               /\ SoleRanking(p)' /\ Enabled(ranking, i)
               => IsKnown(ranking, latest'[p].source)]_vars
  BY DEF DisplacingStep
<1> QED BY <1>1, <1>2, <1>3, PTL DEF Spec, RankedSourceDisplacesUnranked

-----------------------------------------------------------------------------
(* TopSourceHolds.  Settings rank devices by their canonical references.   *)

RankedAreCanonical == \A r \in Refs : CanonicalOf[r] # r => IdentityOf[r] \notin Listed

\* A path is claimed for active groups only, and as soon as a source of one
\* was heard on it, unless it has an override.
ClaimsAreActive ==
  \A p \in Paths : pathToGroupId[p] # 0 => pathToGroupId[p] \in ActiveGroups
HeardClaim ==
  \A p \in Paths : \A i \in Listed :
    heard[p][i] < MaxAge /\ ~HasOverride(p) /\ pathToGroupId[p] = 0
      => SourceToGroupId(i) = 0

\* Source i is the top of path p, and was heard within every failover timeout.
TopAndHeard(p, i) ==
  /\ SoleRanking(p)
  /\ Enabled(RankingOf(p), i)
  /\ RankingOf(p)[i].precedence = 0
  /\ \A t \in Failovers(p) : heard[p][i] <= t
  /\ heard[p][i] < MaxAge

\* It is then the winner, and its last value was not later than it was heard.
TopWins ==
  \A p \in Paths \ EventPaths : \A i \in Listed :
    TopAndHeard(p, i) => Identity(latest[p].source) = i /\ latest[p].age <= heard[p][i]

EngineInv == TypeOK /\ ClaimsAreActive /\ HeardClaim /\ TopWins

LEMMA TopWinsHolds == EngineInv => TopSourceHolds
BY DEF EngineInv, TopWins, TopAndHeard, TopSourceHolds

LEMMA RankingOfPath ==
  ASSUME TypeOK, ClaimsAreActive, NEW p \in Paths
  PROVE  Ranking(RankingOf(p))
<1>1. CASE HasOverride(p)
  BY <1>1, OverrideIsRanking DEF RankingOf
<1>2. CASE ~HasOverride(p) /\ pathToGroupId[p] # 0
  BY <1>2, GroupIsRanking, GroupIndices DEF RankingOf, ClaimsAreActive
<1>3. CASE ~HasOverride(p) /\ pathToGroupId[p] = 0
  BY <1>3 DEF RankingOf, NoRanking, Ranking
<1> QED BY <1>1, <1>2, <1>3

\* While the settings stay, and the claim of p, so does its ranking.
LEMMA SameConfig ==
  ASSUME UNCHANGED config, NEW p
  PROVE  /\ HasOverride(p)' = HasOverride(p)
         /\ OverridePrecedences(p)' = OverridePrecedences(p)
         /\ ActiveGroups' = ActiveGroups
         /\ \A g : GroupPrecedences(g)' = GroupPrecedences(g)
         /\ \A g : GroupIdentities(g)' = GroupIdentities(g)
         /\ \A i : SourceToGroupId(i)' = SourceToGroupId(i)
BY DEF HasOverride, OverridePrecedences, ActiveGroups, GroupPrecedences, SourceToGroupId,
       OverrideIsDormant, OverrideIdentities, GroupIdentities

LEMMA SameRanking ==
  ASSUME UNCHANGED config, NEW p \in Paths, pathToGroupId'[p] = pathToGroupId[p]
  PROVE  RankingOf(p)' = RankingOf(p) /\ Failovers(p)' = Failovers(p)
<1>1. RankingOf(p)' = RankingOf(p)
  BY SameConfig DEF RankingOf
<1> QED BY <1>1 DEF Failovers

\* As long as nothing but time and the publishers of p change, what is on top
\* and heard was so before.
LEMMA TopBefore ==
  ASSUME UNCHANGED config, NEW p \in Paths, pathToGroupId'[p] = pathToGroupId[p],
         publishers[p] \subseteq publishers'[p], NEW i \in Listed,
         heard[p][i] \in Ages, heard'[p][i] \in Ages, heard[p][i] <= heard'[p][i],
         TypeOK, ClaimsAreActive, TopAndHeard(p, i)'
  PROVE  TopAndHeard(p, i)
<1>1. RankingOf(p)' = RankingOf(p) /\ Failovers(p)' = Failovers(p)
  BY SameRanking
<1>2. SoleRanking(p)
  BY SameConfig DEF SoleRanking, TopAndHeard
<1>3. Failovers(p) \subseteq Int
  BY RankingOfPath, ConstantsAssumption DEF Failovers, Ranking
<1>4. \A t \in Failovers(p) : heard[p][i] <= t
  BY <1>1, <1>3 DEF TopAndHeard, Ages
<1>5. heard[p][i] < MaxAge
  BY ConstantsAssumption DEF TopAndHeard, Ages
<1> QED BY <1>1, <1>2, <1>4, <1>5 DEF TopAndHeard, Enabled

\* The top of a ranking is let through whoever won before.
LEMMA TopIsPreferred ==
  ASSUME NEW ranking, Ranking(ranking), NEW winner, NEW s,
         IsKnown(ranking, s), ranking[Identity(s)].precedence = 0,
         ranking[Identity(s)].timeout >= 0
  PROVE  IsPreferredValue(ranking, winner, s)
<1>1. GetPrecedence(ranking, s, Lowest) = ranking[Identity(s)]
  BY DEF GetPrecedence
<1>2. GetPrecedence(ranking, winner.source, Highest).precedence \in Nat
  BY DEF GetPrecedence, Highest, Ranking, IsKnown
<1> QED BY <1>1, <1>2 DEF IsPreferredValue

\* No other source displaces it within the failover timeouts.
LEMMA TopIsKept ==
  ASSUME NEW ranking, Ranking(ranking), NEW winner, NEW s \in Refs,
         NEW i \in DOMAIN ranking, ranking[i].precedence = 0,
         Identity(winner.source) = i, Identity(s) # i,
         winner.age \in Int, winner.age <= UnknownSourceTimeout,
         \A j \in DOMAIN ranking :
           ranking[j].precedence > 0 /\ ranking[j].timeout >= 0
             => winner.age <= ranking[j].timeout
  PROVE  ~IsPreferredValue(ranking, winner, s)
<1> DEFINE w == GetPrecedence(ranking, winner.source, Highest)
           o == GetPrecedence(ranking, s, Lowest)
           hold == HoldTimeout(ranking, winner.source, s)
<1>1. IsKnown(ranking, winner.source) /\ w = ranking[i] /\ winner.source # s
  BY DEF GetPrecedence, IsKnown
<1>2. UnknownSourceTimeout \in Nat /\ Cardinality(Refs) \in Nat \ {0}
  BY ConstantsAssumption, SomeReference
<1>3. CASE IsKnown(ranking, s)
  <2>1. o = ranking[Identity(s)] /\ Identity(s) \in DOMAIN ranking
    BY <1>3 DEF GetPrecedence, IsKnown
  <2>2. o.precedence > 0 /\ o.precedence \in Nat /\ o.timeout \in Int
    BY <2>1 DEF Ranking
  <2>3. hold = o.timeout
    BY <1>3 DEF HoldTimeout
  <2>4. o.timeout >= 0 => winner.age <= hold
    BY <2>1, <2>2, <2>3
  <2> HIDE DEF w, o, hold
  <2>5. w.precedence = 0 /\ ~(w.precedence >= o.precedence)
    BY <1>1, <2>2
  <2>6. hold \in Int
    BY <2>2, <2>3
  <2> QED BY <1>1, <1>3, <2>4, <2>5, <2>6 DEF IsPreferredValue, w, o, hold
<1>4. CASE ~IsKnown(ranking, s)
  <2>1. o = Lowest
    BY <1>4 DEF GetPrecedence
  <2>2. o.timeout = UnknownSourceTimeout /\ o.precedence \in Nat \ {0}
    BY <2>1, <1>2 DEF Lowest
  <2>3. w.timeout \in Int
    BY <1>1 DEF Ranking
  <2>4. hold \in Int /\ winner.age <= hold
    <3>1. GetPrecedence(ranking, winner.source, Highest).timeout = w.timeout
          /\ GetPrecedence(ranking, s, Lowest).timeout = UnknownSourceTimeout
      BY <2>2
    <3> HIDE DEF w, o
    <3>2. hold \in {w.timeout, UnknownSourceTimeout}
          /\ (hold = w.timeout => w.timeout >= UnknownSourceTimeout)
      BY <3>1, <1>2, <2>3 DEF HoldTimeout
    <3> HIDE DEF hold
    <3> QED BY <3>2, <1>2, <2>3
  <2> HIDE DEF w, o, hold
  <2>5. ~(w.precedence >= o.precedence) /\ ~(winner.age > hold)
    BY <1>1, <2>2, <2>4
  <2> QED BY <1>1, <1>4, <2>5 DEF IsPreferredValue, w, o, hold
<1> QED BY <1>3, <1>4

\* On a path with one ranking, that is the one by which a value is decided.
LEMMA ResolvedIsRanking ==
  ASSUME UNCHANGED config, NEW p \in Paths, NEW j, TypeOK, Claim(p, j),
         SoleRanking(p)', j \in publishers'[p]
  PROVE  ResolvePrecedences(p, j) = RankingOf(p)'
<1>1. CASE HasOverride(p)
  BY <1>1, SameConfig DEF ResolvePrecedences, RankingOf
<1>2. CASE ~HasOverride(p)
  <2>1. SourceToGroupId(j) \in {0, pathToGroupId'[p]}
    BY <1>2, SameConfig DEF SoleRanking
  <2>2. CASE SourceToGroupId(j) # 0
    BY <1>2, <2>1, <2>2, SameConfig DEF ResolvePrecedences, RankingOf
  <2>3. CASE SourceToGroupId(j) = 0
    <3>1. pathToGroupId' = pathToGroupId
      BY <2>3 DEF Claim
    <3> QED BY <1>2, <2>3, <3>1, SameConfig DEF ResolvePrecedences, RankingOf
  <2> QED BY <2>2, <2>3
<1> QED BY <1>1, <1>2

LEMMA InvInit == Init => EngineInv
<1> SUFFICES ASSUME Init PROVE EngineInv
  OBVIOUS
<1>1. \A p \in Paths : pathToGroupId[p] = 0 /\ \A i \in Listed : heard[p][i] = MaxAge
  BY DEF Init, NeverHeard
<1>2. MaxAge \in Nat
  BY ConstantsAssumption
<1> QED
  BY <1>1, <1>2, TypeInit DEF EngineInv, ClaimsAreActive, HeardClaim, TopWins, TopAndHeard

\* A path on which nothing happens but that time passes.
LEMMA QuietPath ==
  ASSUME EngineInv, TypeOK', UNCHANGED <<config, claimed>>, NEW p \in Paths,
         pathToGroupId'[p] = pathToGroupId[p], publishers'[p] = publishers[p],
         latest'[p].source = latest[p].source,
         \A i \in Listed : heard[p][i] <= heard'[p][i],
         \A i \in Listed : latest[p].age <= heard[p][i] => latest'[p].age <= heard'[p][i]
  PROVE  \A i \in Listed : p \notin EventPaths /\ TopAndHeard(p, i)' =>
           Identity(latest[p].source)' = i /\ latest'[p].age <= heard'[p][i]
<1> SUFFICES ASSUME NEW i \in Listed, p \notin EventPaths, TopAndHeard(p, i)'
             PROVE  Identity(latest[p].source)' = i /\ latest'[p].age <= heard'[p][i]
  OBVIOUS
<1>1. heard[p][i] \in Ages /\ heard'[p][i] \in Ages
  BY DEF EngineInv, TypeOK
<1>2. TopAndHeard(p, i)
  BY <1>1, TopBefore DEF EngineInv
<1>3. Identity(latest[p].source) = i /\ latest[p].age <= heard[p][i]
  BY <1>2 DEF EngineInv, TopWins
<1> QED BY <1>3 DEF Identity, Canonicalise

\* A value of path p that the engine is given, of source s with identity j.
LEMMA PublishKeepsTop ==
  ASSUME EngineInv, TypeOK', NEW r \in Refs, NEW p \in Paths, Publish(r, p),
         ~(UNCHANGED <<latest, pathToGroupId, publishers, heard>>),
         NEW i \in Listed, p \notin EventPaths, TopAndHeard(p, i)'
  PROVE  Identity(latest[p].source)' = i /\ latest'[p].age <= heard'[p][i]
<1> DEFINE s == Canonicalise(r)
           j == IdentityOf[s]
           ranking == ResolvePrecedences(p, j)
<1>1. /\ UNCHANGED <<config, claimed>>
      /\ heard'[p][i] = IF i = j THEN 0 ELSE heard[p][i]
      /\ publishers'[p] = publishers[p] \cup {j}
      /\ Claim(p, j)
      /\ latest' = IF ranking # NoRanking /\ IsPreferredValue(ranking, latest[p], s)
                     THEN [latest EXCEPT ![p] = [source |-> s, age |-> 0]]
                     ELSE latest
  BY PublishSteps DEF Publish, EngineInv, TypeOK
<1>2. s \in Refs /\ Identity(s) = j /\ Identity(s)' = j
  BY <1>1, Canonical, IdentityOfCanonical DEF Identity, Canonicalise
<1>3. ranking = RankingOf(p)'
  BY <1>1, ResolvedIsRanking DEF EngineInv, TopAndHeard
<1> HIDE DEF s, ranking
<1>4. ClaimsAreActive'
  BY <1>1, SameConfig, GroupOfSource DEF EngineInv, ClaimsAreActive, Claim, TypeOK
<1>5. Ranking(ranking)
  <2>1. TypeOK' /\ ClaimsAreActive' => Ranking(RankingOf(p))'
    BY RankingOfPath, PTL
  <2> QED BY <1>3, <1>4, <2>1 DEF Ranking
<1>6. i \in DOMAIN ranking /\ ranking[i].precedence = 0 /\ ranking[i].timeout >= 0
      /\ ranking # NoRanking
  BY <1>3 DEF TopAndHeard, Enabled, NoRanking
<1>7. CASE i = j
  <2>1. IsPreferredValue(ranking, latest[p], s)
    BY <1>2, <1>5, <1>6, <1>7, TopIsPreferred DEF IsKnown
  <2>2. latest'[p] = [source |-> s, age |-> 0]
    BY <1>1, <1>6, <2>1 DEF EngineInv, TypeOK
  <2> QED BY <1>1, <1>2, <1>7, <2>2 DEF Identity, Canonicalise
<1>8. CASE i # j
  <2>1. pathToGroupId'[p] = pathToGroupId[p]
    <3>1. SUFFICES ASSUME ~HasOverride(p), pathToGroupId[p] = 0, SourceToGroupId(j) # 0,
                          pathToGroupId'[p] = SourceToGroupId(j)
                   PROVE  FALSE
      BY <1>1 DEF Claim, EngineInv, TypeOK
    <3>2. i \in GroupIdentities(SourceToGroupId(j))
      <4>1. RankingOf(p)' = GroupPrecedences(SourceToGroupId(j))
        BY <1>1, <3>1, SameConfig DEF RankingOf
      <4> QED BY <1>3, <1>6, <4>1 DEF GroupPrecedences
    <3>3. SourceToGroupId(i) # 0
      BY <3>1, <3>2, GroupOfSource DEF EngineInv
    <3>4. heard[p][i] < MaxAge
      BY <1>1, <1>8 DEF TopAndHeard
    <3> QED BY <3>1, <3>3, <3>4 DEF EngineInv, HeardClaim
  <2>2. heard[p][i] \in Ages /\ heard'[p][i] = heard[p][i] /\ latest[p].age \in Ages
    BY <1>1, <1>8 DEF EngineInv, TypeOK
  <2>3. TopAndHeard(p, i)
    BY <1>1, <2>1, <2>2, TopBefore DEF EngineInv, Ages
  <2>4. Identity(latest[p].source) = i /\ latest[p].age <= heard[p][i]
    BY <2>3 DEF EngineInv, TopWins
  <2>5. ranking = RankingOf(p) /\ Failovers(p)' = Failovers(p)
    BY <1>1, <1>3, <2>1, SameRanking
  <2>6. Failovers(p) \subseteq Int /\ \A t \in Failovers(p) : latest[p].age <= t
    <3>1. Failovers(p) \subseteq Int
      BY <1>5, <2>5, ConstantsAssumption DEF Failovers, Ranking
    <3> QED BY <2>2, <2>3, <2>4, <3>1, ConstantsAssumption DEF TopAndHeard, Ages
  <2>7. latest[p].age <= UnknownSourceTimeout
        /\ \A k \in DOMAIN ranking :
             ranking[k].precedence > 0 /\ ranking[k].timeout >= 0
               => latest[p].age <= ranking[k].timeout
    BY <2>5, <2>6 DEF Failovers
  <2>8. ~IsPreferredValue(ranking, latest[p], s)
    BY <1>2, <1>5, <1>6, <1>8, <2>2, <2>4, <2>7, TopIsKept, ConstantsAssumption DEF Ages
  <2> QED BY <1>1, <2>2, <2>4, <2>8 DEF Identity, Canonicalise
<1> QED BY <1>7, <1>8

LEMMA PublishKeepsInv ==
  ASSUME EngineInv, TypeOK', NEW r \in Refs, NEW p \in Paths, Publish(r, p)
  PROVE  EngineInv'
<1> DEFINE j == IdentityOf[Canonicalise(r)]
<1>1. UNCHANGED <<config, claimed>>
  BY DEF Publish
<1>2. CASE UNCHANGED <<latest, pathToGroupId, publishers, heard>>
  <2>1. ClaimsAreActive' /\ HeardClaim'
    BY <1>1, <1>2, SameConfig DEF EngineInv, ClaimsAreActive, HeardClaim
  <2>2. TopWins'
    <3>1. \A q \in Paths, i \in Listed : heard[q][i] \in Int
      BY DEF EngineInv, TypeOK, Ages
    <3> QED BY <1>1, <1>2, <3>1, QuietPath DEF TopWins
  <2> QED BY <2>1, <2>2 DEF EngineInv
<1>3. CASE ~(UNCHANGED <<latest, pathToGroupId, publishers, heard>>)
  <2>1. /\ \A q \in Paths \ {p} :
             heard'[q] = heard[q] /\ publishers'[q] = publishers[q] /\ latest'[q] = latest[q]
        /\ \A i \in Listed : heard'[p][i] = IF i = j THEN 0 ELSE heard[p][i]
        /\ Claim(p, j)
    BY <1>3, PublishSteps DEF EngineInv, TypeOK
  <2>2. /\ \A q \in Paths \ {p} : pathToGroupId'[q] = pathToGroupId[q]
        /\ IF ~HasOverride(p) /\ pathToGroupId[p] = 0 /\ SourceToGroupId(j) # 0
             THEN pathToGroupId'[p] = SourceToGroupId(j)
             ELSE pathToGroupId'[p] = pathToGroupId[p]
    BY <2>1 DEF Claim, EngineInv, TypeOK
  <2> HIDE DEF j
  <2>3. ClaimsAreActive'
    BY <1>1, <2>2, SameConfig, GroupOfSource DEF EngineInv, ClaimsAreActive
  <2>4. HeardClaim'
    <3> SUFFICES ASSUME NEW q \in Paths, NEW i \in Listed, heard'[q][i] < MaxAge,
                        ~HasOverride(q), pathToGroupId'[q] = 0
                 PROVE  SourceToGroupId(i) = 0
      BY <1>1, SameConfig DEF HeardClaim
    <3>1. pathToGroupId[q] = 0
      BY <2>2
    <3>2. CASE heard[q][i] < MaxAge
      BY <3>1, <3>2 DEF EngineInv, HeardClaim
    <3>3. CASE ~(heard[q][i] < MaxAge)
      BY <2>1, <2>2, <3>1, <3>3
    <3> QED BY <3>2, <3>3
  <2>5. TopWins'
    <3> SUFFICES ASSUME NEW q \in Paths \ EventPaths, NEW i \in Listed, TopAndHeard(q, i)'
                 PROVE  Identity(latest[q].source)' = i /\ latest'[q].age <= heard'[q][i]
      BY DEF TopWins
    <3>1. CASE q = p
      BY <1>3, <3>1, PublishKeepsTop
    <3>2. CASE q # p
      <4>1. \A k \in Listed : heard[q][k] \in Int
        BY DEF EngineInv, TypeOK, Ages
      <4> QED BY <1>1, <2>1, <2>2, <3>2, <4>1, QuietPath
    <3> QED BY <3>1, <3>2
  <2> QED BY <2>3, <2>4, <2>5 DEF EngineInv
<1> QED BY <1>2, <1>3

\* When the address claim of a device arrives, what it is ranked as stays.
LEMMA ClaimKeepsIdentity ==
  ASSUME RankedAreCanonical, NEW r \in Refs, SourceRefChanged(r), TypeOK,
         NEW source \in Refs \cup {NoSource}, NEW i \in Listed, Identity(source) = i,
         source # NoSource
  PROVE  Identity(source)' = i
<1>1. CASE source = r
  <2>1. Canonicalise(r) = r /\ IdentityOf[r] = i
    BY <1>1 DEF SourceRefChanged, Canonicalise, Identity
  <2> QED BY <2>1 DEF RankedAreCanonical, SourceRefChanged
<1>2. CASE source # r
  BY <1>2 DEF SourceRefChanged, Identity, Canonicalise
<1> QED BY <1>1, <1>2

\* The group of any publisher is an active one that lists it, after a step too.
GroupsAreActive ==
  \A k : SourceToGroupId(k) # 0 =>
    SourceToGroupId(k) \in ActiveGroups /\ k \in GroupIdentities(SourceToGroupId(k))

LEMMA GroupsOfTypedState == TypeOK => GroupsAreActive
BY GroupOfSource DEF GroupsAreActive

LEMMA GroupsOfNextState == TypeOK' => GroupsAreActive'
BY GroupsOfTypedState, PTL

LEMMA InvStep == EngineInv /\ RankedAreCanonical /\ [Next]_vars => EngineInv'
<1> SUFFICES ASSUME EngineInv, RankedAreCanonical, [Next]_vars PROVE EngineInv'
  OBVIOUS
<1> TypeOK /\ TypeOK'
  BY TypeStep DEF EngineInv
<1>1. ASSUME NEW r \in Refs, NEW p \in Paths, Publish(r, p) PROVE EngineInv'
  BY <1>1, PublishKeepsInv
<1>2. ASSUME NEW r \in Refs, SourceRefChanged(r) PROVE EngineInv'
  <2>1. UNCHANGED <<config, latest, pathToGroupId, publishers, heard>>
    BY <1>2 DEF SourceRefChanged
  <2>2. ClaimsAreActive' /\ HeardClaim'
    BY <2>1, SameConfig DEF EngineInv, ClaimsAreActive, HeardClaim
  <2>3. TopWins'
    <3> SUFFICES ASSUME NEW p \in Paths \ EventPaths, NEW i \in Listed, TopAndHeard(p, i)'
                 PROVE  Identity(latest[p].source)' = i /\ latest'[p].age <= heard'[p][i]
      BY DEF TopWins
    <3>1. heard[p][i] \in Ages /\ latest[p].source \in Refs \cup {NoSource}
      BY DEF TypeOK
    <3>2. TopAndHeard(p, i)
      BY <2>1, <3>1, TopBefore DEF EngineInv, Ages
    <3>3. Identity(latest[p].source) = i /\ latest[p].age <= heard[p][i]
      BY <3>2 DEF EngineInv, TopWins
    <3>4. CASE latest[p].source = NoSource
      BY <2>1, <3>3, <3>4 DEF Identity
    <3>5. CASE latest[p].source # NoSource
      BY <1>2, <2>1, <3>1, <3>3, <3>5, ClaimKeepsIdentity
    <3> QED BY <3>4, <3>5
  <2> QED BY <2>2, <2>3 DEF EngineInv
<1>3. ASSUME NEW c \in Configs, ActivateSourcePriorities(c) PROVE EngineInv'
  <2>1. \A p \in Paths, i \in Listed : ~(heard'[p][i] < MaxAge)
    <3>1. MaxAge \in Nat
      BY ConstantsAssumption
    <3> QED BY <1>3, <3>1 DEF ActivateSourcePriorities, NeverHeard
  <2>2. ClaimsAreActive'
    <3> SUFFICES ASSUME NEW p \in Paths, pathToGroupId'[p] # 0
                 PROVE  pathToGroupId'[p] \in ActiveGroups'
      BY DEF ClaimsAreActive
    <3>1. pathToGroupId'[p] \in {SourceToGroupId(i)' : i \in publishers'[p]} \ {0}
      BY <1>3 DEF ActivateSourcePriorities, SeedClaims
    <3>2. PICK i \in publishers'[p] : pathToGroupId'[p] = SourceToGroupId(i)'
      BY <3>1
    <3> QED BY <3>2, <3>1, GroupsOfNextState DEF GroupsAreActive
  <2> QED BY <2>1, <2>2 DEF EngineInv, HeardClaim, TopWins, TopAndHeard
<1>4. CASE Tick
  <2>1. UNCHANGED <<config, claimed, pathToGroupId, publishers>>
    BY <1>4 DEF Tick
  <2>2. \A x, y \in Ages : /\ x <= Older(x)
                           /\ x <= y => Older(x) <= Older(y)
                           /\ Older(x) < MaxAge => x < MaxAge
    <3>1. MaxAge \in Nat
      BY ConstantsAssumption
    <3> QED BY <3>1 DEF Ages, Older
  <2>3. \A p \in Paths :
          /\ latest'[p].source = latest[p].source /\ latest'[p].age = Older(latest[p].age)
          /\ latest[p].age \in Ages
          /\ \A i \in Listed : heard'[p][i] = Older(heard[p][i]) /\ heard[p][i] \in Ages
    BY <1>4 DEF Tick, TypeOK
  <2>4. ClaimsAreActive'
    BY <2>1, SameConfig DEF EngineInv, ClaimsAreActive
  <2>5. HeardClaim'
    BY <2>1, <2>2, <2>3, SameConfig DEF EngineInv, HeardClaim
  <2>6. TopWins'
    BY <2>1, <2>2, <2>3, QuietPath DEF TopWins
  <2> QED BY <2>4, <2>5, <2>6 DEF EngineInv
<1>5. CASE (\E r \in Refs : ForgetSource(r)) \/ UNCHANGED vars
  <2>1. UNCHANGED <<config, claimed, latest, pathToGroupId, publishers, heard>>
    BY <1>5 DEF ForgetSource, vars
  <2>2. ClaimsAreActive' /\ HeardClaim'
    BY <2>1, SameConfig DEF EngineInv, ClaimsAreActive, HeardClaim
  <2>3. TopWins'
    <3>1. \A p \in Paths, i \in Listed : heard[p][i] \in Int
      BY DEF TypeOK, Ages
    <3> QED BY <2>1, <3>1, QuietPath DEF TopWins
  <2> QED BY <2>2, <2>3 DEF EngineInv
<1> QED BY <1>1, <1>2, <1>3, <1>4, <1>5 DEF Next

\* "While it is publishing data, its values always win": as long as the top of
\* a path's ranking is heard within every failover timeout, it is the winner,
\* through claims of paths by groups, address claims and rebuilds, provided the
\* settings rank devices by their canonical references.
THEOREM TopSourceAlwaysWins ==
  ASSUME RankedAreCanonical
  PROVE  Spec => []TopSourceHolds
<1>1. Init => EngineInv
  BY InvInit
<1>2. EngineInv /\ [Next]_vars => EngineInv'
  BY InvStep
<1>3. EngineInv => TopSourceHolds
  BY TopWinsHolds
<1> QED BY <1>1, <1>2, <1>3, PTL DEF Spec

-----------------------------------------------------------------------------
(* FallbackRunsFromWinner.  The clock of a winner that is ranked and enabled *)
(* has run exactly since it was last heard: none of its values is held back, *)
(* and nobody else's restarts the clock without becoming the winner.         *)

WinnerClock ==
  \A p \in Paths : \A s \in Refs :
    /\ latest[p].source = s
    /\ Canonicalise(s) = s
    /\ Enabled(ResolvePrecedences(p, IdentityOf[s]), IdentityOf[s])
    => latest[p].age = heard[p][IdentityOf[s]]

ClockInv == TypeOK /\ ClaimsAreActive /\ WinnerClock

LEMMA ListedAreIdentities == Listed \subseteq Identities
<1> SUFFICES ASSUME NEW c \in Configs
             PROVE  /\ \A g \in DOMAIN c.groups : Range(c.groups[g].sources) \subseteq Refs
                    /\ \A p \in Paths : \A e \in Range(c.overrides[p]) : e.sourceRef \in Refs
  BY DEF Listed, Identities
<1>1. /\ c.groups \in Seq([sources : Seq(Refs), inactive : BOOLEAN])
      /\ \A p \in Paths : c.overrides[p] \in Seq([sourceRef : Refs, timeout : Int])
  BY ConstantsAssumption DEF ConfigType
<1>2. ASSUME NEW g \in DOMAIN c.groups PROVE Range(c.groups[g].sources) \subseteq Refs
  <2>1. c.groups[g].sources \in Seq(Refs)
    <3>1. c.groups[g] \in [sources : Seq(Refs), inactive : BOOLEAN]
      BY <1>1, ElementOfSeq, LenProperties
    <3> QED BY <3>1
  <2> QED BY <2>1, RangeOfSeq
<1>3. ASSUME NEW p \in Paths, NEW e \in Range(c.overrides[p]) PROVE e.sourceRef \in Refs
  <2>1. Range(c.overrides[p]) \subseteq [sourceRef : Refs, timeout : Int]
    BY <1>1, RangeOfSeq
  <2> QED BY <2>1
<1> QED BY <1>2, <1>3

\* Who is ranked for a source is listed by some settings.
LEMMA RankedAreListed ==
  ASSUME TypeOK, ClaimsAreActive, NEW p \in Paths, NEW i
  PROVE  DOMAIN ResolvePrecedences(p, i) \subseteq Listed
<1>1. OverrideIdentities(p) \subseteq Listed
  <2> SUFFICES ASSUME NEW e \in Range(config.overrides[p])
               PROVE  IdentityOf[e.sourceRef] \in Listed
    BY DEF OverrideIdentities
  <2> DEFINE refs(c) == UNION ({Range(c.groups[g].sources) : g \in DOMAIN c.groups}
                                 \cup {{x.sourceRef : x \in Range(c.overrides[q])} : q \in Paths})
  <2>1. e.sourceRef \in refs(config)
    <3> DEFINE listed(q) == {x.sourceRef : x \in Range(config.overrides[q])}
    <3>1. e.sourceRef \in listed(p)
      OBVIOUS
    <3>2. refs(config) = UNION ({Range(config.groups[g].sources) : g \in DOMAIN config.groups}
                                  \cup {listed(q) : q \in Paths})
      OBVIOUS
    <3> HIDE DEF listed, refs
    <3> QED BY <3>1, <3>2
  <2>2. Listed = {IdentityOf[r] : r \in UNION {refs(c) : c \in Configs}}
    BY DEF Listed
  <2> HIDE DEF refs
  <2> QED BY <2>1, <2>2 DEF TypeOK
<1>2. \A g \in DOMAIN config.groups : GroupIdentities(g) \subseteq Listed
  BY DEF GroupIdentities, Listed, TypeOK
<1>3. \A g : DOMAIN GroupPrecedences(g) = GroupIdentities(g)
  BY DEF GroupPrecedences
<1>4. DOMAIN OverridePrecedences(p) = OverrideIdentities(p) /\ DOMAIN NoRanking = {}
  BY DEF OverridePrecedences, NoRanking
<1>5. SourceToGroupId(i) # 0 => SourceToGroupId(i) \in DOMAIN config.groups
  BY GroupOfSource, GroupIndices
<1>6. pathToGroupId[p] # 0 => pathToGroupId[p] \in DOMAIN config.groups
  BY GroupIndices DEF ClaimsAreActive
<1> QED BY <1>1, <1>2, <1>3, <1>4, <1>5, <1>6 DEF ResolvePrecedences

\* A claim changes nothing for who is ranked by its own ranking afterwards.
LEMMA OwnRankingBefore ==
  ASSUME TypeOK, UNCHANGED config, NEW p \in Paths, NEW q \in Paths, NEW i, NEW j,
         Claim(q, i), j \in DOMAIN (ResolvePrecedences(p, j)')
  PROVE  ResolvePrecedences(p, j)' = ResolvePrecedences(p, j)
<1>1. CASE HasOverride(p) \/ SourceToGroupId(j) # 0
  BY <1>1, SameConfig DEF ResolvePrecedences
<1>2. CASE ~HasOverride(p) /\ SourceToGroupId(j) = 0
  <2>1. CASE pathToGroupId'[p] = pathToGroupId[p]
    BY <1>2, <2>1, SameConfig DEF ResolvePrecedences, NoRanking
  <2>2. CASE pathToGroupId'[p] # pathToGroupId[p]
    <3>1. pathToGroupId'[p] = SourceToGroupId(i) /\ SourceToGroupId(i) # 0
      BY <2>2 DEF Claim, TypeOK
    <3>2. j \in GroupIdentities(SourceToGroupId(i))
      BY <1>2, <3>1, SameConfig DEF ResolvePrecedences, GroupPrecedences
    <3> QED BY <1>2, <3>1, <3>2, GroupOfSource
  <2> QED BY <2>1, <2>2
<1> QED BY <1>1, <1>2

\* The engine takes every value of a winner that is ranked and enabled.
LEMMA OwnValueIsTaken ==
  ASSUME NEW ranking, Ranking(ranking), NEW winner, NEW s, Identity(winner.source) = Identity(s),
         Enabled(ranking, Identity(s))
  PROVE  IsPreferredValue(ranking, winner, s)
<1>1. GetPrecedence(ranking, s, Lowest) = ranking[Identity(s)]
      /\ GetPrecedence(ranking, winner.source, Highest) = ranking[Identity(s)]
  BY DEF GetPrecedence, IsKnown, Enabled
<1>2. ranking[Identity(s)].precedence \in Nat
  BY DEF Ranking, Enabled
<1> QED BY <1>1, <1>2 DEF IsPreferredValue, Enabled

LEMMA ResolvedRanking ==
  ASSUME TypeOK, ClaimsAreActive, NEW p \in Paths, NEW i
  PROVE  Ranking(ResolvePrecedences(p, i))
BY OverrideIsRanking, GroupIsRanking, GroupOfSource, GroupIndices
   DEF ResolvePrecedences, ClaimsAreActive, NoRanking, Ranking

LEMMA PublishKeepsClock ==
  ASSUME ClockInv, TypeOK', NEW r \in Refs, NEW p \in Paths, Publish(r, p)
  PROVE  WinnerClock'
<1> DEFINE s == Canonicalise(r)
           i == IdentityOf[s]
           ranking == ResolvePrecedences(p, i)
<1>1. UNCHANGED <<config, claimed>> /\ TypeOK
  BY DEF Publish, ClockInv
<1>2. s \in Refs /\ Canonicalise(s) = s /\ Identity(s) = i
  BY Canonical, IdentityOfCanonical
<1>3. CASE UNCHANGED <<latest, pathToGroupId, publishers, heard>>
  BY <1>1, <1>3, SameConfig DEF ClockInv, WinnerClock, Canonicalise, ResolvePrecedences, NoRanking
<1>4. CASE ~(UNCHANGED <<latest, pathToGroupId, publishers, heard>>)
  <2> SUFFICES ASSUME NEW q \in Paths, NEW t \in Refs, latest'[q].source = t,
                      Canonicalise(t) = t,
                      Enabled(ResolvePrecedences(q, IdentityOf[t])', IdentityOf[t])
               PROVE  latest'[q].age = heard'[q][IdentityOf[t]]
    BY <1>1 DEF WinnerClock, Canonicalise
  <2>1. /\ heard' = [heard EXCEPT ![p] = [j \in Listed |-> IF j = i THEN 0 ELSE @[j]]]
        /\ Claim(p, i)
        /\ latest' = IF ranking # NoRanking /\ IsPreferredValue(ranking, latest[p], s)
                       THEN [latest EXCEPT ![p] = [source |-> s, age |-> 0]]
                       ELSE latest
    BY <1>4, PublishSteps
  <2> DEFINE w == IdentityOf[t]
  <2>2. ResolvePrecedences(q, w)' = ResolvePrecedences(q, w) /\ Enabled(ResolvePrecedences(q, w), w)
    BY <1>1, <2>1, OwnRankingBefore DEF Enabled
  <2>3. w \in Listed
    BY <1>1, <2>2, RankedAreListed DEF ClockInv, Enabled
  <2> HIDE DEF s, i, ranking, w
  <2>4. CASE latest'[q] = latest[q]
    <3>1. latest[q].age = heard[q][w]
      BY <2>2, <2>4 DEF ClockInv, WinnerClock, w
    <3>2. CASE q = p /\ w = i
      <4>1. Enabled(ranking, i) /\ Identity(latest[p].source) = i
        BY <2>2, <2>4, <3>2, ConstantsAssumption DEF ranking, w, Identity
      <4>2. IsPreferredValue(ranking, latest[p], s)
        BY <1>1, <1>2, <4>1, ResolvedRanking, OwnValueIsTaken DEF ranking, ClockInv
      <4>3. latest'[p].age = 0
        BY <1>1, <2>1, <4>1, <4>2 DEF Enabled, NoRanking, TypeOK
      <4> QED BY <1>1, <2>1, <2>3, <3>2, <4>3 DEF TypeOK, w
    <3>3. CASE ~(q = p /\ w = i)
      BY <1>1, <2>1, <2>3, <2>4, <3>1, <3>3 DEF TypeOK, w
    <3> QED BY <3>2, <3>3 DEF w
  <2>5. CASE latest'[q] # latest[q]
    <3>1. q = p /\ latest'[p] = [source |-> s, age |-> 0] /\ t = s
      BY <1>1, <2>1, <2>5 DEF TypeOK
    <3> QED BY <1>1, <2>1, <2>3, <3>1 DEF TypeOK, w, i
  <2> QED BY <2>4, <2>5
<1> QED BY <1>3, <1>4

LEMMA ClockInit == Init => ClockInv
<1>1. \A s \in Refs : s # NoSource
  BY ConstantsAssumption
<1> QED BY <1>1, TypeInit DEF Init, ClockInv, ClaimsAreActive, WinnerClock, Unset

LEMMA ClockStep == ClockInv /\ [Next]_vars => ClockInv'
<1> SUFFICES ASSUME ClockInv, [Next]_vars PROVE ClockInv'
  OBVIOUS
<1> TypeOK /\ TypeOK' /\ ClaimsAreActive
  BY TypeStep DEF ClockInv
<1>1. ASSUME NEW r \in Refs, NEW p \in Paths, Publish(r, p) PROVE ClaimsAreActive' /\ WinnerClock'
  <2>1. WinnerClock'
    BY <1>1, PublishKeepsClock
  <2>2. UNCHANGED config /\ (UNCHANGED pathToGroupId \/ Claim(p, IdentityOf[Canonicalise(r)]))
    BY <1>1 DEF Publish
  <2>3. ClaimsAreActive'
    BY <2>2, SameConfig, GroupOfSource DEF Claim, ClaimsAreActive, TypeOK
  <2> QED BY <2>1, <2>3
<1>2. ASSUME NEW r \in Refs, SourceRefChanged(r) PROVE ClaimsAreActive' /\ WinnerClock'
  <2>1. UNCHANGED <<config, latest, pathToGroupId, heard>> /\ claimed' = claimed \cup {r}
    BY <1>2 DEF SourceRefChanged
  <2>2. \A s \in Refs : (Canonicalise(s) = s)' => Canonicalise(s) = s
    BY <2>1 DEF Canonicalise
  <2>3. \A p, i : ResolvePrecedences(p, i)' = ResolvePrecedences(p, i)
    BY <2>1, SameConfig DEF ResolvePrecedences, NoRanking
  <2>4. WinnerClock'
    BY <2>1, <2>2, <2>3 DEF ClockInv, WinnerClock, Enabled
  <2> QED BY <2>1, <2>4, SameConfig DEF ClaimsAreActive
<1>3. ASSUME NEW r \in Refs, ForgetSource(r) PROVE ClaimsAreActive' /\ WinnerClock'
  BY <1>3, SameConfig
     DEF ForgetSource, ClockInv, ClaimsAreActive, WinnerClock, Canonicalise, ResolvePrecedences, NoRanking
<1>4. ASSUME NEW c \in Configs, ActivateSourcePriorities(c) PROVE ClaimsAreActive' /\ WinnerClock'
  <2>1. WinnerClock'
    BY <1>4, ConstantsAssumption DEF ActivateSourcePriorities, WinnerClock, Unset
  <2>2. ASSUME NEW p \in Paths, pathToGroupId'[p] # 0
        PROVE  pathToGroupId'[p] \in ActiveGroups'
    <3>1. pathToGroupId'[p] \in {SourceToGroupId(i)' : i \in publishers'[p]} \ {0}
      BY <1>4, <2>2 DEF ActivateSourcePriorities, SeedClaims
    <3>2. PICK i \in publishers'[p] : pathToGroupId'[p] = SourceToGroupId(i)'
      BY <3>1
    <3> QED BY <3>1, <3>2, GroupsOfNextState DEF GroupsAreActive
  <2> QED BY <2>1, <2>2 DEF ClaimsAreActive
<1>5. CASE Tick
  <2>1. UNCHANGED <<config, claimed, pathToGroupId>>
    BY <1>5 DEF Tick
  <2>2. \A p, i : ResolvePrecedences(p, i)' = ResolvePrecedences(p, i)
    BY <2>1, SameConfig DEF ResolvePrecedences, NoRanking
  <2>3. \A p \in Paths :
          /\ latest'[p].source = latest[p].source /\ latest'[p].age = Older(latest[p].age)
          /\ \A i \in Listed : heard'[p][i] = Older(heard[p][i])
    BY <1>5 DEF Tick, TypeOK
  <2>4. WinnerClock'
    <3> SUFFICES ASSUME NEW p \in Paths, NEW s \in Refs, latest'[p].source = s,
                        Canonicalise(s) = s,
                        Enabled(ResolvePrecedences(p, IdentityOf[s])', IdentityOf[s])
                 PROVE  latest'[p].age = heard'[p][IdentityOf[s]]
      BY <2>1 DEF WinnerClock, Canonicalise
    <3>1. Enabled(ResolvePrecedences(p, IdentityOf[s]), IdentityOf[s])
      BY <2>2
    <3>2. IdentityOf[s] \in Listed
      BY <3>1, RankedAreListed DEF Enabled
    <3>3. latest[p].source = s
      BY <2>3
    <3>4. latest[p].age = heard[p][IdentityOf[s]]
      BY <3>1, <3>3 DEF ClockInv, WinnerClock
    <3> QED BY <2>3, <3>2, <3>4
  <2> QED BY <2>1, <2>4, SameConfig DEF ClaimsAreActive, ClockInv
<1>6. CASE UNCHANGED vars
  <2>1. UNCHANGED <<config, claimed, latest, pathToGroupId, heard>>
    BY <1>6 DEF vars
  <2> QED BY <2>1, SameConfig
          DEF ClockInv, ClaimsAreActive, WinnerClock, Canonicalise, ResolvePrecedences, NoRanking
<1> QED BY <1>1, <1>2, <1>3, <1>4, <1>5, <1>6 DEF Next, ClockInv

\* A source that the ranking of another one ranks and enables is enabled by its
\* own: it is the same override, or it belongs to an active group.
LEMMA EnabledByItsOwn ==
  ASSUME TypeOK, ClaimsAreActive, NEW p \in Paths, NEW i, NEW w, Enabled(ResolvePrecedences(p, i), w)
  PROVE  Enabled(ResolvePrecedences(p, w), w)
<1>1. CASE HasOverride(p)
  BY <1>1 DEF ResolvePrecedences
<1>2. CASE ~HasOverride(p)
  <2>1. \E g \in ActiveGroups : w \in GroupIdentities(g)
    BY <1>2, GroupOfSource DEF Enabled, ResolvePrecedences, GroupPrecedences, NoRanking, ClaimsAreActive
  <2>2. SourceToGroupId(w) # 0 /\ w \in GroupIdentities(SourceToGroupId(w))
    BY <2>1, GroupOfSource
  <2>3. FallbackMs >= 0
    BY ConstantsAssumption
  <2> QED BY <1>2, <2>2, <2>3 DEF Enabled, ResolvePrecedences, GroupPrecedences
<1> QED BY <1>1, <1>2

FallbackStep ==
  \A r \in Refs, p \in Paths :
    LET i == IdentityOf[Canonicalise(r)]
        w == Identity(latest[p].source)
        ranking == ResolvePrecedences(p, i)
    IN  /\ Publish(r, p) /\ ~Bypasses(p) /\ ~Passthrough
        /\ Canonicalise(latest[p].source) = latest[p].source
        /\ Enabled(ranking, w) /\ RanksAbove(ranking, w, i)
        => (Identity(latest'[p].source) = i <=> heard[p][w] > WaitOf(ranking, w, i))

\* What ranks below the winner is preferred when the winner is silent for
\* longer than it has to wait, and not before.
LEMMA PreferredAfterWait ==
  ASSUME NEW ranking, Ranking(ranking), NEW winner, winner.age \in Nat, NEW s, s \in Refs,
         Cardinality(Refs) \in Nat \ {0}, UnknownSourceTimeout \in Nat,
         Enabled(ranking, Identity(winner.source)), Identity(s) # Identity(winner.source),
         RanksAbove(ranking, Identity(winner.source), Identity(s))
  PROVE  IsPreferredValue(ranking, winner, s)
           <=> winner.age > WaitOf(ranking, Identity(winner.source), Identity(s))
<1> DEFINE i == Identity(s)
           w == Identity(winner.source)
           wait == WaitOf(ranking, w, i)
<1> SUFFICES IsPreferredValue(ranking, winner, s) <=> winner.age > wait
  OBVIOUS
<1>1. /\ w \in DOMAIN ranking /\ winner.source # s
      /\ ranking[w].precedence \in Nat /\ ranking[w].timeout \in Int
      /\ ranking[w].precedence < Cardinality(Refs)
      /\ GetPrecedence(ranking, winner.source, Highest) = ranking[w]
      /\ IsKnown(ranking, winner.source)
  BY DEF Enabled, Ranking, GetPrecedence, IsKnown
<1>2. CASE i \in DOMAIN ranking
  <2>1. /\ GetPrecedence(ranking, s, Lowest) = ranking[i] /\ IsKnown(ranking, s)
        /\ wait = ranking[i].timeout
        /\ HoldTimeout(ranking, winner.source, s) = ranking[i].timeout
    BY <1>1, <1>2 DEF GetPrecedence, IsKnown, WaitOf, HoldTimeout
  <2>2. /\ ranking[i].timeout >= 0 /\ ranking[i].precedence \in Nat
        /\ ranking[w].precedence < ranking[i].precedence
    BY <1>2 DEF RanksAbove, Enabled, Ranking
  <2> HIDE DEF i, w, wait
  <2> QED BY <1>1, <2>1, <2>2 DEF IsPreferredValue
<1>3. CASE i \notin DOMAIN ranking
  <2>1. GetPrecedence(ranking, s, Lowest) = Lowest /\ ~IsKnown(ranking, s)
    BY <1>3 DEF GetPrecedence, IsKnown
  <2>2. HoldTimeout(ranking, winner.source, s) = wait
    BY <1>1, <1>3, <2>1 DEF HoldTimeout, WaitOf, Lowest
  <2>3. ranking[w].precedence < Lowest.precedence /\ Lowest.timeout >= 0
    BY <1>1 DEF Lowest
  <2>4. Lowest.precedence \in Nat
    BY DEF Lowest
  <2> HIDE DEF i, w, wait
  <2> QED BY <1>1, <2>1, <2>2, <2>3, <2>4 DEF IsPreferredValue
<1> QED BY <1>2, <1>3

LEMMA FallbackHolds == ClockInv => FallbackStep
<1> SUFFICES ASSUME ClockInv, NEW r \in Refs, NEW p \in Paths,
                    Publish(r, p), ~Bypasses(p), ~Passthrough,
                    Canonicalise(latest[p].source) = latest[p].source,
                    Enabled(ResolvePrecedences(p, IdentityOf[Canonicalise(r)]),
                            Identity(latest[p].source)),
                    RanksAbove(ResolvePrecedences(p, IdentityOf[Canonicalise(r)]),
                               Identity(latest[p].source), IdentityOf[Canonicalise(r)])
             PROVE  Identity(latest'[p].source) = IdentityOf[Canonicalise(r)]
                      <=> heard[p][Identity(latest[p].source)]
                            > WaitOf(ResolvePrecedences(p, IdentityOf[Canonicalise(r)]),
                                     Identity(latest[p].source), IdentityOf[Canonicalise(r)])
  BY DEF FallbackStep
<1> DEFINE s == Canonicalise(r)
           i == IdentityOf[s]
           w == Identity(latest[p].source)
           ranking == ResolvePrecedences(p, i)
<1> TypeOK /\ ClaimsAreActive
  BY DEF ClockInv
<1>1. s \in Refs /\ Identity(s) = i
  BY Canonical, IdentityOfCanonical
<1>2. w \in Identities
  BY RankedAreListed, ListedAreIdentities DEF Enabled
<1>3. latest[p].source \in Refs /\ w = IdentityOf[latest[p].source]
  BY <1>2, ConstantsAssumption DEF TypeOK, Identity
<1>4. latest[p].age = heard[p][w] /\ latest[p].age \in Nat
  BY <1>3, EnabledByItsOwn DEF ClockInv, WinnerClock, TypeOK, Ages
<1>5. Ranking(ranking)
  BY ResolvedRanking
<1>6. latest' = IF ranking # NoRanking /\ IsPreferredValue(ranking, latest[p], s)
                  THEN [latest EXCEPT ![p] = [source |-> s, age |-> 0]]
                  ELSE latest
  BY DEF Publish
<1>7. Enabled(ranking, w) /\ RanksAbove(ranking, w, i)
  OBVIOUS
<1> SUFFICES Identity(latest'[p].source) = i <=> heard[p][w] > WaitOf(ranking, w, i)
  OBVIOUS
<1>8. w = Identity(latest[p].source)
  OBVIOUS
<1>9. Cardinality(Refs) \in Nat \ {0} /\ UnknownSourceTimeout \in Nat
  BY SomeReference, ConstantsAssumption
<1> HIDE DEF s, i, w, ranking
<1>10. ranking # NoRanking
  BY <1>7 DEF Enabled, NoRanking
<1>11. i # w
  <2>1. w \in DOMAIN ranking /\ ranking[w].precedence \in Nat
    BY <1>5, <1>7 DEF Enabled, Ranking
  <2> QED BY <1>7, <2>1 DEF RanksAbove
<1>12. IsPreferredValue(ranking, latest[p], s) <=> latest[p].age > WaitOf(ranking, w, i)
  BY <1>1, <1>4, <1>5, <1>7, <1>8, <1>9, <1>11, PreferredAfterWait
<1>13. Identity(latest'[p].source) = i <=> IsPreferredValue(ranking, latest[p], s)
  BY <1>1, <1>6, <1>8, <1>10, <1>11 DEF TypeOK
<1> QED BY <1>4, <1>12, <1>13

\* "The currently-winning source must be silent before that rank is allowed to
\* take over": a source ranked below the winner, or not at all, takes over with
\* its next value if and only if the winner was last heard longer ago than that
\* source has to wait, whatever others published, claimed or had held back.
THEOREM FallbackIsFromWinner == Spec => FallbackRunsFromWinner
<1>1. Init => ClockInv
  BY ClockInit
<1>2. ClockInv /\ [Next]_vars => ClockInv'
  BY ClockStep
<1>3. ClockInv => FallbackStep
  BY FallbackHolds
<1>4. [FallbackStep]_vars <=>
        [\A r \in Refs, p \in Paths :
           LET i == IdentityOf[Canonicalise(r)]
               w == Identity(latest[p].source)
               ranking == ResolvePrecedences(p, i)
           IN  /\ Publish(r, p) /\ ~Bypasses(p) /\ ~Passthrough
               /\ Canonicalise(latest[p].source) = latest[p].source
               /\ Enabled(ranking, w) /\ RanksAbove(ranking, w, i)
               => (Identity(latest'[p].source) = i <=> heard[p][w] > WaitOf(ranking, w, i))]_vars
  BY DEF FallbackStep
<1> QED BY <1>1, <1>2, <1>3, <1>4, PTL DEF Spec, FallbackRunsFromWinner
=============================================================================
