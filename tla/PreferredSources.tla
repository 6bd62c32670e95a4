-------------------------- MODULE PreferredSources --------------------------
(***************************************************************************)
(* What the delta cache of src/deltacache.ts notes of the decisions of the *)
(* priority engine: the preferred source of every path, which decides what *)
(* a new subscriber is sent of the cache, and the feed by which the admin  *)
(* UI learns of it.                                                        *)
(*                                                                         *)
(* The cache sees a delta twice: before the engine does (ingestDelta), and *)
(* again with the values the engine let through (onValue).  The timer of   *)
(* the feed is armed with the first dirty path and takes all of them, so   *)
(* it is armed exactly while there are some.  Other vessels, whose entries *)
(* go with their context, are left out: the engine ranks none of them.     *)
(***************************************************************************)
EXTENDS SourcePriority

VARIABLES
  preferredSources,         \* [Paths -> Refs, or NoSource for none]
  livePreferredDirtyPaths,  \* paths the next LIVEPREFERREDSOURCES carries
  livePreferredSources      \* the feed's state at an admin UI that merges what
                            \* it is sent in the order it was sent

preferredVars == <<preferredSources, livePreferredDirtyPaths, livePreferredSources>>

NoPreferences == [p \in Paths |-> NoSource]

PreferredInit ==
  /\ preferredSources = NoPreferences
  /\ livePreferredDirtyPaths = {}
  /\ livePreferredSources = NoPreferences

\* routesPath: does the engine decide path p?  It says so of a fan-out path as
\* well, because of its override.
RoutesPath(p) ==
  ~Passthrough /\ (HasOverride(p) \/ (pathToGroupId[p] # 0 /\ Cardinality(publishers[p]) >= 2))

\* Does the engine let a value of path p from reference r through?
Dispatched(r, p) ==
  LET s == Canonicalise(r)
      ranking == ResolvePrecedences(p, IdentityOf[s])
  IN  Passthrough \/ Bypasses(p) \/ ranking = NoRanking
      \/ IsPreferredValue(ranking, latest[p], s)

\* ingestDelta: the first source of a path is noted, whatever the engine will
\* say of it.
NotedAtIngest(r, p) ==
  IF preferredSources[p] = NoSource THEN Canonicalise(r) ELSE preferredSources[p]

\* Faulty variant: the first source noted stays.
NotedOnValueOnce(r, p) == NotedAtIngest(r, p)

\* onValue, after the engine has taken the delta.
NotedOnValue(r, p) == IF RoutesPath(p)' THEN Canonicalise(r) ELSE NoSource

\* The whole way of one value.
NotePreferred(r, p) ==
  LET noted == IF Dispatched(r, p) THEN NotedOnValue(r, p) ELSE NotedAtIngest(r, p)
  IN  /\ preferredSources' = [preferredSources EXCEPT ![p] = noted]
      /\ livePreferredDirtyPaths' =
           livePreferredDirtyPaths
             \cup (IF noted # NotedAtIngest(r, p) THEN {p} ELSE {})
      /\ UNCHANGED livePreferredSources

\* The paths whose entry changes become dirty.
Repreferred(preferred) ==
  /\ preferredSources' = preferred
  /\ livePreferredDirtyPaths' =
       livePreferredDirtyPaths
         \cup {p \in Paths : preferred[p] # preferredSources[p]}
  /\ UNCHANGED livePreferredSources

\* removeSource, when the cache has dropped what it had of r: any source that
\* is left takes its place.
PreferOthers(r) ==
  \E preferred \in [Paths -> {NoSource} \cup {Canonicalise(q) : q \in Refs}] :
    /\ \A p \in Paths :
         LET left == {Canonicalise(q) : q \in cached'[p]}
         IN  preferred[p] \in
               IF preferredSources[p] # Canonicalise(r) THEN {preferredSources[p]}
               ELSE IF left = {} THEN {NoSource} ELSE left
    /\ Repreferred(preferred)

\* Faulty variant: what is dropped is not told to the admin UI.
DropUnroutedSilently ==
  /\ preferredSources' =
       [p \in Paths |-> IF RoutesPath(p)' THEN preferredSources[p] ELSE NoSource]
  /\ UNCHANGED <<livePreferredDirtyPaths, livePreferredSources>>

\* setRoutesPathPredicate, with the engine that was just rebuilt.
DropUnrouted ==
  Repreferred([p \in Paths |-> IF RoutesPath(p)' THEN preferredSources[p] ELSE NoSource])

\* The timer of scheduleLivePreferredEmit: a dirty path without an entry is
\* sent as the empty string, upon which the admin UI forgets it.
EmitLivePreferred ==
  /\ livePreferredDirtyPaths # {}
  /\ livePreferredSources' =
       [p \in Paths |-> IF p \in livePreferredDirtyPaths THEN preferredSources[p]
                        ELSE livePreferredSources[p]]
  /\ livePreferredDirtyPaths' = {}
  /\ UNCHANGED preferredSources

\* GET livePreferredSources: an admin UI begins with all there is.
LoadLivePreferred ==
  /\ livePreferredSources' = preferredSources
  /\ UNCHANGED <<preferredSources, livePreferredDirtyPaths>>

-----------------------------------------------------------------------------
PreferredTypeOK ==
  /\ preferredSources \in [Paths -> Refs \cup {NoSource}]
  /\ livePreferredDirtyPaths \subseteq Paths
  /\ livePreferredSources \in [Paths -> Refs \cup {NoSource}]

\* "the stale winner would persist in the merged map": what the admin UI shows
\* as the winner of a path is the preferred source, or the path is dirty and
\* will be sent.  It may lack a winner (the first source of a path is noted
\* without being announced), but never keeps one that was dropped or replaced.
NoStaleWinner ==
  \A p \in Paths \ livePreferredDirtyPaths :
    livePreferredSources[p] \in {NoSource, preferredSources[p]}

\* filterDeltasToPreferred: may a new subscriber of the preferred sources be
\* sent the cached value of r?  If no cached reference is the preferred one,
\* the first in the cache is sent, which is left open.
Replayed(r, p) ==
  /\ r \in cached[p]
  /\ \/ preferredSources[p] = NoSource
     \/ preferredSources[p] = r
     \/ preferredSources[p] \notin cached[p]
=============================================================================
