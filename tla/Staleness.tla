----------------------------- MODULE Staleness ------------------------------
(***************************************************************************)
(* The staleness enforcer of src/staleness.ts with the parts of the server *)
(* it works between: the delta cache it sweeps (src/deltacache.ts) and the *)
(* source-priority engine that its own deltas pass again (dispatchDelta in *)
(* src/index.ts).  When a source of a path has been silent for longer than *)
(* the effective timeout, the enforcer publishes a null in its name.       *)
(*                                                                         *)
(* A source publishes numbers or a null of its own; texts and booleans are *)
(* exempt from the sweep and left out, as are the learnt timeouts (auto)   *)
(* and, of what SourcePriority has, address claims.                        *)
(* A sweep treats each stale source in turn; a step here treats one.       *)
(***************************************************************************)
EXTENDS PreferredSources, FiniteSetsExt

CONSTANTS
  BaseTimeout,     \* [Paths -> Nat], 0 for paths that never time out
  NoValue          \* what a path shows before its first delta

ASSUME StalenessAssumption ==
  /\ BaseTimeout \in [Paths -> 0..(MaxAge - 1)]
  /\ \A p \in EventPaths : BaseTimeout[p] = 0
  /\ NoValue \notin {"number", "null", "timedOut"}

VARIABLES
  leafValue,       \* [Paths -> [cached refs -> "number" | "null"]]: the cache
  silence,         \* [Paths -> [cached refs -> age]] of the last delta of the
                   \* source itself; the sweep looks at no other timestamp
  timedOut,        \* (path, ref) pairs whose timeout has been signalled
  shown            \* [Paths -> [source, value]] at a subscriber of the
                   \* preferred sources

staleVars == <<leafValue, silence, timedOut, shown>>
allVars == <<vars, preferredVars, staleVars>>

Shown == [source : Refs \cup {NoSource}, value : {"number", "null", "timedOut", NoValue}]
NothingShown == [source |-> NoSource, value |-> NoValue]

-----------------------------------------------------------------------------
StaleInit ==
  /\ Init
  /\ PreferredInit
  /\ leafValue = [p \in Paths |-> << >>]
  /\ silence = [p \in Paths |-> << >>]
  /\ timedOut = {}
  /\ shown = [p \in Paths |-> NothingShown]

\* Faulty variant: there is no failover window.
NoFailoverFloor(p) == 0

\* getMaxFailoverTimeoutMs: the longest timeout in the override of the path
\* (none for the '*' of a fan-out path) or in the ranking of the group that
\* claimed it.
FailoverFloor(p) ==
  LET ranking == IF HasOverride(p) THEN OverridePrecedences(p)
                 ELSE IF pathToGroupId[p] # 0 THEN GroupPrecedences(pathToGroupId[p])
                 ELSE NoRanking
  IN  Max({0} \cup {ranking[i].timeout : i \in DOMAIN ranking})

\* The leaf of a path with the entry of source r replaced or added.
WithEntry(leaf, r, entry) ==
  [q \in DOMAIN leaf \cup {r} |-> IF q = r THEN entry ELSE leaf[q]]

\* dispatchDelta: the cache takes the value of r, and subscribers get it if
\* the engine lets it through.
Ingest(r, p, cachedValue, sentValue) ==
  /\ Publish(r, p)
  /\ NotePreferred(r, p)
  /\ leafValue' = [leafValue EXCEPT ![p] = WithEntry(@, r, cachedValue)]
  /\ shown' = IF Dispatched(r, p)
                THEN [shown EXCEPT ![p] = [source |-> r, value |-> sentValue]]
                ELSE shown

\* Faulty variant: what has timed out once stays marked.
OnIncomingKeepsMark(r, p) == UNCHANGED timedOut

\* onIncoming, which the cache calls for the deltas that the engine let through.
OnIncoming(r, p) ==
  timedOut' = IF Dispatched(r, p) THEN timedOut \ {<<p, r>>} ELSE timedOut

\* A source publishes a value.
Measure(r, p, value) ==
  /\ Ingest(r, p, value, value)
  /\ silence' = [silence EXCEPT ![p] = WithEntry(@, r, 0)]
  /\ OnIncoming(r, p)

\* Faulty variant: a path with a failover window is left to the engine.
ExceededUnlessRanked(age, p) == age > BaseTimeout[p] /\ FailoverFloor(p) = 0

Exceeded(age, p) == age > BaseTimeout[p] /\ age > FailoverFloor(p)

\* Faulty variant: one silent source makes the whole path stale.
IsStaleByPath(r, p) == \E q \in cached[p] : Exceeded(silence[p][q], p)

\* "Effective timeout per path = max(stale timeout, max failover timeout)"
IsStale(r, p) == Exceeded(silence[p][r], p)

\* checkLeafGroup and emit, for one source of one path.
Sweep(r, p) ==
  /\ BaseTimeout[p] # 0
  /\ r \in cached[p]
  /\ leafValue[p][r] # "null"
  /\ <<p, r>> \notin timedOut
  /\ timedOut' = timedOut \cup {<<p, r>>}
  /\ IsStale(r, p)
  /\ UNCHANGED silence
  /\ Ingest(r, p, "null", "timedOut")

\* Faulty variant: the value of the source stays behind.
RemoveSourceKeepingValue(r) ==
  /\ ForgetSource(r)
  /\ PreferOthers(r)
  /\ silence' = [p \in Paths |-> Restrict(silence[p], cached[p] \ {r})]
  /\ UNCHANGED <<leafValue, timedOut, shown>>

\* removeSource: the cache forgets the source, and clients are told to drop
\* what they have of it.  The enforcer is not told.
RemoveSource(r) ==
  /\ ForgetSource(r)
  /\ PreferOthers(r)
  /\ leafValue' = [p \in Paths |-> Restrict(leafValue[p], cached[p] \ {r})]
  /\ silence' = [p \in Paths |-> Restrict(silence[p], cached[p] \ {r})]
  /\ shown' = [p \in Paths |-> IF shown[p].source = r THEN NothingShown ELSE shown[p]]
  /\ UNCHANGED timedOut

TimePasses ==
  /\ UNCHANGED <<leafValue, timedOut, shown, preferredVars>>
  /\ Tick
  /\ silence' = [p \in Paths |-> [r \in cached[p] |-> Older(silence[p][r])]]

StaleNext ==
  \/ \E r \in Refs, p \in Paths :
       \/ \E value \in {"number", "null"} : Measure(r, p, value)
       \/ Sweep(r, p)
  \/ \E r \in Refs : RemoveSource(r)
  \/ \E c \in Configs :
       ActivateSourcePriorities(c) /\ DropUnrouted /\ UNCHANGED staleVars
  \/ EmitLivePreferred /\ UNCHANGED <<vars, staleVars>>
  \/ LoadLivePreferred /\ UNCHANGED <<vars, staleVars>>
  \/ TimePasses

StaleSpec == StaleInit /\ [][StaleNext]_allVars

\* The clock runs and the sweep gets to every source.
StaleFairness ==
  /\ WF_allVars(TimePasses)
  /\ \A r \in Refs, p \in Paths : WF_allVars(Sweep(r, p))

FairStaleSpec == StaleSpec /\ StaleFairness

-----------------------------------------------------------------------------
StaleTypeOK ==
  /\ TypeOK
  /\ PreferredTypeOK
  /\ DOMAIN leafValue = Paths /\ DOMAIN silence = Paths
  /\ \A p \in Paths : leafValue[p] \in [cached[p] -> {"number", "null"}]
  /\ \A p \in Paths : silence[p] \in [cached[p] -> Ages]
  /\ timedOut \subseteq Paths \X Refs
  /\ shown \in [Paths -> Shown]

\* "the last received value would otherwise be displayed forever": once every
\* source of a path that can time out has fallen silent for good, a subscriber
\* does not keep a number of it, whatever has timed out, recovered, been
\* removed or been configured before (sweep, engine and onIncoming together).
NothingStaleOnDisplay ==
  \A p \in {q \in Paths : BaseTimeout[q] # 0} :
    <>[](\A r \in cached[p] : silence[p][r] = MaxAge) => <>[](shown[p].value # "number")

\* A number on display is one the sweep will still find when its source falls
\* silent: the source is cached, its last value is the number shown and its
\* timeout has not been signalled already (a mark that outlives a recovery, or
\* a value taken back by the cache alone, would leave it there forever).
DisplayCanExpire ==
  \A p \in {q \in Paths : BaseTimeout[q] # 0} :
    LET r == shown[p].source
    IN  shown[p].value = "number" =>
          r \in cached[p] /\ leafValue[p][r] = "number" /\ <<p, r>> \notin timedOut

\* Staleness is per source and ends with it: a path is shown as timed out only
\* while the source in whose name it was blanked is silent.
BlankMeansSilent ==
  \A p \in Paths :
    shown[p].value = "timedOut" => silence[p][shown[p].source] > BaseTimeout[p]

\* "prevents a stale signal from firing inside an active failover": when the
\* winner of a ranked path is blanked, every other source ranked for the path
\* and seen on it has had its turn to take over.
BlankAfterFailover ==
  [][\A r \in Refs, p \in Paths :
       /\ <<p, r>> \in timedOut' \ timedOut
       /\ IsKnown(RankingOf(p), r) /\ Canonicalise(r) = latest[p].source
       =>
         \A i \in publishers[p] \cap DOMAIN RankingOf(p) :
           silence[p][r] > RankingOf(p)[i].timeout]_allVars

\* "Populate preferredSources so getCachedDeltas('preferred') works correctly":
\* while one source stays the one that subscribers are shown on a path that the
\* engine decides, and goes on publishing, a new subscriber is in the end always
\* sent its value alone, whatever the cache noted before of sources that were
\* held back, removed, timed out or reconfigured.  This holds on fan-out paths
\* too: of "every source's value" a new subscriber is sent the last sender's.
ReplayFollowsWinner ==
  \A r \in Refs, p \in Paths :
    <>[](/\ shown[p].source = r /\ RoutesPath(p)
         /\ r \in cached[p] /\ silence[p][r] < MaxAge)
      => <>[](\A q \in Refs : Replayed(q, p) => q = r)

\* "if two GPS units provide navigation.position and one goes silent, only the
\* value from that source times out": a number of a source that won the path
\* and is still updating is not blanked because another source fell silent.
LiveValueStays ==
  [][\A r \in Refs, p \in Paths :
       /\ Sweep(r, p)
       /\ shown[p].value = "number" /\ shown[p].source # r
       /\ latest[p].source = Canonicalise(shown[p].source)
       /\ silence[p][shown[p].source] = 0
       => shown'[p] = shown[p]]_allVars
=============================================================================
