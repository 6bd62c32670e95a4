------------------------------- MODULE Course -------------------------------
(***************************************************************************)
(* The Course API of src/api/course/index.ts: the destination or route in  *)
(* progress, the source that set it, and the file it is kept in across     *)
(* restarts (Store, over AtomicWrite).                                     *)
(*                                                                         *)
(* Positions, previous point, arrival circle and times are left out; a     *)
(* request that changes only those shows as the write it causes.  So is    *)
(* what a request copied of the course before it awaited a resource: only  *)
(* such parts of the copy reach the new course.  What fetching a resource  *)
(* yields (nothing, or a route of some length) is chosen at each fetch: it *)
(* may have been changed, or its provider not be registered, at any time.  *)
(***************************************************************************)
EXTENDS Integers, FiniteSets

CONSTANTS
  Externals,       \* sources of types NMEA0183 and NMEA2000
  Writers,         \* bound: the writes of the course file under way at a time
  MaxLen,          \* bound: points of a route
  MaxFetching,     \* bound: handlers that wait for a resource at a time
  NoSource, NoRoute,
  NoFile, Empty, Torn

VARIABLES
  course,          \* courseInfo
  cmdSource,       \* the source that set the destination, or NoSource
  navTimer,        \* externalNavTimer is armed
  apiOnly,         \* settings.courseApi.apiOnly
  fetching,        \* handlers that wait for a resource
  file, tmp, writer, trust    \* of the course file

Owners == {"API"} \cup Externals

\* pointIndex of the active route: a body may carry any number.  One below zero
\* is left out as an index: it is no point of the route, as those beyond it.
Indices == 0..(MaxLen + 1)

NoPoint == [kind |-> "none", by |-> NoSource]
Points == {NoPoint} \cup [kind : {"location", "waypoint", "routePoint"}, by : Owners]
Courses == [nextPoint : Points, activeRoute : Indices \cup {NoRoute}]

NoCourseInfo == [nextPoint |-> NoPoint, activeRoute |-> NoRoute]

ASSUME CourseAssumption ==
  /\ MaxLen \in Nat \ {0} /\ MaxFetching \in Nat
  /\ {NoSource, "API"} \cap Externals = {}
  /\ NoSource # "API"
  /\ NoRoute \notin Int
  /\ NoFile \notin {Empty, Torn}
  /\ {NoFile, Empty, Torn} \cap Courses = {}

INSTANCE AtomicWrite WITH Data <- Courses

courseVars == <<course, cmdSource, navTimer, apiOnly, fetching>>
vars == <<courseVars, file, tmp, writer, trust>>

IsExternal(src) == src \in Externals

-----------------------------------------------------------------------------
Init ==
  /\ course = NoCourseInfo
  /\ cmdSource = NoSource
  /\ navTimer = FALSE
  /\ apiOnly \in BOOLEAN
  /\ fetching = {}
  /\ FilesInit

\* Calls of store.write in the order given, each of which runs on its own.
NoWrite == UNCHANGED <<file, tmp, writer, trust>>
Persist(c) ==
  /\ Free # {}
  /\ writer' = Started(writer, CHOOSE w \in Free : TRUE, c)
  /\ trust' = TrustAfterStart(writer)
  /\ UNCHANGED <<file, tmp>>
PersistBoth(c, d) ==
  \E w, v \in Free :
    /\ w # v
    /\ writer' = Started(Started(writer, w, c), v, d)
    /\ trust' = "overlapped"
    /\ UNCHANGED <<file, tmp>>

\* emitCourseInfo without noSave: what the API set is written.
EmitCourseInfo == IF cmdSource' = "API" THEN Persist(course') ELSE NoWrite

IsSourceChange(src) == cmdSource # NoSource /\ cmdSource # src

NoCourse ==
  /\ navTimer' = FALSE
  /\ course' = NoCourseInfo
  /\ cmdSource' = NoSource
  /\ UNCHANGED fetching

\* clearDestination(true)
ClearDestination == NoCourse /\ Persist(NoCourseInfo)

\* Faulty variant: the timer is armed before the old state is cleared.
SetCourseMarkFirst(c, src) ==
  /\ course' = c
  /\ cmdSource' = src
  /\ navTimer' = FALSE
  /\ IF IsSourceChange(src) THEN PersistBoth(NoCourseInfo, c)
     ELSE EmitCourseInfo
  /\ UNCHANGED fetching

\* Faulty variant: a course that takes over is emitted with noSave.
SetCourseNotSaved(c, src) ==
  /\ course' = c
  /\ cmdSource' = src
  /\ navTimer' = IsExternal(src)
  /\ IF IsSourceChange(src) THEN Persist(NoCourseInfo) ELSE EmitCourseInfo
  /\ UNCHANGED fetching

\* The end of setDestination and activateRoute, and the emit of the caller.  A
\* new owner clears the course of the old one first, which is a write too.
SetCourse(c, src) ==
  /\ course' = c
  /\ cmdSource' = src
  /\ navTimer' = IsExternal(src)
  /\ IF IsSourceChange(src) THEN PersistBoth(NoCourseInfo, c)
     ELSE EmitCourseInfo
  /\ UNCHANGED fetching

\* setDestination, of a position or of a waypoint.  Without the waypoint or a
\* position of the vessel it changes nothing.
SetDestination(kind, src) ==
  SetCourse([nextPoint |-> [kind |-> kind, by |-> src], activeRoute |-> NoRoute], src)

\* Faulty variant: a number too large is let through.
ParsePointIndexUnbounded(index, length) ==
  IF index < 0 THEN 0 ELSE index

ParsePointIndex(index, length) ==
  IF index < 0 THEN 0 ELSE IF index > length - 1 THEN length - 1 ELSE index

RoutePoint == [kind |-> "routePoint", by |-> "API"]

ActivateRoute(index, length) ==
  SetCourse([nextPoint |-> RoutePoint, activeRoute |-> ParsePointIndex(index, length)], "API")

-----------------------------------------------------------------------------
\* PUT destination and PUT activeRoute, and the same calls of plugins.
PutDestination ==
  /\ \E kind \in {"location", "waypoint"} : SetDestination(kind, "API")
  /\ UNCHANGED apiOnly

PutActiveRoute ==
  /\ \E index \in Indices, length \in 1..MaxLen : ActivateRoute(index, length)
  /\ UNCHANGED apiOnly

DeleteCourse == ClearDestination /\ UNCHANGED apiOnly

\* clearDestination() of a plugin, without persistState: the file keeps the
\* course, and a restart takes it up again.
ClearUnsaved == NoCourse /\ NoWrite /\ UNCHANGED apiOnly

\* PUT arrivalCircle, targetArrivalTime and, with a destination, restart: the
\* course is written whoever set it.
PutAttribute ==
  /\ Persist(course)
  /\ UNCHANGED courseVars

PostApiOnly ==
  /\ apiOnly' = TRUE
  /\ IF cmdSource = "API"
       THEN NoWrite /\ UNCHANGED <<course, cmdSource, navTimer, fetching>>
       ELSE ClearDestination

DeleteApiOnly ==
  /\ apiOnly' = FALSE
  /\ NoWrite
  /\ UNCHANGED <<course, cmdSource, navTimer, fetching>>

\* PUT settings of the admin UI: when they are written, a copy with what the
\* request says replaces the live settings, and the course is left alone.  An
\* apiOnly that the request does not name is that of before the write.
PutSettings ==
  /\ apiOnly' \in BOOLEAN
  /\ NoWrite
  /\ UNCHANGED <<course, cmdSource, navTimer, fetching>>

StartFetch(handler) ==
  /\ Cardinality(fetching) < MaxFetching
  /\ fetching' = fetching \cup {handler}
EndFetch(handler) == handler \in fetching /\ fetching' = fetching \ {handler}

\* PUT activeRoute/:action.  The active route is looked at before the route is
\* fetched, and again after.
StartRouteAction ==
  /\ course.activeRoute # NoRoute
  /\ StartFetch("routeAction")
  /\ NoWrite
  /\ UNCHANGED <<course, cmdSource, navTimer, apiOnly>>

\* The route is gone, or there is no active route by now.
RouteActionFails ==
  /\ EndFetch("routeAction")
  /\ NoWrite
  /\ UNCHANGED <<course, cmdSource, navTimer, apiOnly>>

\* The index has been changed, and the rest fails: there is no such point on
\* the route, or no vessel position to be the point before the first.
RouteActionBreaksOff(index) ==
  /\ course' = [course EXCEPT !.activeRoute = index]
  /\ NoWrite
  /\ UNCHANGED <<cmdSource, navTimer>>

RouteActionEnds(index) ==
  /\ course' = [course EXCEPT !.activeRoute = index, !.nextPoint = RoutePoint]
  /\ UNCHANGED <<cmdSource, navTimer>>
  /\ EmitCourseInfo

\* nextPoint (by one, either way) and pointIndex.
StepRoute ==
  /\ EndFetch("routeAction")
  /\ course.activeRoute # NoRoute
  /\ \E length \in 1..MaxLen,
        to \in Indices \cup {course.activeRoute + 1, course.activeRoute - 1} :
       LET index == ParsePointIndex(to, length)
       IN  RouteActionEnds(index) \/ (index = 0 /\ RouteActionBreaksOff(index))
  /\ UNCHANGED apiOnly

\* reverse: a pointIndex in the body is taken as it is, and the index that is
\* calculated without one may be off a route that was shortened.
ReverseRoute ==
  /\ EndFetch("routeAction")
  /\ course.activeRoute # NoRoute
  /\ \E length \in 1..MaxLen, index \in Indices :
       \/ index \in 0..(length - 1) /\ RouteActionEnds(index)
       \/ index \notin 1..(length - 1) /\ RouteActionBreaksOff(index)
  /\ UNCHANGED apiOnly

\* refresh: the index becomes that of the point with the position of nextPoint,
\* if the route still has it.
RefreshRoute ==
  /\ EndFetch("routeAction")
  /\ course.activeRoute # NoRoute
  /\ \E index \in {course.activeRoute} \cup 0..(MaxLen - 1) :
       course' = [course EXCEPT !.activeRoute = index]
  /\ UNCHANGED <<cmdSource, navTimer, apiOnly>>
  /\ EmitCourseInfo

-----------------------------------------------------------------------------
\* processResourceDeltas: the active route or the destination was changed, and
\* is fetched anew.
StartResourceUpdate ==
  /\ \/ /\ course.activeRoute # NoRoute
        /\ StartFetch("routeUpdate")
     \/ /\ course.activeRoute = NoRoute /\ course.nextPoint.kind = "waypoint"
        /\ StartFetch("waypointUpdate")
  /\ NoWrite
  /\ UNCHANGED <<course, cmdSource, navTimer, apiOnly>>

\* Faulty variant: the active route is taken from before the fetch.
RouteUpdateOfOldRoute ==
  /\ EndFetch("routeUpdate")
  /\ course' = [course EXCEPT !.nextPoint = RoutePoint]
  /\ UNCHANGED <<cmdSource, navTimer, apiOnly>>
  /\ EmitCourseInfo

\* nextPoint is made anew from the point at the index, which is bounded for
\* this and itself stays: the point before it may be off the route by now, and
\* then the rest fails.
RouteUpdate ==
  /\ EndFetch("routeUpdate")
  /\ course.activeRoute # NoRoute
  /\ course' = [course EXCEPT !.nextPoint = RoutePoint]
  /\ UNCHANGED <<cmdSource, navTimer, apiOnly>>
  /\ \/ EmitCourseInfo
     \/ course.activeRoute > 1 /\ NoWrite

\* The position of nextPoint, whatever it is by now, becomes the waypoint's.
WaypointUpdate ==
  /\ EndFetch("waypointUpdate")
  /\ course.nextPoint # NoPoint
  /\ course' = course
  /\ UNCHANGED <<cmdSource, navTimer, apiOnly>>
  /\ EmitCourseInfo

\* The resource is gone, or what it belonged to.
ResourceUpdateFails ==
  /\ \E update \in {"routeUpdate", "waypointUpdate"} : EndFetch(update)
  /\ NoWrite
  /\ UNCHANGED <<course, cmdSource, navTimer, apiOnly>>

-----------------------------------------------------------------------------
\* Faulty variant: the newest source wins.
ListensToAny(e) == cmdSource # "API" /\ ~(cmdSource = NoSource /\ apiOnly)

\* processV1DestinationDeltas and parseStreamValue: is source e heard?
ListensTo(e) == cmdSource = e \/ (cmdSource = NoSource /\ ~apiOnly)

\* Source e sends a position of its next point, a new one or the same.  Its
\* other values re-arm the timer and change nothing else that is modelled.
ExternalPosition(e) ==
  /\ ListensTo(e)
  /\ SetDestination("location", e)
  /\ UNCHANGED apiOnly

\* Source e sends that it has no next point any more.
ExternalEnds(e) ==
  /\ cmdSource = e
  /\ ClearDestination
  /\ UNCHANGED apiOnly

\* Faulty variant: the timeout goes by the clock of the last course alone.
NavTimeoutRearms ==
  /\ navTimer
  /\ navTimer' = TRUE
  /\ NoWrite
  /\ UNCHANGED <<course, cmdSource, apiOnly, fetching>>

\* The timer of scheduleExternalNavigationTimeout, 15 s after the last update.
NavTimeout ==
  /\ navTimer
  /\ IsExternal(cmdSource)
  /\ ClearDestination
  /\ UNCHANGED apiOnly

\* Faulty variant: any next point will do.
IsValidCourseWithPoint(c) == c.nextPoint # NoPoint

\* validateCourseInfo: a route whose index is on it, or a waypoint by its href.
IsValidCourse(c) ==
  \/ c.activeRoute # NoRoute /\ c.activeRoute \in 0..(MaxLen - 1)
  \/ c.nextPoint.kind = "waypoint"

\* The server dies and starts again.  A course is dropped that cannot be read
\* or whose resource is not found, or not yet: start does not wait for the
\* plugins that provide resources.  The file keeps what was dropped.  Changed
\* settings are written later than they take effect, in a queue, and by hand:
\* apiOnly may be either.
Restart ==
  /\ \E c \in {NoCourseInfo} \cup ({file} \cap Courses) :
       /\ c = NoCourseInfo \/ IsValidCourse(c)
       /\ course' = c
       /\ cmdSource' = IF c.nextPoint = NoPoint THEN NoSource ELSE "API"
  /\ navTimer' = FALSE
  /\ apiOnly' \in BOOLEAN
  /\ fetching' = {}
  /\ FilesCrash

-----------------------------------------------------------------------------
ExternalDelta == \E e \in Externals : ExternalPosition(e) \/ ExternalEnds(e)

RouteAction ==
  StartRouteAction \/ RouteActionFails \/ StepRoute \/ ReverseRoute \/ RefreshRoute

ResourceUpdate ==
  StartResourceUpdate \/ RouteUpdate \/ WaypointUpdate \/ ResourceUpdateFails

Next ==
  \/ Restart
  \/ PutDestination \/ PutActiveRoute \/ DeleteCourse \/ ClearUnsaved \/ PutAttribute
  \/ PostApiOnly \/ DeleteApiOnly \/ PutSettings
  \/ RouteAction
  \/ ResourceUpdate
  \/ ExternalDelta
  \/ NavTimeout
  \/ \E w \in Writers : FilesStep(w) /\ UNCHANGED courseVars

Spec == Init /\ [][Next]_vars

\* The event loop gets to a timer, and the disk to a write.  The timer needs
\* strong fairness only because the bound on writes under way may hold it up.
Fairness ==
  /\ SF_vars(NavTimeout)
  /\ \A w \in Writers : WF_vars(FilesStep(w) /\ UNCHANGED courseVars)

FairSpec == Spec /\ Fairness

-----------------------------------------------------------------------------
TypeOK ==
  /\ course \in Courses
  /\ cmdSource \in Owners \cup {NoSource}
  /\ navTimer \in BOOLEAN
  /\ apiOnly \in BOOLEAN
  /\ fetching \subseteq {"routeAction", "routeUpdate", "waypointUpdate"}
  /\ FilesTypeOK

\* A destination and the source it belongs to come and go together, and only
\* the API follows routes, although handlers change the course after a fetch
\* during which it was cleared, replaced or taken over, and although the course
\* of an external source is written to the file too: a restart never makes it
\* one of the API, which no timer would end and no other source displace.
OwnedCourse ==
  /\ cmdSource = course.nextPoint.by
  /\ course.activeRoute # NoRoute => course.nextPoint = RoutePoint

\* The timer runs exactly while the course is that of an external source: no
\* such course is without one, and none is left to clear a later course.
ExternalCourseIsTimed == navTimer <=> IsExternal(cmdSource)

\* "Delta source cannot override destination isAPIset by API": an external
\* source becomes the owner only of no course at all, and never in apiOnly mode.
\* (One that was the owner before the mode was switched on is another matter:
\* ApiOnlyIsObeyed.)
NoTakeover ==
  [][cmdSource' # cmdSource /\ IsExternal(cmdSource')
       => cmdSource = NoSource /\ ~apiOnly]_vars

\* What emitCourseInfo writes is the course there is: unless writes overlapped,
\* as those of a takeover do, or failed, the file holds the destination of the
\* API once its writes are done, through fetches, clears and restarts.  What
\* start makes of the file is LocationSurvivesRestart's question.
ApiCourseIsPersisted ==
  /\ cmdSource = "API"
  /\ Free = Writers
  /\ trust = "current"
  => file \in Courses /\ file.nextPoint = course.nextPoint

\* "External navigation stale; clearing course": once the external sources have
\* fallen silent for good no course of theirs is left.
ExternalCourseEnds ==
  <>[][~ExternalDelta]_vars => <>[](~IsExternal(cmdSource))

\* atomicWriteFile's promise for the course file, whatever handlers, external
\* sources, restarts and failures make of its writes: a write that runs alone
\* replaces the course as a whole, by what it was given and in one step, or
\* leaves the file as it was.
Stored == INSTANCE StoredFile
            WITH Data <- Courses, mode <- WriteMode, next <- NextContent

FileIsAtomic == Stored!Spec

\* course_api.md, apiOnly: "NMEA stream data is ignored", "Switching to `apiOnly`
\* mode when an NMEA sourced destination is active will clear the destination".
ApiOnlyIsObeyed == apiOnly => ~IsExternal(cmdSource)

\* "the Course API persists course information on the server to ensure data is
\* not lost in the event of a server restart": a location set by the API whose
\* write succeeded is the destination again after a restart.  (It is no resource,
\* whose provider might be missing.)
LocationSurvivesRestart ==
  [][/\ Restart
     /\ cmdSource = "API" /\ course.nextPoint.kind = "location"
     /\ file = course /\ Free = Writers
     => course' = course]_vars
=============================================================================
