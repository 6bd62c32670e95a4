# A TLA+ verification of the Signal K server

The Signal K server collects the data of a boat as *deltas* (a context, a
source, and values of paths), decides which source of a path is to be believed,
keeps the latest values, and hands them to WebSocket and TCP clients. It runs
plugins, forwards commands (PUT requests) to them or to clients, and manages
alarms. This directory holds TLA+ modules translated from its TypeScript
source, TLC configurations that check them on small instances, and theorems
that TLAPS proves for every value of their constants.

File and line references are to the repository; `PROJECT.json` gives the lines
behind every definition ("map"), the hazards the properties are aimed at, and
the disagreements with the documentation that the runs show ("findings").

## 1. The system

The server is one Node.js process. A handler runs to completion, so two
handlers never interleave *inside*; what interleaves is handlers with each
other, with microtasks of settled promises, with timers, with socket events and
with the outside world. Every action of the modules is therefore one handler or
one microtask, and never a part of one.

| Component | Source | State | Operations | Status |
| --- | --- | --- | --- | --- |
| Backpressure | `BackpressureManager.ts`, `LatestValuesAccumulator.ts` | mode, accumulator, overflow timer | send, onDrain, flush, assertBufferSize, clear | **modelled and proved** |
| Source priority | `deltaPriority.ts`, `index.ts:339-415` | winner per path, claims of groups, publishers | a delta, an address claim, saved settings | **modelled and proved** |
| Notifications | `api/notifications/*.ts` | alarms, identifiers, list for cleaning | report, raise, update, silence, acknowledge, clear, clean | **modelled and proved** |
| PUT requests | `put.ts`, `requestResponse.ts` | requests, action handlers | put, callback, result, prune, (de)register | **modelled and proved** |
| Delta cache | `deltacache.ts` | leaf per context, path and source; preferred sources and their feed | ingest, onValue, replay, removeSource | partly: own vessel; **proved** |
| Staleness enforcer | `staleness.ts` | timed-out marks, samplers | onIncoming, sweep | partly: no learnt timeouts; **proved** |
| Course API | `api/course/index.ts` | course, its source, navigation timer, apiOnly | REST handlers, deltas of external sources, changed resources, timer, start | partly: no positions or times; **proved** |
| Settings and state files | `serverstate/store.ts`, `atomicWrite.ts` | files, temporary files | write, crash | partly: atomic writes; **proved** |
| WebSocket interface | `interfaces/ws.ts` | connections, `pathSources`, sent meta | deltas out, events, forwarded puts, end | partly, in the above |
| Signal K TCP | `interfaces/tcp.ts` | connections | as WebSocket without meta and events | partly |
| Delta input | `index.ts:487-591`, `deltachain.ts` | chain of input handlers | handleMessage, next, dispatch | partly: dispatch |
| Source-reference migration | `sourceref-migration.ts`, `index.ts:464` | pending rewrites of settings | n2kSourceChanged, 10 s timer | not modelled |
| Subscriptions | `subscriptionmanager.ts`, `streambundle.ts` | buses, subscriptions | subscribe, unsubscribe, push | not modelled |
| Access requests | `tokensecurity.ts:1790-2083` | pending requests, devices, users | request, approve, deny | not modelled |
| Resources, autopilot, weather, history, radar, BLE, sensors, streams | `api/*` | registries of providers | REST handlers | not modelled |
| Plugins, WASM, app store, providers, discovery, OIDC, admin UI, units | various | — | — | not modelled (I/O, external) |

### How the parts interact

    provider/plugin/ws client --handleMessage--> delta chain --dispatch--> delta cache
         ^                          |                                  \-> priority engine
         |                          v                                         |
         |                 notification manager                         'delta' event
         |                  (takes notifications out,                         |
         |                   emits its own deltas)                            v
      PUT requests <--- ws / REST              subscriptions / onChange -> BackpressureManager.send
         |                                                                    |
         +--> action handler of a plugin                                socket write / drain
         +--> the ws client that published the path

* The notification manager is a *delta input handler*: it removes notification
  values from a delta and emits its own delta for each, which passes the chain
  again and is recognised by its `notificationId`.
* The delta cache sees every delta before the priority engine; a rebuilt engine
  is seeded from the cache.
* The cache tells the staleness enforcer of every value the engine lets through;
  the enforcer sweeps the cache and sends nulls through `handleMessage`, hence
  through cache and engine again.
* The cache notes who won a path when the engine's output comes back to it
  (`onValue`); new subscribers of the preferred sources are sent what it notes,
  and an admin UI is told of changes by a timer.
* The course API listens to the deltas of external sources and to changed
  resources, fetches routes and waypoints from their providers, and keeps the
  course in a file through `Store` and `atomicWriteFile`.
* A client that publishes a path registers itself in `pathSources` and thereby
  offers to answer puts to it, on the same connection that its deltas leave by.

### What is hard

* **Order and loss** on a connection that is sometimes written directly and
  sometimes accumulates, whose only wake-up is one `drain` event of the socket.
* **Time** in the priority engine: each rank has its own timeout, the clock of a
  path restarts with every accepted value, the name of a source changes when its
  address claim arrives, and every saved setting rebuilds the engine.
* **Two owners** of an alarm: its device, which reports it anew with its own
  method and status, and the operator; plus a timer that removes it.
* **Silence**: a sweep looks at timestamps, the engine at winners, and a null that
  tells of a silent source is itself a delta of that source.
* **Handlers that wait**: a course handler reads the course, awaits a resource and
  changes whatever course there is by then; two writes of one file share one
  temporary file; the server may die between any two steps.
* **Races** of a forwarded put: the answer, a second answer, the 60 s timer, the
  pruning timer and the disconnection of the client.

## 2. Modules

| Module | Models | Proofs |
| --- | --- | --- |
| `LatestValueDelivery` | what a connection promises its client (abstract) | |
| `Backpressure` | one connection: manager, accumulator, socket | `BackpressureProofs` |
| `SourcePriority` | the engine with its cache seed and settings | `SourcePriorityProofs` |
| `PreferredSources` | EXTENDS `SourcePriority`: what the cache notes of winners, and the feed to admin UIs | `StalenessProofs` |
| `Staleness` | EXTENDS `PreferredSources`: cache, engine and enforcer composed | `StalenessProofs` |
| `Notifications` | alarms and their manager | `NotificationsProofs` |
| `Requests` | puts, action handlers, forwarding | `RequestsProofs` |
| `StoredFile` | what `atomicWriteFile` promises of a file (abstract) | |
| `AtomicWrite` | one file, replaced by rename, with concurrent and failing writes | `CourseProofs` |
| `Course` | INSTANCEs `AtomicWrite`: the course API over its file | `CourseProofs` |
| `MC...` | the instances TLC checks | |

### LatestValueDelivery and Backpressure

The promise: `delivered` moves only by `Synchronise`, in one step to *all* the
newest values. A client may skip values; it is never taken back, and whenever it
is handed anything it is handed the newest of every key. "In one step" is one run
of `flush`: it writes a message for each context, of which a client reads one
after the other.

`Backpressure` keeps the manager's `active`, `accumulator` and
`bufferSizeExceeded`, the socket's `buffered` and `needDrain`, and the `sentMetaData` of
the WebSocket connection. `Send` is `send` with `accumulateLatestValue` or
`beforeWrite` and `write`, and the trailing `assertBufferSize`, which gets the
length *before* the write; `Drain` is `onDrain` with `flush`; `WriteEvent` and
`WriteUnchecked` are what shares the socket without passing the manager; `End`
and `Close` are the end of a connection and its later close event, between which
callbacks still arrive. `Transmit` is the network; it and the rule by which a
socket owes a `drain` (a write that reaches the high water mark, paid once when
the buffer is empty) are Node's.

Abstracted: bytes are counted as messages; a value is its number in the order its
source published it, so "newest" is "largest" and the order in time is the order
of numbers. Left out: that unsubscribing forgets which meta was sent
(`ws.ts:1210`), after which it is sent again. `DeliversSnapshots` states that the connection implements the
promise under `delivered <- written, open <- (conn = "open")`.

### SourcePriority

`latest` is `contextPathTimestamps`, with the age of the winner's last value in
place of its time; ages stop at `MaxAge`, above every timeout, because the engine
compares ages with timeouts and does nothing else with them. `Publish` is
`dispatchDelta` (the cache first) and the engine's function with
`resolvePrecedences`, the claim of the path and `isPreferredValue`;
`ActivateSourcePriorities` rebuilds the engine with any of `Configs` and seeds
it from the references in the cache; `SourceRefChanged` is an address claim,
after which a reference is translated. `heard` is a history variable: when the
engine was last given a value by each identity that some configuration ranks.

A fan-out path is an override whose only entry is `*`, the reference of no device:
it delivers every source's values, hides the ranking of a group, and has no
timeouts.

`ForgetSource` is what `removeSource` takes out of the cache that seeds the next
engine; the engine that runs keeps its winner.

The order in which a rebuilt engine looks through the publishers of a path is
left open (any of their groups may claim it).

### PreferredSources and Staleness

The way of one value through `dispatchDelta` is one action, `Ingest`: the cache
takes the value (`ingestDelta`), the engine decides (`Publish`), and if it lets
the value through the cache notes the winner (`onValue`, here `NotePreferred`),
the enforcer clears the mark (`OnIncoming`) and subscribers get it. `Measure` is
a source's own value; `Sweep` is `checkLeafGroup` and `emit` for one source of
one path, whose null goes the same way but leaves `silence`, the age of the
source's last own delta, alone. `RemoveSource` is the cache's `removeSource`,
which tells neither enforcer nor engine; a rebuilt engine drops the preferred
sources it no longer routes (`DropUnrouted`, `setRoutesPathPredicate`).
`EmitLivePreferred` is the feed's timer, `LoadLivePreferred` an admin UI that
loads the page. `shown` is what a subscriber of the preferred sources displays.

On a fan-out path `routesPath` answers that the engine decides, because of the
override. The cache therefore notes each sender as the preferred source, and
replays to a new subscriber only the last one, although values of all are
delivered live and the comments on the sentinel (`deltaPriority.ts:302-306`) and
on the replay (`deltacache.ts:1494-1497`) want all of them. The model follows the
code; `ReplayFollowsWinner` states what holds, that the last one shown is the one
replayed.

Abstracted: values are a number or a null. Left out: learnt timeouts
(`meta.timeout: 'auto'`), texts and booleans (which the sweep skips), other
vessels, and the order between the HTTP snapshot and a later WebSocket event of
the feed. The composition has no address claims, and its configurations
disable no source: the engine drops the null of a disabled source like its
values, so what it showed before stays. `BlankedSourcesAreSilent` (section 4)
states that as a hypothesis.

### StoredFile, AtomicWrite and Course

`StoredFile` is the promise: nothing is seen of a write that runs alone until one
step replaces the whole content by what was to be written, or until it is given
up; a failure or a crash leaves the file alone; writes that overlap are promised
nothing until one has run alone again. `FileIsAtomic` states that the course file
implements it, with `mode <- WriteMode` and `next <- NextContent`, which read off
the writers how many writes are under way and what a single one will leave.

`AtomicWrite` is `atomicWriteFile` step by step: open the temporary file, write
it, rename it, or unlink it after a failure, for any number of writes that all
use the same temporary name. `handle` is what a write's open file has become
since (the temporary file, the file itself after another write's rename, or
neither). `trust` is for the properties: whether writes overlapped or failed.

In `Course`, `course` is `courseInfo` reduced to who set the next point, what kind
it is, and the place in a route; `cmdSource`, `navTimer` and `apiOnly` are the
members of the same meaning. A handler that awaits a resource is two actions
(`StartRouteAction`/`StepRoute`, ..., `StartResourceUpdate`/`RouteUpdate`, ...),
between which anything may happen; what the fetch yields is chosen at its end.
`ExternalPosition` and `ExternalEnds` are `parseStreamValue`, `NavTimeout` the
timer, `Restart` a crash at any moment and the following `start`. `ClearUnsaved`
is `clearDestination()` as a plugin may call it, which leaves the file as it was.
`apiOnly` has three writers: `PostApiOnly` and `DeleteApiOnly` are the API's own
routes, and `PutSettings` is the settings page (`serverroutes.ts:1251-1267`), which
replaces the live settings and leaves the course alone. Each change
starts the writes of `emitCourseInfo` in the order of the code: a takeover
starts two at once.

Abstracted: positions, the previous point, arrival circle and times (a request
that changes only those is the write it causes). Left out: what `setDestination`
copied of the course before its fetch, the steps inside `start` (it
reads and checks the stored course across awaits; here that is one step),
negative point indices, and the settings file: it is written later than a change
takes effect, in a queue, and by hand, so a restart may find either value of
`apiOnly`. Without positions one effect of a late fetch is invisible:
`WaypointUpdate` writes the position of the old waypoint into whatever next point
there is by then (`index.ts:299`), even one that an external source has set since.
Kind and owner of that point are what the properties speak of.

### Notifications

`alarms` is the manager's map, `precedes` its insertion order (which
`acknowledgeAll` depends on), `notiKeys` the identifiers of the keys seen,
`forCleaning` what the previous clean left. `Report` is the way of one
notification value through `filterNotifications`, `handleNotificationUpdate`,
`processNotificationUpdate` and `syncFromNotificationUpdate`; the other actions
are the manager's methods of the same names. `published` is the last delta
emitted of each alarm. `handled` is a history variable: the alarms that somebody
dealt with since they last left the normal state.

Identifiers are fresh by construction (uuids). Values are passed, not shared:
whoever changes a notification object after handing it over is outside the model
(a hazard in `PROJECT.json`), be it a plugin or the server's own put of a
notification's state or method (`put.ts:699`).

`Clean` is as the code has it: what it finds normal goes if it was there, in
*any* state, at the previous clean. The comment at `notificationManager.ts:251-254`
says alarms go that "remained in NORMAL state for the duration of CLEAN_INTERVAL";
an alarm that became normal a moment before the clean goes too, if it is older.

### Requests

One path of one context. `Put` records the request (`createRequest`); in the
following microtask it is refused (`Refuse`), handed to a handler (`Handle`,
`HandlerThrows`) or forwarded (`Forward`); `Result` is the microtask or promise
that takes what a handler returned, `Callback` the handler's later call. `WsReply`
is the data listener on the client's connection, whose removal is a microtask
of its own (`Detach`); `Timeout` is the timer of 60 s, `Prune` the pruning
after an hour, which is later than every timer of its request. `RegisterSpark`
and `End` keep `pathSources`. Timers run only when no microtask is left
(`TickOver`).

A handler that throws has its put rejected and its request left PENDING until it
is pruned (`HandlerThrows`); no document says otherwise. Left out: a connection that
is destroyed by its own `handleMessage` call, between the delta and the
registration that follows it (`ws.ts:972`).

## 3. What TLC checks

Bounds are the constants of each configuration.

| Run | Question | Bounds, and why they suffice |
| --- | --- | --- |
| `backpressure_safety` | is anything lost, reordered, unbounded or cut off early, and does the client get the newest values? | three keys, two of them of one path from two sources, so that a flush writes several deltas; two values per key, so that one replaces another; Enter 2, Exit 0, maximum 3, high water mark 2: the buffer crosses every threshold; the clock lets an overflow last longer than the check time of 1 |
| `backpressure_meta_only` | *violated*: automatic recovery | a delta of meta only besides |
| `priority_safety` | does the right source win, and does a backup take over? | three ranked or unranked devices, one of them under two references; seven configurations (one group, two groups, override, disabled source, dormant override, fan-out, none); unknown 1 < fallback 2 < `MaxAge` 3, in the order of the defaults (10 s < 15 s): every order of silences and takeovers occurs, 28,572 states |
| `priority_two_groups` | *violated*: a claimed path keeps its ranking | two groups that share a path |
| `staleness` | does anything stale stay on display, is anything blanked early, does what the cache notes follow the engine? | one path and two sources under five configurations (both ranked by a group, one ranked and one unlisted, an override in the other order, fan-out, none) that change at any time; stale timeout 1, failover 2, `MaxAge` 3: both orders of silence and takeover occur, 38,171 states |
| `staleness_backup` | *violated*: only the silent source's value times out | one group |
| `notifications` | do alarms stay quiet, start afresh, reach subscribers, stay and go? | two alarms, one key, three states, reports with and without NMEA 2000 attributes and the null value |
| `notifications_method` | *violated*: the method follows the status | the same |
| `requests` | does every put end, once, without leaving anything behind? | two puts, two sources, two clients: ambiguous, replaced and disconnected sources, late and double answers; 201,012 states |
| `course` | who owns the course, does it end, does the file keep it? | two external sources and the API; two writers, which a takeover needs; routes of one point with indices on and beyond it; one fetch at a time; 629,656 states. The theorems cover any number of these |
| `course_api_only` | *violated*: apiOnly mode has no external course | the same sources and writers, a route of one point |
| `course_restart` | *violated*: a location survives a restart | the same |

### Properties

* **Backpressure.** `NothingLost`: the newest value of a key is accumulated or
  written. `MetaBeforeValue`. `SendBufferBounded`: what deltas add to the buffer
  is bounded whatever the client does. `DestroyedOnlyAfterSustainedOverflow`.
  `ActiveAwaitsDrain`: backpressure mode has the event coming that ends it.
  `NewestArrives`. `DeliversSnapshots`: refinement.
* **SourcePriority.** `TopSourceHolds`: while the first of the ranking is heard
  within every failover timeout, it is the winner. `RankedSourceDisplacesUnranked`:
  the next value of any enabled ranked source ends what an unlisted one won. Both
  are about paths of one ranking (`SoleRanking`): where two groups share a path each
  of their sources is first in its own, which is finding 2.
  `FallbackRunsFromWinner`: a source ranked below the winner takes over if and only
  if the winner was last heard longer ago than that source's own fallback, and an
  unlisted one if and only if that is longer than the safety window and the winner's
  own timeout.
  `BackupWins`: a backup that goes on publishing wins the path when the other ranked
  sources have fallen silent, whatever unlisted ones do and however often the
  settings are saved.
* **Staleness.** `NothingStaleOnDisplay`: once the sources of a path have fallen
  silent for good, no number of theirs stays on display, whatever timed out,
  recovered, was removed or reconfigured before. `BlankMeansSilent`: a path shows
  "timed out" only while that source is silent. `BlankAfterFailover`: the winner of
  a ranked path is blanked only after every ranked publisher had its turn.
  `DisplayCanExpire`: a number on display is the cached one of its source and has no
  mark left of an earlier timeout, so that the sweep will still find it.
* **PreferredSources.** `NoStaleWinner`: an admin UI keeps no winner that was
  dropped or replaced, unless the next message of the feed carries the path.
  `ReplayFollowsWinner`: if the values shown of a path are in the end always one
  source's, a new subscriber is in the end sent that source's value and no other.
* **Course and AtomicWrite.** `OwnedCourse`: the destination and its owner come and
  go together, and only the API follows routes. `ExternalCourseIsTimed`: the timer
  is armed exactly for an external course. `NoTakeover`: an external source takes
  over from nobody, and never in apiOnly mode. `ApiCourseIsPersisted`: unless writes
  overlapped or failed, the *file* holds the API's destination; what a restart makes
  of the file is another matter (finding 6). A takeover always overlaps its two
  writes, so the property says nothing of one until the next write. `FileIsAtomic`:
  refinement of `StoredFile`. `ExternalCourseEnds`.
* **Notifications.** `QuietOnceHandled`, `ActionsEndWithTheAlarm`,
  `PublishedIsCurrent`, `ActiveAlarmIsKept`, `NormalAlarmIsDropped`.
* **Requests.** `NoListenerLeak`, `LateAnswerIsIgnored`, `PutReachesAConnection`,
  `EveryPutIsAnswered`, `ForwardedPutEnds`. `CompletedStays`: a request seen COMPLETED
  stays so, but for two races that it names.

Every component has one type invariant (`TypeOK`, `StaleTypeOK`). Operators commented "Faulty
variant" are plausible bugs of the definition that follows them; each property
fails when one of them takes its place ("mutants" in `PROJECT.json`). They are
used nowhere else.

### Fairness

* `Backpressure`: `WF(Transmit)` (the client reads at some speed) and
  `WF(Drain)` (the event loop delivers an event it owes). Nothing is assumed of
  sources. A connection whose client stops reading is covered by the safety
  properties, not by liveness.
* `SourcePriority`: time passes, and the backup the property is about goes on
  publishing. Other sources may do anything.
* `Staleness`: time passes and the sweep, an interval timer over the whole cache,
  gets to every source. Sources, users and admin UIs may do anything.
* `Course`: each step of a write is taken in the end (the file system answers),
  and the navigation timer fires. The latter is strong fairness only because of a
  bound: the timer's handler starts writes, and in the model it must wait for a free
  writer, which other requests may take and release for ever; the code has no such
  limit.
* `Notifications`: the interval timer fires.
* `Requests`: `WF(Due)`: the event loop does not idle for ever while a microtask,
  a timer or the promise of a handler is outstanding; a handler whose promise
  never settles leaves its put unanswered. Each of them is used up when it is
  handled, so this one condition reaches all of them.
  Clients need not answer and handlers need not call back.

### What the violations show

1. `backpressure_meta_only`: the mode can be entered with an empty accumulator
   (a delta with meta only); the drain event then passes unused and the mode
   stays on with an empty buffer (`docs/develop/plugins/backpressure.md:99`).
2. `priority_two_groups`: a source is ranked by its own group before the group that
   claimed the path is looked at, so on a path of two groups each source displaces
   the other's live values with every delta (`src/deltaPriority.ts:319-325`: "every
   delta on that path — including from sources NOT in the group ... — resolves
   against the claiming group's ranking").
3. `notifications_method`: a silenced alarm that is updated to another state, an
   emergency even, counts as not silenced but stays without sound
   (`docs/develop/rest-api/notifications_api.md:562`).
4. `staleness_backup`: the null that tells of the silent top-ranked source passes
   the engine in that source's name, wins the path back from its live backup and
   blanks the backup's number until the backup may take over again
   (`docs/setup/staleness.md:13`).
5. `course_api_only`: the settings page switches apiOnly on without clearing the
   course of an external source, which is still heard
   (`docs/develop/rest-api/course_api.md:287-288`).
6. `course_restart`: a destination given by its position is written to the file and
   dropped by every restart, because `validateCourseInfo` accepts only active routes
   and next points with an href (`docs/develop/rest-api/course_api.md:9`).

Three further configurations are violated in the same way. They are no runs of
`PROJECT.json`, where each stands as the note of a hazard, and are run by hand:

* `priority_unlisted.cfg` (`MCSourcePriority`): an unlisted source outwaits the
  *winner*, not all listed sources; with the defaults it takes a path 10 s after the
  first source fell silent, 5 s before the live, listed backup may
  (`docs/setup/source-priority.md:74`).
* `notifications_acknowledge_all.cfg` (`MCNotifications`): one alarm that cannot be
  acknowledged stops the loop (`packages/server-api/src/notificationsapi.ts:233`).
* `requests_callback.cfg` (`MCRequests`): a handler that calls back at once has its
  result overwritten by PENDING (`test/put.js:118`).

## 4. What TLAPS proves

Assumed are only the constants' assumptions (`ConstantsAssumption` of each
module), which TLC evaluates on the constants of every run.

**`BackpressureProofs`.** The inductive invariant is

    DeliveryInv == TypeOK /\ NothingLost /\ AccumulatesOnlyWhenActive

`NothingLost` is not inductive alone: a direct write replaces `written` for the
keys of one delta, and would leave an older accumulated value to be flushed
later if anything could be accumulated outside the mode
(`AccumulatesOnlyWhenActive`). From it follow `TypeCorrect`, `NothingIsLost`,
`MetaComesFirst`, `BufferStaysBounded`, `OverflowIsSustained`, and
`ConnectionDeliversSnapshots`, the refinement: a direct write is a `Synchronise`
because with nothing accumulated every other key is already at its newest value,
and a flush is one because every key is either accumulated or at its newest.
`BackpressureAwaitsDrain` needs two hypotheses, which it states: no delta is
without values (finding 1), and the socket's high water mark is at most
`EnterThreshold + 1`. The second is the assumption behind the default of 512 kB and it
says what a configured `BACKPRESSURE_ENTER` must respect.

**`NotificationsProofs`.** The inductive invariant is

    ManagerInv == TypeOK /\ QuietOnceHandled /\ ActionsEndWithTheAlarm /\ PublishedIsCurrent

proved with a lemma for each operation on one alarm (what it keeps of its type,
when it leaves the alarm quiet) and one for `Emit`. `ActiveAlarmsAreKept` follows
from the definition of each action.

**`SourcePriorityProofs`.** `PriorityTypeCorrect`, and `RankedSourcesDisplace` from
the definition of `isPreferredValue` (on paths of one ranking). `TopSourceAlwaysWins` needs

    EngineInv == TypeOK /\ ClaimsAreActive /\ HeardClaim /\ TopWins

`TopSourceHolds` speaks of what was heard and who won, but a step of time moves
the ages of both: `TopWins` therefore adds that the winner's last value is no older
than the last one heard of the top source. `HeardClaim` says that a path on which a
listed source was heard is claimed, so its ranking cannot change under the winner,
and `ClaimsAreActive` that it is claimed for a group whose ranking is one. The
theorem has a hypothesis, `RankedAreCanonical`: settings rank a device by the
reference it has after its address claim. A ranked raw reference would lose its
rank with the claim. `FallbackIsFromWinner` needs no hypothesis; its invariant is

    ClockInv == TypeOK /\ ClaimsAreActive /\ WinnerClock

`WinnerClock`: the engine's clock of a path shows when its winner was last heard, if
the winner is ranked and enabled. The engine restarts that clock only when it lets a
value through, so this rests on a lemma that it never holds back the winner's own
values, and on rebuilt engines that start without a winner. The theorem covers
unlisted sources too, by the lemma `PreferredAfterWait`: the wait of `isPreferredValue`
is the same for every source that ranks below the winner, or not at all. The minima and maxima that the code finds by iteration are
CHOOSEs here; that they exist rests on `WFMin`.

**`StalenessProofs`.** `StalenessTypeCorrect`; `NoWinnerIsStale`, whose invariant is
itself inductive (every change of an entry marks its path); and
`BlankingWaitsForFailover`, from the maximum that the failover floor is.
`BlankedSourcesAreSilent` needs the engine's and the cache's state together:

    WinnersInv    == StaleTypeOK /\ claimed = {} /\ ClaimsHaveSources
                     /\ WinnersAreRanked /\ UnsetIsOld
    BlankIsWinner == a blanked path's source is cached, silent, and the winner of
                     the path, or the path has none

A blank would be left on display if its source could publish again and be held back.
The engine does not hold back the winner, nor anybody while there is none
(`WinnerIsDispatched`), and the winner changes only with what is shown. The
hypothesis `NobodyDisabled` is needed: a source disabled while its blank is shown
publishes and stays blank. `NumbersCanExpire` (`DisplayCanExpire`, the safety behind
`NothingStaleOnDisplay`) has the same hypothesis, and adds to `WinnersInv` that a
number on display is the winner's, unless there is no winner.

`StalenessUsesEngine` is the composition: every step of `Staleness` is a step of
`SourcePriority` or leaves the engine alone, since the enforcer's nulls pass the
engine like any other delta. `PrioritiesSurviveSweeps` follows: what is proved of
the engine holds with the enforcer around it. `LowerSourcesTimeOutAlone` is the half
of the documentation's promise that finding 4 leaves standing: the null of a source
ranked below the winner blanks nothing while the winner is within that source's
fallback. Its invariant `WinnerIsFresh` relates the clocks of two components: the
engine's clock of a path is never ahead of the enforcer's silence of its winner. No
run checks this property, only the theorem.

**`RequestsProofs`.** `RequestsTypeCorrect`, and with

    RequestsInv == TypeOK /\ OneWay /\ RequestsAreOwned /\ NoListenerLeak
                   /\ ListenersArePending /\ TimedOutIsOver

the theorems `ListenersDoNotLeak` and `LateAnswersAreIgnored`. They assume that
requesters choose distinct identifiers (`UniqueRequests`): a listener knows its
request by identifier only, so an answer to one put would complete another.
`RequestsAreOwned` carries that from a request to the put that made it, `OneWay`
excludes that a forwarded put is also handled, and `ListenersArePending` is why the
timer, which removes the listener only if the request is pending, leaves none.
`CompletedRequestsStay` has the same hypothesis, and adds to this

    DoneInv == RequestsInv /\ CreatedIsNotDone /\ OutrunByCallback

A put that was not handed on yet is not done, and a request done before the PENDING
of its handler was taken was done by that handler's callback: these are the two ways
in which a COMPLETED could be overwritten, and the property's exceptions are what
remains of them.
`PutsReachConnections` needs only that clients registered for the path are
connected. Two theorems state the safety behind the liveness properties, which no
run checks besides: `PutsAreAnsweredOnce` (a put without an answer has a step due
that answers it, and an answer is final, for reused identifiers too) and
`ForwardedPutsAreTimed` (a forwarded put that is pending has its 60 s timer; that a
listener on its way out still has one, `detaching \subseteq timers`, is what makes it
inductive when a client takes a final answer back).

**`CourseProofs`.** The inductive invariant joins two parts:

    CourseInv == CourseTypeOK /\ cmdSource = course.nextPoint.by
                 /\ ExternalCourseIsTimed
    StoreInv  == FilesInv /\ StoredAreProper
                 /\ (cmdSource = "API" => Saves(course.nextPoint))

`FilesInv` says that a write that began and stayed alone owns the temporary file, so
that what it renames is what it wrote; `StoredAreProper` that whatever course is
stored, or about to be, is one that `start` may take up; `Saves` that a sole write
under way carries the current destination. From it follow `CourseTypeCorrect`,
`CourseIsOwned`, `ExternalCoursesAreTimed`, `StoredCourseIsWhole`
(the file is never half written unless writes overlapped), `ApiCoursesArePersisted`
and `NobodyIsOverridden`, for any number of sources, concurrent writes, waiting
handlers and points of a route. `ApiOnlyHoldsElsewhere` says that finding 5 is the
only way: in every behaviour without the step `SwitchedUnderExternal` (`PutSettings`
switches apiOnly on in front of an external course) `ApiOnlyIsObeyed` holds.

`CourseFileIsAtomic` is the refinement of `StoredFile`, step by step. `ModeFacts`,
which follows from `FilesInv`, gives the mode and the next content for each state of
the writers; then a call of `store.write` is a `Start` or, beside another, an
`Overlap`; of a write that runs alone, opening and writing are stutters, a failure is
`Fail`, the rename `Commit` (its failure is impossible) and the unlink `GiveUp`; a
step of any other write is `Disturb`. `WritesOfNext` shows that no handler does more
to the file than these.

**Only model-checked.** Liveness under fairness (`NewestArrives`, `BackupWins`,
`NormalAlarmIsDropped`, `EveryPutIsAnswered`, `ForwardedPutEnds`,
`ExternalCourseEnds`, `NothingStaleOnDisplay`, `ReplayFollowsWinner`): proofs of these
need ENABLED and are beyond the prover. Every safety property of the passing runs
is proved.

## 5. What is not modelled, and why

The repository has about 113,000 lines of implementation. Most of it draws the
admin UI, describes forms and paths, or talks to hardware, npm and the network,
and has no state of its own that a model could get wrong. The modules cover the
files that hold the server's own state machines; of these, in the order in which
they would be worth modelling, the following are left:

* Source-reference migration: a device's new name rewrites the settings 10 s later,
  unless the old one is still on the bus; a second change in between, and the source
  it removes from the cache, belong into `Staleness`.
* The chain of delta input handlers, whose handlers may drop, repeat, delay or
  remove themselves. No document promises what the chain guarantees.
* Access requests and their limits; subscriptions with their policies.

Not worth a model:

* Formats and wording: REST validation, messages, OpenAPI, units, JSON.
* Parts that only pass calls on to plugins (resources, autopilot, weather,
  history, radar): a registry with a default and no protocol of its own.
* External machines: serial ports, Bluetooth, mDNS, npm, OIDC, the WASM runtime.

In the modelled components: `excludeIdentities` of the priority engine, percent
complete and message of requests, positions and contexts of alarms, the mode
with `manageNotifications=false`, reused request identifiers, and what section 2
names for each module.

## 6. Plan

1. `SourceRefMigration` over `Staleness`, with address claims in the composition.
2. `DeltaPipeline`: handleMessage, the chain of handlers, dispatch to cache and
   engine, and subscriptions with their cached values; an abstract delivery in the
   order of dispatch, implemented by it.
3. `AccessRequests` on `Requests`: request, approval, denial, pruning, and the
   limit of pending requests.
4. A disabled source whose value is on display: what the enforcer does with it is
   outside `staleness`.
