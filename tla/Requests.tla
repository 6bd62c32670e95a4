------------------------------ MODULE Requests ------------------------------
(***************************************************************************)
(* PUT requests: src/put.ts and src/requestResponse.ts with the forwarding *)
(* of src/interfaces/ws.ts.  A put is recorded as a request, then refused, *)
(* handed to an action handler of a plugin, or forwarded to the WebSocket  *)
(* client that publishes the path, which answers on the same connection or *)
(* is timed out after 60 s.  Requests are pruned after an hour.            *)
(*                                                                         *)
(* Puts are to one path of one context.  A delete takes the same way, with *)
(* one handler and no forwarding; the handlers of meta and notification    *)
(* paths are handlers like a plugin's.  The requester is told the state of *)
(* the request with every update, so it is not kept apart.                 *)
(***************************************************************************)
EXTENDS Naturals, FiniteSets

CONSTANTS
  Attempts,        \* bound: the puts that requesters make
  RequestId,       \* [Attempts -> request ids], chosen by the requester
  Sources,         \* sources of the path, of plugins and of clients
  NoSource,        \* a put that names none
  Sparks           \* connections of clients that publish the path

Ids == {RequestId[a] : a \in Attempts}

ASSUME ConstantsAssumption ==
  /\ DOMAIN RequestId = Attempts
  /\ NoSource \notin Sources

VARIABLES
  requests,        \* [SUBSET Ids -> Request]
  phase,           \* [Attempts -> Phases]
  result,          \* [Attempts -> what its handler returned, not yet taken]
  owed,            \* attempts whose handler has still to call back
  calledBack,      \* history: those whose handler did
  answer,          \* [Attempts -> how the promise of putPath was settled]
  forwardedTo,     \* [attempts forwarded -> the spark]
  listeners,       \* attempts with a data listener on that spark
  timers,          \* attempts whose 60 s timer runs
  detaching,       \* attempts whose listener is removed in this tick
  handlers,        \* sources with an action handler: actionHandlers
  connected,       \* sparks whose connection is up
  pathKnown,       \* the path has an entry in pathSources
  pathSources      \* that entry: [SUBSET Sources -> Sparks]

handling == <<phase, result, owed, calledBack, answer>>
forwarding == <<forwardedTo, listeners, timers, detaching>>
registries == <<handlers, connected, pathKnown, pathSources>>
vars == <<requests, handling, forwarding, registries>>

Codes == {"202", "200", "400", "403", "405", "500", "504"}
Request == [state : {"PENDING", "COMPLETED"}, code : Codes, attempt : Attempts]
Phases == {"idle", "created", "dispatched"}
Results == {"none", "COMPLETED", "PENDING", "rejected"}

-----------------------------------------------------------------------------
Init ==
  /\ requests = << >>
  /\ phase = [a \in Attempts |-> "idle"]
  /\ result = [a \in Attempts |-> "none"]
  /\ owed = {} /\ calledBack = {}
  /\ answer = [a \in Attempts |-> "none"]
  /\ forwardedTo = << >>
  /\ listeners = {} /\ timers = {} /\ detaching = {}
  /\ handlers \in SUBSET Sources
  /\ connected = Sparks
  /\ pathKnown = FALSE
  /\ pathSources = << >>

\* Faulty variant: a state of null is assigned as well.
UpdateRequestWithNull(id, state, code) ==
  requests' = IF id \notin DOMAIN requests THEN requests
              ELSE [requests EXCEPT ![id].state = state,
                                    ![id].code = IF code = "null" THEN @ ELSE code]

\* updateRequest; null leaves the state or the code as it is.
UpdateRequest(id, state, code) ==
  requests' = IF id \notin DOMAIN requests THEN requests
              ELSE [requests EXCEPT ![id].state = IF state = "null" THEN @ ELSE state,
                                    ![id].code = IF code = "null" THEN @ ELSE code]

\* The promise of putPath is resolved by an update and rejected without one.
Settle(a) ==
  answer' = [answer EXCEPT ![a] =
               IF RequestId[a] \in DOMAIN requests THEN "resolved" ELSE "rejected"]

\* createRequest, with whatever id the requester chose.
Put(a) ==
  /\ phase[a] = "idle"
  /\ phase' = [phase EXCEPT ![a] = "created"]
  /\ requests' = [id \in DOMAIN requests \cup {RequestId[a]} |->
                    IF id = RequestId[a]
                      THEN [state |-> "PENDING", code |-> "202", attempt |-> a]
                      ELSE requests[id]]
  /\ UNCHANGED <<result, owed, calledBack, answer, forwarding, registries>>

\* What happens in the microtask after a put was recorded to one that names
\* source s, or none.
ByHandler(s) == IF s = NoSource THEN Cardinality(handlers) = 1 ELSE s \in handlers
HandlersAmbiguous(s) == s = NoSource /\ Cardinality(handlers) > 1
CanHandlePut(s) == pathKnown /\ (s = NoSource \/ s \in DOMAIN pathSources)
SparksFor(s) == IF s # NoSource THEN {pathSources[s]}
                ELSE IF Cardinality(DOMAIN pathSources) = 1
                       THEN {pathSources[t] : t \in DOMAIN pathSources}
                       ELSE {}
ToSpark(s) == ~ByHandler(s) /\ ~HandlersAmbiguous(s) /\ CanHandlePut(s)

Dispatching(a) ==
  /\ phase[a] = "created"
  /\ phase' = [phase EXCEPT ![a] = "dispatched"]

\* Permission (403) is left open; a put without a source is ambiguous (400)
\* when there is not exactly one client that may be meant.
Refusals(s) ==
  {"403"} \cup {c \in {"400"} : HandlersAmbiguous(s) \/ (ToSpark(s) /\ SparksFor(s) = {})}
          \cup {c \in {"405"} : ~ByHandler(s) /\ ~HandlersAmbiguous(s) /\ ~CanHandlePut(s)}

\* Faulty variant: the promise is not settled.
RefuseWithoutReply(a, s) ==
  /\ Dispatching(a)
  /\ \E code \in Refusals(s) : UpdateRequest(RequestId[a], "COMPLETED", code)
  /\ UNCHANGED <<result, owed, calledBack, answer, forwarding, registries>>

Refuse(a, s) ==
  /\ Dispatching(a)
  /\ \E code \in Refusals(s) : UpdateRequest(RequestId[a], "COMPLETED", code)
  /\ Settle(a)
  /\ UNCHANGED <<result, owed, calledBack, forwarding, registries>>

\* The handler runs.  It returns a result, taken in a later microtask or when
\* its promise settles, and owes a call back if that is PENDING; or it throws,
\* and the put is rejected with its request as it was.
Handle(a, s, r) ==
  /\ Dispatching(a)
  /\ ByHandler(s)
  /\ result' = [result EXCEPT ![a] = r]
  /\ owed' = IF r = "PENDING" THEN owed \cup {a} ELSE owed
  /\ UNCHANGED <<requests, calledBack, answer, forwarding, registries>>

HandlerThrows(a, s) ==
  /\ Dispatching(a)
  /\ ByHandler(s)
  /\ answer' = [answer EXCEPT ![a] = "rejected"]
  /\ UNCHANGED <<requests, result, owed, calledBack, forwarding, registries>>

Result(a) ==
  /\ result[a] # "none"
  /\ result' = [result EXCEPT ![a] = "none"]
  /\ \/ result[a] = "rejected" /\ UpdateRequest(RequestId[a], "COMPLETED", "500")
     \/ result[a] = "COMPLETED" /\ UpdateRequest(RequestId[a], "COMPLETED", "200")
     \/ result[a] = "PENDING" /\ UpdateRequest(RequestId[a], "PENDING", "null")
  /\ Settle(a)
  /\ UNCHANGED <<phase, owed, calledBack, forwarding, registries>>

Callback(a) ==
  /\ a \in owed
  /\ owed' = owed \ {a}
  /\ calledBack' = calledBack \cup {a}
  /\ UpdateRequest(RequestId[a], "COMPLETED", "200")
  /\ UNCHANGED <<phase, result, answer, forwarding, registries>>

\* handlePut: the put goes to the spark that publishes the path.
Forward(a, s) ==
  /\ Dispatching(a)
  /\ ToSpark(s)
  /\ \E spark \in SparksFor(s) :
       forwardedTo' = [b \in DOMAIN forwardedTo \cup {a} |->
                         IF b = a THEN spark ELSE forwardedTo[b]]
  /\ listeners' = listeners \cup {a}
  /\ timers' = timers \cup {a}
  /\ UpdateRequest(RequestId[a], "PENDING", "202")
  /\ Settle(a)
  /\ UNCHANGED <<result, owed, calledBack, detaching, registries>>

\* Faulty variant: the listener stays when the answer is final.
StaysAttached(a, state) == FALSE

\* The reply leaves the request in a final state.
Completes(a, state) ==
  LET id == RequestId[a]
  IN  /\ id \in DOMAIN requests
      /\ \/ state = "COMPLETED"
         \/ state = "null" /\ requests[id].state = "COMPLETED"

\* A reply of the client, or two in one tick.
WsReply(a, state) ==
  /\ a \in listeners /\ forwardedTo[a] \in connected
  /\ \E code \in {"200", "null"} : UpdateRequest(RequestId[a], state, code)
  /\ detaching' = IF Completes(a, state) THEN detaching \cup {a} ELSE detaching
  /\ UNCHANGED <<handling, forwardedTo, listeners, timers, registries>>

Detach(a) ==
  /\ a \in detaching
  /\ detaching' = detaching \ {a}
  /\ listeners' = listeners \ {a}
  /\ UNCHANGED <<requests, handling, forwardedTo, timers, registries>>

\* Timers fire when no microtask is left.
TickOver == detaching = {} /\ \A a \in Attempts : phase[a] # "created"

StillPending(id) == id \in DOMAIN requests /\ requests[id].state = "PENDING"

\* Faulty variants: the listener stays on the connection after the timeout; a
\* timeout of a request that had news of progress is not enforced.
TimeoutStaysAttached(a) ==
  /\ a \in timers
  /\ TickOver
  /\ timers' = timers \ {a}
  /\ IF StillPending(RequestId[a])
       THEN UpdateRequest(RequestId[a], "COMPLETED", "504")
       ELSE UNCHANGED requests
  /\ UNCHANGED <<handling, listeners, forwardedTo, detaching, registries>>

TimeoutUnlessProgress(a) ==
  /\ a \in timers
  /\ TickOver
  /\ timers' = timers \ {a}
  /\ IF StillPending(RequestId[a]) /\ requests[RequestId[a]].code = "202"
       THEN /\ UpdateRequest(RequestId[a], "COMPLETED", "504")
            /\ listeners' = listeners \ {a}
       ELSE UNCHANGED <<requests, listeners>>
  /\ UNCHANGED <<handling, forwardedTo, detaching, registries>>

Timeout(a) ==
  /\ a \in timers
  /\ TickOver
  /\ timers' = timers \ {a}
  /\ IF StillPending(RequestId[a])
       THEN /\ UpdateRequest(RequestId[a], "COMPLETED", "504")
            /\ listeners' = listeners \ {a}
       ELSE UNCHANGED <<requests, listeners>>
  /\ UNCHANGED <<handling, forwardedTo, detaching, registries>>

\* pruneRequests, an hour after the request was made: its 60 s timer is over.
Prune(id) ==
  /\ TickOver
  /\ id \in DOMAIN requests
  /\ requests[id].attempt \notin timers
  /\ requests' = [i \in DOMAIN requests \ {id} |-> requests[i]]
  /\ UNCHANGED <<handling, forwarding, registries>>

-----------------------------------------------------------------------------
RegisterActionHandler(s) ==
  /\ handlers' = handlers \cup {s}
  /\ UNCHANGED <<requests, handling, forwarding, connected, pathKnown, pathSources>>

DeRegisterActionHandler(s) ==
  /\ handlers' = handlers \ {s}
  /\ UNCHANGED <<requests, handling, forwarding, connected, pathKnown, pathSources>>

\* processUpdates: a client publishes the path with source s.
RegisterSpark(spark, s) ==
  /\ spark \in connected
  /\ pathKnown' = TRUE
  /\ pathSources' = [t \in DOMAIN pathSources \cup {s} |->
                       IF t = s THEN spark ELSE pathSources[t]]
  /\ UNCHANGED <<requests, handling, forwarding, handlers, connected>>

\* Faulty variant: only the first source of the client is taken out.
EndOfOneSource(spark) ==
  /\ spark \in connected
  /\ connected' = connected \ {spark}
  /\ LET mine == {t \in DOMAIN pathSources : pathSources[t] = spark}
         first == IF mine = {} THEN {} ELSE {CHOOSE t \in mine : TRUE}
     IN  pathSources' = [s \in DOMAIN pathSources \ first |-> pathSources[s]]
  /\ UNCHANGED <<requests, handling, forwarding, handlers, pathKnown>>

\* A client disconnects ('end'); what was forwarded to it stays as it is.
End(spark) ==
  /\ spark \in connected
  /\ connected' = connected \ {spark}
  /\ pathSources' = [s \in {t \in DOMAIN pathSources : pathSources[t] # spark} |->
                       pathSources[s]]
  /\ UNCHANGED <<requests, handling, forwarding, handlers, pathKnown>>

Dispatch(a) ==
  \E s \in Sources \cup {NoSource} :
    \/ Refuse(a, s) \/ Forward(a, s) \/ HandlerThrows(a, s)
    \/ \E r \in Results \ {"none"} : Handle(a, s, r)

\* What the event loop has to do: microtasks, running timers, and the promises
\* of handlers that return one.  Nobody has to reply or to call back.
Due == \E a \in Attempts : Dispatch(a) \/ Result(a) \/ Detach(a) \/ Timeout(a)

Next ==
  \/ \E a \in Attempts : Put(a)
  \/ Due
  \/ \E a \in Attempts : Callback(a)
  \/ \E a \in Attempts, state \in {"PENDING", "COMPLETED", "null"} : WsReply(a, state)
  \/ \E id \in Ids : Prune(id)
  \/ \E s \in Sources : RegisterActionHandler(s) \/ DeRegisterActionHandler(s)
  \/ \E spark \in Sparks : End(spark) \/ \E s \in Sources : RegisterSpark(spark, s)

Spec == Init /\ [][Next]_vars

\* The event loop does not idle while something is due.  Every step of Due uses
\* up what it handles, so that this reaches everything that is due.
Fairness == WF_vars(Due)

FairSpec == Spec /\ Fairness
-----------------------------------------------------------------------------
TypeOK ==
  /\ DOMAIN requests \subseteq Ids
  /\ requests \in [DOMAIN requests -> Request]
  /\ phase \in [Attempts -> Phases]
  /\ result \in [Attempts -> Results]
  /\ owed \subseteq Attempts /\ calledBack \subseteq Attempts
  /\ answer \in [Attempts -> {"none", "resolved", "rejected"}]
  /\ DOMAIN forwardedTo \subseteq Attempts
  /\ forwardedTo \in [DOMAIN forwardedTo -> Sparks]
  /\ timers \subseteq DOMAIN forwardedTo
  /\ detaching \subseteq listeners /\ listeners \subseteq DOMAIN forwardedTo
  /\ handlers \subseteq Sources /\ connected \subseteq Sparks
  /\ pathKnown \in BOOLEAN
  /\ DOMAIN pathSources \subseteq Sources
  /\ pathSources \in [DOMAIN pathSources -> Sparks]

\* A data listener does not outlive its request on a connection that may stay
\* up for days: when the timer of a put is gone, its listener goes as well, in
\* whatever order answers, prunes and timeouts came (handlePut).
NoListenerLeak == \A a \in listeners : a \in timers \cup detaching

\* A put that timed out stays timed out: the late answer of a client does not
\* turn the 504 its requester was given into something else.
LateAnswerIsIgnored ==
  [][\A id \in DOMAIN requests :
       requests[id].code = "504" /\ id \in DOMAIN requests'
         => requests'[id] = requests[id]]_vars

\* "Poll action endpoint until handler completes": whoever saw the request
\* COMPLETED may stop polling, for it stays so after refusals, results, call
\* backs, answers and timeouts in any order - but for two races, in which it is
\* PENDING again: the handler had called back before its own result was taken
\* (CallbackCompletes), or the client takes its final answer back in the tick
\* in which it gave it.
CompletedStays ==
  [][\A id \in DOMAIN requests :
       LET a == requests[id].attempt
       IN  /\ requests[id].state = "COMPLETED"
           /\ id \in DOMAIN requests' /\ requests'[id].state # "COMPLETED"
           => \/ a \in calledBack /\ result[a] = "PENDING"
              \/ a \in detaching]_vars

\* A put goes to a client that is connected, although the registry of sparks is
\* by path and source only and is cleaned when they end.
PutReachesAConnection ==
  [][\A a \in Attempts :
       a \in DOMAIN forwardedTo' \ DOMAIN forwardedTo => forwardedTo'[a] \in connected]_vars

\* Everybody who puts is answered, whatever handlers do.
EveryPutIsAnswered ==
  \A a \in Attempts : phase[a] = "created" ~> answer[a] # "none"

\* A request that was forwarded ends, also when the client never answers, has
\* disconnected, or takes its final answer back (handlePut's timer).
ForwardedPutEnds ==
  \A a \in Attempts :
    a \in timers ~> \/ RequestId[a] \notin DOMAIN requests
                    \/ requests[RequestId[a]].state = "COMPLETED"

\* "Poll action endpoint until handler completes": once the handler has called
\* back with COMPLETED, the request is no longer PENDING.
CallbackCompletes ==
  \A a \in calledBack : ~StillPending(RequestId[a])
=============================================================================
