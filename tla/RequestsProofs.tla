--------------------------- MODULE RequestsProofs ---------------------------
(***************************************************************************)
(* Theorems about Requests, for any number of puts, sources and clients.   *)
(* Those about listeners and answers need that requesters choose distinct  *)
(* identifiers, which UniqueRequests states.                               *)
(***************************************************************************)
EXTENDS Requests, TLAPS

UniqueRequests ==
  \A a, b \in Attempts : RequestId[a] = RequestId[b] => a = b

\* A put goes one way only: to be forwarded it must not have been handled.
OneWay ==
  /\ \A a \in DOMAIN forwardedTo :
       phase[a] = "dispatched" /\ result[a] = "none" /\ a \notin owed
  /\ \A a \in Attempts : phase[a] # "dispatched" => result[a] = "none" /\ a \notin owed

\* A request carries the put that it was made for.
RequestsAreOwned ==
  /\ \A id \in DOMAIN requests :
       /\ id = RequestId[requests[id].attempt]
       /\ phase[requests[id].attempt] # "idle"
  /\ \A a \in Attempts : phase[a] = "created" => RequestId[a] \in DOMAIN requests

\* The listener of a request that is not on its way out listens for a request
\* that is there and not final.
ListenersArePending ==
  \A a \in listeners \ detaching : StillPending(RequestId[a])

\* A request that timed out was forwarded, and has neither timer nor listener.
TimedOutIsOver ==
  \A id \in DOMAIN requests :
    requests[id].code = "504" =>
      LET a == requests[id].attempt
      IN  /\ a \in DOMAIN forwardedTo
          /\ a \notin timers /\ a \notin listeners

\* Only clients that are connected are registered for the path.
RegisteredAreConnected ==
  \A s \in DOMAIN pathSources : pathSources[s] \in connected

RequestsInv ==
  /\ TypeOK
  /\ OneWay
  /\ RequestsAreOwned
  /\ NoListenerLeak
  /\ ListenersArePending
  /\ TimedOutIsOver

-----------------------------------------------------------------------------
\* updateRequest changes the state or the code of one request.
LEMMA UpdateRequestKeeps ==
  ASSUME TypeOK, NEW id, NEW state \in {"PENDING", "COMPLETED", "null"},
         NEW code \in Codes \cup {"null"}, UpdateRequest(id, state, code)
  PROVE  /\ DOMAIN requests' = DOMAIN requests
         /\ requests' \in [DOMAIN requests -> Request]
         /\ \A i \in DOMAIN requests :
              /\ requests'[i].attempt = requests[i].attempt
              /\ i # id => requests'[i] = requests[i]
         /\ id \in DOMAIN requests =>
              /\ requests'[id].state = IF state = "null" THEN requests[id].state ELSE state
              /\ requests'[id].code = IF code = "null" THEN requests[id].code ELSE code
<1>1. requests \in [DOMAIN requests -> Request]
  BY DEF TypeOK
<1>2. CASE id \notin DOMAIN requests
  <2>1. requests' = requests
    BY <1>2 DEF UpdateRequest
  <2> QED BY <1>1, <1>2, <2>1
<1>3. CASE id \in DOMAIN requests
  <2>1. requests[id] \in Request
    BY <1>1, <1>3
  <2>2. requests' = [requests EXCEPT ![id].state = IF state = "null" THEN @ ELSE state,
                                     ![id].code = IF code = "null" THEN @ ELSE code]
    BY <1>3 DEF UpdateRequest
  <2> QED BY <1>1, <1>3, <2>1, <2>2 DEF Request
<1> QED BY <1>2, <1>3

LEMMA RefusalCodes == \A s : Refusals(s) \subseteq {"403", "400", "405"}
BY DEF Refusals

LEMMA SettleType ==
  ASSUME TypeOK, NEW a \in Attempts, Settle(a)
  PROVE  answer' \in [Attempts -> {"none", "resolved", "rejected"}]
BY DEF Settle, TypeOK

\* Whom a forwarded put may go to is registered.
LEMMA SparksAreRegistered ==
  ASSUME TypeOK, NEW s \in Sources \cup {NoSource}, ToSpark(s), NEW spark \in SparksFor(s)
  PROVE  \E t \in DOMAIN pathSources : spark = pathSources[t]
BY DEF SparksFor, ToSpark, CanHandlePut, TypeOK

-----------------------------------------------------------------------------
LEMMA EmptyFunction == DOMAIN << >> = {} /\ \A S : << >> \in [{} -> S]
OBVIOUS

LEMMA TypeInit == Init => TypeOK
<1> SUFFICES ASSUME Init PROVE TypeOK
  OBVIOUS
<1>1. /\ DOMAIN requests = {} /\ requests \in [{} -> Request]
      /\ DOMAIN forwardedTo = {} /\ forwardedTo \in [{} -> Sparks]
      /\ DOMAIN pathSources = {} /\ pathSources \in [{} -> Sparks]
  BY EmptyFunction DEF Init
<1> QED BY <1>1 DEF Init, TypeOK, Phases, Results

LEMMA TypeStep == TypeOK /\ [Next]_vars => TypeOK'
<1> SUFFICES ASSUME TypeOK, [Next]_vars PROVE TypeOK'
  OBVIOUS
<1> USE DEF handling, forwarding, registries
<1>1. ASSUME NEW a \in Attempts, Put(a) PROVE TypeOK'
  <2>1. RequestId[a] \in Ids
    BY DEF Ids
  <2>2. [state |-> "PENDING", code |-> "202", attempt |-> a] \in Request
    BY DEF Request, Codes
  <2> QED BY <1>1, <2>1, <2>2 DEF Put, TypeOK, Phases
<1>2. ASSUME NEW a \in Attempts, NEW s \in Sources \cup {NoSource}, Refuse(a, s)
      PROVE  TypeOK'
  <2>1. PICK code \in Refusals(s) : UpdateRequest(RequestId[a], "COMPLETED", code)
    BY <1>2 DEF Refuse
  <2>2. code \in Codes
    BY RefusalCodes DEF Codes
  <2>3. DOMAIN requests' = DOMAIN requests /\ requests' \in [DOMAIN requests -> Request]
    BY <2>1, <2>2, UpdateRequestKeeps
  <2>4. answer' \in [Attempts -> {"none", "resolved", "rejected"}]
    BY <1>2, SettleType DEF Refuse
  <2> QED BY <1>2, <2>3, <2>4 DEF Refuse, Dispatching, TypeOK, Phases
<1>3. ASSUME NEW a \in Attempts, NEW s, NEW r \in Results, Handle(a, s, r)
      PROVE  TypeOK'
  BY <1>3 DEF Handle, Dispatching, TypeOK, Phases
<1>4. ASSUME NEW a \in Attempts, NEW s, HandlerThrows(a, s) PROVE TypeOK'
  BY <1>4 DEF HandlerThrows, Dispatching, TypeOK, Phases
<1>5. ASSUME NEW a \in Attempts, NEW s \in Sources \cup {NoSource}, Forward(a, s)
      PROVE  TypeOK'
  <2>1. DOMAIN requests' = DOMAIN requests /\ requests' \in [DOMAIN requests -> Request]
    BY <1>5, UpdateRequestKeeps DEF Forward, Codes
  <2>2. PICK spark \in SparksFor(s) :
          forwardedTo' = [b \in DOMAIN forwardedTo \cup {a} |->
                            IF b = a THEN spark ELSE forwardedTo[b]]
    BY <1>5 DEF Forward
  <2>3. spark \in Sparks
    BY <1>5, SparksAreRegistered DEF Forward, TypeOK
  <2>4. answer' \in [Attempts -> {"none", "resolved", "rejected"}]
    BY <1>5, SettleType DEF Forward
  <2> QED BY <1>5, <2>1, <2>2, <2>3, <2>4 DEF Forward, Dispatching, TypeOK, Phases
<1>6. ASSUME NEW a \in Attempts, Result(a) PROVE TypeOK'
  <2>1. \E state \in {"PENDING", "COMPLETED"}, code \in Codes \cup {"null"} :
          UpdateRequest(RequestId[a], state, code)
    BY <1>6 DEF Result, Codes
  <2>2. DOMAIN requests' = DOMAIN requests /\ requests' \in [DOMAIN requests -> Request]
    BY <2>1, UpdateRequestKeeps
  <2>3. answer' \in [Attempts -> {"none", "resolved", "rejected"}]
    BY <1>6, SettleType DEF Result
  <2> QED BY <1>6, <2>2, <2>3 DEF Result, TypeOK, Results
<1>7. ASSUME NEW a \in Attempts, Callback(a) PROVE TypeOK'
  <2>1. DOMAIN requests' = DOMAIN requests /\ requests' \in [DOMAIN requests -> Request]
    BY <1>7, UpdateRequestKeeps DEF Callback, Codes
  <2> QED BY <1>7, <2>1 DEF Callback, TypeOK
<1>8. ASSUME NEW a \in Attempts, NEW state \in {"PENDING", "COMPLETED", "null"},
             WsReply(a, state)
      PROVE  TypeOK'
  <2>1. DOMAIN requests' = DOMAIN requests /\ requests' \in [DOMAIN requests -> Request]
    BY <1>8, UpdateRequestKeeps DEF WsReply, Codes
  <2> QED BY <1>8, <2>1 DEF WsReply, TypeOK
<1>9. ASSUME NEW a \in Attempts, Detach(a) PROVE TypeOK'
  BY <1>9 DEF Detach, TypeOK
<1>10. ASSUME NEW a \in Attempts, Timeout(a) PROVE TypeOK'
  <2>1. DOMAIN requests' = DOMAIN requests /\ requests' \in [DOMAIN requests -> Request]
    <3>1. CASE StillPending(RequestId[a])
      BY <1>10, <3>1, UpdateRequestKeeps DEF Timeout, Codes
    <3>2. CASE ~StillPending(RequestId[a])
      BY <1>10, <3>2 DEF Timeout, TypeOK
    <3> QED BY <3>1, <3>2
  <2>2. detaching' = {} /\ listeners' \subseteq listeners /\ timers' \subseteq timers
    BY <1>10 DEF Timeout, TickOver
  <2> QED BY <1>10, <2>1, <2>2 DEF Timeout, TypeOK
<1>11. ASSUME NEW id \in Ids, Prune(id) PROVE TypeOK'
  BY <1>11 DEF Prune, TypeOK
<1>12. ASSUME NEW s \in Sources, RegisterActionHandler(s) \/ DeRegisterActionHandler(s)
       PROVE  TypeOK'
  BY <1>12 DEF RegisterActionHandler, DeRegisterActionHandler, TypeOK
<1>13. ASSUME NEW spark \in Sparks, End(spark) PROVE TypeOK'
  BY <1>13 DEF End, TypeOK
<1>14. ASSUME NEW spark \in Sparks, NEW s \in Sources, RegisterSpark(spark, s)
       PROVE  TypeOK'
  BY <1>14 DEF RegisterSpark, TypeOK
<1>15. CASE UNCHANGED vars
  BY <1>15 DEF vars, TypeOK
<1> QED
  BY <1>1, <1>2, <1>3, <1>4, <1>5, <1>6, <1>7, <1>8, <1>9, <1>10, <1>11, <1>12, <1>13,
     <1>14, <1>15
  DEF Next, Due, Dispatch

\* Every state of the requests, their timers and listeners and of the
\* registries has its type, also with identifiers that are used twice.
THEOREM RequestsTypeCorrect == Spec => []TypeOK
BY TypeInit, TypeStep, PTL DEF Spec

-----------------------------------------------------------------------------
LEMMA InvInit == Init => RequestsInv
<1> SUFFICES ASSUME Init PROVE RequestsInv
  OBVIOUS
<1>1. DOMAIN requests = {} /\ DOMAIN forwardedTo = {} /\ listeners = {} /\ owed = {}
      /\ \A a \in Attempts : phase[a] = "idle" /\ result[a] = "none"
  BY EmptyFunction DEF Init
<1> QED
  BY <1>1, TypeInit
  DEF RequestsInv, OneWay, RequestsAreOwned, NoListenerLeak, ListenersArePending,
      TimedOutIsOver

\* A step that only updates the request of a put which was not forwarded, with
\* a code other than 504, leaves listeners and what timed out as they were.
LEMMA UnforwardedUpdate ==
  ASSUME RequestsInv, UniqueRequests, NEW a \in Attempts, a \notin DOMAIN forwardedTo,
         NEW state \in {"PENDING", "COMPLETED", "null"},
         NEW code \in (Codes \cup {"null"}) \ {"504"},
         UpdateRequest(RequestId[a], state, code), UNCHANGED forwarding
  PROVE  NoListenerLeak' /\ ListenersArePending' /\ TimedOutIsOver'
<1> DEFINE id == RequestId[a]
<1> UpdateRequest(id, state, code) /\ TypeOK /\ code \in Codes \cup {"null"}
  BY DEF RequestsInv
<1> HIDE DEF id
<1>1. /\ DOMAIN requests' = DOMAIN requests
      /\ \A i \in DOMAIN requests :
           /\ requests'[i].attempt = requests[i].attempt
           /\ i # id => requests'[i] = requests[i]
      /\ id \in DOMAIN requests =>
           requests'[id].code = IF code = "null" THEN requests[id].code ELSE code
  BY UpdateRequestKeeps
<1> USE DEF id
<1> USE DEF forwarding
<1>2. \A b \in listeners : b \in Attempts /\ RequestId[b] # RequestId[a]
  BY DEF RequestsInv, TypeOK, UniqueRequests
<1>3. ListenersArePending'
  BY <1>1, <1>2 DEF RequestsInv, ListenersArePending, StillPending
<1>4. TimedOutIsOver'
  BY <1>1 DEF RequestsInv, TimedOutIsOver
<1> QED BY <1>3, <1>4 DEF RequestsInv, NoListenerLeak

LEMMA InvStep == RequestsInv /\ UniqueRequests /\ [Next]_vars => RequestsInv'
<1> SUFFICES ASSUME RequestsInv, UniqueRequests, [Next]_vars PROVE RequestsInv'
  OBVIOUS
<1> USE DEF handling, forwarding, registries
<1> TypeOK /\ TypeOK'
  BY TypeStep DEF RequestsInv
<1>1. ASSUME NEW a \in Attempts, Put(a) PROVE RequestsInv'
  <2>1. a \notin DOMAIN forwardedTo /\ a \notin listeners
    BY <1>1 DEF Put, RequestsInv, OneWay, TypeOK
  <2>2. /\ DOMAIN requests' = DOMAIN requests \cup {RequestId[a]}
        /\ requests'[RequestId[a]] = [state |-> "PENDING", code |-> "202", attempt |-> a]
        /\ \A id \in DOMAIN requests : id # RequestId[a] => requests'[id] = requests[id]
    BY <1>1 DEF Put
  <2>3. /\ phase'[a] = "created"
        /\ \A b \in Attempts : b # a => phase'[b] = phase[b]
    BY <1>1 DEF Put, TypeOK
  <2>4. OneWay'
    BY <1>1, <2>1, <2>3 DEF Put, RequestsInv, OneWay, TypeOK
  <2>5. RequestsAreOwned'
    BY <2>2, <2>3 DEF RequestsInv, RequestsAreOwned, TypeOK, Request
  <2>6. ListenersArePending'
    BY <1>1, <2>1, <2>2 DEF Put, RequestsInv, ListenersArePending, StillPending
  <2>7. TimedOutIsOver'
    BY <1>1, <2>2 DEF Put, RequestsInv, TimedOutIsOver
  <2> QED BY <1>1, <2>4, <2>5, <2>6, <2>7 DEF Put, RequestsInv, NoListenerLeak
<1>2. ASSUME NEW a \in Attempts, NEW s \in Sources \cup {NoSource}, Refuse(a, s)
      PROVE  RequestsInv'
  <2>1. PICK code \in Refusals(s) : UpdateRequest(RequestId[a], "COMPLETED", code)
    BY <1>2 DEF Refuse
  <2>2. code \in (Codes \cup {"null"}) \ {"504"}
    BY RefusalCodes DEF Codes
  <2>3. a \notin DOMAIN forwardedTo
    BY <1>2 DEF Refuse, Dispatching, RequestsInv, OneWay
  <2>4. NoListenerLeak' /\ ListenersArePending' /\ TimedOutIsOver'
    BY <1>2, <2>1, <2>2, <2>3, UnforwardedUpdate DEF Refuse
  <2>5. OneWay'
    BY <1>2 DEF Refuse, Dispatching, RequestsInv, OneWay, TypeOK
  <2>6. RequestsAreOwned'
    BY <1>2, <2>1, <2>2, UpdateRequestKeeps
    DEF Refuse, Dispatching, RequestsInv, RequestsAreOwned, TypeOK, Request
  <2> QED BY <2>4, <2>5, <2>6 DEF RequestsInv
<1>3. ASSUME NEW a \in Attempts, NEW s, NEW r \in Results, Handle(a, s, r)
      PROVE  RequestsInv'
  <2>1. a \notin DOMAIN forwardedTo
    BY <1>3 DEF Handle, Dispatching, RequestsInv, OneWay
  <2>2. OneWay'
    BY <1>3, <2>1 DEF Handle, Dispatching, RequestsInv, OneWay, TypeOK
  <2>3. RequestsAreOwned'
    BY <1>3 DEF Handle, Dispatching, RequestsInv, RequestsAreOwned, TypeOK, Request
  <2> QED
    BY <1>3, <2>2, <2>3
    DEF Handle, RequestsInv, NoListenerLeak, ListenersArePending, StillPending,
        TimedOutIsOver
<1>4. ASSUME NEW a \in Attempts, NEW s, HandlerThrows(a, s) PROVE RequestsInv'
  <2>1. OneWay'
    BY <1>4 DEF HandlerThrows, Dispatching, RequestsInv, OneWay, TypeOK
  <2>2. RequestsAreOwned'
    BY <1>4 DEF HandlerThrows, Dispatching, RequestsInv, RequestsAreOwned, TypeOK, Request
  <2> QED
    BY <1>4, <2>1, <2>2
    DEF HandlerThrows, RequestsInv, NoListenerLeak, ListenersArePending, StillPending,
        TimedOutIsOver
<1>5. ASSUME NEW a \in Attempts, NEW s \in Sources \cup {NoSource}, Forward(a, s)
      PROVE  RequestsInv'
  <2>1. /\ DOMAIN requests' = DOMAIN requests
        /\ \A i \in DOMAIN requests :
             /\ requests'[i].attempt = requests[i].attempt
             /\ i # RequestId[a] => requests'[i] = requests[i]
        /\ RequestId[a] \in DOMAIN requests =>
             requests'[RequestId[a]].state = "PENDING" /\ requests'[RequestId[a]].code = "202"
    BY <1>5, UpdateRequestKeeps DEF Forward, Codes
  <2>2. phase[a] = "created" /\ RequestId[a] \in DOMAIN requests /\ a \notin DOMAIN forwardedTo
    BY <1>5 DEF Forward, Dispatching, RequestsInv, RequestsAreOwned, OneWay
  <2>3. /\ DOMAIN forwardedTo' = DOMAIN forwardedTo \cup {a}
        /\ listeners' = listeners \cup {a} /\ timers' = timers \cup {a}
        /\ detaching' = detaching /\ result' = result /\ owed' = owed
        /\ phase'[a] = "dispatched"
        /\ \A b \in Attempts : b # a => phase'[b] = phase[b]
    BY <1>5 DEF Forward, Dispatching, TypeOK
  <2>4. OneWay'
    BY <2>2, <2>3 DEF RequestsInv, OneWay, TypeOK
  <2>5. RequestsAreOwned'
    BY <2>1, <2>3 DEF RequestsInv, RequestsAreOwned, TypeOK, Request
  <2>6. ListenersArePending'
    BY <2>1, <2>2, <2>3 DEF RequestsInv, ListenersArePending, StillPending
  <2>7. TimedOutIsOver'
    <3> SUFFICES ASSUME NEW id \in DOMAIN requests, requests'[id].code = "504"
                 PROVE  LET b == requests'[id].attempt
                        IN  b \in DOMAIN forwardedTo' /\ b \notin timers' /\ b \notin listeners'
      BY <2>1 DEF TimedOutIsOver
    <3>1. id # RequestId[a] /\ requests'[id] = requests[id]
      BY <2>1
    <3>2. requests[id].attempt # a
      BY <3>1 DEF RequestsInv, RequestsAreOwned
    <3> QED BY <2>3, <3>1, <3>2 DEF RequestsInv, TimedOutIsOver
  <2> QED BY <2>3, <2>4, <2>5, <2>6, <2>7 DEF RequestsInv, NoListenerLeak
<1>6. ASSUME NEW a \in Attempts, Result(a) PROVE RequestsInv'
  <2>1. PICK state \in {"PENDING", "COMPLETED"}, code \in {"500", "200", "null"} :
          UpdateRequest(RequestId[a], state, code)
    BY <1>6 DEF Result
  <2>2. a \notin DOMAIN forwardedTo
    BY <1>6 DEF Result, RequestsInv, OneWay
  <2>3. NoListenerLeak' /\ ListenersArePending' /\ TimedOutIsOver'
    BY <1>6, <2>1, <2>2, UnforwardedUpdate DEF Result, Codes
  <2>4. OneWay'
    BY <1>6 DEF Result, RequestsInv, OneWay, TypeOK
  <2>5. RequestsAreOwned'
    BY <1>6, <2>1, UpdateRequestKeeps DEF Result, RequestsInv, RequestsAreOwned, Codes
  <2> QED BY <2>3, <2>4, <2>5 DEF RequestsInv
<1>7. ASSUME NEW a \in Attempts, Callback(a) PROVE RequestsInv'
  <2>1. a \notin DOMAIN forwardedTo
    BY <1>7 DEF Callback, RequestsInv, OneWay
  <2>2. NoListenerLeak' /\ ListenersArePending' /\ TimedOutIsOver'
    BY <1>7, <2>1, UnforwardedUpdate DEF Callback, Codes
  <2>3. OneWay'
    BY <1>7 DEF Callback, RequestsInv, OneWay, TypeOK
  <2>4. RequestsAreOwned'
    BY <1>7, UpdateRequestKeeps DEF Callback, RequestsInv, RequestsAreOwned, Codes
  <2> QED BY <2>2, <2>3, <2>4 DEF RequestsInv
<1>8. ASSUME NEW a \in Attempts, NEW state \in {"PENDING", "COMPLETED", "null"},
             WsReply(a, state)
      PROVE  RequestsInv'
  <2>1. PICK code \in {"200", "null"} : UpdateRequest(RequestId[a], state, code)
    BY <1>8 DEF WsReply
  <2>2. /\ DOMAIN requests' = DOMAIN requests
        /\ \A i \in DOMAIN requests :
             /\ requests'[i].attempt = requests[i].attempt
             /\ i # RequestId[a] => requests'[i] = requests[i]
        /\ RequestId[a] \in DOMAIN requests =>
             /\ requests'[RequestId[a]].state =
                  IF state = "null" THEN requests[RequestId[a]].state ELSE state
             /\ requests'[RequestId[a]].code =
                  IF code = "null" THEN requests[RequestId[a]].code ELSE code
    BY <2>1, UpdateRequestKeeps DEF Codes
  <2>3. /\ a \in listeners /\ listeners' = listeners /\ timers' = timers
        /\ forwardedTo' = forwardedTo
        /\ detaching' = IF Completes(a, state) THEN detaching \cup {a} ELSE detaching
    BY <1>8 DEF WsReply
  <2>4. OneWay'
    BY <1>8 DEF WsReply, RequestsInv, OneWay
  <2>5. RequestsAreOwned'
    BY <1>8, <2>2 DEF WsReply, RequestsInv, RequestsAreOwned
  <2>6. ListenersArePending'
    <3> SUFFICES ASSUME NEW b \in listeners, b \notin detaching'
                 PROVE  StillPending(RequestId[b])'
      BY <2>3 DEF ListenersArePending
    <3>1. StillPending(RequestId[b])
      BY <2>3 DEF RequestsInv, ListenersArePending
    <3>2. CASE b # a
      <4>1. RequestId[b] # RequestId[a]
        BY <3>2 DEF UniqueRequests, TypeOK
      <4> QED BY <2>2, <3>1, <4>1 DEF StillPending
    <3>3. CASE b = a
      <4>1. ~Completes(a, state)
        BY <2>3, <3>3
      <4> QED BY <2>2, <3>1, <3>3, <4>1 DEF StillPending, Completes
    <3> QED BY <3>2, <3>3
  <2>7. TimedOutIsOver'
    BY <2>2, <2>3 DEF RequestsInv, TimedOutIsOver
  <2> QED BY <2>3, <2>4, <2>5, <2>6, <2>7 DEF RequestsInv, NoListenerLeak
<1>9. ASSUME NEW a \in Attempts, Detach(a) PROVE RequestsInv'
  <2>1. OneWay' /\ RequestsAreOwned'
    BY <1>9 DEF Detach, RequestsInv, OneWay, RequestsAreOwned
  <2> QED
    BY <1>9, <2>1
    DEF Detach, RequestsInv, NoListenerLeak, ListenersArePending, StillPending,
        TimedOutIsOver
<1>10. ASSUME NEW a \in Attempts, Timeout(a) PROVE RequestsInv'
  <2>1. /\ timers' = timers \ {a} /\ detaching = {} /\ detaching' = {}
        /\ a \in DOMAIN forwardedTo /\ forwardedTo' = forwardedTo
    BY <1>10 DEF Timeout, TickOver, TypeOK
  <2>2. CASE StillPending(RequestId[a])
    <3>1. /\ UpdateRequest(RequestId[a], "COMPLETED", "504")
          /\ listeners' = listeners \ {a}
      BY <1>10, <2>2 DEF Timeout
    <3>2. /\ DOMAIN requests' = DOMAIN requests
          /\ \A i \in DOMAIN requests :
               /\ requests'[i].attempt = requests[i].attempt
               /\ i # RequestId[a] => requests'[i] = requests[i]
      BY <3>1, UpdateRequestKeeps DEF Codes
    <3>3. OneWay' /\ RequestsAreOwned'
      BY <1>10, <3>2 DEF Timeout, RequestsInv, OneWay, RequestsAreOwned
    <3>4. ListenersArePending'
      BY <2>1, <3>1, <3>2
      DEF RequestsInv, ListenersArePending, StillPending, UniqueRequests, TypeOK
    <3>5. TimedOutIsOver'
      <4> SUFFICES ASSUME NEW id \in DOMAIN requests, requests'[id].code = "504"
                   PROVE  LET b == requests'[id].attempt
                          IN  b \in DOMAIN forwardedTo' /\ b \notin timers' /\ b \notin listeners'
        BY <3>2 DEF TimedOutIsOver
      <4>1. CASE id = RequestId[a]
        <5>1. requests[id].attempt = a
          BY <4>1 DEF RequestsInv, RequestsAreOwned, UniqueRequests, TypeOK, Request
        <5> QED BY <2>1, <3>1, <3>2, <5>1
      <4>2. CASE id # RequestId[a]
        BY <2>1, <3>1, <3>2, <4>2 DEF RequestsInv, TimedOutIsOver
      <4> QED BY <4>1, <4>2
    <3> QED BY <2>1, <3>1, <3>3, <3>4, <3>5 DEF RequestsInv, NoListenerLeak
  <2>3. CASE ~StillPending(RequestId[a])
    <3>1. requests' = requests /\ listeners' = listeners
      BY <1>10, <2>3 DEF Timeout
    <3>2. a \notin listeners
      BY <2>1, <2>3 DEF RequestsInv, ListenersArePending
    <3>3. OneWay' /\ RequestsAreOwned'
      BY <1>10, <3>1 DEF Timeout, RequestsInv, OneWay, RequestsAreOwned
    <3> QED
      BY <2>1, <3>1, <3>2, <3>3
      DEF RequestsInv, NoListenerLeak, ListenersArePending, StillPending, TimedOutIsOver
  <2> QED BY <2>2, <2>3
<1>11. ASSUME NEW id \in Ids, Prune(id) PROVE RequestsInv'
  <2>1. /\ DOMAIN requests' = DOMAIN requests \ {id}
        /\ \A i \in DOMAIN requests \ {id} : requests'[i] = requests[i]
        /\ id \in DOMAIN requests /\ requests[id].attempt \notin timers
        /\ detaching = {} /\ \A a \in Attempts : phase[a] # "created"
        /\ UNCHANGED <<handling, forwarding>>
    BY <1>11 DEF Prune, TickOver
  <2>2. OneWay' /\ RequestsAreOwned'
    BY <2>1 DEF RequestsInv, OneWay, RequestsAreOwned
  <2>3. \A a \in listeners : RequestId[a] # id
    <3> SUFFICES ASSUME NEW a \in listeners, RequestId[a] = id PROVE FALSE
      OBVIOUS
    <3>1. requests[id].attempt = a
      BY <2>1 DEF RequestsInv, RequestsAreOwned, UniqueRequests, TypeOK, Request
    <3> QED BY <2>1, <3>1 DEF RequestsInv, NoListenerLeak
  <2>4. ListenersArePending'
    BY <2>1, <2>3 DEF RequestsInv, ListenersArePending, StillPending
  <2> QED BY <2>1, <2>2, <2>4 DEF RequestsInv, NoListenerLeak, TimedOutIsOver
<1>12. ASSUME UNCHANGED <<requests, handling, forwarding>> PROVE RequestsInv'
  <2>1. OneWay' /\ RequestsAreOwned'
    BY <1>12 DEF RequestsInv, OneWay, RequestsAreOwned
  <2> QED
    BY <1>12, <2>1
    DEF RequestsInv, NoListenerLeak, ListenersArePending, StillPending, TimedOutIsOver
<1>13. ASSUME NEW spark \in Sparks, NEW s \in Sources,
              \/ RegisterActionHandler(s) \/ DeRegisterActionHandler(s)
              \/ RegisterSpark(spark, s) \/ End(spark)
       PROVE  RequestsInv'
  BY <1>12, <1>13 DEF RegisterActionHandler, DeRegisterActionHandler, RegisterSpark, End
<1>14. CASE UNCHANGED vars
  BY <1>12, <1>14 DEF vars
<1>15. CASE Next
  <2>1. ASSUME NEW s \in Sources, RegisterActionHandler(s) \/ DeRegisterActionHandler(s)
        PROVE  RequestsInv'
    BY <1>12, <2>1 DEF RegisterActionHandler, DeRegisterActionHandler
  <2>2. ASSUME NEW spark \in Sparks, End(spark) PROVE RequestsInv'
    BY <1>12, <2>2 DEF End
  <2> QED
    BY <1>15, <2>1, <2>2, <1>1, <1>2, <1>3, <1>4, <1>5, <1>6, <1>7, <1>8, <1>9, <1>10,
       <1>11, <1>13
    DEF Next, Due, Dispatch
<1> QED BY <1>14, <1>15

\* The client may answer late, twice or never, requests may be pruned and
\* sources come and go: a listener never outlives its timer for longer than the
\* microtask that removes it (handlePut).
THEOREM ListenersDoNotLeak ==
  ASSUME UniqueRequests
  PROVE  Spec => []NoListenerLeak
<1>1. Init => RequestsInv
  BY InvInit
<1>2. RequestsInv /\ [Next]_vars => RequestsInv'
  BY InvStep
<1>3. RequestsInv => NoListenerLeak
  BY DEF RequestsInv
<1> QED BY <1>1, <1>2, <1>3, PTL DEF Spec

-----------------------------------------------------------------------------
\* No step touches a request that timed out, except to prune it.
LateAnswerStep ==
  \A id \in DOMAIN requests :
    requests[id].code = "504" /\ id \in DOMAIN requests' => requests'[id] = requests[id]

LEMMA TimedOutStays ==
  ASSUME RequestsInv, UniqueRequests, [Next]_vars
  PROVE  LateAnswerStep
<1> USE DEF handling, forwarding, registries
<1> SUFFICES ASSUME NEW id \in DOMAIN requests, requests[id].code = "504",
                    id \in DOMAIN requests'
             PROVE  requests'[id] = requests[id]
  BY DEF LateAnswerStep
<1> DEFINE owner == requests[id].attempt
<1> TypeOK
  BY DEF RequestsInv
<1>1. /\ owner \in DOMAIN forwardedTo /\ owner \notin timers /\ owner \notin listeners
      /\ owner \in Attempts /\ id = RequestId[owner]
      /\ phase[owner] = "dispatched" /\ result[owner] = "none" /\ owner \notin owed
  BY DEF RequestsInv, TimedOutIsOver, RequestsAreOwned, OneWay, TypeOK
<1>2. \A a \in Attempts : a # owner => RequestId[a] # id
  BY <1>1 DEF UniqueRequests
<1> HIDE DEF owner
<1>3. ASSUME NEW a \in Attempts, a # owner,
             NEW state \in {"PENDING", "COMPLETED", "null"}, NEW code \in Codes \cup {"null"},
             UpdateRequest(RequestId[a], state, code)
      PROVE  requests'[id] = requests[id]
  BY <1>2, <1>3 DEF UpdateRequest, TypeOK
<1>4. ASSUME NEW a \in Attempts, Put(a) PROVE requests'[id] = requests[id]
  <2>1. a # owner
    BY <1>1, <1>4 DEF Put
  <2> QED BY <1>2, <1>4, <2>1 DEF Put
<1>5. ASSUME NEW a \in Attempts, NEW s \in Sources \cup {NoSource}, Refuse(a, s)
      PROVE  requests'[id] = requests[id]
  <2>1. a # owner
    BY <1>1, <1>5 DEF Refuse, Dispatching
  <2>2. PICK code \in Refusals(s) : UpdateRequest(RequestId[a], "COMPLETED", code)
    BY <1>5 DEF Refuse
  <2>3. code \in Codes \cup {"null"}
    BY RefusalCodes DEF Codes
  <2> QED BY <1>3, <2>1, <2>2, <2>3
<1>6. ASSUME NEW a \in Attempts, NEW s \in Sources \cup {NoSource}, Forward(a, s)
      PROVE  requests'[id] = requests[id]
  <2>1. a # owner /\ UpdateRequest(RequestId[a], "PENDING", "202")
    BY <1>1, <1>6 DEF Forward, Dispatching
  <2> QED BY <1>3, <2>1 DEF Codes
<1>7. ASSUME NEW a \in Attempts, Result(a) PROVE requests'[id] = requests[id]
  <2>1. a # owner
    BY <1>1, <1>7 DEF Result
  <2>2. PICK state \in {"PENDING", "COMPLETED"}, code \in {"500", "200", "null"} :
          UpdateRequest(RequestId[a], state, code)
    BY <1>7 DEF Result
  <2> QED BY <1>3, <2>1, <2>2 DEF Codes
<1>8. ASSUME NEW a \in Attempts, Callback(a) PROVE requests'[id] = requests[id]
  <2>1. a # owner /\ UpdateRequest(RequestId[a], "COMPLETED", "200")
    BY <1>1, <1>8 DEF Callback
  <2> QED BY <1>3, <2>1 DEF Codes
<1>9. ASSUME NEW a \in Attempts, NEW state \in {"PENDING", "COMPLETED", "null"},
             WsReply(a, state)
      PROVE  requests'[id] = requests[id]
  <2>1. a # owner
    BY <1>1, <1>9 DEF WsReply
  <2>2. PICK code \in {"200", "null"} : UpdateRequest(RequestId[a], state, code)
    BY <1>9 DEF WsReply
  <2> QED BY <1>3, <2>1, <2>2 DEF Codes
<1>10. ASSUME NEW a \in Attempts, Timeout(a) PROVE requests'[id] = requests[id]
  <2>1. a # owner
    BY <1>1, <1>10 DEF Timeout
  <2>2. CASE StillPending(RequestId[a])
    <3>1. UpdateRequest(RequestId[a], "COMPLETED", "504")
      BY <1>10, <2>2 DEF Timeout
    <3> QED BY <1>3, <2>1, <3>1 DEF Codes
  <2> QED BY <1>10, <2>2 DEF Timeout
<1>11. ASSUME NEW i \in Ids, Prune(i) PROVE requests'[id] = requests[id]
  BY <1>11 DEF Prune
<1>12. CASE UNCHANGED requests
  BY <1>12
<1> QED
  BY <1>4, <1>5, <1>6, <1>7, <1>8, <1>9, <1>10, <1>11, <1>12
  DEF Next, Due, Dispatch, vars, Handle, HandlerThrows, Detach, RegisterActionHandler,
      DeRegisterActionHandler, RegisterSpark, End

\* A put that timed out stays timed out: an answer that comes late does not
\* turn the 504 its requester was given into something else (handlePut's timer
\* removes the listener with the update).
THEOREM LateAnswersAreIgnored ==
  ASSUME UniqueRequests
  PROVE  Spec => LateAnswerIsIgnored
<1>1. Init => RequestsInv
  BY InvInit
<1>2. RequestsInv /\ [Next]_vars => RequestsInv'
  BY InvStep
<1>3. RequestsInv /\ [Next]_vars => [LateAnswerStep]_vars
  BY TimedOutStays
<1>4. [LateAnswerStep]_vars <=>
        [\A id \in DOMAIN requests :
           requests[id].code = "504" /\ id \in DOMAIN requests'
             => requests'[id] = requests[id]]_vars
  BY DEF LateAnswerStep
<1> QED BY <1>1, <1>2, <1>3, <1>4, PTL DEF Spec, LateAnswerIsIgnored

-----------------------------------------------------------------------------
ConnectedInv == TypeOK /\ RegisteredAreConnected

LEMMA ConnectedStep == ConnectedInv /\ [Next]_vars => ConnectedInv'
<1> SUFFICES ASSUME ConnectedInv, [Next]_vars PROVE RegisteredAreConnected'
  BY TypeStep DEF ConnectedInv
<1> USE DEF handling, forwarding, registries, ConnectedInv, RegisteredAreConnected
<1>1. ASSUME NEW spark \in Sparks, End(spark) PROVE RegisteredAreConnected'
  BY <1>1 DEF End, TypeOK
<1>2. ASSUME NEW spark \in Sparks, NEW s \in Sources, RegisterSpark(spark, s)
      PROVE  RegisteredAreConnected'
  BY <1>2 DEF RegisterSpark, TypeOK
<1>3. CASE UNCHANGED <<connected, pathSources>>
  BY <1>3
<1> QED
  BY <1>1, <1>2, <1>3
  DEF Next, Due, Dispatch, vars, Put, Refuse, Handle, HandlerThrows, Forward, Result,
      Callback, WsReply, Detach, Timeout, Prune, RegisterActionHandler,
      DeRegisterActionHandler

\* A forwarded put goes to a client that is connected.
ReachesStep ==
  \A a \in Attempts :
    a \in DOMAIN forwardedTo' \ DOMAIN forwardedTo => forwardedTo'[a] \in connected

LEMMA ForwardReaches ==
  ASSUME ConnectedInv, [Next]_vars
  PROVE  ReachesStep
<1> USE DEF handling, forwarding, registries
<1>1. ASSUME NEW b \in Attempts, NEW s \in Sources \cup {NoSource}, Forward(b, s)
      PROVE  ReachesStep
  <2>1. PICK spark \in SparksFor(s) :
          forwardedTo' = [c \in DOMAIN forwardedTo \cup {b} |->
                            IF c = b THEN spark ELSE forwardedTo[c]]
    BY <1>1 DEF Forward
  <2>2. spark \in connected
    BY <1>1, SparksAreRegistered DEF Forward, ConnectedInv, RegisteredAreConnected
  <2> QED BY <2>1, <2>2 DEF ReachesStep
<1>2. CASE UNCHANGED forwardedTo
  BY <1>2 DEF ReachesStep
<1> QED
  BY <1>1, <1>2
  DEF Next, Due, Dispatch, vars, Put, Refuse, Handle, HandlerThrows, Result, Callback,
      WsReply, Detach, Timeout, Prune, RegisterActionHandler, DeRegisterActionHandler,
      RegisterSpark, End

\* A put is forwarded only to a connected client, although the registry of the
\* path is kept by source alone (handlePut, processUpdates and the end of a
\* connection).
THEOREM PutsReachConnections == Spec => PutReachesAConnection
<1>1. Init => ConnectedInv
  BY TypeInit, EmptyFunction DEF Init, ConnectedInv, RegisteredAreConnected
<1>2. ConnectedInv /\ [Next]_vars => ConnectedInv'
  BY ConnectedStep
<1>3. ConnectedInv /\ [Next]_vars => [ReachesStep]_vars
  BY ForwardReaches
<1>4. [ReachesStep]_vars <=>
        [\A a \in Attempts :
           a \in DOMAIN forwardedTo' \ DOMAIN forwardedTo
             => forwardedTo'[a] \in connected]_vars
  BY DEF ReachesStep
<1> QED BY <1>1, <1>2, <1>3, <1>4, PTL DEF Spec, PutReachesAConnection
-----------------------------------------------------------------------------
(* The safety behind the answers: whatever is unanswered has something due. *)

\* A put without an answer is in a microtask, or its handler's result is.
UnansweredIsDue ==
  \A a \in Attempts :
    phase[a] # "idle" /\ answer[a] = "none" => phase[a] = "created" \/ result[a] # "none"

\* A put whose handler's result is still to come has no answer yet.
AnswerIsAhead ==
  \A a \in Attempts : phase[a] # "dispatched" \/ result[a] # "none" => answer[a] = "none"

\* The promise of a put is settled once: what it was answered stays.
AnsweredOnceStep == \A a \in Attempts : answer[a] # "none" => answer'[a] = answer[a]
AnsweredOnce == [][AnsweredOnceStep]_vars

AnswerInv == TypeOK /\ OneWay /\ UnansweredIsDue /\ AnswerIsAhead

\* Being forwarded or handled excludes the other, whatever the identifiers.
LEMMA OneWayStep == TypeOK /\ OneWay /\ [Next]_vars => OneWay'
<1> SUFFICES ASSUME TypeOK, OneWay, [Next]_vars PROVE OneWay'
  OBVIOUS
<1> USE DEF handling, forwarding, registries, OneWay, TypeOK
<1>1. ASSUME NEW a \in Attempts, Put(a) PROVE OneWay'
  BY <1>1 DEF Put
<1>2. ASSUME NEW a \in Attempts, NEW s, Refuse(a, s) \/ HandlerThrows(a, s) PROVE OneWay'
  BY <1>2 DEF Refuse, HandlerThrows, Dispatching
<1>3. ASSUME NEW a \in Attempts, NEW s, NEW r \in Results, Handle(a, s, r) PROVE OneWay'
  BY <1>3 DEF Handle, Dispatching
<1>4. ASSUME NEW a \in Attempts, NEW s, Forward(a, s) PROVE OneWay'
  <2>1. DOMAIN forwardedTo' = DOMAIN forwardedTo \cup {a}
    BY <1>4 DEF Forward
  <2> QED BY <1>4, <2>1 DEF Forward, Dispatching
<1>5. ASSUME NEW a \in Attempts, Result(a) PROVE OneWay'
  BY <1>5 DEF Result
<1>6. ASSUME NEW a \in Attempts, Callback(a) PROVE OneWay'
  BY <1>6 DEF Callback
<1>7. CASE UNCHANGED <<phase, result, owed, forwardedTo>>
  BY <1>7
<1> QED
  BY <1>1, <1>2, <1>3, <1>4, <1>5, <1>6, <1>7
  DEF Next, Due, Dispatch, vars, WsReply, Detach, Timeout, Prune, RegisterActionHandler,
      DeRegisterActionHandler, RegisterSpark, End

\* Settling the promise of a put is to answer that put and no other.
LEMMA SettleAnswers ==
  ASSUME TypeOK, NEW a \in Attempts, Settle(a)
  PROVE  answer'[a] # "none" /\ \A b \in Attempts \ {a} : answer'[b] = answer[b]
BY DEF Settle, TypeOK

LEMMA AnswerStep ==
  ASSUME AnswerInv, [Next]_vars
  PROVE  AnswerInv' /\ AnsweredOnceStep
<1> USE DEF handling, forwarding, registries, AnswerInv
<1> DEFINE G == UnansweredIsDue' /\ AnswerIsAhead' /\ AnsweredOnceStep
<1> SUFFICES G
  BY TypeStep, OneWayStep
<1> USE DEF UnansweredIsDue, AnswerIsAhead, AnsweredOnceStep
<1>1. ASSUME NEW a \in Attempts, Put(a) PROVE G
  BY <1>1 DEF Put, TypeOK, OneWay
<1>2. ASSUME NEW a \in Attempts, NEW s, Refuse(a, s) \/ Forward(a, s) PROVE G
  <2>1. Settle(a) /\ result' = result /\ Dispatching(a) /\ result[a] = "none"
    BY <1>2 DEF Refuse, Forward, Dispatching, OneWay
  <2> QED BY <2>1, SettleAnswers DEF Dispatching, TypeOK
<1>3. ASSUME NEW a \in Attempts, NEW s, NEW r \in Results \ {"none"}, Handle(a, s, r)
      PROVE  G
  BY <1>3 DEF Handle, Dispatching, TypeOK
<1>4. ASSUME NEW a \in Attempts, NEW s, HandlerThrows(a, s) PROVE G
  BY <1>4 DEF HandlerThrows, Dispatching, TypeOK, OneWay
<1>5. ASSUME NEW a \in Attempts, Result(a) PROVE G
  <2>1. /\ Settle(a) /\ result[a] # "none" /\ result' = [result EXCEPT ![a] = "none"]
        /\ phase' = phase /\ phase[a] = "dispatched"
    BY <1>5 DEF Result, OneWay
  <2> QED BY <2>1, SettleAnswers DEF TypeOK
<1>6. CASE UNCHANGED <<phase, result, answer>>
  BY <1>6
<1> QED
  BY <1>1, <1>2, <1>3, <1>4, <1>5, <1>6
  DEF Next, Due, Dispatch, vars, Callback, WsReply, Detach, Timeout, Prune,
      RegisterActionHandler, DeRegisterActionHandler, RegisterSpark, End

\* Every put that has no answer has a step due that answers it, and an answer
\* is never changed: what a handler returns, throws or calls back comes to one
\* settling of the promise of putPath, also when identifiers are used twice.
THEOREM PutsAreAnsweredOnce == Spec => []UnansweredIsDue /\ AnsweredOnce
<1>1. Init => AnswerInv
  BY TypeInit, EmptyFunction DEF Init, AnswerInv, OneWay, UnansweredIsDue, AnswerIsAhead
<1>2. AnswerInv /\ [Next]_vars => AnswerInv' /\ [AnsweredOnceStep]_vars
  BY AnswerStep
<1>3. AnswerInv => UnansweredIsDue
  BY DEF AnswerInv
<1> QED BY <1>1, <1>2, <1>3, PTL DEF Spec, AnsweredOnce

-----------------------------------------------------------------------------
\* A put that was forwarded and is not over has its timer: no answer, prune,
\* listener or disconnection takes the 60 s of handlePut away from it.
ForwardedPutIsTimed ==
  \A a \in DOMAIN forwardedTo : StillPending(RequestId[a]) => a \in timers

TimedInv ==
  /\ RequestsInv
  /\ detaching \subseteq timers
  /\ ForwardedPutIsTimed

\* A change of the request of one put leaves those of the others pending or not.
LEMMA UpdateOfOnePut ==
  ASSUME TypeOK, UniqueRequests, NEW a \in Attempts,
         NEW state \in {"PENDING", "COMPLETED", "null"}, NEW code \in Codes \cup {"null"},
         UpdateRequest(RequestId[a], state, code), NEW b \in Attempts \ {a}
  PROVE  StillPending(RequestId[b])' => StillPending(RequestId[b])
<1>1. RequestId[b] # RequestId[a]
  BY DEF UniqueRequests
<1>2. /\ DOMAIN requests' = DOMAIN requests
      /\ RequestId[b] \in DOMAIN requests =>
           requests'[RequestId[b]] = requests[RequestId[b]]
  BY <1>1 DEF UpdateRequest, TypeOK
<1> QED BY <1>2 DEF StillPending

LEMMA TimedStep == TimedInv /\ UniqueRequests /\ [Next]_vars => TimedInv'
<1> SUFFICES ASSUME TimedInv, UniqueRequests, [Next]_vars
             PROVE  detaching' \subseteq timers' /\ ForwardedPutIsTimed'
  BY InvStep DEF TimedInv
<1> USE DEF handling, forwarding, registries
<1> TypeOK /\ TypeOK' /\ OneWay /\ RequestsInv
  BY TypeStep DEF TimedInv, RequestsInv
<1> DEFINE G == detaching' \subseteq timers' /\ ForwardedPutIsTimed'
<1> DOMAIN forwardedTo \subseteq Attempts
  BY DEF TypeOK
\* An update for a put that was not forwarded.
<1>1. ASSUME NEW a \in Attempts \ DOMAIN forwardedTo,
             NEW state \in {"PENDING", "COMPLETED", "null"}, NEW code \in Codes \cup {"null"},
             UpdateRequest(RequestId[a], state, code), UNCHANGED forwarding
      PROVE  G
  <2>1. \A b \in DOMAIN forwardedTo :
          StillPending(RequestId[b])' => StillPending(RequestId[b])
    BY <1>1, UpdateOfOnePut
  <2> QED BY <1>1, <2>1 DEF TimedInv, ForwardedPutIsTimed
<1>2. ASSUME NEW a \in Attempts, Put(a) PROVE G
  <2>1. a \notin DOMAIN forwardedTo
    BY <1>2 DEF Put, OneWay
  <2>2. \A b \in DOMAIN forwardedTo : RequestId[b] # RequestId[a]
    BY <2>1 DEF UniqueRequests
  <2>3. \A b \in DOMAIN forwardedTo :
          StillPending(RequestId[b])' => StillPending(RequestId[b])
    BY <1>2, <2>2 DEF Put, StillPending
  <2> QED BY <1>2, <2>3 DEF Put, TimedInv, ForwardedPutIsTimed
<1>3. ASSUME NEW a \in Attempts, NEW s \in Sources \cup {NoSource}, Refuse(a, s) PROVE G
  <2>1. a \notin DOMAIN forwardedTo
    BY <1>3 DEF Refuse, Dispatching, OneWay
  <2>2. PICK code \in Refusals(s) : UpdateRequest(RequestId[a], "COMPLETED", code)
    BY <1>3 DEF Refuse
  <2>3. code \in Codes \cup {"null"}
    BY RefusalCodes DEF Codes
  <2> QED BY <1>1, <1>3, <2>1, <2>2, <2>3 DEF Refuse
<1>4. ASSUME NEW a \in Attempts, NEW s \in Sources \cup {NoSource}, Forward(a, s) PROVE G
  <2>1. /\ DOMAIN forwardedTo' = DOMAIN forwardedTo \cup {a}
        /\ timers' = timers \cup {a} /\ detaching' = detaching
        /\ UpdateRequest(RequestId[a], "PENDING", "202")
    BY <1>4 DEF Forward
  <2>2. \A b \in DOMAIN forwardedTo \ {a} :
          StillPending(RequestId[b])' => StillPending(RequestId[b])
    BY <2>1, UpdateOfOnePut DEF Codes
  <2> QED BY <2>1, <2>2 DEF TimedInv, ForwardedPutIsTimed
<1>5. ASSUME NEW a \in Attempts, Result(a) PROVE G
  <2>1. a \notin DOMAIN forwardedTo
    BY <1>5 DEF Result, OneWay
  <2>2. PICK state \in {"PENDING", "COMPLETED"}, code \in {"500", "200", "null"} :
          UpdateRequest(RequestId[a], state, code)
    BY <1>5 DEF Result
  <2> QED BY <1>1, <1>5, <2>1, <2>2 DEF Result, Codes
<1>6. ASSUME NEW a \in Attempts, Callback(a) PROVE G
  <2>1. a \notin DOMAIN forwardedTo
    BY <1>6 DEF Callback, OneWay
  <2> QED BY <1>1, <1>6, <2>1 DEF Callback, Codes
\* The listener that a reply came to has its timer, also one on its way out.
<1>7. ASSUME NEW a \in Attempts, NEW state \in {"PENDING", "COMPLETED", "null"},
             WsReply(a, state)
      PROVE  G
  <2>1. a \in timers
    BY <1>7 DEF WsReply, TimedInv, RequestsInv, NoListenerLeak
  <2>2. PICK code \in {"200", "null"} : UpdateRequest(RequestId[a], state, code)
    BY <1>7 DEF WsReply
  <2>3. \A b \in DOMAIN forwardedTo \ {a} :
          StillPending(RequestId[b])' => StillPending(RequestId[b])
    BY <2>2, UpdateOfOnePut DEF Codes
  <2>4. timers' = timers /\ forwardedTo' = forwardedTo /\ detaching' \subseteq detaching \cup {a}
    BY <1>7 DEF WsReply
  <2> QED BY <2>1, <2>3, <2>4 DEF TimedInv, ForwardedPutIsTimed
<1>8. ASSUME NEW a \in Attempts, Timeout(a) PROVE G
  <2>1. /\ timers' = timers \ {a} /\ forwardedTo' = forwardedTo /\ detaching' = {}
    BY <1>8 DEF Timeout, TickOver
  <2>2. CASE StillPending(RequestId[a])
    <3>1. UpdateRequest(RequestId[a], "COMPLETED", "504")
      BY <1>8, <2>2 DEF Timeout
    <3>2. ~StillPending(RequestId[a])'
      BY <3>1, UpdateRequestKeeps DEF Codes, StillPending
    <3>3. \A b \in DOMAIN forwardedTo \ {a} :
            StillPending(RequestId[b])' => StillPending(RequestId[b])
      BY <3>1, UpdateOfOnePut DEF Codes
    <3> QED BY <2>1, <3>2, <3>3 DEF TimedInv, ForwardedPutIsTimed
  <2>3. CASE ~StillPending(RequestId[a])
    <3>1. requests' = requests
      BY <1>8, <2>3 DEF Timeout
    <3> QED BY <2>1, <2>3, <3>1 DEF TimedInv, ForwardedPutIsTimed, StillPending
  <2> QED BY <2>2, <2>3
<1>9. ASSUME NEW a \in Attempts, Detach(a) PROVE G
  BY <1>9 DEF Detach, TimedInv, ForwardedPutIsTimed, StillPending
<1>10. ASSUME NEW id \in Ids, Prune(id) PROVE G
  BY <1>10 DEF Prune, TimedInv, ForwardedPutIsTimed, StillPending
<1>11. CASE UNCHANGED <<requests, forwarding>>
  BY <1>11 DEF TimedInv, ForwardedPutIsTimed, StillPending
<1> QED
  BY <1>2, <1>3, <1>4, <1>5, <1>6, <1>7, <1>8, <1>9, <1>10, <1>11
  DEF Next, Due, Dispatch, vars, Handle, HandlerThrows, RegisterActionHandler,
      DeRegisterActionHandler, RegisterSpark, End

\* While a forwarded put is pending its 60 s timer runs, whatever its client
\* answers (PENDING after COMPLETED included), whenever it disconnects and
\* whatever is pruned: with the timers' fairness it is over in the end.
THEOREM ForwardedPutsAreTimed ==
  ASSUME UniqueRequests
  PROVE  Spec => []ForwardedPutIsTimed
<1>1. Init => TimedInv
  BY InvInit, EmptyFunction DEF Init, TimedInv, ForwardedPutIsTimed
<1>2. TimedInv /\ [Next]_vars => TimedInv'
  BY TimedStep
<1>3. TimedInv => ForwardedPutIsTimed
  BY DEF TimedInv
<1> QED BY <1>1, <1>2, <1>3, PTL DEF Spec

-----------------------------------------------------------------------------
(* What completes a request stays, but for the two races.                  *)

Done(id) == id \in DOMAIN requests /\ requests[id].state = "COMPLETED"

\* A put that was not handed on yet is not done.
CreatedIsNotDone == \A a \in Attempts : phase[a] = "created" => ~Done(RequestId[a])

\* A handler whose PENDING is still to be taken can only have called back.
OutrunByCallback ==
  \A a \in Attempts : result[a] = "PENDING" /\ Done(RequestId[a]) => a \in calledBack

DoneInv == RequestsInv /\ CreatedIsNotDone /\ OutrunByCallback

CompletedStep ==
  \A id \in DOMAIN requests :
    LET a == requests[id].attempt
    IN  /\ requests[id].state = "COMPLETED"
        /\ id \in DOMAIN requests' /\ requests'[id].state # "COMPLETED"
        => \/ a \in calledBack /\ result[a] = "PENDING"
           \/ a \in detaching

\* An update of the request of one put, as to who is done.
LEMMA UpdateDone ==
  ASSUME TypeOK, UniqueRequests, NEW a \in Attempts,
         NEW state \in {"PENDING", "COMPLETED", "null"}, NEW code \in Codes \cup {"null"},
         UpdateRequest(RequestId[a], state, code)
  PROVE  /\ \A b \in Attempts \ {a} : Done(RequestId[b])' <=> Done(RequestId[b])
         /\ Done(RequestId[a])' =>
              state = "COMPLETED" \/ (state = "null" /\ Done(RequestId[a]))
         /\ state # "PENDING" /\ Done(RequestId[a]) => Done(RequestId[a])'
<1> DEFINE id == RequestId[a]
<1>1. UpdateRequest(id, state, code)
  OBVIOUS
<1>2. \A b \in Attempts \ {a} : RequestId[b] # id
  BY DEF UniqueRequests
<1> HIDE DEF id
<1>3. /\ DOMAIN requests' = DOMAIN requests
      /\ \A i \in DOMAIN requests : i # id => requests'[i] = requests[i]
      /\ id \in DOMAIN requests =>
           requests'[id].state = IF state = "null" THEN requests[id].state ELSE state
  BY <1>1, UpdateRequestKeeps
<1>4. \A b \in Attempts \ {a} : Done(RequestId[b])' <=> Done(RequestId[b])
  BY <1>2, <1>3 DEF Done
<1>5. /\ Done(id)' => state = "COMPLETED" \/ (state = "null" /\ Done(id))
      /\ state # "PENDING" /\ Done(id) => Done(id)'
  BY <1>3 DEF Done
<1> QED BY <1>4, <1>5 DEF id

LEMMA DoneStep ==
  ASSUME DoneInv, UniqueRequests, [Next]_vars
  PROVE  CreatedIsNotDone' /\ OutrunByCallback' /\ CompletedStep
<1> USE DEF handling, forwarding, registries
<1> TypeOK /\ OneWay /\ RequestsAreOwned
  BY DEF DoneInv, RequestsInv
<1> DEFINE Kept(b) ==
             /\ phase'[b] = "created" => ~Done(RequestId[b])'
             /\ result'[b] = "PENDING" /\ Done(RequestId[b])' => b \in calledBack'
             /\ Done(RequestId[b]) /\ RequestId[b] \in DOMAIN requests' /\ ~Done(RequestId[b])'
                  => (b \in calledBack /\ result[b] = "PENDING") \/ b \in detaching
<1>1. SUFFICES \A b \in Attempts : Kept(b)
  <2>1. ASSUME \A b \in Attempts : Kept(b) PROVE CreatedIsNotDone' /\ OutrunByCallback'
    BY <2>1 DEF CreatedIsNotDone, OutrunByCallback
  <2>2. ASSUME \A b \in Attempts : Kept(b) PROVE CompletedStep
    <3>1. \A id \in DOMAIN requests :
            requests[id].attempt \in Attempts /\ id = RequestId[requests[id].attempt]
      BY DEF RequestsAreOwned, TypeOK, Request
    <3> QED BY <2>2, <3>1 DEF CompletedStep, Done
  <2> QED BY <2>1, <2>2
\* What a put is not about stays as it is.
<1>2. ASSUME NEW b \in Attempts, Done(RequestId[b])' <=> Done(RequestId[b]),
             phase'[b] = phase[b], result'[b] = result[b], calledBack \subseteq calledBack'
      PROVE  Kept(b)
  BY <1>2 DEF DoneInv, CreatedIsNotDone, OutrunByCallback
<1>3. ASSUME NEW a \in Attempts, Put(a), NEW b \in Attempts PROVE Kept(b)
  <2>1. /\ requests'[RequestId[a]].state = "PENDING"
        /\ DOMAIN requests' = DOMAIN requests \cup {RequestId[a]}
        /\ \A id \in DOMAIN requests : id # RequestId[a] => requests'[id] = requests[id]
        /\ phase[a] = "idle" /\ result' = result /\ calledBack' = calledBack
        /\ \A c \in Attempts : c # a => phase'[c] = phase[c]
    BY <1>3 DEF Put, TypeOK
  <2>2. CASE b = a
    <3>1. RequestId[a] \notin DOMAIN requests
      BY <2>1 DEF RequestsAreOwned, UniqueRequests, TypeOK, Request
    <3>2. ~Done(RequestId[b])' /\ ~Done(RequestId[b])
      BY <2>1, <2>2, <3>1 DEF Done
    <3> QED BY <3>2
  <2>3. CASE b # a
    <3>1. RequestId[b] # RequestId[a]
      BY <2>3 DEF UniqueRequests
    <3>2. Done(RequestId[b])' <=> Done(RequestId[b])
      BY <2>1, <3>1 DEF Done
    <3> QED BY <1>2, <2>1, <2>3, <3>2
  <2> QED BY <2>2, <2>3
<1>4. ASSUME NEW a \in Attempts, NEW s \in Sources \cup {NoSource}, Refuse(a, s),
             NEW b \in Attempts
      PROVE  Kept(b)
  <2>1. PICK code \in Refusals(s) : UpdateRequest(RequestId[a], "COMPLETED", code)
    BY <1>4 DEF Refuse
  <2>2. code \in Codes \cup {"null"}
    BY RefusalCodes DEF Codes
  <2>3. phase'[a] = "dispatched" /\ \A c \in Attempts : c # a => phase'[c] = phase[c]
    BY <1>4 DEF Refuse, Dispatching, TypeOK
  <2>4. result' = result /\ calledBack' = calledBack /\ result[a] = "none"
    BY <1>4 DEF Refuse, Dispatching, OneWay
  <2> QED BY <1>2, <2>1, <2>2, <2>3, <2>4, UpdateDone
<1>5. ASSUME NEW a \in Attempts, NEW s, NEW r \in Results, Handle(a, s, r), NEW b \in Attempts
      PROVE  Kept(b)
  <2>1. /\ phase'[a] = "dispatched" /\ phase[a] = "created"
        /\ \A c \in Attempts : c # a => phase'[c] = phase[c] /\ result'[c] = result[c]
        /\ calledBack' = calledBack /\ requests' = requests
    BY <1>5 DEF Handle, Dispatching, TypeOK
  <2>2. Done(RequestId[b])' <=> Done(RequestId[b])
    BY <2>1 DEF Done
  <2>3. CASE b = a
    <3>1. ~Done(RequestId[a])
      BY <2>1 DEF DoneInv, CreatedIsNotDone
    <3> QED BY <2>2, <2>3, <3>1
  <2>4. CASE b # a
    BY <1>2, <2>1, <2>2, <2>4
  <2> QED BY <2>3, <2>4
<1>6. ASSUME NEW a \in Attempts, NEW s, HandlerThrows(a, s), NEW b \in Attempts PROVE Kept(b)
  <2>1. /\ phase'[a] = "dispatched" /\ result' = result /\ calledBack' = calledBack
        /\ \A c \in Attempts : c # a => phase'[c] = phase[c]
        /\ requests' = requests
    BY <1>6 DEF HandlerThrows, Dispatching, TypeOK
  <2>2. Done(RequestId[b])' <=> Done(RequestId[b])
    BY <2>1 DEF Done
  <2> QED BY <2>1, <2>2 DEF DoneInv, CreatedIsNotDone, OutrunByCallback
<1>7. ASSUME NEW a \in Attempts, NEW s \in Sources \cup {NoSource}, Forward(a, s),
             NEW b \in Attempts
      PROVE  Kept(b)
  <2>1. UpdateRequest(RequestId[a], "PENDING", "202") /\ "202" \in Codes \cup {"null"}
    BY <1>7 DEF Forward, Codes
  <2>2. /\ phase'[a] = "dispatched" /\ phase[a] = "created"
        /\ \A c \in Attempts : c # a => phase'[c] = phase[c]
        /\ result' = result /\ calledBack' = calledBack
    BY <1>7 DEF Forward, Dispatching, TypeOK
  <2>3. ~Done(RequestId[a])
    BY <2>2 DEF DoneInv, CreatedIsNotDone
  <2>4. ~Done(RequestId[a])' /\ \A c \in Attempts \ {a} : Done(RequestId[c])' <=> Done(RequestId[c])
    BY <2>1, UpdateDone
  <2> QED BY <1>2, <2>2, <2>3, <2>4
<1>8. ASSUME NEW a \in Attempts, Result(a), NEW b \in Attempts PROVE Kept(b)
  <2>1. PICK state \in {"PENDING", "COMPLETED"}, code \in {"500", "200", "null"} :
          /\ UpdateRequest(RequestId[a], state, code)
          /\ state = "PENDING" => result[a] = "PENDING"
    BY <1>8 DEF Result
  <2>2. /\ result'[a] = "none" /\ phase' = phase /\ calledBack' = calledBack
        /\ \A c \in Attempts : c # a => result'[c] = result[c]
        /\ phase[a] # "created"
    BY <1>8 DEF Result, OneWay, TypeOK
  <2>3. /\ \A c \in Attempts \ {a} : Done(RequestId[c])' <=> Done(RequestId[c])
        /\ state # "PENDING" /\ Done(RequestId[a]) => Done(RequestId[a])'
    BY <2>1, UpdateDone DEF Codes
  <2>4. result[a] = "PENDING" /\ Done(RequestId[a]) => a \in calledBack
    BY DEF DoneInv, OutrunByCallback
  <2>5. CASE b = a
    BY <2>1, <2>2, <2>3, <2>4, <2>5
  <2>6. CASE b # a
    BY <1>2, <2>2, <2>3, <2>6
  <2> QED BY <2>5, <2>6
<1>9. ASSUME NEW a \in Attempts, Callback(a), NEW b \in Attempts PROVE Kept(b)
  <2>1. /\ UpdateRequest(RequestId[a], "COMPLETED", "200") /\ a \in owed
        /\ calledBack' = calledBack \cup {a} /\ phase' = phase /\ result' = result
    BY <1>9 DEF Callback
  <2>2. phase[a] # "created"
    BY <2>1 DEF OneWay
  <2>3. /\ \A c \in Attempts \ {a} : Done(RequestId[c])' <=> Done(RequestId[c])
        /\ Done(RequestId[a]) => Done(RequestId[a])'
    BY <2>1, UpdateDone DEF Codes
  <2> QED BY <1>2, <2>1, <2>2, <2>3
<1>10. ASSUME NEW a \in Attempts, NEW state \in {"PENDING", "COMPLETED", "null"},
              WsReply(a, state), NEW b \in Attempts
       PROVE  Kept(b)
  <2>1. PICK code \in {"200", "null"} : UpdateRequest(RequestId[a], state, code)
    BY <1>10 DEF WsReply
  <2>2. a \in listeners /\ phase' = phase /\ result' = result /\ calledBack' = calledBack
    BY <1>10 DEF WsReply
  <2>3. phase[a] # "created" /\ result[a] = "none"
    BY <2>2 DEF OneWay, TypeOK
  <2>4. Done(RequestId[a]) => a \in detaching
    BY <2>2 DEF DoneInv, RequestsInv, ListenersArePending, StillPending, Done
  <2>5. \A c \in Attempts \ {a} : Done(RequestId[c])' <=> Done(RequestId[c])
    BY <2>1, UpdateDone DEF Codes
  <2> QED BY <1>2, <2>2, <2>3, <2>4, <2>5
<1>11. ASSUME NEW a \in Attempts, Timeout(a), NEW b \in Attempts PROVE Kept(b)
  <2>1. /\ phase' = phase /\ result' = result /\ calledBack' = calledBack
        /\ a \in DOMAIN forwardedTo
    BY <1>11 DEF Timeout, TypeOK
  <2>2. phase[a] # "created" /\ result[a] = "none"
    BY <2>1 DEF OneWay
  <2>3. CASE StillPending(RequestId[a])
    <3>1. UpdateRequest(RequestId[a], "COMPLETED", "504")
      BY <1>11, <2>3 DEF Timeout
    <3>2. /\ \A c \in Attempts \ {a} : Done(RequestId[c])' <=> Done(RequestId[c])
          /\ Done(RequestId[a]) => Done(RequestId[a])'
      BY <3>1, UpdateDone DEF Codes
    <3> QED BY <1>2, <2>1, <2>2, <3>2
  <2>4. CASE ~StillPending(RequestId[a])
    <3>1. requests' = requests
      BY <1>11, <2>4 DEF Timeout
    <3>2. Done(RequestId[b])' <=> Done(RequestId[b])
      BY <3>1 DEF Done
    <3> QED BY <1>2, <2>1, <3>2
  <2> QED BY <2>3, <2>4
<1>12. ASSUME NEW id \in Ids, Prune(id), NEW b \in Attempts PROVE Kept(b)
  <2>1. /\ phase' = phase /\ result' = result /\ calledBack' = calledBack
        /\ DOMAIN requests' = DOMAIN requests \ {id}
        /\ \A i \in DOMAIN requests' : requests'[i] = requests[i]
    BY <1>12 DEF Prune
  <2>2. Done(RequestId[b])' => Done(RequestId[b])
    BY <2>1 DEF Done
  <2>3. RequestId[b] \in DOMAIN requests' /\ Done(RequestId[b]) => Done(RequestId[b])'
    BY <2>1 DEF Done
  <2> QED BY <2>1, <2>2, <2>3 DEF DoneInv, CreatedIsNotDone, OutrunByCallback
<1>13. ASSUME UNCHANGED <<requests, phase, result, calledBack>>, NEW b \in Attempts
       PROVE  Kept(b)
  <2>1. Done(RequestId[b])' <=> Done(RequestId[b])
    BY <1>13 DEF Done
  <2> QED BY <1>2, <1>13, <2>1
<1> HIDE DEF Kept
<1> QED
  BY <1>3, <1>4, <1>5, <1>6, <1>7, <1>8, <1>9, <1>10, <1>11, <1>12, <1>13
  DEF Next, Due, Dispatch, vars, Detach, RegisterActionHandler, DeRegisterActionHandler,
      RegisterSpark, End

\* Whoever polls a request until it is COMPLETED may stop: it becomes PENDING
\* again only if its handler had called back before its own result was taken,
\* or if the client takes its final answer back in the same tick.
THEOREM CompletedRequestsStay ==
  ASSUME UniqueRequests
  PROVE  Spec => CompletedStays
<1>1. Init => DoneInv
  <2>1. Init => RequestsInv
    BY InvInit
  <2>2. Init => CreatedIsNotDone /\ OutrunByCallback
    BY EmptyFunction DEF Init, CreatedIsNotDone, OutrunByCallback, Done
  <2> QED BY <2>1, <2>2 DEF DoneInv
<1>2. DoneInv /\ [Next]_vars => DoneInv' /\ [CompletedStep]_vars
  <2>1. RequestsInv /\ [Next]_vars => RequestsInv'
    BY InvStep
  <2>2. DoneInv /\ [Next]_vars => CreatedIsNotDone' /\ OutrunByCallback' /\ CompletedStep
    BY DoneStep
  <2> QED BY <2>1, <2>2 DEF DoneInv
<1>3. [CompletedStep]_vars <=>
        [\A id \in DOMAIN requests :
           LET a == requests[id].attempt
           IN  /\ requests[id].state = "COMPLETED"
               /\ id \in DOMAIN requests' /\ requests'[id].state # "COMPLETED"
               => \/ a \in calledBack /\ result[a] = "PENDING"
                  \/ a \in detaching]_vars
  BY DEF CompletedStep
<1> QED BY <1>1, <1>2, <1>3, PTL DEF Spec, CompletedStays
=============================================================================
