---------------------------- MODULE Backpressure ----------------------------
(***************************************************************************)
(* One client connection of the WebSocket or Signal K TCP interface: the   *)
(* BackpressureManager, the latest-value accumulator, and the outgoing     *)
(* socket they watch.  A JavaScript handler runs to completion, so each    *)
(* handler is one action; the socket drains between handlers.              *)
(*                                                                         *)
(* Abstractions.  The send buffer is counted in messages instead of bytes. *)
(* A key is a context:path:$source combination; a value is its position in *)
(* the order its source published it, so the newest value of a key is its  *)
(* largest.  Timestamps and $backpressure.duration are left out.           *)
(***************************************************************************)
EXTENDS Naturals, FiniteSets

CONSTANTS
  Keys,            \* context:path:$source combinations
  Deltas,          \* deltas the sources deliver: each the set of keys it has
                   \* values for; {} is a delta that carries only meta
  ContextOf,       \* [Keys -> contexts]: a flush is one delta per context
  MetaOf,          \* [Keys -> context.path]: what sendMetaData remembers
  SendMeta,        \* the client connected with sendMeta=all
  EnterThreshold, ExitThreshold, MaxBufferSize, MaxBufferCheckTime,
  HighWaterMark,   \* the socket's own mark: writing to it or above it makes
                   \* the socket emit 'drain' when it has emptied
  BypassLimit,     \* bound: writes that bypass the manager stop here
  MaxValue,        \* bound: values published per key
  MaxTime          \* bound: clock

ASSUME ConstantsAssumption ==
  /\ IsFiniteSet(Keys)
  /\ Deltas \subseteq SUBSET Keys
  /\ DOMAIN ContextOf = Keys
  /\ DOMAIN MetaOf = Keys
  /\ \A d \in Deltas : \A j, k \in d : ContextOf[j] = ContextOf[k]
  /\ SendMeta \in BOOLEAN
  /\ {EnterThreshold, ExitThreshold, MaxBufferSize, MaxBufferCheckTime,
      HighWaterMark, BypassLimit, MaxValue, MaxTime} \subseteq Nat
  /\ MaxTime > 0

VARIABLES
  active,          \* BackpressureManager.active
  accumulator,     \* [Keys -> value]: None where the Map has no entry
  bufferSizeExceeded, \* time of the first check above the maximum, or None
  buffered,        \* messages in the socket's send buffer
  needDrain,       \* the socket owes a 'drain' event
  conn,            \* "open"; "ended" or "destroyed" for overflow, the close
                   \* event not seen; "closed"
  sentMetaData,    \* context.path pairs whose meta was written (ws only)
  latest,          \* newest value of each key handed to send()
  written,         \* newest value of each key written to the socket
  now,             \* clock; None is 0, so it starts at 1
  lastWithinLimit  \* history: time of the last check at or below the maximum

vars == <<active, accumulator, bufferSizeExceeded, buffered, needDrain, conn,
          sentMetaData, latest, written, now, lastWithinLimit>>

None == 0
Values == 0..MaxValue
Empty == [k \in Keys |-> None]
Pending == {k \in Keys : accumulator[k] # None}
Contexts == {ContextOf[k] : k \in Keys}
Metas == {MetaOf[k] : k \in Keys}

Init ==
  /\ active = FALSE
  /\ accumulator = Empty
  /\ bufferSizeExceeded = None
  /\ buffered = 0
  /\ needDrain = FALSE
  /\ conn = "open"
  /\ sentMetaData = {}
  /\ latest = Empty
  /\ written = Empty
  /\ now = 1
  /\ lastWithinLimit = 1

\* Writing n messages: the socket's write() returns false, and owes a drain,
\* when the buffer reaches the high water mark.  A destroyed socket takes none.
Write(n, owed) ==
  IF conn = "open"
    THEN /\ buffered' = buffered + n
         /\ needDrain' = (owed \/ (n > 0 /\ buffered + n >= HighWaterMark))
    ELSE /\ needDrain' = owed
         /\ UNCHANGED buffered

\* beforeWrite: the meta deltas still owed for the paths in a delta.  (What is
\* remembered of them goes when the client unsubscribes; left out.)
NewMeta(S) == IF SendMeta THEN {MetaOf[k] : k \in S} \ sentMetaData ELSE {}

\* transport.write of values vals for the keys in S, in n deltas, each
\* preceded by the meta of the paths it is the first to carry.
WriteValues(S, vals, n, owed) ==
  /\ Write(n + Cardinality(NewMeta(S)), owed)
  /\ sentMetaData' = sentMetaData \cup NewMeta(S)
  /\ written' = IF conn = "open"
                  THEN [k \in Keys |-> IF k \in S THEN vals[k] ELSE written[k]]
                  ELSE written

\* Faulty variant: the deadline is remembered instead of the start.
AssertBufferSizeDeadline(length) ==
  /\ bufferSizeExceeded' = IF length > MaxBufferSize
                             THEN now + MaxBufferCheckTime ELSE None
  /\ conn' = IF now > bufferSizeExceeded' /\ length > MaxBufferSize
               THEN "destroyed" ELSE conn
  /\ UNCHANGED lastWithinLimit

\* Faulty variant: a check within the limit does not reset the timer.
AssertBufferSizeNoReset(length) ==
  IF length > MaxBufferSize
    THEN /\ bufferSizeExceeded' =
              IF bufferSizeExceeded = None THEN now ELSE bufferSizeExceeded
         /\ conn' = IF now > bufferSizeExceeded' + MaxBufferCheckTime
                      THEN "destroyed" ELSE conn
         /\ UNCHANGED lastWithinLimit
    ELSE /\ lastWithinLimit' = now
         /\ UNCHANGED <<bufferSizeExceeded, conn>>

\* assertBufferSize(length): a connection whose buffer was above the maximum
\* at every check for longer than maxBufferCheckTime is destroyed.
AssertBufferSize(length) ==
  \/ /\ MaxBufferSize = 0
     /\ UNCHANGED <<bufferSizeExceeded, conn, lastWithinLimit>>
  \/ /\ MaxBufferSize > 0
     /\ length > MaxBufferSize
     /\ bufferSizeExceeded' =
          IF bufferSizeExceeded = None THEN now ELSE bufferSizeExceeded
     /\ conn' = IF now > bufferSizeExceeded' + MaxBufferCheckTime
                  THEN "destroyed" ELSE conn
     /\ UNCHANGED lastWithinLimit
  \/ /\ MaxBufferSize > 0
     /\ length <= MaxBufferSize
     /\ bufferSizeExceeded' = None
     /\ lastWithinLimit' = now
     /\ UNCHANGED conn

\* Faulty variant: the first value of a key is kept.
AccumulateFirst(d, vals) ==
  accumulator' = [k \in Keys |-> IF k \in d \ Pending THEN vals[k] ELSE accumulator[k]]

\* accumulateLatestValue: a newer value of a key replaces the older one.
Accumulate(d, vals) ==
  accumulator' = [k \in Keys |-> IF k \in d THEN vals[k] ELSE accumulator[k]]

\* Faulty variants: the mode, or the threshold, is not looked at.
MustAccumulateByLength == buffered > EnterThreshold
MustAccumulateByMode == active

\* send() decides on the buffer length it read before writing.
MustAccumulate == active \/ buffered > EnterThreshold

\* The sources publish the next value of the keys in d.
Published(d) == [k \in Keys |-> IF k \in d THEN latest[k] + 1 ELSE latest[k]]

\* A bus or subscription callback hands a delta to the manager.  The callbacks
\* stay attached until the socket's close event.
Send(d) ==
  /\ conn # "closed"
  /\ \A k \in d : latest[k] < MaxValue
  /\ latest' = Published(d)
  /\ \/ /\ MustAccumulate
        /\ active' = TRUE
        /\ Accumulate(d, Published(d))
        /\ UNCHANGED <<buffered, needDrain, sentMetaData, written>>
     \/ /\ ~MustAccumulate
        /\ WriteValues(d, Published(d), 1, needDrain)
        /\ UNCHANGED <<active, accumulator>>
  /\ AssertBufferSize(buffered)
  /\ UNCHANGED now

\* buildFlushDeltas: one delta for each context with accumulated values.
FlushDeltas == Cardinality({ContextOf[k] : k \in Pending})

\* Faulty variants: flush leaves the mode on, or skips beforeWrite.
FlushStaysActive(owed) ==
  /\ WriteValues(Pending, accumulator, FlushDeltas, owed)
  /\ accumulator' = Empty
  /\ UNCHANGED active

FlushWithoutMeta(owed) ==
  /\ Write(FlushDeltas, owed)
  /\ written' = [k \in Keys |-> IF k \in Pending THEN accumulator[k] ELSE written[k]]
  /\ accumulator' = Empty
  /\ active' = FALSE
  /\ UNCHANGED sentMetaData

\* flush(): every accumulated value, then reset.
Flush(owed) ==
  /\ WriteValues(Pending, accumulator, FlushDeltas, owed)
  /\ accumulator' = Empty
  /\ active' = FALSE

\* Faulty variant: the exit threshold itself is excluded.
CanFlushBelowExit == active /\ Pending # {} /\ buffered < ExitThreshold

\* The condition under which onDrain() flushes.
CanFlush == active /\ Pending # {} /\ buffered <= ExitThreshold

\* The socket emits 'drain' once for each time it owed one, when it has
\* emptied: the flag is cleared before onDrain() runs, so only what flush
\* writes can make it owe another.
Drain ==
  /\ conn = "open"
  /\ needDrain
  /\ buffered = 0
  /\ \/ CanFlush /\ Flush(FALSE)
     \/ /\ ~CanFlush
        /\ needDrain' = FALSE
        /\ UNCHANGED <<active, accumulator, buffered, sentMetaData, written>>
  /\ UNCHANGED <<bufferSizeExceeded, conn, latest, now, lastWithinLimit>>

\* The network takes a message off the send buffer.
Transmit ==
  /\ conn = "open"
  /\ buffered > 0
  /\ buffered' = buffered - 1
  /\ UNCHANGED <<active, accumulator, bufferSizeExceeded, needDrain, conn,
                 sentMetaData, latest, written, now, lastWithinLimit>>

\* writeEvent: server events are written past the manager, then checked.
WriteEvent ==
  /\ conn = "open"
  /\ buffered < BypassLimit
  /\ Write(1, needDrain)
  /\ AssertBufferSize(buffered')
  /\ UNCHANGED <<active, accumulator, sentMetaData, latest, written, now>>

\* Request replies, log lines and cached values: written past the manager and
\* not checked.
WriteUnchecked ==
  /\ conn = "open"
  /\ buffered < BypassLimit
  /\ Write(1, needDrain)
  /\ UNCHANGED <<active, accumulator, bufferSizeExceeded, conn, sentMetaData,
                 latest, written, now, lastWithinLimit>>

\* The client goes away, or the server ends the connection.
End ==
  /\ conn = "open"
  /\ conn' = "ended"
  /\ UNCHANGED <<active, accumulator, bufferSizeExceeded, buffered, needDrain,
                 sentMetaData, latest, written, now, lastWithinLimit>>

\* The close event: callbacks are removed and the manager is cleared.
Close ==
  /\ conn \in {"ended", "destroyed"}
  /\ conn' = "closed"
  /\ accumulator' = Empty
  /\ active' = FALSE
  /\ bufferSizeExceeded' = None
  /\ buffered' = 0
  /\ needDrain' = FALSE
  /\ UNCHANGED <<sentMetaData, latest, written, now, lastWithinLimit>>

Tick ==
  /\ now < MaxTime
  /\ now' = now + 1
  /\ UNCHANGED <<active, accumulator, bufferSizeExceeded, buffered, needDrain,
                 conn, sentMetaData, latest, written, lastWithinLimit>>

Next ==
  \/ \E d \in Deltas : Send(d)
  \/ Drain
  \/ Transmit
  \/ WriteEvent
  \/ WriteUnchecked
  \/ End
  \/ Close
  \/ Tick

Spec == Init /\ [][Next]_vars

\* The client reads at some speed, and an event loop that owes a drain event
\* delivers it.  Nothing is assumed of the sources.
Fairness == WF_vars(Transmit) /\ WF_vars(Drain)

FairSpec == Spec /\ Fairness

-----------------------------------------------------------------------------
\* Types, and the history variable's own bounds.
TypeOK ==
  /\ active \in BOOLEAN
  /\ accumulator \in [Keys -> Values]
  /\ bufferSizeExceeded \in 0..MaxTime
  /\ buffered \in Nat
  /\ needDrain \in BOOLEAN
  /\ conn \in {"open", "ended", "destroyed", "closed"}
  /\ sentMetaData \subseteq Metas
  /\ latest \in [Keys -> Values]
  /\ written \in [Keys -> Values]
  /\ now \in 1..MaxTime
  /\ lastWithinLimit \in 1..now

\* Only intermediate values are dropped: the newest value of every key is
\* either accumulated or was the last one written to the socket
\* (send, accumulateLatestValue and flush together).
NothingLost ==
  conn = "open" =>
    \A k \in Keys :
      latest[k] = IF k \in Pending THEN accumulator[k] ELSE written[k]

\* A connection in backpressure mode has the event coming that ends it.
\* onDrain is the only way out, it needs a non-empty accumulator, and the
\* socket emits drain only if it reached its high water mark.
ActiveAwaitsDrain ==
  conn = "open" /\ active => needDrain /\ Pending # {}

\* With sendMeta=all the client has a path's meta before any of its values
\* (beforeWrite runs for direct writes and for flushed deltas alike).  The two
\* are one step here: that no write goes past beforeWrite is what it says.
MetaBeforeValue ==
  SendMeta => \A k \in Keys : written[k] # None => MetaOf[k] \in sentMetaData

\* What deltas add to the send buffer is bounded by the enter threshold and
\* one flush, however long the client does not read (send, flush).  What is
\* written past the manager has no bound but that of the model, BypassLimit:
\* the last line is an assumption, not a promise of the code.
SendBufferBounded ==
  \/ buffered <= EnterThreshold + 1 + Cardinality(Metas)
  \/ buffered <= Cardinality(Contexts) + Cardinality(Metas)
  \/ buffered <= BypassLimit

\* A connection is destroyed for overflow only when no check found the buffer
\* within its maximum for longer than maxBufferCheckTime.
DestroyedOnlyAfterSustainedOverflow ==
  [][conn = "open" /\ conn' = "destroyed"
       => now - lastWithinLimit > MaxBufferCheckTime]_vars

\* "the server exits backpressure mode as soon as the client catches up".
RecoversFromBackpressure ==
  (conn = "open" /\ active) ~> (conn # "open" \/ ~active)

\* The newest value of every key reaches the socket if the client reads on and
\* what the server writes past the manager does not keep the socket full for
\* ever: the socket drains only when its buffer is empty.
NewestArrives ==
  <>[][~(WriteEvent \/ WriteUnchecked)]_vars =>
    \A k \in Keys : \A v \in 1..MaxValue :
      (conn = "open" /\ latest[k] >= v) ~> (conn # "open" \/ written[k] >= v)

-----------------------------------------------------------------------------
\* The connection keeps the promise of LatestValueDelivery.
Promise == INSTANCE LatestValueDelivery
             WITH delivered <- written, open <- (conn = "open")

DeliversSnapshots == Promise!Spec
=============================================================================
