------------------------- MODULE BackpressureProofs -------------------------
(***************************************************************************)
(* Theorems about Backpressure for every set of keys, every set of deltas  *)
(* and every value of the thresholds.                                      *)
(***************************************************************************)
EXTENDS Backpressure, FiniteSetTheorems, TLAPS

\* The types of the thresholds and bounds, one by one.
LEMMA ConstantTypes ==
  /\ EnterThreshold \in Nat /\ ExitThreshold \in Nat
  /\ MaxBufferSize \in Nat /\ MaxBufferCheckTime \in Nat
  /\ HighWaterMark \in Nat /\ BypassLimit \in Nat
  /\ MaxValue \in Nat /\ MaxTime \in Nat /\ MaxTime > 0
BY ConstantsAssumption DEF ConstantsAssumption

\* The image of a finite set under a function is finite.
LEMMA FiniteImage ==
  ASSUME NEW S, IsFiniteSet(S), NEW f
  PROVE  IsFiniteSet({f[k] : k \in S})
<1> DEFINE T == {f[k] : k \in S}
           g == [k \in S |-> f[k]]
<1>1. g \in Surjection(S, T)
  BY DEF Surjection
<1> HIDE DEF g, T
<1>2. IsFiniteSet(T)
  BY <1>1, FS_Surjection
<1> QED
  BY <1>2 DEF T

\* How many deltas, and how many meta deltas before them, a write of the keys
\* in S takes.
LEMMA MessageCounts ==
  ASSUME NEW S \in SUBSET Keys
  PROVE  /\ Cardinality({ContextOf[k] : k \in S}) \in Nat
         /\ Cardinality({ContextOf[k] : k \in S}) <= Cardinality(Contexts)
         /\ Cardinality(NewMeta(S)) \in Nat
         /\ Cardinality(NewMeta(S)) <= Cardinality(Metas)
         /\ Cardinality(Contexts) \in Nat
         /\ Cardinality(Metas) \in Nat
<1>1. IsFiniteSet(Contexts) /\ IsFiniteSet(Metas)
  BY ConstantsAssumption, FiniteImage DEF ConstantsAssumption, Contexts, Metas
<1>2. {ContextOf[k] : k \in S} \subseteq Contexts
  BY DEF Contexts
<1>3. NewMeta(S) \subseteq Metas
  BY DEF NewMeta, Metas
<1>4. /\ IsFiniteSet({ContextOf[k] : k \in S})
      /\ Cardinality({ContextOf[k] : k \in S}) <= Cardinality(Contexts)
  BY <1>1, <1>2, FS_Subset
<1>5. /\ IsFiniteSet(NewMeta(S))
      /\ Cardinality(NewMeta(S)) <= Cardinality(Metas)
  BY <1>1, <1>3, FS_Subset
<1> QED
  BY <1>1, <1>4, <1>5, FS_CardinalityType

-----------------------------------------------------------------------------
\* Nothing is accumulated outside backpressure mode.
AccumulatesOnlyWhenActive == ~active => Pending = {}

\* The inductive invariant behind the promise: NothingLost alone is not
\* inductive, because a direct write leaves an old accumulator entry in place.
DeliveryInv == TypeOK /\ NothingLost /\ AccumulatesOnlyWhenActive

LEMMA DeliveryInit == Init => DeliveryInv
<1> SUFFICES ASSUME Init PROVE DeliveryInv
  OBVIOUS
<1>1. TypeOK
  <2>1. Empty \in [Keys -> Values]
    BY ConstantTypes DEF Empty, Values, None
  <2>2. 0 \in 0..MaxTime /\ 1 \in 1..MaxTime /\ 1 \in 1..1
    BY ConstantTypes
  <2> QED
    BY <2>1, <2>2 DEF Init, TypeOK, None
<1>2. Pending = {}
  BY DEF Init, Pending, Empty
<1>3. NothingLost
  BY <1>2 DEF Init, NothingLost
<1> QED
  BY <1>1, <1>2, <1>3 DEF DeliveryInv, AccumulatesOnlyWhenActive

\* What AssertBufferSize does to the variables it changes.
LEMMA AssertBufferSizeStep ==
  ASSUME TypeOK, NEW length \in Nat, AssertBufferSize(length), now' = now
  PROVE  /\ bufferSizeExceeded' \in 0..MaxTime
         /\ lastWithinLimit' \in 1..now'
         /\ conn' \in {conn, "destroyed"}
BY ConstantTypes DEF AssertBufferSize, TypeOK, None

\* Publishing keeps the values within their bound.
LEMMA PublishedType ==
  ASSUME TypeOK, NEW d \in SUBSET Keys, \A k \in d : latest[k] < MaxValue
  PROVE  /\ Published(d) \in [Keys -> Values]
         /\ \A k \in d : Published(d)[k] # None
         /\ \A k \in Keys \ d : Published(d)[k] = latest[k]
BY ConstantTypes DEF Published, TypeOK, Values, None

\* Writing keeps the types of what it changes.
LEMMA WriteValuesType ==
  ASSUME TypeOK, NEW S \in SUBSET Keys, NEW vals \in [Keys -> Values],
         NEW n \in Nat, NEW owed \in BOOLEAN, WriteValues(S, vals, n, owed)
  PROVE  /\ buffered' \in Nat
         /\ needDrain' \in BOOLEAN
         /\ sentMetaData' \subseteq Metas
         /\ written' \in [Keys -> Values]
<1>1. Cardinality(NewMeta(S)) \in Nat
  BY MessageCounts
<1>2. n + Cardinality(NewMeta(S)) \in Nat
  BY <1>1
<1>3. Write(n + Cardinality(NewMeta(S)), owed)
  BY DEF WriteValues
<1>4. buffered' \in Nat
  BY <1>2, <1>3 DEF Write, TypeOK
<1>5. needDrain' \in BOOLEAN
  BY <1>3 DEF Write
<1>6. sentMetaData' \subseteq Metas
  BY DEF WriteValues, TypeOK, NewMeta, Metas
<1>7. written' \in [Keys -> Values]
  BY DEF WriteValues, TypeOK
<1> QED
  BY <1>4, <1>5, <1>6, <1>7

LEMMA SendPreservesDelivery ==
  ASSUME DeliveryInv, NEW d \in Deltas, Send(d)
  PROVE  DeliveryInv'
<1> USE DEF DeliveryInv
<1>1. d \in SUBSET Keys
  BY ConstantsAssumption DEF ConstantsAssumption
<1>2. /\ Published(d) \in [Keys -> Values]
      /\ \A k \in d : Published(d)[k] # None
      /\ \A k \in Keys \ d : Published(d)[k] = latest[k]
  BY <1>1, PublishedType DEF Send
<1>3. /\ bufferSizeExceeded' \in 0..MaxTime
      /\ lastWithinLimit' \in 1..now'
      /\ conn' \in {conn, "destroyed"}
  BY AssertBufferSizeStep DEF Send, TypeOK
<1>4. /\ now' = now /\ now' \in 1..MaxTime
      /\ latest' = Published(d) /\ latest' \in [Keys -> Values]
  BY <1>2 DEF Send, TypeOK
<1>5. CASE MustAccumulate
  <2>1. /\ active' = TRUE
        /\ accumulator' = [k \in Keys |-> IF k \in d THEN Published(d)[k]
                                          ELSE accumulator[k]]
        /\ UNCHANGED <<buffered, needDrain, sentMetaData, written>>
    BY <1>5 DEF Send, Accumulate
  <2>2. TypeOK'
    BY <1>2, <1>3, <1>4, <2>1 DEF TypeOK
  <2>3. NothingLost'
    BY <1>1, <1>2, <1>3, <1>4, <2>1 DEF NothingLost, Pending, TypeOK, None
  <2> QED
    BY <2>1, <2>2, <2>3 DEF AccumulatesOnlyWhenActive
<1>6. CASE ~MustAccumulate
  <2>1. /\ WriteValues(d, Published(d), 1, needDrain)
        /\ UNCHANGED <<active, accumulator>>
    BY <1>6 DEF Send
  <2>2. ~active /\ Pending = {} /\ Pending' = {}
    BY <1>6, <2>1 DEF MustAccumulate, AccumulatesOnlyWhenActive, Pending
  <2>3. /\ buffered' \in Nat
        /\ needDrain' \in BOOLEAN
        /\ sentMetaData' \subseteq Metas
        /\ written' \in [Keys -> Values]
    BY <1>1, <1>2, <2>1, 1 \in Nat, WriteValuesType DEF TypeOK
  <2>4. TypeOK'
    BY <1>3, <1>4, <2>1, <2>3 DEF TypeOK
  <2>5. NothingLost'
    BY <1>1, <1>2, <1>3, <1>4, <2>1, <2>2 DEF NothingLost, WriteValues, TypeOK
  <2> QED
    BY <2>2, <2>4, <2>5 DEF AccumulatesOnlyWhenActive
<1> QED
  BY <1>5, <1>6

LEMMA DrainPreservesDelivery ==
  ASSUME DeliveryInv, Drain
  PROVE  DeliveryInv'
<1> USE DEF DeliveryInv
<1>1. UNCHANGED <<bufferSizeExceeded, conn, latest, now, lastWithinLimit>>
  BY DEF Drain
<1>2. CASE CanFlush /\ Flush(FALSE)
  <2>1. /\ Pending \in SUBSET Keys
        /\ accumulator \in [Keys -> Values]
        /\ Cardinality({ContextOf[k] : k \in Pending}) \in Nat
    BY MessageCounts DEF Pending, TypeOK
  <2>2. /\ buffered' \in Nat
        /\ needDrain' \in BOOLEAN
        /\ sentMetaData' \subseteq Metas
        /\ written' \in [Keys -> Values]
    BY <1>2, <2>1, WriteValuesType DEF Flush, FlushDeltas
  <2>3. accumulator' = Empty /\ active' = FALSE
    BY <1>2 DEF Flush
  <2>4. accumulator' \in [Keys -> Values] /\ Pending' = {}
    BY <2>3, ConstantTypes DEF Empty, Pending, Values, None
  <2>5. TypeOK'
    BY <1>1, <2>2, <2>3, <2>4 DEF TypeOK
  <2>6. NothingLost'
    BY <1>1, <1>2, <2>4 DEF NothingLost, Flush, WriteValues
  <2> QED
    BY <2>4, <2>5, <2>6 DEF AccumulatesOnlyWhenActive
<1>3. CASE ~CanFlush
  <2>1. UNCHANGED <<active, accumulator, buffered, sentMetaData, written>>
        /\ needDrain' = FALSE
    BY <1>3 DEF Drain
  <2> QED
    BY <1>1, <2>1 DEF TypeOK, NothingLost, AccumulatesOnlyWhenActive, Pending
<1> QED
  BY <1>2, <1>3 DEF Drain

LEMMA DeliveryStep == DeliveryInv /\ [Next]_vars => DeliveryInv'
<1> SUFFICES ASSUME DeliveryInv, [Next]_vars PROVE DeliveryInv'
  OBVIOUS
<1> USE DEF DeliveryInv
<1>1. ASSUME NEW d \in Deltas, Send(d) PROVE DeliveryInv'
  BY <1>1, SendPreservesDelivery
<1>2. CASE Drain
  BY <1>2, DrainPreservesDelivery
<1>3. CASE Transmit
  BY <1>3 DEF Transmit, TypeOK, NothingLost, AccumulatesOnlyWhenActive, Pending
<1>4. CASE WriteEvent
  <2>1. buffered' \in Nat /\ needDrain' \in BOOLEAN
    BY <1>4 DEF WriteEvent, Write, TypeOK
  <2>2. /\ bufferSizeExceeded' \in 0..MaxTime
        /\ lastWithinLimit' \in 1..now'
        /\ conn' \in {conn, "destroyed"}
    BY <1>4, <2>1, AssertBufferSizeStep DEF WriteEvent
  <2>3. UNCHANGED <<active, accumulator, sentMetaData, latest, written, now>>
    BY <1>4 DEF WriteEvent
  <2> QED
    BY <2>1, <2>2, <2>3 DEF TypeOK, NothingLost, AccumulatesOnlyWhenActive, Pending
<1>5. CASE WriteUnchecked
  <2>1. buffered' \in Nat /\ needDrain' \in BOOLEAN
    BY <1>5 DEF WriteUnchecked, Write, TypeOK
  <2> QED
    BY <1>5, <2>1
    DEF WriteUnchecked, TypeOK, NothingLost, AccumulatesOnlyWhenActive, Pending
<1>6. CASE End
  BY <1>6 DEF End, TypeOK, NothingLost, AccumulatesOnlyWhenActive, Pending
<1>7. CASE Close
  <2>1. accumulator' \in [Keys -> Values] /\ Pending' = {}
    BY <1>7, ConstantTypes DEF Close, Empty, Pending, Values, None
  <2>2. bufferSizeExceeded' \in 0..MaxTime
    BY <1>7, ConstantTypes DEF Close, None
  <2> QED
    BY <1>7, <2>1, <2>2 DEF Close, TypeOK, NothingLost, AccumulatesOnlyWhenActive
<1>8. CASE Tick
  <2>1. now' \in 1..MaxTime /\ lastWithinLimit' \in 1..now'
    BY <1>8, ConstantTypes DEF Tick, TypeOK
  <2> QED
    BY <1>8, <2>1 DEF Tick, TypeOK, NothingLost, AccumulatesOnlyWhenActive, Pending
<1>9. CASE UNCHANGED vars
  BY <1>9 DEF vars, TypeOK, NothingLost, AccumulatesOnlyWhenActive, Pending
<1> QED
  BY <1>1, <1>2, <1>3, <1>4, <1>5, <1>6, <1>7, <1>8, <1>9 DEF Next

LEMMA DeliveryInvariant == Spec => []DeliveryInv
BY DeliveryInit, DeliveryStep, PTL DEF Spec

\* Every variable keeps its type, whatever the thresholds.
THEOREM TypeCorrect == Spec => []TypeOK
BY DeliveryInvariant, PTL DEF DeliveryInv

\* On every open connection the newest value of every key is accumulated or
\* was the last one written: send, accumulateLatestValue and flush drop only
\* intermediate values.
THEOREM NothingIsLost == Spec => []NothingLost
BY DeliveryInvariant, PTL DEF DeliveryInv

-----------------------------------------------------------------------------
\* With sendMeta=all no value reaches the client before its path's meta.
THEOREM MetaComesFirst == Spec => []MetaBeforeValue
<1>1. Init => MetaBeforeValue
  BY DEF Init, MetaBeforeValue, Empty
<1>2. TypeOK /\ MetaBeforeValue /\ [Next]_vars => MetaBeforeValue'
  <2> SUFFICES ASSUME TypeOK, MetaBeforeValue, [Next]_vars
               PROVE  MetaBeforeValue'
    OBVIOUS
  <2>1. ASSUME NEW S \in SUBSET Keys, NEW vals, NEW n, NEW owed,
               WriteValues(S, vals, n, owed)
        PROVE  MetaBeforeValue'
    BY <2>1 DEF WriteValues, MetaBeforeValue, NewMeta, TypeOK
  <2>2. ASSUME UNCHANGED <<written, sentMetaData>> PROVE MetaBeforeValue'
    BY <2>2 DEF MetaBeforeValue
  <2>3. ASSUME NEW d \in Deltas, Send(d) PROVE MetaBeforeValue'
    <3>1. d \in SUBSET Keys
      BY ConstantsAssumption DEF ConstantsAssumption
    <3> QED
      BY <2>1, <2>2, <2>3, <3>1 DEF Send
  <2>4. CASE Drain
    <3>1. Pending \in SUBSET Keys
      BY DEF Pending
    <3> QED
      BY <2>1, <2>2, <2>4, <3>1 DEF Drain, Flush, FlushDeltas
  <2> QED
    BY <2>2, <2>3, <2>4
    DEF Next, Transmit, WriteEvent, WriteUnchecked, End, Close, Tick, vars
<1> QED
  BY <1>1, <1>2, TypeCorrect, PTL DEF Spec

\* Deltas never grow the send buffer past the enter threshold by more than
\* one delta, or by one flush, with the meta they are the first to need.
THEOREM BufferStaysBounded == Spec => []SendBufferBounded
<1>1. Init => SendBufferBounded
  BY ConstantTypes, MessageCounts, {} \in SUBSET Keys DEF Init, SendBufferBounded
<1>2. TypeOK /\ SendBufferBounded /\ [Next]_vars => SendBufferBounded'
  <2> SUFFICES ASSUME TypeOK, SendBufferBounded, [Next]_vars
               PROVE  SendBufferBounded'
    OBVIOUS
  <2>0. /\ EnterThreshold \in Nat /\ BypassLimit \in Nat /\ buffered \in Nat
        /\ Cardinality(Contexts) \in Nat /\ Cardinality(Metas) \in Nat
    BY ConstantTypes, MessageCounts, {} \in SUBSET Keys DEF TypeOK
  <2>1. ASSUME UNCHANGED buffered PROVE SendBufferBounded'
    BY <2>1 DEF SendBufferBounded
  <2>2. ASSUME NEW d \in Deltas, Send(d) PROVE SendBufferBounded'
    <3>1. /\ d \in SUBSET Keys
          /\ Cardinality(NewMeta(d)) \in Nat
          /\ Cardinality(NewMeta(d)) <= Cardinality(Metas)
      BY ConstantsAssumption, MessageCounts DEF ConstantsAssumption
    <3>2. CASE MustAccumulate
      BY <2>1, <2>2, <3>2 DEF Send
    <3>3. CASE ~MustAccumulate
      <4>1. buffered <= EnterThreshold
        BY <2>0, <3>3 DEF MustAccumulate
      <4>2. buffered' \in {buffered, buffered + 1 + Cardinality(NewMeta(d))}
        BY <2>0, <2>2, <3>1, <3>3 DEF Send, WriteValues, Write
      <4> QED
        BY <2>0, <2>1, <3>1, <4>1, <4>2 DEF SendBufferBounded
    <3> QED
      BY <3>2, <3>3
  <2>3. CASE Drain
    <3> DEFINE n == Cardinality({ContextOf[k] : k \in Pending})
    <3>1. /\ Pending \in SUBSET Keys
          /\ n \in Nat /\ n <= Cardinality(Contexts)
          /\ Cardinality(NewMeta(Pending)) \in Nat
          /\ Cardinality(NewMeta(Pending)) <= Cardinality(Metas)
      BY MessageCounts DEF Pending
    <3>2. buffered = 0
      BY <2>3 DEF Drain
    <3>3. buffered' \in {buffered, n + Cardinality(NewMeta(Pending))}
      BY <2>3, <3>1, <3>2 DEF Drain, Flush, WriteValues, Write, FlushDeltas
    <3> QED
      BY <2>0, <2>1, <3>1, <3>3 DEF SendBufferBounded
  <2>4. CASE Transmit
    BY <2>0, <2>4 DEF Transmit, SendBufferBounded
  <2>5. CASE WriteEvent \/ WriteUnchecked
    <3>1. buffered < BypassLimit /\ buffered' \in {buffered, buffered + 1}
      BY <2>5 DEF WriteEvent, WriteUnchecked, Write
    <3> QED
      BY <2>0, <3>1 DEF SendBufferBounded
  <2>6. CASE Close
    BY <2>0, <2>6 DEF Close, SendBufferBounded
  <2> QED
    BY <2>1, <2>2, <2>3, <2>4, <2>5, <2>6 DEF Next, End, Tick, vars
<1> QED
  BY <1>1, <1>2, TypeCorrect, PTL DEF Spec

-----------------------------------------------------------------------------
\* The overflow timer starts no earlier than the last check within the limit.
TimerAfterLastGoodCheck ==
  bufferSizeExceeded # None => bufferSizeExceeded >= lastWithinLimit

\* A connection is destroyed only if every check for longer than
\* maxBufferCheckTime found the buffer above its maximum.
THEOREM OverflowIsSustained == Spec => DestroyedOnlyAfterSustainedOverflow
<1> DEFINE Act == conn = "open" /\ conn' = "destroyed"
                    => now - lastWithinLimit > MaxBufferCheckTime
<1>1. Init => TimerAfterLastGoodCheck
  BY DEF Init, TimerAfterLastGoodCheck
<1>2. ASSUME TypeOK, TimerAfterLastGoodCheck, now' = now,
             NEW length, AssertBufferSize(length)
      PROVE  TimerAfterLastGoodCheck' /\ Act
  <2>1. now \in Nat /\ lastWithinLimit \in Nat /\ lastWithinLimit <= now
        /\ bufferSizeExceeded \in Nat /\ MaxBufferCheckTime \in Nat
    BY <1>2, ConstantTypes DEF TypeOK
  <2> QED
    BY <1>2, <2>1 DEF AssertBufferSize, TimerAfterLastGoodCheck, None
<1>3. TypeOK /\ TimerAfterLastGoodCheck /\ [Next]_vars
        => TimerAfterLastGoodCheck' /\ [Act]_vars
  <2> SUFFICES ASSUME TypeOK, TimerAfterLastGoodCheck, [Next]_vars
               PROVE  TimerAfterLastGoodCheck' /\ [Act]_vars
    OBVIOUS
  <2>1. ASSUME UNCHANGED <<bufferSizeExceeded, lastWithinLimit, conn>>
        PROVE  TimerAfterLastGoodCheck' /\ Act
    BY <2>1 DEF TimerAfterLastGoodCheck, TypeOK
  <2>2. ASSUME NEW d \in Deltas, Send(d)
        PROVE  TimerAfterLastGoodCheck' /\ Act
    BY <1>2, <2>2 DEF Send
  <2>3. CASE WriteEvent
    BY <1>2, <2>3 DEF WriteEvent
  <2>4. CASE End \/ Close
    BY <2>4 DEF End, Close, TimerAfterLastGoodCheck
  <2> QED
    BY <2>1, <2>2, <2>3, <2>4 DEF Next, Drain, Transmit, WriteUnchecked, Tick, vars
<1>4. QED
  BY <1>1, <1>3, TypeCorrect, PTL DEF Spec, DestroyedOnlyAfterSustainedOverflow

-----------------------------------------------------------------------------
\* The socket owes a drain event whenever its buffer is at its high water mark.
OwesDrainAtHighWaterMark ==
  conn = "open" /\ buffered > 0 /\ buffered >= HighWaterMark => needDrain

\* If every delta carries a value, and backpressure begins no lower than the
\* socket's high water mark, then a connection in backpressure mode always has
\* something to flush and a drain event coming.  Both hypotheses are needed.
THEOREM BackpressureAwaitsDrain ==
  ASSUME {} \notin Deltas, HighWaterMark <= EnterThreshold + 1
  PROVE  Spec => []ActiveAwaitsDrain
<1> DEFINE Inv == OwesDrainAtHighWaterMark /\ ActiveAwaitsDrain
<1>1. Init => Inv
  BY DEF Init, OwesDrainAtHighWaterMark, ActiveAwaitsDrain
<1>2. TypeOK /\ AccumulatesOnlyWhenActive /\ Inv /\ [Next]_vars => Inv'
  <2> SUFFICES ASSUME TypeOK, Inv, [Next]_vars PROVE Inv'
    OBVIOUS
  <2>0. /\ HighWaterMark \in Nat /\ EnterThreshold \in Nat /\ buffered \in Nat
        /\ needDrain \in BOOLEAN /\ active \in BOOLEAN
    BY ConstantTypes DEF TypeOK
  <2>1. ASSUME NEW n \in Nat, buffered' = buffered + n,
               n > 0 /\ buffered + n >= HighWaterMark => needDrain',
               buffered > 0 /\ buffered >= HighWaterMark => needDrain'
        PROVE  OwesDrainAtHighWaterMark'
    BY <2>0, <2>1 DEF OwesDrainAtHighWaterMark
  <2>2. ASSUME NEW d \in Deltas, Send(d), conn' = "open" PROVE Inv'
    <3>1. conn = "open"
      BY <2>2 DEF Send, AssertBufferSize, TypeOK
    <3>2. d \in SUBSET Keys /\ d # {}
      BY ConstantsAssumption DEF ConstantsAssumption
    <3>3. CASE MustAccumulate
      <4>1. UNCHANGED <<buffered, needDrain>> /\ active' = TRUE
            /\ Accumulate(d, Published(d))
        BY <2>2, <3>3 DEF Send
      <4>2. needDrain
        BY <2>0, <3>1, <3>3
        DEF MustAccumulate, ActiveAwaitsDrain, OwesDrainAtHighWaterMark
      <4>3. \A k \in d : Published(d)[k] # None
        BY <2>2, <3>2, PublishedType DEF Send
      <4>4. Pending' # {}
        BY <3>2, <4>1, <4>3 DEF Accumulate, Pending
      <4> QED
        BY <4>1, <4>2, <4>4 DEF OwesDrainAtHighWaterMark, ActiveAwaitsDrain
    <3>4. CASE ~MustAccumulate
      <4> DEFINE n == 1 + Cardinality(NewMeta(d))
      <4>1. Write(n, needDrain) /\ active' = active /\ ~active
        BY <2>2, <3>4 DEF Send, WriteValues, MustAccumulate
      <4>2. Cardinality(NewMeta(d)) \in Nat
        BY <3>2, MessageCounts
      <4>3. n \in Nat
        BY <4>2
      <4> HIDE DEF n
      <4>4. /\ buffered' = buffered + n
            /\ needDrain => needDrain'
            /\ n > 0 /\ buffered + n >= HighWaterMark => needDrain'
        BY <3>1, <4>1 DEF Write
      <4>5. OwesDrainAtHighWaterMark'
        BY <2>1, <3>1, <4>3, <4>4 DEF OwesDrainAtHighWaterMark
      <4> QED
        BY <4>1, <4>5 DEF ActiveAwaitsDrain
    <3> QED
      BY <3>3, <3>4
  <2>3. CASE Drain
    <3>1. CASE CanFlush /\ Flush(FALSE)
      <4> DEFINE n == Cardinality({ContextOf[k] : k \in Pending})
                        + Cardinality(NewMeta(Pending))
      <4>1. n \in Nat
        BY MessageCounts DEF Pending
      <4>2. Write(n, FALSE) /\ active' = FALSE /\ conn = "open" /\ buffered = 0
        BY <2>3, <3>1 DEF Flush, WriteValues, Drain, FlushDeltas
      <4> HIDE DEF n
      <4>3. /\ buffered' = buffered + n
            /\ n > 0 /\ buffered + n >= HighWaterMark => needDrain'
        BY <4>2 DEF Write
      <4>4. OwesDrainAtHighWaterMark'
        BY <2>1, <4>1, <4>2, <4>3
      <4> QED
        BY <4>2, <4>4 DEF ActiveAwaitsDrain
    <3>2. CASE ~CanFlush
      <4>1. ~active
        BY <2>3, <3>2, ConstantTypes DEF CanFlush, ActiveAwaitsDrain, Drain
      <4>2. active' = active /\ buffered' = 0
        BY <2>3, <3>2 DEF Drain
      <4>3. OwesDrainAtHighWaterMark'
        BY <4>2 DEF OwesDrainAtHighWaterMark
      <4> QED
        BY <4>1, <4>2, <4>3 DEF ActiveAwaitsDrain
    <3> QED
      BY <2>3, <3>1, <3>2 DEF Drain
  <2>4. CASE Transmit
    BY <2>0, <2>4 DEF Transmit, OwesDrainAtHighWaterMark, ActiveAwaitsDrain, Pending
  <2>5. CASE WriteEvent \/ WriteUnchecked
    <3>1. /\ Write(1, needDrain) /\ conn = "open"
          /\ UNCHANGED <<active, accumulator>>
      BY <2>5 DEF WriteEvent, WriteUnchecked
    <3>2. OwesDrainAtHighWaterMark' /\ (needDrain => needDrain')
      BY <2>0, <2>1, <3>1 DEF Write, OwesDrainAtHighWaterMark
    <3> QED
      BY <3>1, <3>2 DEF ActiveAwaitsDrain, Pending
  <2>6. CASE UNCHANGED <<active, accumulator, buffered, needDrain, conn>>
    BY <2>6 DEF OwesDrainAtHighWaterMark, ActiveAwaitsDrain, Pending
  <2>7. CASE conn' # "open"
    BY <2>7 DEF OwesDrainAtHighWaterMark, ActiveAwaitsDrain
  <2> QED
    BY <2>2, <2>3, <2>4, <2>5, <2>6, <2>7 DEF Next, End, Close, Tick, vars
<1>3. DeliveryInv => TypeOK /\ AccumulatesOnlyWhenActive
  BY DEF DeliveryInv
<1> QED
  BY <1>1, <1>2, <1>3, DeliveryInvariant, PTL DEF Spec

-----------------------------------------------------------------------------
\* The connection implements LatestValueDelivery: each write brings the client
\* to a state the sources were really in, and never back.
THEOREM ConnectionDeliversSnapshots == Spec => DeliversSnapshots
<1>1. Init => Promise!Init
  BY DEF Init, Promise!Init, Empty, None
<1>2. DeliveryInv /\ [Next]_vars => [Promise!Next]_(Promise!vars)
  <2> SUFFICES ASSUME DeliveryInv, [Next]_vars
               PROVE  Promise!Next \/ UNCHANGED Promise!vars
    OBVIOUS
  <2> USE DEF DeliveryInv
  <2>1. \A S \in SUBSET Keys : Promise!Advance(S) <=> latest' = Published(S)
    BY DEF Promise!Advance, Published
  <2>2. latest = Published({})
    BY DEF Published, TypeOK
  <2>3. ASSUME NEW d \in Deltas, Send(d) PROVE Promise!Next
    <3>1. d \in SUBSET Keys /\ latest' = Published(d)
      BY <2>3, ConstantsAssumption DEF ConstantsAssumption, Send
    <3>2. \E S \in SUBSET Keys : Promise!Advance(S)
      BY <2>1, <3>1
    <3>3. conn' \in {conn, "destroyed"}
      BY <2>3 DEF Send, AssertBufferSize
    <3>4. CASE UNCHANGED written
      BY <3>2, <3>3, <3>4
      DEF Promise!Next, Promise!Publish, Promise!Disconnect
    <3>5. CASE ~UNCHANGED written
      <4>1. conn = "open" /\ ~MustAccumulate
            /\ WriteValues(d, Published(d), 1, needDrain)
        BY <2>3, <3>5 DEF Send, WriteValues
      <4>2. Pending = {}
        BY <4>1 DEF MustAccumulate, AccumulatesOnlyWhenActive
      <4>3. written = latest
        BY <4>1, <4>2 DEF NothingLost, TypeOK
      <4>4. written' = latest'
        BY <3>1, <4>1, <4>3 DEF WriteValues, Published
      <4> QED
        BY <3>2, <4>1, <4>4 DEF Promise!Next, Promise!Synchronise
    <3> QED
      BY <3>4, <3>5
  <2>4. CASE Drain
    <3>1. latest' = latest /\ conn' = conn /\ conn = "open"
      BY <2>4 DEF Drain
    <3>2. CASE CanFlush /\ Flush(FALSE)
      <4>1. written' = latest'
        BY <3>1, <3>2 DEF Flush, WriteValues, NothingLost, TypeOK
      <4>2. \E S \in SUBSET Keys : Promise!Advance(S)
        BY <2>1, <2>2, <3>1
      <4> QED
        BY <3>1, <4>1, <4>2 DEF Promise!Next, Promise!Synchronise
    <3>3. CASE ~CanFlush
      BY <2>4, <3>1, <3>3 DEF Drain, Promise!vars
    <3> QED
      BY <2>4, <3>2, <3>3 DEF Drain
  <2>5. ASSUME UNCHANGED <<latest, written>>, conn = "open" \/ conn' # "open"
        PROVE  Promise!Next \/ UNCHANGED Promise!vars
    <3>1. \E S \in SUBSET Keys : Promise!Advance(S)
      BY <2>1, <2>2, <2>5
    <3> QED
      BY <2>5, <3>1 DEF Promise!Next, Promise!Disconnect, Promise!vars
  <2> QED
    BY <2>3, <2>4, <2>5
    DEF Next, Transmit, WriteEvent, WriteUnchecked, End, Close, Tick, vars,
        AssertBufferSize, Promise!vars
<1> QED
  BY <1>1, <1>2, DeliveryInvariant, PTL
  DEF Spec, DeliversSnapshots, Promise!Spec
=============================================================================
