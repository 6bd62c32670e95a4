--------------------------- MODULE Notifications ---------------------------
(***************************************************************************)
(* The notification manager of src/api/notifications: every notification   *)
(* of the boat is an alarm with a state, a method by which it is announced *)
(* and a status that records what the operator did about it.  Alarms come  *)
(* from deltas (a device or a plugin reports the state of a condition) and *)
(* from the API; the operator silences, acknowledges, updates and clears   *)
(* them by identifier; a timer drops those that went back to normal.       *)
(*                                                                         *)
(* Left out: messages, positions, timestamps and contexts, which nothing   *)
(* here depends on, and the mode in which the manager is disabled.         *)
(***************************************************************************)
CONSTANTS
  Keys,            \* context/path/$source of the notifications in deltas
  Ids,             \* bound: the uuids that may be given out
  States, Normal, Emergency,
  NoState,         \* an update request without a state
  NoValue,         \* a notification whose value is null
  Reports          \* the notification values deltas may carry

Methods == SUBSET {"visual", "sound"}
YesNo == {"Yes", "No", "absent"}

\* What an NMEA 2000 alert tells about itself; all absent in other sources.
Attributes ==
  [acknowledgeStatus : YesNo, temporarySilenceStatus : YesNo,
   temporarySilenceSupport : YesNo, acknowledgeSupport : YesNo]
Absent == [a \in DOMAIN CHOOSE x \in Attributes : TRUE |-> "absent"]

ASSUME ConstantsAssumption ==
  /\ {Normal, Emergency} \subseteq States /\ Normal # Emergency
  /\ NoState \notin States
  /\ NoValue \in Reports
  /\ Reports \ {NoValue} \subseteq [state : States, method : Methods, attributes : Attributes]

VARIABLES
  alarms,          \* the manager's alarms: [SUBSET Ids -> Alarm]
  precedes,        \* the order of the map: the pairs <<earlier, later>>
  notiKeys,        \* the identifier of each key seen: [SUBSET Keys -> Ids]
  issued,          \* the identifiers given out so far
  forCleaning,     \* what the previous clean left: a normal one among them
                   \* goes at the next
  published,       \* the last delta emitted of each identifier
  handled          \* history: alarms that the operator or the device dealt
                   \* with since they last left the normal state

vars == <<alarms, precedes, notiKeys, issued, forCleaning, published, handled>>

Alarm ==
  [state : States, method : Methods, attributes : Attributes,
   silenced : BOOLEAN, acknowledged : BOOLEAN,
   canSilence : BOOLEAN, canAcknowledge : BOOLEAN, canClear : BOOLEAN]

NewAlarm ==
  [state |-> Normal, method |-> {"visual", "sound"}, attributes |-> Absent,
   silenced |-> FALSE, acknowledged |-> FALSE,
   canSilence |-> TRUE, canAcknowledge |-> TRUE, canClear |-> FALSE]

-----------------------------------------------------------------------------
(* The operations of one alarm (alarm.ts).                                 *)

AlignAlarmMethod(a) ==
  IF a.acknowledged
    THEN [a EXCEPT !.method = IF a.state = Emergency THEN {"visual"} ELSE {}]
  ELSE IF a.silenced /\ a.state # Emergency
    THEN [a EXCEPT !.method = @ \ {"sound"}]
  ELSE a

\* A null value leaves the attributes of the previous one in place.
ParseDelta(a, report) ==
  IF report = NoValue
    THEN [a EXCEPT !.state = Normal, !.method = {}]
    ELSE [a EXCEPT !.state = report.state, !.method = report.method,
                   !.attributes = report.attributes]

\* Faulty variant: an alarm that leaves the normal state keeps its status.
ResetOnActivationKeeping(before, a) == a

\* Leaving the normal state makes it a new alarm nobody has dealt with.
ResetOnActivation(before, a) ==
  IF before.state = Normal /\ a.state # Normal
    THEN [a EXCEPT !.acknowledged = FALSE, !.silenced = FALSE]
    ELSE a

Supports(attribute, otherwise) ==
  IF attribute = "absent" THEN otherwise ELSE attribute = "Yes"

TakeAttributes(a) ==
  [a EXCEPT
     !.acknowledged = @ \/ a.attributes.acknowledgeStatus = "Yes",
     !.silenced = @ \/ a.attributes.temporarySilenceStatus = "Yes",
     !.canSilence = Supports(a.attributes.temporarySilenceSupport, @),
     !.canAcknowledge = Supports(a.attributes.acknowledgeSupport, @)]

\* Faulty variant: the method of the delta is taken as it is.
SyncWithoutAligning(a, report) ==
  TakeAttributes(ResetOnActivation(a, [ParseDelta(a, report) EXCEPT !.canClear = FALSE]))

SyncFromNotificationUpdate(a, report) ==
  AlignAlarmMethod(TakeAttributes(
    ResetOnActivation(a, [ParseDelta(a, report) EXCEPT !.canClear = FALSE])))

CanBeSilenced(a) ==
  a.canSilence /\ ~a.silenced /\ ~a.acknowledged /\ a.state # Emergency
Silenced(a) == AlignAlarmMethod([a EXCEPT !.silenced = TRUE])

CanBeAcknowledged(a) == a.canAcknowledge /\ ~a.acknowledged
Acknowledged(a) == AlignAlarmMethod([a EXCEPT !.acknowledged = TRUE])

Cleared(a) ==
  [a EXCEPT !.state = Normal, !.silenced = FALSE, !.acknowledged = FALSE]

\* Faulty variant: the state of a request that has none is assigned as well.
UpdatedWithoutDefault(a, state) ==
  LET unchanged == a.state = state
  IN  [a EXCEPT !.state = state, !.canSilence = state # Emergency,
                !.silenced = @ /\ unchanged, !.acknowledged = @ /\ unchanged]

\* The manager's update: a request without a state counts as a change of it.
Updated(a, state) ==
  LET unchanged == a.state = state
  IN  [a EXCEPT !.state = IF state = NoState THEN @ ELSE state,
                !.canSilence = state # Emergency,
                !.silenced = @ /\ unchanged,
                !.acknowledged = @ /\ unchanged]

-----------------------------------------------------------------------------
Override(f, g) ==
  [id \in DOMAIN f \cup DOMAIN g |-> IF id \in DOMAIN g THEN g[id] ELSE f[id]]

\* Store the alarms of the function new and emit the delta of each.
Emit(new) ==
  /\ alarms' = Override(alarms, new)
  /\ published' = Override(published, new)

\* A new alarm goes to the end of the map, a known one keeps its place.
Insert(id) ==
  precedes' = IF id \in DOMAIN alarms THEN precedes
              ELSE precedes \cup ((DOMAIN alarms) \X {id})

Only(id, a) == [i \in {id} |-> a]

Init ==
  /\ alarms = << >>
  /\ precedes = {}
  /\ notiKeys = << >>
  /\ issued = {}
  /\ forCleaning = {}
  /\ published = << >>
  /\ handled = {}

IdsFor(k) == IF k \in DOMAIN notiKeys THEN {notiKeys[k]} ELSE Ids \ issued

\* A delta reports notification k: filterNotifications takes it out of the
\* delta, gives it its identifier and hands it to the manager.
Report(k, report) ==
  \E id \in IdsFor(k) :
    LET before == IF id \in DOMAIN alarms THEN alarms[id] ELSE NewAlarm
        after == SyncFromNotificationUpdate(before, report)
        activated == before.state = Normal /\ after.state # Normal
        reported == \/ after.attributes.acknowledgeStatus = "Yes"
                    \/ after.attributes.temporarySilenceStatus = "Yes"
    IN
    /\ notiKeys' = Override(notiKeys, Only(k, id))
    /\ issued' = issued \cup {id}
    /\ Insert(id)
    /\ Emit(Only(id, after))
    /\ handled' = IF reported THEN handled \cup {id}
                  ELSE IF activated THEN handled \ {id} ELSE handled
    /\ UNCHANGED forCleaning

\* raise and mob.
Raise(id, state) ==
  /\ id \in Ids \ issued
  /\ issued' = issued \cup {id}
  /\ Insert(id)
  /\ Emit(Only(id, [NewAlarm EXCEPT !.state = state, !.canClear = TRUE,
                                    !.canSilence = state # Emergency]))
  /\ UNCHANGED <<notiKeys, forCleaning, handled>>

Update(id, state) ==
  /\ id \in DOMAIN alarms
  /\ Emit(Only(id, Updated(alarms[id], state)))
  /\ handled' = IF alarms[id].state = state THEN handled ELSE handled \ {id}
  /\ UNCHANGED <<precedes, notiKeys, issued, forCleaning>>

Silence(id) ==
  /\ id \in DOMAIN alarms
  /\ CanBeSilenced(alarms[id])
  /\ Emit(Only(id, Silenced(alarms[id])))
  /\ handled' = handled \cup {id}
  /\ UNCHANGED <<precedes, notiKeys, issued, forCleaning>>

\* The alarms that refuse are skipped.
SilenceAll ==
  LET able == {id \in DOMAIN alarms : CanBeSilenced(alarms[id])}
  IN
  /\ Emit([id \in able |-> Silenced(alarms[id])])
  /\ handled' = handled \cup able
  /\ UNCHANGED <<precedes, notiKeys, issued, forCleaning>>

Acknowledge(id) ==
  /\ id \in DOMAIN alarms
  /\ CanBeAcknowledged(alarms[id])
  /\ Emit(Only(id, Acknowledged(alarms[id])))
  /\ handled' = handled \cup {id}
  /\ UNCHANGED <<precedes, notiKeys, issued, forCleaning>>

\* The alarms before the first one that refuses: its exception ends the loop.
BeforeRefusal ==
  LET refusing == {id \in DOMAIN alarms : ~CanBeAcknowledged(alarms[id])}
  IN  {id \in DOMAIN alarms : \A r \in refusing : <<id, r>> \in precedes}

\* Faulty variant: the deltas are left to the end of the loop.
AcknowledgeAllEmittingLast ==
  LET acknowledged == [id \in BeforeRefusal |-> Acknowledged(alarms[id])]
  IN
  /\ alarms' = Override(alarms, acknowledged)
  /\ published' = IF BeforeRefusal = DOMAIN alarms
                    THEN Override(published, acknowledged) ELSE published
  /\ handled' = handled \cup BeforeRefusal
  /\ UNCHANGED <<precedes, notiKeys, issued, forCleaning>>

AcknowledgeAll ==
  /\ Emit([id \in BeforeRefusal |-> Acknowledged(alarms[id])])
  /\ handled' = handled \cup BeforeRefusal
  /\ UNCHANGED <<precedes, notiKeys, issued, forCleaning>>

Clear(id) ==
  /\ id \in DOMAIN alarms
  /\ alarms[id].canClear
  /\ Emit(Only(id, Cleared(alarms[id])))
  /\ handled' = handled \ {id}
  /\ UNCHANGED <<precedes, notiKeys, issued, forCleaning>>

\* Faulty variants: the state is looked at when an alarm is marked and not
\* when it goes; the wrong list is kept for the next time.
CleanByMark ==
  LET gone == forCleaning \cap DOMAIN alarms
  IN
  /\ alarms' = [id \in DOMAIN alarms \ gone |-> alarms[id]]
  /\ precedes' = precedes \cap ((DOMAIN alarms') \X (DOMAIN alarms'))
  /\ forCleaning' = {id \in DOMAIN alarms \ gone : alarms[id].state = Normal}
  /\ UNCHANGED <<notiKeys, issued, published, handled>>

CleanKeepingDeleted ==
  LET gone == {id \in forCleaning \cap DOMAIN alarms : alarms[id].state = Normal}
  IN
  /\ alarms' = [id \in DOMAIN alarms \ gone |-> alarms[id]]
  /\ precedes' = precedes \cap ((DOMAIN alarms') \X (DOMAIN alarms'))
  /\ forCleaning' = gone
  /\ UNCHANGED <<notiKeys, issued, published, handled>>

\* Every CLEAN_INTERVAL.
Clean ==
  LET gone == {id \in forCleaning \cap DOMAIN alarms : alarms[id].state = Normal}
  IN
  /\ alarms' = [id \in DOMAIN alarms \ gone |-> alarms[id]]
  /\ precedes' = precedes \cap ((DOMAIN alarms') \X (DOMAIN alarms'))
  /\ forCleaning' = DOMAIN alarms \ gone
  /\ UNCHANGED <<notiKeys, issued, published, handled>>

Next ==
  \/ \E k \in Keys, report \in Reports : Report(k, report)
  \/ \E id \in Ids, state \in States : Raise(id, state)
  \/ \E id \in Ids, state \in States \cup {NoState} : Update(id, state)
  \/ \E id \in Ids : Silence(id) \/ Acknowledge(id) \/ Clear(id)
  \/ SilenceAll \/ AcknowledgeAll
  \/ Clean

Spec == Init /\ [][Next]_vars

\* The interval timer of the manager goes on firing.
Fairness == WF_vars(Clean)
FairSpec == Spec /\ Fairness

-----------------------------------------------------------------------------
TypeOK ==
  /\ DOMAIN alarms \subseteq issued
  /\ precedes \subseteq (DOMAIN alarms) \X (DOMAIN alarms)
  /\ alarms \in [DOMAIN alarms -> Alarm]
  /\ DOMAIN notiKeys \subseteq Keys
  /\ notiKeys \in [DOMAIN notiKeys -> issued]
  /\ issued \subseteq Ids
  /\ forCleaning \subseteq issued
  /\ DOMAIN alarms \subseteq DOMAIN published /\ DOMAIN published \subseteq issued
  /\ published \in [DOMAIN published -> Alarm]
  /\ handled \subseteq issued

\* An alarm the operator acknowledged makes no sound again and one that was
\* silenced makes none either, however often its source reports it anew with
\* its own method: alignAlarmMethod after every operation.  An emergency goes
\* on being shown when acknowledged and cannot be silenced.
QuietOnceHandled ==
  \A id \in DOMAIN alarms :
    LET a == alarms[id]
    IN  /\ a.acknowledged => a.method = IF a.state = Emergency THEN {"visual"} ELSE {}
        /\ a.silenced /\ a.state # Emergency => "sound" \notin a.method

\* What the operator did about an alarm does not outlive it: an active alarm
\* is acknowledged or silenced only if somebody did so since it last left the
\* normal state, through returns to normal, cleaning and a new start alike.
ActionsEndWithTheAlarm ==
  \A id \in DOMAIN alarms :
    /\ alarms[id].state # Normal
    /\ alarms[id].acknowledged \/ alarms[id].silenced
    => id \in handled

\* Subscribers know the alarm as it is, also when an operation on all alarms
\* stopped half way.
PublishedIsCurrent ==
  \A id \in DOMAIN alarms : published[id] = alarms[id]

\* An alarm that is not normal is never dropped, whatever it was when the
\* previous clean saw it.
ActiveAlarmIsKept ==
  [][\A id \in DOMAIN alarms :
       alarms[id].state # Normal => id \in DOMAIN alarms']_vars

\* An alarm that stays normal is dropped in the end (clean).  Not that it was
\* normal "for the duration of CLEAN_INTERVAL" before, as the comment of clean
\* says: one that was active at one clean and becomes normal just before the
\* next is dropped there, since every alarm that is left is marked.
NormalAlarmIsDropped ==
  \A id \in Ids :
    (id \in DOMAIN alarms /\ alarms[id].state = Normal)
      ~> (id \notin DOMAIN alarms \/ alarms[id].state # Normal)

\* "the value assigned is based on the value of the state and status
\* properties": an API alarm that nobody has silenced or acknowledged in its
\* present state is announced with sound.
UnhandledAlarmSounds ==
  \A id \in DOMAIN alarms :
    alarms[id].canClear /\ alarms[id].state # Normal
      /\ ~alarms[id].silenced /\ ~alarms[id].acknowledged
    => "sound" \in alarms[id].method

\* "Acknowledges all notifications": after acknowledgeAll every alarm that
\* may be acknowledged is.
AcknowledgesAll ==
  [][AcknowledgeAll =>
       \A id \in DOMAIN alarms :
         alarms[id].canAcknowledge => alarms'[id].acknowledged]_vars
=============================================================================
