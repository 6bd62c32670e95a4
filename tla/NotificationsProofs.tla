------------------------ MODULE NotificationsProofs ------------------------
(***************************************************************************)
(* Theorems about Notifications, for every set of keys, identifiers,       *)
(* states and reports.  The operations of one alarm are dealt with first,  *)
(* each in a lemma; the steps of the manager then reduce to storing and    *)
(* publishing a function of alarms, all of which are quiet when handled.   *)
(***************************************************************************)
EXTENDS Notifications, TLAPS

\* QuietOnceHandled, of one alarm.
Quiet(a) ==
  /\ a.acknowledged => a.method = IF a.state = Emergency THEN {"visual"} ELSE {}
  /\ a.silenced /\ a.state # Emergency => "sound" \notin a.method

QuietAlarm == {a \in Alarm : Quiet(a)}

\* The attributes of a source that says nothing are attributes.
LEMMA AbsentType == Absent \in Attributes
<1> DEFINE all == [acknowledgeStatus |-> "absent", temporarySilenceStatus |-> "absent",
                   temporarySilenceSupport |-> "absent", acknowledgeSupport |-> "absent"]
<1>1. all \in Attributes
  BY DEF Attributes, YesNo
<1>2. PICK x \in Attributes : x = CHOOSE y \in Attributes : TRUE
  BY <1>1
<1>3. DOMAIN x = {"acknowledgeStatus", "temporarySilenceStatus",
                  "temporarySilenceSupport", "acknowledgeSupport"}
  BY <1>2 DEF Attributes
<1>4. Absent = all
  BY <1>2, <1>3 DEF Absent
<1> QED BY <1>1, <1>4

\* An alarm that was just created is quiet: nobody handled it.
LEMMA NewAlarmQuiet == NewAlarm \in QuietAlarm
BY AbsentType, ConstantsAssumption DEF NewAlarm, QuietAlarm, Quiet, Alarm, Methods

\* alignAlarmMethod makes any alarm quiet and touches only its method.
LEMMA AligningQuiets ==
  ASSUME NEW a \in Alarm
  PROVE  /\ AlignAlarmMethod(a) \in QuietAlarm
         /\ AlignAlarmMethod(a).state = a.state
         /\ AlignAlarmMethod(a).acknowledged = a.acknowledged
         /\ AlignAlarmMethod(a).silenced = a.silenced
         /\ AlignAlarmMethod(a).attributes = a.attributes
BY DEF AlignAlarmMethod, QuietAlarm, Quiet, Alarm, Methods

\* An alarm whose status is replaced is an alarm.
LEMMA StatusReplaced ==
  \A a \in Alarm : \A x, y, u, v \in BOOLEAN :
    [a EXCEPT !.acknowledged = x, !.silenced = y,
              !.canSilence = u, !.canAcknowledge = v] \in Alarm
BY DEF Alarm

\* A report leaves a quiet alarm; and one that is active and handled only if it
\* was so before or the device says so.
LEMMA SyncQuiets ==
  ASSUME NEW a \in Alarm, NEW report \in Reports
  PROVE  LET b == SyncFromNotificationUpdate(a, report)
         IN  /\ b \in QuietAlarm
             /\ b.state # Normal /\ (b.acknowledged \/ b.silenced)
                  => \/ a.state # Normal /\ (a.acknowledged \/ a.silenced)
                     \/ b.attributes.acknowledgeStatus = "Yes"
                     \/ b.attributes.temporarySilenceStatus = "Yes"
<1> DEFINE p == [ParseDelta(a, report) EXCEPT !.canClear = FALSE]
           r == ResetOnActivation(a, p)
           t == TakeAttributes(r)
<1>1. p \in Alarm /\ p.acknowledged = a.acknowledged /\ p.silenced = a.silenced
  <2>1. CASE report = NoValue
    BY <2>1, ConstantsAssumption DEF ParseDelta, Alarm, Methods
  <2>2. CASE report # NoValue
    <3>1. report \in [state : States, method : Methods, attributes : Attributes]
      BY <2>2, ConstantsAssumption
    <3> QED BY <2>2, <3>1 DEF ParseDelta, Alarm
  <2> QED BY <2>1, <2>2
<1>2. /\ r \in Alarm /\ r.state = p.state /\ r.attributes = p.attributes
      /\ r.state # Normal /\ (r.acknowledged \/ r.silenced)
           => a.state # Normal /\ (a.acknowledged \/ a.silenced)
  <2> HIDE DEF p
  <2> QED BY <1>1 DEF ResetOnActivation, Alarm
<1>3. /\ t \in Alarm /\ t.state = r.state /\ t.attributes = r.attributes
      /\ t.acknowledged <=> r.acknowledged \/ r.attributes.acknowledgeStatus = "Yes"
      /\ t.silenced <=> r.silenced \/ r.attributes.temporarySilenceStatus = "Yes"
  <2> DEFINE ack == r.acknowledged \/ r.attributes.acknowledgeStatus = "Yes"
             sil == r.silenced \/ r.attributes.temporarySilenceStatus = "Yes"
             canSil == Supports(r.attributes.temporarySilenceSupport, r.canSilence)
             canAck == Supports(r.attributes.acknowledgeSupport, r.canAcknowledge)
  <2>1. t = [r EXCEPT !.acknowledged = ack, !.silenced = sil,
                      !.canSilence = canSil, !.canAcknowledge = canAck]
    BY DEF TakeAttributes
  <2> HIDE DEF r
  <2>2. r.canSilence \in BOOLEAN /\ r.canAcknowledge \in BOOLEAN
    BY <1>2 DEF Alarm
  <2>3. ack \in BOOLEAN /\ sil \in BOOLEAN
    OBVIOUS
  <2>4. canSil \in BOOLEAN /\ canAck \in BOOLEAN
    BY <2>2 DEF Supports
  <2> HIDE DEF t, ack, sil, canSil, canAck
  <2>5. t \in Alarm
    BY <1>2, <2>1, <2>3, <2>4, StatusReplaced, Zenon
  <2>6. t.state = r.state /\ t.attributes = r.attributes
    BY <1>2, <2>1 DEF Alarm
  <2>7. (t.acknowledged <=> ack) /\ (t.silenced <=> sil)
    BY <1>2, <2>1, <2>3 DEF Alarm
  <2> QED BY <2>5, <2>6, <2>7 DEF ack, sil
<1>4. SyncFromNotificationUpdate(a, report) = AlignAlarmMethod(t)
  BY DEF SyncFromNotificationUpdate
<1> HIDE DEF t, r, p
<1> QED BY <1>2, <1>3, <1>4, AligningQuiets

\* The operator's actions leave a quiet alarm quiet.
LEMMA ActionsQuiet ==
  ASSUME NEW a \in QuietAlarm
  PROVE  /\ Silenced(a) \in QuietAlarm
         /\ Acknowledged(a) \in QuietAlarm
         /\ Cleared(a) \in QuietAlarm /\ Cleared(a).state = Normal
         /\ \A state \in States \cup {NoState} : Updated(a, state) \in QuietAlarm
<1>1. Silenced(a) \in QuietAlarm
  <2>1. [a EXCEPT !.silenced = TRUE] \in Alarm
    BY DEF QuietAlarm, Alarm
  <2> QED BY <2>1, AligningQuiets DEF Silenced
<1>2. Acknowledged(a) \in QuietAlarm
  <2>1. [a EXCEPT !.acknowledged = TRUE] \in Alarm
    BY DEF QuietAlarm, Alarm
  <2> QED BY <2>1, AligningQuiets DEF Acknowledged
<1>3. Cleared(a) \in QuietAlarm /\ Cleared(a).state = Normal
  BY ConstantsAssumption DEF Cleared, QuietAlarm, Quiet, Alarm
<1>4. ASSUME NEW state \in States \cup {NoState}
      PROVE  Updated(a, state) \in QuietAlarm
  <2> DEFINE unchanged == a.state = state
             new == IF state = NoState THEN a.state ELSE state
             can == state # Emergency
             sil == a.silenced /\ unchanged
             ack == a.acknowledged /\ unchanged
  <2>1. Updated(a, state) = [a EXCEPT !.state = new, !.canSilence = can,
                                      !.silenced = sil, !.acknowledged = ack]
    BY DEF Updated
  <2>2. /\ new \in States /\ can \in BOOLEAN /\ sil \in BOOLEAN /\ ack \in BOOLEAN
        /\ (sil => a.silenced) /\ (ack => a.acknowledged)
        /\ (sil \/ ack) => new = a.state
    BY ConstantsAssumption DEF QuietAlarm, Alarm
  <2> HIDE DEF new, can, sil, ack
  <2> QED BY <2>1, <2>2 DEF QuietAlarm, Quiet, Alarm
<1> QED BY <1>1, <1>2, <1>3, <1>4

-----------------------------------------------------------------------------
(* The manager.  All four invariants are inductive together.               *)

ManagerInv ==
  TypeOK /\ QuietOnceHandled /\ ActionsEndWithTheAlarm /\ PublishedIsCurrent

\* Storing and publishing quiet alarms: what every operation but clean does.
LEMMA EmitKeeps ==
  ASSUME ManagerInv, NEW S, NEW new \in [S -> QuietAlarm], Emit(new)
  PROVE  /\ DOMAIN alarms' = DOMAIN alarms \cup S
         /\ DOMAIN published' = DOMAIN published \cup S
         /\ \A id \in DOMAIN alarms' :
              alarms'[id] = IF id \in S THEN new[id] ELSE alarms[id]
         /\ alarms' \in [DOMAIN alarms' -> Alarm]
         /\ published' \in [DOMAIN published' -> Alarm]
         /\ QuietOnceHandled'
         /\ PublishedIsCurrent'
<1>1. DOMAIN new = S /\ \A id \in S : new[id] \in Alarm /\ Quiet(new[id])
  BY DEF QuietAlarm
<1>2. /\ DOMAIN alarms' = DOMAIN alarms \cup S
      /\ DOMAIN published' = DOMAIN published \cup S
      /\ \A id \in DOMAIN alarms' :
           alarms'[id] = IF id \in S THEN new[id] ELSE alarms[id]
      /\ \A id \in DOMAIN published' :
           published'[id] = IF id \in S THEN new[id] ELSE published[id]
  BY <1>1 DEF Emit, Override
<1>3. /\ alarms' = [id \in DOMAIN alarms' |-> alarms'[id]]
      /\ published' = [id \in DOMAIN published' |-> published'[id]]
  BY <1>1 DEF Emit, Override
<1>4. /\ alarms' \in [DOMAIN alarms' -> Alarm]
      /\ published' \in [DOMAIN published' -> Alarm]
  <2>1. /\ \A id \in DOMAIN alarms' : alarms'[id] \in Alarm
        /\ \A id \in DOMAIN published' : published'[id] \in Alarm
    BY <1>1, <1>2 DEF ManagerInv, TypeOK
  <2> QED BY <1>3, <2>1
<1>5. QuietOnceHandled'
  <2>1. \A id \in DOMAIN alarms' : Quiet(alarms'[id])
    BY <1>1, <1>2 DEF ManagerInv, QuietOnceHandled, Quiet
  <2> QED BY <2>1 DEF QuietOnceHandled, Quiet
<1>6. PublishedIsCurrent'
  BY <1>2 DEF ManagerInv, TypeOK, PublishedIsCurrent
<1> QED BY <1>2, <1>4, <1>5, <1>6

\* The alarms stored are quiet.
LEMMA StoredQuiet ==
  ASSUME ManagerInv
  PROVE  \A id \in DOMAIN alarms : alarms[id] \in QuietAlarm
BY DEF ManagerInv, TypeOK, QuietOnceHandled, QuietAlarm, Quiet

\* The manager starts without alarms.
LEMMA InitManager == Init => ManagerInv
BY DEF Init, ManagerInv, TypeOK, QuietOnceHandled, ActionsEndWithTheAlarm,
       PublishedIsCurrent

\* A step in which the operator acts on known alarms, those of S.
LEMMA OperatorKeeps ==
  ASSUME ManagerInv, NEW S \in SUBSET DOMAIN alarms, NEW new \in [S -> QuietAlarm],
         Emit(new), UNCHANGED <<precedes, notiKeys, issued, forCleaning>>,
         handled' \subseteq issued,
         \A id \in S : /\ new[id].state # Normal
                       /\ new[id].acknowledged \/ new[id].silenced
                       => id \in handled',
         \A id \in handled \ S : id \in handled'
  PROVE  ManagerInv'
<1>1. /\ DOMAIN alarms' = DOMAIN alarms
      /\ DOMAIN published' = DOMAIN published
      /\ \A id \in DOMAIN alarms' :
           alarms'[id] = IF id \in S THEN new[id] ELSE alarms[id]
      /\ alarms' \in [DOMAIN alarms' -> Alarm]
      /\ published' \in [DOMAIN published' -> Alarm]
      /\ QuietOnceHandled' /\ PublishedIsCurrent'
  BY EmitKeeps DEF ManagerInv, TypeOK
<1>2. TypeOK'
  BY <1>1 DEF ManagerInv, TypeOK
<1>3. ActionsEndWithTheAlarm'
  BY <1>1 DEF ManagerInv, ActionsEndWithTheAlarm
<1> QED BY <1>1, <1>2, <1>3 DEF ManagerInv

\* A step in which the alarm of one identifier is created or synchronised.
LEMMA RegisterKeeps ==
  ASSUME ManagerInv, NEW id \in Ids, NEW a \in QuietAlarm,
         Emit(Only(id, a)), Insert(id), issued' = issued \cup {id},
         UNCHANGED forCleaning,
         DOMAIN notiKeys' \subseteq Keys, notiKeys' \in [DOMAIN notiKeys' -> issued'],
         handled' \subseteq issued', \A i \in handled \ {id} : i \in handled',
         a.state # Normal /\ (a.acknowledged \/ a.silenced) => id \in handled'
  PROVE  ManagerInv'
<1>1. Only(id, a) \in [{id} -> QuietAlarm] /\ Only(id, a)[id] = a
  BY DEF Only
<1>2. /\ DOMAIN alarms' = DOMAIN alarms \cup {id}
      /\ DOMAIN published' = DOMAIN published \cup {id}
      /\ \A i \in DOMAIN alarms' :
           alarms'[i] = IF i \in {id} THEN Only(id, a)[i] ELSE alarms[i]
      /\ alarms' \in [DOMAIN alarms' -> Alarm]
      /\ published' \in [DOMAIN published' -> Alarm]
      /\ QuietOnceHandled' /\ PublishedIsCurrent'
  BY <1>1, EmitKeeps
<1>3. TypeOK'
  BY <1>2 DEF ManagerInv, TypeOK, Insert
<1>4. ActionsEndWithTheAlarm'
  BY <1>1, <1>2 DEF ManagerInv, ActionsEndWithTheAlarm
<1> QED BY <1>2, <1>3, <1>4 DEF ManagerInv

LEMMA ReportKeeps ==
  ASSUME ManagerInv, NEW k \in Keys, NEW report \in Reports, Report(k, report)
  PROVE  ManagerInv'
<1>1. PICK id \in IdsFor(k) :
        LET before == IF id \in DOMAIN alarms THEN alarms[id] ELSE NewAlarm
            after == SyncFromNotificationUpdate(before, report)
            activated == before.state = Normal /\ after.state # Normal
            reported == \/ after.attributes.acknowledgeStatus = "Yes"
                        \/ after.attributes.temporarySilenceStatus = "Yes"
        IN
        /\ notiKeys' = Override(notiKeys, Only(k, id))
        /\ issued' = issued \cup {id}
        /\ Insert(id)
        /\ Emit(Only(id, after))
        /\ handled' = IF reported THEN handled \cup {id}
                      ELSE IF activated THEN handled \ {id} ELSE handled
        /\ UNCHANGED forCleaning
  BY DEF Report
<1> DEFINE before == IF id \in DOMAIN alarms THEN alarms[id] ELSE NewAlarm
           after == SyncFromNotificationUpdate(before, report)
<1>2. id \in Ids
  BY DEF IdsFor, ManagerInv, TypeOK
<1>3. before \in Alarm /\ (before.state # Normal => id \in DOMAIN alarms)
  BY NewAlarmQuiet DEF ManagerInv, TypeOK, QuietAlarm, NewAlarm
<1>4. /\ after \in QuietAlarm
      /\ after.state # Normal /\ (after.acknowledged \/ after.silenced)
           => \/ before.state # Normal /\ (before.acknowledged \/ before.silenced)
              \/ after.attributes.acknowledgeStatus = "Yes"
              \/ after.attributes.temporarySilenceStatus = "Yes"
  <2> HIDE DEF before
  <2> QED BY <1>3, SyncQuiets
<1>5. before.state # Normal /\ (before.acknowledged \/ before.silenced) => id \in handled
  BY <1>3 DEF ManagerInv, ActionsEndWithTheAlarm
<1>6. DOMAIN notiKeys' \subseteq Keys /\ notiKeys' \in [DOMAIN notiKeys' -> issued']
  BY <1>1 DEF Override, Only, ManagerInv, TypeOK
<1>7. issued' = issued \cup {id} /\ Insert(id) /\ Emit(Only(id, after)) /\ UNCHANGED forCleaning
  BY <1>1
<1>8. /\ handled' \subseteq issued' /\ \A i \in handled \ {id} : i \in handled'
      /\ after.state # Normal /\ (after.acknowledged \/ after.silenced) => id \in handled'
  <2> DEFINE reported == \/ after.attributes.acknowledgeStatus = "Yes"
                         \/ after.attributes.temporarySilenceStatus = "Yes"
             activated == before.state = Normal /\ after.state # Normal
  <2>1. handled' = IF reported THEN handled \cup {id}
                   ELSE IF activated THEN handled \ {id} ELSE handled
    BY <1>1
  <2> HIDE DEF after, before
  <2> QED BY <1>4, <1>5, <1>7, <2>1 DEF ManagerInv, TypeOK
<1> HIDE DEF after
<1> QED BY <1>2, <1>4, <1>6, <1>7, <1>8, RegisterKeeps

LEMMA RaiseKeeps ==
  ASSUME ManagerInv, NEW id \in Ids, NEW state \in States, Raise(id, state)
  PROVE  ManagerInv'
<1> DEFINE can == state # Emergency
           a == [NewAlarm EXCEPT !.state = state, !.canClear = TRUE, !.canSilence = can]
<1>1. can \in BOOLEAN
  OBVIOUS
<1>2. a \in QuietAlarm /\ ~a.acknowledged /\ ~a.silenced
  <2> HIDE DEF can
  <2> QED BY <1>1, NewAlarmQuiet DEF NewAlarm, QuietAlarm, Quiet, Alarm
<1>3. /\ Emit(Only(id, a)) /\ Insert(id) /\ issued' = issued \cup {id}
      /\ UNCHANGED <<notiKeys, forCleaning, handled>>
  BY DEF Raise
<1>4. DOMAIN notiKeys' \subseteq Keys /\ notiKeys' \in [DOMAIN notiKeys' -> issued']
  BY <1>3 DEF ManagerInv, TypeOK
<1>5. handled' \subseteq issued' /\ \A i \in handled \ {id} : i \in handled'
  BY <1>3 DEF ManagerInv, TypeOK
<1> HIDE DEF a
<1> QED BY <1>2, <1>3, <1>4, <1>5, RegisterKeeps

\* An operation on the one alarm id, which becomes a.
LEMMA OperationKeeps ==
  ASSUME ManagerInv, NEW id \in DOMAIN alarms, NEW a \in QuietAlarm,
         Emit(Only(id, a)), UNCHANGED <<precedes, notiKeys, issued, forCleaning>>,
         handled' \subseteq handled \cup {id}, handled \ {id} \subseteq handled',
         a.state # Normal /\ (a.acknowledged \/ a.silenced) => id \in handled'
  PROVE  ManagerInv'
<1>1. Only(id, a) \in [{id} -> QuietAlarm] /\ Only(id, a)[id] = a
  BY DEF Only
<1>2. handled' \subseteq issued /\ \A i \in handled \ {id} : i \in handled'
  BY DEF ManagerInv, TypeOK
<1> QED BY <1>1, <1>2, OperatorKeeps

LEMMA UpdateKeeps ==
  ASSUME ManagerInv, NEW id \in Ids, NEW state \in States \cup {NoState},
         Update(id, state)
  PROVE  ManagerInv'
<1>1. id \in DOMAIN alarms /\ alarms[id] \in QuietAlarm
  BY StoredQuiet DEF Update
<1>2. Updated(alarms[id], state) \in QuietAlarm
  BY <1>1, ActionsQuiet
<1>3. /\ Updated(alarms[id], state).state # Normal
      /\ Updated(alarms[id], state).acknowledged \/ Updated(alarms[id], state).silenced
      => id \in handled'
  <2>1. CASE alarms[id].state = state
    <3>1. Updated(alarms[id], state) = [alarms[id] EXCEPT !.canSilence = state # Emergency]
      BY <1>1, <2>1, ConstantsAssumption DEF Updated, QuietAlarm, Alarm
    <3> QED BY <1>1, <2>1, <3>1 DEF Update, ManagerInv, ActionsEndWithTheAlarm, QuietAlarm, Alarm
  <2>2. CASE alarms[id].state # state
    BY <1>1, <2>2 DEF Updated, QuietAlarm, Alarm
  <2> QED BY <2>1, <2>2
<1>4. /\ Emit(Only(id, Updated(alarms[id], state)))
      /\ UNCHANGED <<precedes, notiKeys, issued, forCleaning>>
      /\ handled' \subseteq handled \cup {id} /\ handled \ {id} \subseteq handled'
  BY DEF Update
<1> QED BY <1>1, <1>2, <1>3, <1>4, OperationKeeps

LEMMA ActionKeeps ==
  ASSUME ManagerInv, NEW id \in Ids, Silence(id) \/ Acknowledge(id) \/ Clear(id)
  PROVE  ManagerInv'
<1>1. id \in DOMAIN alarms /\ alarms[id] \in QuietAlarm
  BY StoredQuiet DEF Silence, Acknowledge, Clear
<1>2. CASE Silence(id)
  BY <1>1, <1>2, ActionsQuiet, OperationKeeps DEF Silence
<1>3. CASE Acknowledge(id)
  BY <1>1, <1>3, ActionsQuiet, OperationKeeps DEF Acknowledge
<1>4. CASE Clear(id)
  BY <1>1, <1>4, ActionsQuiet, OperationKeeps DEF Clear
<1> QED BY <1>2, <1>3, <1>4

LEMMA SilenceAllKeeps ==
  ASSUME ManagerInv, SilenceAll
  PROVE  ManagerInv'
<1> DEFINE able == {id \in DOMAIN alarms : CanBeSilenced(alarms[id])}
           new == [id \in able |-> Silenced(alarms[id])]
<1>1. new \in [able -> QuietAlarm]
  BY StoredQuiet, ActionsQuiet
<1>2. /\ Emit(new) /\ handled' = handled \cup able
      /\ UNCHANGED <<precedes, notiKeys, issued, forCleaning>>
  BY DEF SilenceAll
<1>3. able \in SUBSET DOMAIN alarms /\ handled' \subseteq issued
  BY <1>2 DEF ManagerInv, TypeOK
<1> HIDE DEF able, new
<1> QED BY <1>1, <1>2, <1>3, OperatorKeeps

LEMMA AcknowledgeAllKeeps ==
  ASSUME ManagerInv, AcknowledgeAll
  PROVE  ManagerInv'
<1> DEFINE new == [id \in BeforeRefusal |-> Acknowledged(alarms[id])]
<1>1. BeforeRefusal \in SUBSET DOMAIN alarms
  BY DEF BeforeRefusal
<1>2. new \in [BeforeRefusal -> QuietAlarm]
  BY <1>1, StoredQuiet, ActionsQuiet
<1>3. /\ Emit(new) /\ handled' = handled \cup BeforeRefusal
      /\ UNCHANGED <<precedes, notiKeys, issued, forCleaning>>
  BY DEF AcknowledgeAll
<1>4. handled' \subseteq issued
  BY <1>1, <1>3 DEF ManagerInv, TypeOK
<1> HIDE DEF new
<1> QED BY <1>1, <1>2, <1>3, <1>4, OperatorKeeps

LEMMA CleanKeeps ==
  ASSUME ManagerInv, Clean
  PROVE  ManagerInv'
<1>1. PICK gone \in SUBSET DOMAIN alarms :
        /\ alarms' = [id \in DOMAIN alarms \ gone |-> alarms[id]]
        /\ precedes' = precedes \cap ((DOMAIN alarms') \X (DOMAIN alarms'))
        /\ forCleaning' = DOMAIN alarms \ gone
        /\ UNCHANGED <<notiKeys, issued, published, handled>>
  BY DEF Clean
<1>2. TypeOK'
  BY <1>1 DEF ManagerInv, TypeOK
<1>3. QuietOnceHandled' /\ ActionsEndWithTheAlarm' /\ PublishedIsCurrent'
  BY <1>1 DEF ManagerInv, TypeOK, QuietOnceHandled, ActionsEndWithTheAlarm,
              PublishedIsCurrent
<1> QED BY <1>2, <1>3 DEF ManagerInv

\* Every step keeps the invariants of the manager.
LEMMA ManagerStep == ManagerInv /\ [Next]_vars => ManagerInv'
<1> SUFFICES ASSUME ManagerInv, [Next]_vars PROVE ManagerInv'
  OBVIOUS
<1>1. CASE UNCHANGED vars
  BY <1>1 DEF vars, ManagerInv, TypeOK, QuietOnceHandled, ActionsEndWithTheAlarm,
              PublishedIsCurrent
<1>2. ASSUME NEW k \in Keys, NEW report \in Reports, Report(k, report) PROVE ManagerInv'
  BY <1>2, ReportKeeps
<1>3. ASSUME NEW id \in Ids, NEW state \in States, Raise(id, state) PROVE ManagerInv'
  BY <1>3, RaiseKeeps
<1>4. ASSUME NEW id \in Ids, NEW state \in States \cup {NoState}, Update(id, state)
      PROVE ManagerInv'
  BY <1>4, UpdateKeeps
<1>5. ASSUME NEW id \in Ids, Silence(id) \/ Acknowledge(id) \/ Clear(id)
      PROVE ManagerInv'
  BY <1>5, ActionKeeps
<1>6. CASE SilenceAll
  BY <1>6, SilenceAllKeeps
<1>7. CASE AcknowledgeAll
  BY <1>7, AcknowledgeAllKeeps
<1>8. CASE Clean
  BY <1>8, CleanKeeps
<1> QED BY <1>1, <1>2, <1>3, <1>4, <1>5, <1>6, <1>7, <1>8 DEF Next

LEMMA ManagerInvariant == Spec => []ManagerInv
BY InitManager, ManagerStep, PTL DEF Spec

-----------------------------------------------------------------------------
\* The state of the manager has its type.
THEOREM NotificationsTypeCorrect == Spec => []TypeOK
BY ManagerInvariant, PTL DEF ManagerInv

\* An acknowledged or silenced alarm makes no sound, whatever its source
\* reports afterwards and whatever other operations are carried out.
THEOREM HandledAlarmsAreQuiet == Spec => []QuietOnceHandled
BY ManagerInvariant, PTL DEF ManagerInv

\* No alarm starts out acknowledged or silenced by what was done about an
\* earlier one of the same notification.
THEOREM NewAlarmsAreUnhandled == Spec => []ActionsEndWithTheAlarm
BY ManagerInvariant, PTL DEF ManagerInv

\* Subscribers were sent every alarm as the manager has it.
THEOREM SubscribersAreCurrent == Spec => []PublishedIsCurrent
BY ManagerInvariant, PTL DEF ManagerInv

\* No step drops an alarm that is not normal, clean included.
THEOREM ActiveAlarmsAreKept == Spec => ActiveAlarmIsKept
<1>1. ASSUME ManagerInv, [Next]_vars
      PROVE  [\A id \in DOMAIN alarms :
                alarms[id].state # Normal => id \in DOMAIN alarms']_vars
  <2>1. CASE Clean
    BY <2>1 DEF Clean
  <2>2. ASSUME NEW new, Emit(new) PROVE DOMAIN alarms \subseteq DOMAIN alarms'
    BY <2>2 DEF Emit, Override
  <2>3. CASE Next /\ ~Clean
    BY <2>2, <2>3 DEF Next, Report, Raise, Update, Silence, SilenceAll, Acknowledge,
                      AcknowledgeAll, Clear
  <2>4. CASE UNCHANGED vars
    BY <2>4 DEF vars
  <2> QED BY <1>1, <2>1, <2>3, <2>4
<1> QED BY <1>1, ManagerInvariant, PTL DEF Spec, ActiveAlarmIsKept
=============================================================================
