\* One notification of a device and one of the API (or two of the API).
SPECIFICATION FairSpec
CONSTANTS
  Keys = {bilge}
  Ids = {id1, id2}
  Normal = normal
  Emergency = emergency
  Alarming = alarm
  States = {normal, alarm, emergency}
  NoState = NoState
  NoValue = NoValue
  Reports <- MCReports
INVARIANTS TypeOK QuietOnceHandled ActionsEndWithTheAlarm PublishedIsCurrent
PROPERTIES ActiveAlarmIsKept NormalAlarmIsDropped
