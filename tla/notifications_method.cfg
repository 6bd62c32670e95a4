\* An alarm is silenced, then updated: the documented method does not follow.
SPECIFICATION Spec
CONSTANTS
  Keys = {bilge}
  Ids = {id1, id2}
  Normal = normal
  Emergency = emergency
  Alarming = alarm
  States = {normal, alarm, emergency}
  NoState = NoState
  NoValue = NoValue
  Reports <- MCReports
INVARIANT UnhandledAlarmSounds
