\* Three alarms: the loop of acknowledgeAll stops at the second.
SPECIFICATION Spec
CONSTANTS
  Keys = {bilge}
  Ids = {id1, id2, id3}
  Normal = normal
  Emergency = emergency
  Alarming = alarm
  States = {normal, alarm, emergency}
  NoState = NoState
  NoValue = NoValue
  Reports <- MCReports
PROPERTY AcknowledgesAll
