-------------------------- MODULE MCNotifications --------------------------
(* Instances of Notifications for TLC.                                     *)
EXTENDS Notifications

CONSTANTS Alarming

Plain(state) ==
  [state |-> state, method |-> {"visual", "sound"}, attributes |-> Absent]

\* An NMEA 2000 alert; n2k-signalk empties the method of a handled one.
Alert(state, acknowledged, silenced) ==
  [state |-> state,
   method |-> IF "Yes" \in {acknowledged, silenced} THEN {} ELSE {"visual", "sound"},
   attributes |->
     [acknowledgeStatus |-> acknowledged, temporarySilenceStatus |-> silenced,
      temporarySilenceSupport |-> "No", acknowledgeSupport |-> "Yes"]]

MCReports ==
  {NoValue} \cup {Plain(s) : s \in States}
    \cup {Alert(Alarming, a, s) : a, s \in {"Yes", "No"}}
    \cup {Alert(Normal, "Yes", "No")}
=============================================================================
