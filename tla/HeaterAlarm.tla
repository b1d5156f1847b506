----------------------------- MODULE HeaterAlarm -----------------------------
(***************************************************************************)
(* Defrost beside a history of how its last cycles ended: what the alarm   *)
(* for a failed heater or sensor has to tell.  The history is kept from    *)
(* what the cycles did, not from the counter the module keeps, and         *)
(* constrains no step.                                                     *)
(***************************************************************************)
EXTENDS Defrost

VARIABLE outcomes     \* history: how the last three complete cycles ended, latest first

heaterAlarmVars == <<defrostVars, outcomes>>

Outcomes == {"none", "warm", "cold", "timer"}

\* A cycle is complete when ACTIVE hands over to what follows it; an abort or a
\* stop goes back to IDLE instead.
Completes == phase = "active" /\ phase' \in {"equalize", "drip"}

\* Warm: the evaporator was at end_temp.  Cold: in temperature mode and it was
\* not, or nobody knows.
Outcome(in) ==
  IF in.settings.termination = 1 THEN "timer"
  ELSE IF in.sensor2_ok /\ in.evap_temp >= in.settings.end_temp THEN "warm"
  ELSE "cold"

Record(in) ==
  outcomes' = IF Completes THEN <<Outcome(in), outcomes[1], outcomes[2]>> ELSE outcomes

Forget == outcomes' = <<"none", "none", "none">>

HeaterAlarmInit == DefrostInit /\ outcomes = <<"none", "none", "none">>

HeaterAlarmTick == \E in \in DefrostInputs : DefrostUpdate(in) /\ Record(in)

HeaterAlarmNext ==
  \/ HeaterAlarmTick
  \/ (RaiseStart \/ RaiseStop) /\ UNCHANGED outcomes

HeaterAlarmSpec     == HeaterAlarmInit /\ [][HeaterAlarmNext]_heaterAlarmVars
HeaterAlarmFairSpec == HeaterAlarmSpec /\ WF_heaterAlarmVars(HeaterAlarmTick)

\* The same with the watchdog's restarts and with power cycles.
HeaterAlarmRestart ==
  \/ DefrostRestart /\ UNCHANGED outcomes
  \/ DefrostReboot /\ Forget

HeaterAlarmRestartSpec ==
  HeaterAlarmInit /\ [][HeaterAlarmNext \/ HeaterAlarmRestart]_heaterAlarmVars

-----------------------------------------------------------------------------
AllCold(last) == \A i \in 1..3 : last[i] = "cold"

\* The heater alarm tells that the last three complete cycles left the evaporator
\* cold: it comes up with the third, whatever aborts, stops and restarts of the
\* module lie between them, never comes up otherwise, and then stays up until a
\* cycle ends warm, however many are aborted or end by the timer before that.
\* Only a restart, whose on_init clears the key, takes it down as well.
HeaterAlarmTells ==
  [][/\ Completes /\ AllCold(outcomes') => heater_alarm'
     /\ ~heater_alarm /\ heater_alarm' => Completes /\ AllCold(outcomes')
     /\ heater_alarm /\ ~heater_alarm' =>
          \/ Completes /\ outcomes'[1] = "warm"
          \/ DefrostRestart \/ DefrostReboot]_heaterAlarmVars

===============================================================================
