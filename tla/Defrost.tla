------------------------------- MODULE Defrost -------------------------------
(***************************************************************************)
(* DefrostModule (modules/defrost): the seven-phase defrost cycle.         *)
(*                                                                         *)
(* The module has no access to the relays: it leaves defrost.active and    *)
(* defrost.req.* in SharedState for Equipment.  One DefrostUpdate is one   *)
(* call of on_update; its parameter is what the call reads: the settings,  *)
(* which HTTP or MQTT may have changed since the last call, and the keys   *)
(* of Equipment and Protection.  The two command flags are variables: the  *)
(* module itself clears them.                                              *)
(***************************************************************************)
EXTENDS Integers

CONSTANTS
  HasRelay,            \* equipment.has_defrost_relay
  MIN_ACTIVE_CHECK,    \* ticks before the evaporator may end ACTIVE
  MAX_DURATION_FLOOR,  \* the clamp of max_duration: 1 minute ...
  MAX_DURATION_CEIL,   \* ... to 120 minutes, in ticks
  INTERVAL_WRAP,       \* the interval timer is an unsigned counter of this size
  DefrostInputs        \* what a call may read

Types == 0..2          \* 0 natural, 1 electric heater, 2 hot gas

\* Durations in ticks.  MQTT and HTTP clamp a write to the manifest's range.
Settings ==
  [type : Types, counter_mode : {1, 2}, initiation : 0..3, termination : 0..1,
   interval : 1..(INTERVAL_WRAP - 1), max_duration : Nat,
   stabilize_time : Nat, valve_delay : Nat, equalize_time : Nat,
   drip_time : Nat, fan_delay : Nat,
   end_temp : Int, demand_temp : Int, fad_temp : Int]

\* evap_temp means nothing (NaN) while sensor2_ok is false.
Readings ==
  [lockout : BOOLEAN, compressor_blocked : BOOLEAN, compressor : BOOLEAN,
   sensor2_ok : BOOLEAN, evap_temp : Int, settings : Settings]

ASSUME DefrostAssumption ==
  /\ HasRelay \in BOOLEAN
  /\ MIN_ACTIVE_CHECK \in Nat
  /\ MAX_DURATION_FLOOR \in Nat \ {0} /\ MAX_DURATION_CEIL \in Nat
  /\ MIN_ACTIVE_CHECK <= MAX_DURATION_FLOOR /\ MAX_DURATION_FLOOR <= MAX_DURATION_CEIL
  /\ INTERVAL_WRAP \in Nat \ {0}
  /\ DefrostInputs \subseteq Readings

VARIABLES
  phase,
  phase_timer,
  interval_timer,
  consecutive_timeouts,
  cycle_type,             \* active_defrost_type_
  defrost,                \* the keys defrost.active and defrost.req.*
  heater_alarm,           \* the key defrost.heater_alarm
  interval_key,           \* the key defrost.interval_timer
  manual_start,           \* the command flags
  manual_stop,
  relay_time,             \* history: ticks the relay has been requested in one go
  since_start             \* history: ticks since the last cycle started, or boot

counters == <<interval_timer, consecutive_timeouts, heater_alarm>>
defrostVars == <<phase, phase_timer, interval_timer, consecutive_timeouts, cycle_type,
                 defrost, heater_alarm, interval_key, manual_start, manual_stop,
                 relay_time, since_start>>

Phases == {"idle", "stabilize", "valve_open", "active", "equalize", "drip", "fad"}

-----------------------------------------------------------------------------
(* Requests, phases and timers.                                            *)

SetRequests(active, comp, heat, cond) ==
  [active |-> active, compressor |-> comp, defrost_relay |-> heat,
   evap_fan |-> FALSE, cond_fan |-> cond]

\* What enter_phase publishes.
PhaseRequests(p, type) ==
  CASE p = "stabilize"  -> SetRequests(TRUE, TRUE, FALSE, TRUE)
    [] p = "valve_open" -> SetRequests(TRUE, TRUE, TRUE, TRUE)
    [] p = "active"     -> SetRequests(TRUE, type = 2, type # 0, FALSE)
    [] p = "fad"        -> SetRequests(TRUE, TRUE, FALSE, TRUE)
    [] OTHER            -> SetRequests(p # "idle", FALSE, FALSE, FALSE)

EnterPhase(p, type) ==
  /\ phase' = p
  /\ phase_timer' = 0
  /\ cycle_type' = type
  /\ defrost' = PhaseRequests(p, type)

\* A timed phase: count this call, then leave when the limit is reached.
RunPhase(limit, next) ==
  IF phase_timer + 1 >= limit
  THEN EnterPhase(next, cycle_type)
  ELSE phase_timer' = phase_timer + 1 /\ UNCHANGED <<phase, cycle_type, defrost>>

\* Mutant: the clamp without its ceiling.
MaxDurationUnbounded(s) ==
  IF s.max_duration < MAX_DURATION_FLOOR THEN MAX_DURATION_FLOOR ELSE s.max_duration

MaxDuration(s) ==
  IF s.max_duration < MAX_DURATION_FLOOR THEN MAX_DURATION_FLOOR
  ELSE IF s.max_duration > MAX_DURATION_CEIL THEN MAX_DURATION_CEIL
  ELSE s.max_duration

\* publish_state: the key counts down, the field counts up.
PublishDefrostState(s) ==
  interval_key' = IF s.interval > interval_timer' THEN s.interval - interval_timer' ELSE 0

-----------------------------------------------------------------------------
(* IDLE: what starts a cycle.                                              *)

StartDefrost(s) ==
  LET type == IF s.type \in {1, 2} /\ ~HasRelay THEN 0 ELSE s.type
  IN  /\ interval_timer' = 0
      /\ EnterPhase(IF type = 2 THEN "stabilize" ELSE "active", type)

Counts(in) ==
  \/ in.settings.counter_mode = 1
  \/ in.settings.counter_mode = 2 /\ in.compressor

Counted(in) ==
  IF Counts(in) THEN (interval_timer + 1) % INTERVAL_WRAP ELSE interval_timer

TimerTrigger(in) ==
  in.settings.initiation \in {0, 2} /\ Counted(in) >= in.settings.interval

\* Mutant: demand without the quarter of the interval (before BUG-008).
DemandTriggerAtOnce(in) ==
  /\ in.settings.initiation \in {1, 2}
  /\ in.sensor2_ok
  /\ in.evap_temp < in.settings.demand_temp

DemandTrigger(in) ==
  /\ in.settings.initiation \in {1, 2}
  /\ in.sensor2_ok
  /\ Counted(in) >= in.settings.interval \div 4
  /\ in.evap_temp < in.settings.demand_temp

EvaporatorClean(in) ==
  /\ in.settings.termination = 0
  /\ in.sensor2_ok
  /\ in.evap_temp > in.settings.end_temp

Stay == UNCHANGED <<phase, phase_timer, cycle_type, defrost>>

UpdateIdle(in) ==
  IF manual_start
  THEN manual_start' = FALSE /\ StartDefrost(in.settings)
  ELSE /\ UNCHANGED manual_start
       /\ IF in.settings.initiation = 3
          THEN Stay /\ UNCHANGED interval_timer
          ELSE IF TimerTrigger(in) \/ DemandTrigger(in)
               THEN IF EvaporatorClean(in)
                    THEN Stay /\ interval_timer' = 0
                    ELSE StartDefrost(in.settings)
               ELSE Stay /\ interval_timer' = Counted(in)

-----------------------------------------------------------------------------
(* ACTIVE and FAD: ended by the evaporator or by the clock.                *)

\* end_temp reached, in temperature mode and not too early.
TempReached(in) ==
  /\ in.settings.termination = 0
  /\ phase_timer + 1 >= MIN_ACTIVE_CHECK
  /\ in.sensor2_ok
  /\ in.evap_temp >= in.settings.end_temp

FinishActive == EnterPhase(IF cycle_type = 2 THEN "equalize" ELSE "drip", cycle_type)

\* Three in a row raise the alarm; the model's counter stops there.
CountTimeout ==
  /\ consecutive_timeouts' =
       IF consecutive_timeouts < 3 THEN consecutive_timeouts + 1 ELSE 3
  /\ heater_alarm' = (heater_alarm \/ consecutive_timeouts' >= 3)

ActiveTimeout(in) ==
  /\ FinishActive
  /\ IF in.settings.termination = 0 THEN CountTimeout
     ELSE consecutive_timeouts' = 0 /\ UNCHANGED heater_alarm

UpdateActive(in) ==
  IF TempReached(in)
  THEN FinishActive /\ consecutive_timeouts' = 0 /\ heater_alarm' = FALSE
  ELSE IF phase_timer + 1 >= MaxDuration(in.settings)
  THEN ActiveTimeout(in)
  ELSE /\ phase_timer' = phase_timer + 1
       /\ UNCHANGED <<phase, cycle_type, defrost, consecutive_timeouts, heater_alarm>>

\* Mutant: FAD waits for the evaporator and for no clock.
UpdateFadByTemperature(in) ==
  IF in.sensor2_ok /\ in.evap_temp < in.settings.fad_temp
  THEN EnterPhase("idle", cycle_type)
  ELSE Stay

UpdateFad(in) ==
  IF in.sensor2_ok /\ in.evap_temp < in.settings.fad_temp
  THEN EnterPhase("idle", cycle_type)
  ELSE RunPhase(in.settings.fan_delay, "idle")

-----------------------------------------------------------------------------
(* on_update.  The aborts return early, before publish_state and before a  *)
(* stale manual_start is cleared.                                          *)

LockoutAborts(in) == in.lockout /\ phase # "idle"
BlockAborts(in) ==
  in.compressor_blocked /\ cycle_type = 2 /\ phase \in {"stabilize", "valve_open", "active"}

\* Mutant: the abort forgets the requests.
AbortSilently(in) ==
  /\ LockoutAborts(in) \/ BlockAborts(in)
  /\ phase' = "idle" /\ phase_timer' = 0
  /\ UNCHANGED <<cycle_type, defrost, counters, interval_key, manual_start, manual_stop>>

\* Mutant: an abort starts the count of timeouts again.
AbortForgets(in) ==
  /\ LockoutAborts(in) \/ BlockAborts(in)
  /\ EnterPhase("idle", cycle_type)
  /\ consecutive_timeouts' = 0
  /\ UNCHANGED <<interval_timer, heater_alarm, interval_key, manual_start, manual_stop>>

Abort(in) ==
  /\ LockoutAborts(in) \/ BlockAborts(in)
  /\ EnterPhase("idle", cycle_type)
  /\ UNCHANGED <<counters, interval_key, manual_start, manual_stop>>

ManualStop(in) ==
  /\ ~LockoutAborts(in) /\ ~BlockAborts(in)
  /\ manual_stop /\ phase # "idle"
  /\ manual_stop' = FALSE
  /\ EnterPhase("idle", cycle_type)
  /\ UNCHANGED <<counters, interval_key, manual_start>>

Idle(in) ==
  /\ phase = "idle"
  /\ manual_stop' = FALSE
  /\ UpdateIdle(in)
  /\ PublishDefrostState(in.settings)
  /\ UNCHANGED <<consecutive_timeouts, heater_alarm>>

\* A call that runs the phase it finds.
RunningPhase(in, p) ==
  /\ phase = p /\ ~manual_stop
  /\ ~LockoutAborts(in) /\ ~BlockAborts(in)
  /\ manual_start' = FALSE
  /\ UNCHANGED <<manual_stop, interval_timer>>
  /\ PublishDefrostState(in.settings)

Active(in) == RunningPhase(in, "active") /\ UpdateActive(in)

TimedPhase(in) ==
  /\ LET s == in.settings
     IN  \/ RunningPhase(in, "stabilize")  /\ RunPhase(s.stabilize_time, "valve_open")
         \/ RunningPhase(in, "valve_open") /\ RunPhase(s.valve_delay, "active")
         \/ RunningPhase(in, "equalize")   /\ RunPhase(s.equalize_time, "drip")
         \/ /\ RunningPhase(in, "drip")
            /\ RunPhase(s.drip_time, IF s.fan_delay = 0 THEN "idle" ELSE "fad")
         \/ RunningPhase(in, "fad")        /\ UpdateFad(in)
  /\ UNCHANGED <<consecutive_timeouts, heater_alarm>>

DefrostUpdate(in) ==
  /\ Abort(in) \/ ManualStop(in) \/ Idle(in) \/ Active(in) \/ TimedPhase(in)
  /\ relay_time' = IF defrost'.defrost_relay /\ defrost.defrost_relay
                   THEN relay_time + 1 ELSE 0
  /\ since_start' = IF phase = "idle" /\ phase' # "idle" THEN 0
                    ELSE IF since_start < INTERVAL_WRAP THEN since_start + 1
                    ELSE since_start

-----------------------------------------------------------------------------
DefrostInit ==
  /\ phase = "idle"
  /\ phase_timer = 0
  /\ interval_timer = 0
  /\ consecutive_timeouts = 0
  /\ cycle_type = 0
  /\ defrost = SetRequests(FALSE, FALSE, FALSE, FALSE)
  /\ heater_alarm = FALSE
  /\ interval_key = 0
  /\ manual_start = FALSE
  /\ manual_stop = FALSE
  /\ relay_time = 0
  /\ since_start = 0

\* The user, or Protection's icing trigger, raises a command flag.
RaiseStart ==
  /\ ~manual_start
  /\ manual_start' = TRUE
  /\ UNCHANGED <<phase, phase_timer, counters, cycle_type, defrost, interval_key,
                 manual_stop, relay_time, since_start>>

RaiseStop ==
  /\ ~manual_stop
  /\ manual_stop' = TRUE
  /\ UNCHANGED <<phase, phase_timer, counters, cycle_type, defrost, interval_key,
                 manual_start, relay_time, since_start>>

\* ModuleManager::restart_module: on_stop, then on_init on the same object.
\* The phase and its timer stay; the interval timer is read back from the key.
DefrostRestart ==
  /\ interval_timer' = interval_key
  /\ interval_key' = interval_timer'
  /\ defrost' = SetRequests(FALSE, FALSE, FALSE, FALSE)
  /\ heater_alarm' = FALSE
  /\ manual_start' = FALSE
  /\ manual_stop' = FALSE
  /\ relay_time' = 0
  /\ UNCHANGED <<phase, phase_timer, consecutive_timeouts, cycle_type, since_start>>

\* A power cycle: PersistService restores the settings and none of the counters.
DefrostReboot ==
  /\ phase' = "idle" /\ phase_timer' = 0
  /\ interval_timer' = 0 /\ interval_key' = 0
  /\ consecutive_timeouts' = 0 /\ heater_alarm' = FALSE
  /\ cycle_type' = 0
  /\ defrost' = SetRequests(FALSE, FALSE, FALSE, FALSE)
  /\ manual_start' = FALSE /\ manual_stop' = FALSE
  /\ relay_time' = 0 /\ since_start' = 0

Tick == \E in \in DefrostInputs : DefrostUpdate(in)
DefrostNext == Tick \/ RaiseStart \/ RaiseStop

DefrostSpec == DefrostInit /\ [][DefrostNext]_defrostVars

\* The same with the watchdog's restarts and with power cycles.
DefrostRestartSpec == DefrostInit /\ [][DefrostNext \/ DefrostRestart \/ DefrostReboot]_defrostVars

-----------------------------------------------------------------------------
(* Properties.                                                             *)

\* Every variable has its type.
DefrostTypeOK ==
  /\ phase \in Phases
  /\ phase_timer \in Nat
  /\ interval_timer \in 0..(INTERVAL_WRAP - 1)
  /\ consecutive_timeouts \in 0..3
  /\ cycle_type \in Types
  /\ defrost \in [active : BOOLEAN, compressor : BOOLEAN, defrost_relay : BOOLEAN,
                  evap_fan : BOOLEAN, cond_fan : BOOLEAN]
  /\ heater_alarm \in BOOLEAN
  /\ interval_key \in 0..(INTERVAL_WRAP - 1)
  /\ manual_start \in BOOLEAN /\ manual_stop \in BOOLEAN
  /\ relay_time \in Nat
  /\ since_start \in 0..INTERVAL_WRAP

\* What Equipment reads is always the request of the running phase for the type
\* the cycle was started with, whatever the settings have become since.
RequestsMatchPhase == defrost = PhaseRequests(phase, cycle_type)

\* The heater is never requested for longer than the hard ceiling of the clamp,
\* even if the settings are rewritten on every tick of the cycle (M1-fix).
HeaterCeiling ==
  cycle_type = 1 /\ defrost.defrost_relay => relay_time < MAX_DURATION_CEIL

\* A cycle keeps its type to the end (BUG-002), and a hot-gas cycle opens the
\* valve only out of STABILIZE and restarts the compressor only after EQUALIZE.
CycleOrder ==
  [][/\ phase # "idle" => cycle_type' = cycle_type
     /\ phase' # phase /\ cycle_type' = 2 /\ phase' # "idle" =>
          <<phase, phase'>> \in {<<"idle", "stabilize">>, <<"stabilize", "valve_open">>,
                                <<"valve_open", "active">>, <<"active", "equalize">>,
                                <<"equalize", "drip">>, <<"drip", "fad">>}]_defrostVars

\* An automatic start comes no sooner than a quarter of the interval after the
\* previous start, whatever aborts, skips and settings changes lie between
\* (BUG-008).
RestBetweenCycles ==
  [][phase = "idle" /\ phase' # "idle" /\ ~manual_start
       => \A in \in DefrostInputs :
            Idle(in) => since_start + 1 >= in.settings.interval \div 4]_defrostVars

\* Every cycle comes back to IDLE: no combination of settings, sensor failures
\* and commands keeps the unit in defrost.
CycleEnds == phase # "idle" ~> phase = "idle"

===============================================================================
