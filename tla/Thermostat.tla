----------------------------- MODULE Thermostat -----------------------------
(***************************************************************************)
(* ThermostatModule (modules/thermostat): STARTUP, IDLE, COOLING and       *)
(* SAFETY_RUN, the compressor request and the two fan requests.            *)
(*                                                                         *)
(* The module leaves thermostat.req.* in SharedState for Equipment and     *)
(* reads back equipment.compressor, the relay's actual state.  One step of *)
(* Update is one call of on_update; its parameter is what the call reads.  *)
(* Durations are in calls.                                                 *)
(***************************************************************************)
EXTENDS Integers

CONSTANTS
  HasEvapFan,        \* feature fan_control
  HasEvapTemp,       \* feature fan_temp_control
  HasCondFan,        \* feature condenser_fan
  TIMER_SATISFIED,   \* where the compressor timers saturate
  Inputs             \* what a call may read

Settings ==
  [setpoint : Int, differential : Int, night_setback : Int,
   min_off : Nat, min_on : Nat, startup_delay : Nat,
   safety_on : Nat, safety_off : Nat, cond_fan_delay : Nat,
   evap_fan_mode : 0..2, fan_stop_temp : Int, fan_stop_hyst : Int]

\* A temperature means nothing (NaN) while its sensor is not ok.
Readings ==
  [sensor1_ok : BOOLEAN, air_temp : Int, sensor2_ok : BOOLEAN, evap_temp : Int,
   night : BOOLEAN, defrost : BOOLEAN, lockout : BOOLEAN, compressor : BOOLEAN,
   settings : Settings]

\* The manifest keeps every delay that a saturated timer is compared with
\* below the saturation value.
ASSUME ThermostatAssumption ==
  /\ HasEvapFan \in BOOLEAN /\ HasEvapTemp \in BOOLEAN /\ HasCondFan \in BOOLEAN
  /\ TIMER_SATISFIED \in Nat
  /\ Inputs \subseteq Readings
  /\ \A in \in Inputs :
       /\ in.settings.min_off <= TIMER_SATISFIED
       /\ in.settings.min_on <= TIMER_SATISFIED
       /\ in.settings.startup_delay <= TIMER_SATISFIED
       /\ in.settings.cond_fan_delay <= TIMER_SATISFIED

VARIABLES
  fsm,                     \* the state machine's fields, see FsmType
  evap_fan_on,             \* the key thermostat.req.evap_fan
  cond_fan_on,             \* the key thermostat.req.cond_fan
  cond_fan_delay_active,
  cond_fan_off_timer,
  was_defrost_active,
  was_lockout_active,
  request_age              \* history: ticks since the compressor request changed

fans == <<evap_fan_on, cond_fan_on, cond_fan_delay_active, cond_fan_off_timer>>
vars == <<fsm, fans, was_defrost_active, was_lockout_active, request_age>>

States == {"startup", "idle", "cooling", "safety_run"}
Timer  == 0..TIMER_SATISFIED

\* compressor_on is also the key thermostat.req.compressor.
FsmType ==
  [state : States, state_timer : Timer, compressor_on : BOOLEAN,
   comp_on_time : Timer, comp_off_time : Timer,
   safety_phase_on : BOOLEAN, safety_timer : Nat]

Saturate(t) == IF t < TIMER_SATISFIED THEN t + 1 ELSE TIMER_SATISFIED

-----------------------------------------------------------------------------
(* The helpers of the state machine, each from a record to a record.       *)

\* Mutant: a new request does not start the timers afresh.
RequestCompressorTimersKept(m, on) == [m EXCEPT !.compressor_on = on]

RequestCompressor(m, on) ==
  IF m.compressor_on = on THEN m
  ELSE [m EXCEPT !.compressor_on = on, !.comp_on_time = 0, !.comp_off_time = 0]

\* A no-op when the state is entered already.
EnterState(m, s) ==
  LET entered == [m EXCEPT !.state = s, !.state_timer = 0]
  IN  IF m.state = s THEN m
      ELSE IF s = "safety_run"
      THEN RequestCompressor([entered EXCEPT !.safety_phase_on = TRUE,
                                             !.safety_timer = 0], TRUE)
      ELSE RequestCompressor(entered, s = "cooling")

\* The first call after a defrost starts from IDLE with fresh timers.
DefrostEnded(m) ==
  IF was_defrost_active
  THEN [m EXCEPT !.state = "idle", !.state_timer = 0,
                 !.comp_on_time = 0, !.comp_off_time = 0]
  ELSE m

\* The timers follow the relay, not the request (BUG-009).  state_timer is
\* read in STARTUP only and its cap is the model's.
CountTime(m, in) ==
  [m EXCEPT !.state_timer   = Saturate(@),
            !.comp_on_time  = IF in.compressor THEN Saturate(@) ELSE @,
            !.comp_off_time = IF in.compressor THEN @ ELSE Saturate(@)]

Timed(in) == CountTime(DefrostEnded(fsm), in)

\* Mutant: the state is not entered again after a lockout.
LockoutClearedUnnoticed(m) == m

\* The first call after a lockout enters the interrupted state once more.
LockoutCleared(m) ==
  IF was_lockout_active THEN EnterState([m EXCEPT !.state = "startup"], m.state) ELSE m

-----------------------------------------------------------------------------
(* Regulation and safety run.                                              *)

EffectiveSetpoint(in) ==
  in.settings.setpoint + (IF in.night THEN in.settings.night_setback ELSE 0)

Warm(in) == in.air_temp >= EffectiveSetpoint(in) + in.settings.differential
Cold(in) == in.air_temp <= EffectiveSetpoint(in)

Regulation(m, in) ==
  IF m.state = "idle" /\ Warm(in) /\ m.comp_off_time >= in.settings.min_off
  THEN EnterState(m, "cooling")
  ELSE IF m.state = "cooling" /\ Cold(in) /\ m.comp_on_time >= in.settings.min_on
  THEN EnterState(m, "idle")
  ELSE m

\* Mutant: the phase is not flipped when the request is.
SafetyRunOnce(m, in) ==
  LET limit == IF m.safety_phase_on THEN in.settings.safety_on ELSE in.settings.safety_off
  IN  IF m.safety_timer + 1 >= limit
      THEN RequestCompressor([m EXCEPT !.safety_timer = 0], ~m.safety_phase_on)
      ELSE [m EXCEPT !.safety_timer = @ + 1]

SafetyRun(m, in) ==
  LET limit == IF m.safety_phase_on THEN in.settings.safety_on ELSE in.settings.safety_off
  IN  IF m.safety_timer + 1 >= limit
      THEN RequestCompressor([m EXCEPT !.safety_phase_on = ~@, !.safety_timer = 0],
                             ~m.safety_phase_on)
      ELSE [m EXCEPT !.safety_timer = @ + 1]

StateMachine(m, in) ==
  CASE m.state = "startup" ->
         IF m.state_timer >= in.settings.startup_delay THEN EnterState(m, "idle") ELSE m
    [] m.state \in {"idle", "cooling"} ->
         IF in.sensor1_ok THEN Regulation(m, in) ELSE EnterState(m, "safety_run")
    [] m.state = "safety_run" ->
         IF in.sensor1_ok THEN EnterState(m, "idle") ELSE SafetyRun(m, in)

-----------------------------------------------------------------------------
(* Fans, after the state machine: they look at the request just made.      *)

\* Mode 2 is a hysteresis on the evaporator; without its sensor, mode 1.
UpdateEvapFan(in) ==
  LET s == in.settings
      byTemp == IF evap_fan_on THEN in.evap_temp <= s.fan_stop_temp
                ELSE in.evap_temp <= s.fan_stop_temp - s.fan_stop_hyst
  IN  evap_fan_on' =
        IF ~HasEvapFan THEN evap_fan_on
        ELSE IF s.evap_fan_mode = 0 THEN TRUE
        ELSE IF s.evap_fan_mode = 2 /\ HasEvapTemp /\ in.sensor2_ok THEN byTemp
        ELSE fsm'.compressor_on

\* Mutant: the run-on is one call short.
RunOnShort(in, timer) ==
  IF timer + 2 >= in.settings.cond_fan_delay
  THEN cond_fan_on' = FALSE /\ cond_fan_delay_active' = FALSE
  ELSE cond_fan_delay_active' = TRUE /\ UNCHANGED cond_fan_on

\* The condenser fan runs on for cond_fan_delay after the request is dropped.
RunOn(in, timer) ==
  IF timer + 1 >= in.settings.cond_fan_delay
  THEN cond_fan_on' = FALSE /\ cond_fan_delay_active' = FALSE
  ELSE cond_fan_delay_active' = TRUE /\ UNCHANGED cond_fan_on

UpdateCondFan(in, active, timer) ==
  IF HasCondFan /\ fsm'.compressor_on
  THEN cond_fan_on' = TRUE /\ cond_fan_delay_active' = FALSE /\ cond_fan_off_timer' = 0
  ELSE IF HasCondFan /\ (active \/ cond_fan_on)
  THEN LET t == IF active THEN timer ELSE 0
       IN  RunOn(in, t) /\ cond_fan_off_timer' = t + 1
  ELSE /\ cond_fan_delay_active' = active
       /\ cond_fan_off_timer' = timer
       /\ UNCHANGED cond_fan_on

FansOff == evap_fan_on' = FALSE /\ cond_fan_on' = FALSE

-----------------------------------------------------------------------------
Init ==
  /\ fsm = [state |-> "startup", state_timer |-> 0, compressor_on |-> FALSE,
            comp_on_time |-> 0, comp_off_time |-> TIMER_SATISFIED,
            safety_phase_on |-> FALSE, safety_timer |-> 0]
  /\ evap_fan_on = FALSE /\ cond_fan_on = FALSE
  /\ cond_fan_delay_active = FALSE /\ cond_fan_off_timer = 0
  /\ was_defrost_active = FALSE /\ was_lockout_active = FALSE
  /\ request_age = TIMER_SATISFIED

\* A defrost freezes everything; its first call also drops the requests.
Paused(in) ==
  /\ in.defrost
  /\ was_defrost_active' = TRUE
  /\ IF was_defrost_active
     THEN UNCHANGED <<fsm, evap_fan_on, cond_fan_on>>
     ELSE fsm' = RequestCompressor(fsm, FALSE) /\ FansOff
  /\ UNCHANGED <<cond_fan_delay_active, cond_fan_off_timer, was_lockout_active>>

DelayActive == cond_fan_delay_active /\ ~was_defrost_active
OffTimer    == IF was_defrost_active THEN 0 ELSE cond_fan_off_timer

\* A lockout drops the requests and keeps the state.
LockedOut(in) ==
  /\ ~in.defrost /\ in.lockout
  /\ fsm' = RequestCompressor(Timed(in), FALSE)
  /\ FansOff
  /\ cond_fan_delay_active' = DelayActive
  /\ cond_fan_off_timer' = OffTimer
  /\ was_defrost_active' = FALSE
  /\ was_lockout_active' = TRUE

Regulating(in) ==
  /\ ~in.defrost /\ ~in.lockout
  /\ fsm' = StateMachine(LockoutCleared(Timed(in)), in)
  /\ UpdateEvapFan(in)
  /\ UpdateCondFan(in, DelayActive, OffTimer)
  /\ was_defrost_active' = FALSE
  /\ was_lockout_active' = FALSE

TrackRequest ==
  request_age' = IF fsm'.compressor_on # fsm.compressor_on THEN 0 ELSE Saturate(request_age)

Update(in) ==
  /\ Paused(in) \/ LockedOut(in) \/ Regulating(in)
  /\ TrackRequest

\* on_message(SYSTEM_SAFE_MODE) drops the requests, and so does on_stop when the
\* watchdog restarts the module: on_init then resets none of these fields.
DropRequests ==
  /\ fsm' = RequestCompressor(fsm, FALSE)
  /\ FansOff
  /\ TrackRequest
  /\ UNCHANGED <<cond_fan_delay_active, cond_fan_off_timer,
                 was_defrost_active, was_lockout_active>>

Tick == \E in \in Inputs : Update(in)

Spec     == Init /\ [][Tick]_vars
FairSpec == Spec /\ WF_vars(Tick)

\* The same with safe mode and with the watchdog's restarts.
DropSpec == Init /\ [][Tick \/ DropRequests]_vars

-----------------------------------------------------------------------------
(* Properties.                                                             *)

\* Every variable has its type.
TypeOK ==
  /\ fsm \in FsmType
  /\ evap_fan_on \in BOOLEAN /\ cond_fan_on \in BOOLEAN
  /\ cond_fan_delay_active \in BOOLEAN /\ cond_fan_off_timer \in Nat
  /\ was_defrost_active \in BOOLEAN /\ was_lockout_active \in BOOLEAN
  /\ request_age \in Timer

\* Outside a pause the request is the one the state stands for, although a
\* defrost and a lockout drop it behind the state machine's back.
RequestMatchesState ==
  ~was_defrost_active /\ ~was_lockout_active
    => (fsm.compressor_on <=> \/ fsm.state = "cooling"
                              \/ fsm.state = "safety_run" /\ fsm.safety_phase_on)

\* The calls without a request up to and including the present one.
OffCalls == IF fsm.compressor_on THEN 1 ELSE request_age + 2

\* The condenser fan stops cond_fan_delay after the request was dropped or
\* later, unless a defrost or a lockout takes everything off; a run-on that a
\* lockout interrupted never shortens the next one.  The delay counts the call
\* that drops the request and the call that stops the fan.
CondFanRunsOn ==
  [][cond_fan_on /\ ~cond_fan_on' =>
       \A in \in Inputs :
         \/ in.defrost \/ in.lockout
         \/ OffCalls >= in.settings.cond_fan_delay
         \/ ~Update(in)]_vars

\* A regulated start follows min_off ticks without a request, and a regulated
\* stop min_on ticks with one, across defrosts, lockouts and safety runs.
RegulatedStart == fsm.state = "idle" /\ fsm'.state = "cooling"
RegulatedStop  == fsm.state = "cooling" /\ fsm'.state = "idle" /\ ~was_defrost_active
RegulationRests ==
  [][RegulatedStart \/ RegulatedStop =>
       \A in \in Inputs :
         \/ RegulatedStart /\ request_age + 1 >= in.settings.min_off
         \/ RegulatedStop  /\ request_age + 1 >= in.settings.min_on
         \/ ~Update(in)]_vars

\* A room that stays warm gets the compressor back again and again, as long as
\* the relay does not run unasked: neither the startup delay, nor a past
\* defrost, lockout or sensor failure leaves the thermostat waiting.
StaysWarm(in) ==
  /\ ~in.defrost /\ ~in.lockout /\ in.sensor1_ok /\ Warm(in)
  /\ in.compressor => fsm.compressor_on
WarmRoomCools ==
  <>[][\E in \in Inputs : StaysWarm(in) /\ Update(in)]_vars => []<>fsm.compressor_on

\* With a dead air sensor the compressor is asked to cycle forever.
SensorDead(in) == ~in.defrost /\ ~in.lockout /\ ~in.sensor1_ok
SafetyRunCycles ==
  <>[][\E in \in Inputs : SensorDead(in) /\ Update(in)]_vars
    => []<>fsm.compressor_on /\ []<>~fsm.compressor_on

===============================================================================
