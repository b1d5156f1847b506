------------------------------- MODULE Alarms -------------------------------
(***************************************************************************)
(* ProtectionModule (modules/protection), its alarm monitors: high and low *)
(* temperature, the two sensors, the door with its compressor block, the   *)
(* condenser with its block, pulldown and rate of change; what suppresses  *)
(* them around a defrost, the reset command and the published summary.     *)
(*                                                                         *)
(* One step of Update is one call of on_update. The compressor side of the *)
(* module is in CompressorProtection and StartWindow; its alarms are an    *)
(* input here. Times are counted in calls.                                 *)
(***************************************************************************)
EXTENDS Integers, Sequences

CONSTANTS
  DT_MS,          \* what a call of the main loop passes as dt_ms: 10
  MIN_RATE_DT_MS, \* below it no rate of change is computed: 60
  CALLS_CAP,      \* where the model stops run_ms and the history variables
  Boards,         \* the sets of Equipment a board may have
  Inputs          \* what a call may read

Equipped == {"evap", "cond", "door", "compressor", "rate"}

\* The monitors of this module, and those with a delay.
Monitors == {"high_temp", "low_temp", "err1", "err2", "door", "condenser",
             "cond_block", "pulldown", "rate_rise"}
Delayed  == {"high_temp", "low_temp", "door"}
Others   == {"lockout", "comp_blocked", "short_cycle", "rapid_cycle", "continuous_run"}

Settings ==
  [high_alarm_delay : Nat, low_alarm_delay : Nat, door_delay : Nat,
   door_comp_delay : Nat, post_defrost_delay : Nat, pulldown_timeout : Nat,
   rate_duration : Nat, manual_reset : BOOLEAN]

\* air and cond are seen against their limits; "nan" is what a dead sensor leaves.
\* One level of evap, or of air, down is a drop by pulldown_min_drop. rising: the smoothed
\* rate is above max_rise_rate. reset: reset_alarms is raised. released: a forced
\* stop ends in this call, others: the alarms of the compressor side.
Readings ==
  [air : {"low", "ok", "high"}, sensor1_ok : BOOLEAN, sensor2_ok : BOOLEAN,
   evap : {"nan", "cold", "warm"}, cond : {"nan", "ok", "warm", "hot"},
   door_open : BOOLEAN, phase : {"none", "heating", "drying"},
   compressor : BOOLEAN, released : BOOLEAN, rising : BOOLEAN, reset : BOOLEAN,
   others : SUBSET Others, settings : Settings]

ASSUME AlarmsAssumption ==
  /\ DT_MS \in Nat \ {0} /\ MIN_RATE_DT_MS \in Nat
  /\ CALLS_CAP \in Nat
  /\ Boards \subseteq SUBSET Equipped
  /\ Inputs \subseteq Readings
  /\ \A in \in Inputs :
       /\ in.settings.high_alarm_delay <= CALLS_CAP
       /\ in.settings.post_defrost_delay <= CALLS_CAP
       /\ in.settings.pulldown_timeout < CALLS_CAP

VARIABLES
  fitted,         \* which equipment this board has: bindings and features
  active,         \* the monitors whose alarm is active
  pending_ms,     \* how long a delayed monitor has seen its condition
  suppression,    \* was_defrost_active_, post_defrost_suppression_ and its timer
  door_comp,      \* door_comp_timer_ms_ and door_comp_blocked_
  run,            \* comp_: prev_state, current_run_ms, temp_at_start, evap_at_start
  rate,           \* rate_: initialized, rising_duration_ms
  keys,           \* what is published
  hot_for,        \* history: calls in a row that should count for high_temp
  since_defrost,  \* history: calls since a defrost was last seen
  calm,           \* history: the suppression after that defrost has been served
  last            \* history: settings and effective reset of the last call

fields    == <<active, pending_ms, suppression, door_comp, run, rate>>
histories == <<hot_for, since_defrost, calm, last>>
vars == <<fitted, fields, keys, histories>>

Capped(n) == IF n < CALLS_CAP THEN n ELSE CALLS_CAP

-----------------------------------------------------------------------------
(* Suppression of the high temperature and rate alarms.                    *)

InDefrost(in) == in.phase # "none"

\* Mutant: the end of a defrost starts no suppression.
PostDefrostUnnoticed(in) ==
  LET begins == InDefrost(in) /\ ~suppression.was_defrost
      timer  == IF begins THEN 0 ELSE suppression.timer + 1
  IN  [was_defrost |-> InDefrost(in),
       on    |-> suppression.on /\ ~begins /\ timer < in.settings.post_defrost_delay,
       timer |-> IF suppression.on THEN timer ELSE 0]

PostDefrost(in) ==
  LET begins == InDefrost(in) /\ ~suppression.was_defrost
      ends   == ~InDefrost(in) /\ suppression.was_defrost
      on     == ends \/ (suppression.on /\ ~begins)
      timer  == (IF ends THEN 0 ELSE suppression.timer) + 1
  IN  [was_defrost |-> InDefrost(in),
       on    |-> on /\ timer < in.settings.post_defrost_delay,
       timer |-> IF on THEN timer ELSE 0]

SuppressHigh(in) == in.phase = "heating" \/ PostDefrost(in).on

-----------------------------------------------------------------------------
(* check_reset_command.                                                    *)

Resets(in) == in.reset /\ (active # {} \/ in.others # {})

ActiveAfterReset(in) == IF Resets(in) THEN {} ELSE active

PendingAfterReset(in, m) == IF Resets(in) THEN 0 ELSE pending_ms[m]

-----------------------------------------------------------------------------
(* The compressor's run, as far as the pulldown and rate monitors need it. *)

\* Equipment's on_init puts 0.0 under the key, sensor or not.
EvapTemp(in) ==
  IF "evap" \in fitted THEN in.evap ELSE "cold"

RunAfter(in) ==
  LET starts == in.compressor /\ ~run.prev_state
      before == IF starts \/ Resets(in) THEN 0 ELSE run.current_run
  IN  IF "compressor" \notin fitted THEN run
      ELSE [prev_state    |-> in.compressor,
            current_run   |-> IF in.released THEN 0
                              ELSE IF in.compressor THEN Capped(before + 1) ELSE before,
            temp_at_start |-> IF starts THEN in.air ELSE run.temp_at_start,
            evap_at_start |-> IF starts THEN EvapTemp(in) ELSE run.evap_at_start]

\* Whether a temperature is a level lower than it was; every comparison with NaN
\* is false.
Dropped(from, to) == <<from, to>> \in {<<"warm", "cold">>, <<"high", "ok">>,
                                      <<"high", "low">>, <<"ok", "low">>}

\* The key of the evaporator exists on every board, so the baseline is always
\* its temperature and never temp_at_start.
TooLittleDrop(in) ==
  LET start == RunAfter(in).evap_at_start
  IN  "nan" \notin {start, EvapTemp(in)} /\ ~Dropped(start, EvapTemp(in))

PulldownJudged(in) ==
  /\ "compressor" \in fitted /\ in.compressor /\ ~InDefrost(in)
  /\ RunAfter(in).current_run > in.settings.pulldown_timeout

RateWatched(in) == in.compressor /\ ~SuppressHigh(in) /\ in.sensor1_ok

RateKnown == DT_MS >= MIN_RATE_DT_MS

RateAfter(in) ==
  LET before == IF Resets(in) THEN [initialized |-> FALSE, rising |-> 0] ELSE rate
  IN  IF ~({"compressor", "rate"} \subseteq fitted) THEN before
      ELSE IF ~RateWatched(in)
      THEN [initialized |-> before.initialized /\ in.compressor /\ in.sensor1_ok, rising |-> 0]
      ELSE IF ~before.initialized THEN [before EXCEPT !.initialized = TRUE]
      ELSE IF ~RateKnown THEN before
      ELSE [before EXCEPT !.rising = IF in.rising THEN Capped(@ + 1) ELSE 0]

RateJudged(in) ==
  /\ {"compressor", "rate"} \subseteq fitted
  /\ RateWatched(in) /\ rate.initialized /\ ~Resets(in) /\ RateKnown

-----------------------------------------------------------------------------
(* The monitors: those that find their condition met, those that find it   *)
(* not met, and those that cannot tell do neither.                         *)

Bad(in) ==
  {m \in Monitors :
     \/ m = "high_temp"  /\ in.sensor1_ok /\ ~SuppressHigh(in) /\ in.air = "high"
     \/ m = "low_temp"   /\ in.sensor1_ok /\ in.air = "low"
     \/ m = "err1"       /\ ~in.sensor1_ok
     \/ m = "err2"       /\ "evap" \in fitted /\ ~in.sensor2_ok
     \/ m = "door"       /\ "door" \in fitted /\ in.door_open
     \/ m = "condenser"  /\ "cond" \in fitted /\ in.cond \in {"warm", "hot"}
     \/ m = "cond_block" /\ "cond" \in fitted /\ in.cond = "hot"
     \/ m = "pulldown"   /\ PulldownJudged(in) /\ TooLittleDrop(in)
     \/ m = "rate_rise"  /\ RateJudged(in) /\ in.rising
                         /\ RateAfter(in).rising >= in.settings.rate_duration}

Normal(in) ==
  {m \in Monitors :
     \/ m = "high_temp"  /\ in.sensor1_ok /\ ~SuppressHigh(in) /\ in.air # "high"
     \/ m = "low_temp"   /\ in.sensor1_ok /\ in.air # "low"
     \/ m = "err1"       /\ in.sensor1_ok
     \/ m = "err2"       /\ in.sensor2_ok
     \/ m = "door"       /\ "door" \in fitted /\ ~in.door_open
     \/ m = "condenser"  /\ "cond" \in fitted /\ in.cond = "ok"
     \/ m = "pulldown"   /\ (in.compressor => PulldownJudged(in) /\ ~TooLittleDrop(in))
     \/ m = "rate_rise"  /\ (RateWatched(in) => RateJudged(in) /\ ~in.rising)}

Delay(in, m) ==
  CASE m = "high_temp" -> in.settings.high_alarm_delay
    [] m = "low_temp"  -> in.settings.low_alarm_delay
    [] m = "door"      -> in.settings.door_delay

Pending(in, m) ==
  IF m \notin Bad(in) THEN 0
  ELSE IF m \in ActiveAfterReset(in) THEN PendingAfterReset(in, m)
  ELSE PendingAfterReset(in, m) + 1

\* Mutant: the delay must be exceeded.
RisesLate(in) ==
  {m \in Bad(in) : m \in Delayed => Pending(in, m) > Delay(in, m)}

Rises(in) ==
  {m \in Bad(in) : m \in Delayed => Pending(in, m) >= Delay(in, m)}

\* Mutant: the condenser block clears itself like the alarm below it.
FallsBlockToo(in) ==
  IF in.settings.manual_reset THEN {}
  ELSE Normal(in) \cup (IF "condenser" \in Normal(in) THEN {"cond_block"} ELSE {})

\* Nothing falls by itself under manual_reset, and the condenser block never.
Falls(in) == IF in.settings.manual_reset THEN {} ELSE Normal(in)

ActiveAfter(in) == (ActiveAfterReset(in) \ Falls(in)) \cup Rises(in)

DoorComp(in) ==
  IF "door" \notin fitted THEN door_comp
  ELSE IF ~in.door_open THEN [timer |-> 0, blocked |-> FALSE]
  ELSE [timer   |-> Capped(door_comp.timer + 1),
        blocked |-> door_comp.blocked \/ door_comp.timer + 1 >= in.settings.door_comp_delay]

-----------------------------------------------------------------------------
(* publish_alarms.                                                         *)

Priority ==
  <<"lockout", "comp_blocked", "cond_block", "err1", "condenser", "rate_rise",
    "high_temp", "pulldown", "short_cycle", "rapid_cycle", "low_temp",
    "continuous_run", "err2", "door">>

AlarmCode(alarms) ==
  IF alarms = {} THEN "none"
  ELSE Priority[CHOOSE i \in DOMAIN Priority :
                  /\ Priority[i] \in alarms
                  /\ \A j \in 1..(i - 1) : Priority[j] \notin alarms]

Published(alarms, others, blocked) ==
  [alarms |-> alarms, alarm_code |-> AlarmCode(alarms \cup others),
   door_comp_blocked |-> blocked]

-----------------------------------------------------------------------------
NoSettings ==
  [high_alarm_delay |-> 1, low_alarm_delay |-> 1, door_delay |-> 1,
   door_comp_delay |-> 1, post_defrost_delay |-> 1, pulldown_timeout |-> 1,
   rate_duration |-> 1, manual_reset |-> FALSE]

Init ==
  /\ fitted \in Boards
  /\ active = {}
  /\ pending_ms = [m \in Delayed |-> 0]
  /\ suppression = [was_defrost |-> FALSE, on |-> FALSE, timer |-> 0]
  /\ door_comp = [timer |-> 0, blocked |-> FALSE]
  /\ run = [prev_state |-> FALSE, current_run |-> 0, temp_at_start |-> "ok",
            evap_at_start |-> "cold"]
  /\ rate = [initialized |-> FALSE, rising |-> 0]
  /\ keys = Published({}, {}, FALSE)
  /\ hot_for = 0 /\ since_defrost = CALLS_CAP /\ calm = TRUE
  /\ last = [settings |-> NoSettings, reset |-> FALSE]

\* A call in which a room this warm is a fault: the sensor works, nothing heats,
\* and the time the room is given after a defrost is over.
CountsAsHot(in) ==
  /\ in.sensor1_ok /\ in.air = "high"
  /\ in.phase = "drying" \/ (in.phase = "none" /\ calm')

TrackHistory(in) ==
  /\ since_defrost' = IF InDefrost(in) THEN 0 ELSE Capped(since_defrost + 1)
  /\ calm' = (~InDefrost(in) /\ (calm \/ since_defrost' >= in.settings.post_defrost_delay))
  /\ hot_for' = IF ~CountsAsHot(in) THEN 0
                ELSE IF Resets(in) THEN 1 ELSE Capped(hot_for + 1)
  /\ last' = [settings |-> in.settings, reset |-> Resets(in)]

Update(in) ==
  /\ suppression' = PostDefrost(in)
  /\ active' = ActiveAfter(in)
  /\ pending_ms' = [m \in Delayed |-> Pending(in, m)]
  /\ door_comp' = DoorComp(in)
  /\ run' = RunAfter(in)
  /\ rate' = RateAfter(in)
  /\ keys' = Published(active', IF Resets(in) THEN {} ELSE in.others, door_comp'.blocked)
  /\ UNCHANGED fitted
  /\ TrackHistory(in)

Tick == \E in \in Inputs : Update(in)

\* restart_module: on_stop and on_init publish no alarm, the fields stay.
Restart ==
  /\ keys' = Published({}, {}, FALSE)
  /\ UNCHANGED <<fitted, fields, histories>>

Next == Tick \/ Restart

Spec == Init /\ [][Next]_vars

-----------------------------------------------------------------------------
(* Properties.                                                             *)

\* Every variable has its type.
TypeOK ==
  /\ fitted \in SUBSET Equipped
  /\ active \in SUBSET Monitors
  /\ pending_ms \in [Delayed -> Nat]
  /\ suppression \in [was_defrost : BOOLEAN, on : BOOLEAN, timer : Nat]
  /\ door_comp \in [timer : Nat, blocked : BOOLEAN]
  /\ run \in [prev_state : BOOLEAN, current_run : Nat, temp_at_start : {"low", "ok", "high"},
             evap_at_start : {"nan", "cold", "warm"}]
  /\ rate \in [initialized : BOOLEAN, rising : Nat]
  /\ hot_for \in 0..CALLS_CAP /\ since_defrost \in 0..CALLS_CAP /\ calm \in BOOLEAN
  /\ last \in [settings : Settings, reset : BOOLEAN]

\* A room that stays too warm for high_alarm_delay, once the heating phases of a
\* defrost and post_defrost_delay after it are over, has its alarm, whatever came
\* before and however the settings were changed meanwhile.
HighTempInTime ==
  hot_for > 0 /\ hot_for >= last.settings.high_alarm_delay => "high_temp" \in active

\* The alarm never rises sooner: no time before, during or shortly after a defrost
\* counts towards the delay (protection_module.cpp:244, BUG-007 at :156).
HighTempWhenDue ==
  [][("high_temp" \in active' /\ "high_temp" \notin active) =>
       hot_for' > 0 /\ hot_for' >= last'.settings.high_alarm_delay]_vars

\* Under manual_reset no alarm of any monitor ends but by the reset command, and
\* the condenser block never does, dead sensors and restarts of the module
\* included (docs/11_protection.md:142, protection_module.cpp:899).
AlarmsLatch ==
  [][\A m \in active \ active' :
       last'.reset \/ (~last'.settings.manual_reset /\ m # "cond_block")]_vars

=============================================================================
