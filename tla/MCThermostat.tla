---------------------------- MODULE MCThermostat ----------------------------
(* Instances of Thermostat: the setpoint is 0, its differential 1, and the   *)
(* night raises both thresholds by 1.  Durations are a few ticks.            *)
EXTENDS Thermostat

Setting(off, on, startup, son, soff, mode, delay) ==
  [setpoint |-> 0, differential |-> 1, night_setback |-> 1,
   min_off |-> off, min_on |-> on, startup_delay |-> startup,
   safety_on |-> son, safety_off |-> soff, cond_fan_delay |-> delay,
   evap_fan_mode |-> mode, fan_stop_temp |-> 0, fan_stop_hyst |-> 1]

MCSettings == {Setting(3, 2, 2, 2, 1, 1, 3), Setting(2, 3, 0, 1, 2, 2, 0)}

\* A temperature or a dead sensor.
Sensor(T) == {<<FALSE, 0>>} \cup {<<TRUE, t>> : t \in T}

Reading(a, e, night, defrost, lockout, comp, s) ==
  [sensor1_ok |-> a[1], air_temp |-> a[2], sensor2_ok |-> e[1], evap_temp |-> e[2],
   night |-> night, defrost |-> defrost, lockout |-> lockout, compressor |-> comp,
   settings |-> s]

\* Air at, between and above the thresholds; the evaporator on both sides of
\* the hysteresis band and inside it.  The night matters to a regulation, the
\* evaporator to fan mode 2.
MCRegulating ==
  {Reading(a, e, n, FALSE, FALSE, c, s) :
     a \in Sensor({0, 1, 2}), e \in Sensor({-1, 0, 1}), n \in BOOLEAN,
     c \in BOOLEAN, s \in MCSettings}

MCRelevant(in) == /\ in.night => in.sensor1_ok
                  /\ in.sensor2_ok => in.settings.evap_fan_mode = 2

\* A call in a defrost or a lockout looks at no temperature and at no setting.
MCInterrupted ==
  {Reading(<<FALSE, 0>>, <<FALSE, 0>>, FALSE, d, ~d, c, CHOOSE s \in MCSettings : TRUE) :
     d \in BOOLEAN, c \in BOOLEAN}

MCInputs == {in \in MCRegulating : MCRelevant(in)} \cup MCInterrupted

=============================================================================
