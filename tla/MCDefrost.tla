------------------------------ MODULE MCDefrost ------------------------------
(* Instances of Defrost, with the history of its cycles.  A tick stands for  *)
(* a minute: MIN_ACTIVE_CHECK and the clamp's floor are 1, its ceiling 3, and *)
(* the thresholds of evap_temp leave a value below, between and above each.  *)
EXTENDS HeaterAlarm

Setting(type, mode, init, term, dur, delay) ==
  [type |-> type, counter_mode |-> mode, initiation |-> init, termination |-> term,
   interval |-> IF type = 0 THEN 4 ELSE 8, max_duration |-> dur,
   stabilize_time |-> delay, valve_delay |-> 1, equalize_time |-> delay,
   drip_time |-> delay, fan_delay |-> delay,
   end_temp |-> 1, demand_temp |-> 0, fad_temp |-> 0]

\* Every type; every initiation; both terminations; a duration below, inside
\* and above the clamp; delays of zero and of two ticks.
MCSettings == {Setting(0, 1, 0, 0, 2, 0), Setting(1, 1, 1, 0, 9, 2),
               Setting(2, 2, 2, 0, 2, 2), Setting(1, 1, 3, 1, 0, 0),
               Setting(2, 1, 0, 1, 3, 0), Setting(0, 2, 2, 1, 2, 2)}

\* A dead sensor reads NaN, which no comparison looks at.
MCSensor == {<<FALSE, 0>>} \cup ({TRUE} \X ((-1)..2))

\* Only the counter of the compressor's hours looks at the compressor. A call
\* under a lockout or a block aborts, or is like any other, so that one reading is
\* enough for these; both together act as the lockout alone.
MCInputs ==
  {in \in [lockout : BOOLEAN, compressor_blocked : BOOLEAN, compressor : BOOLEAN,
           sensor2_ok : BOOLEAN, evap_temp : (-1)..2, settings : MCSettings] :
     /\ <<in.sensor2_ok, in.evap_temp>> \in MCSensor
     /\ in.compressor => in.settings.counter_mode = 2
     /\ in.lockout \/ in.compressor_blocked =>
          /\ ~(in.lockout /\ in.compressor_blocked)
          /\ ~in.compressor /\ in.sensor2_ok /\ in.evap_temp = -1}

==============================================================================
