------------------------------- MODULE MCAlarms -------------------------------
(* Instances of Alarms: four boards, each with one group of equipment beside  *)
(* the room's sensor, as the code relates no two groups. The readings vary     *)
(* accordingly. Delays of one and two calls, suppression of two and three.     *)
EXTENDS Alarms

MCBoards == {{"door"}, {"cond"}, {"compressor", "evap"}, {"compressor", "rate"}}

Setting(delay, post, manual) ==
  [high_alarm_delay |-> delay, low_alarm_delay |-> delay, door_delay |-> 2,
   door_comp_delay |-> 3, post_defrost_delay |-> post, pulldown_timeout |-> 1,
   rate_duration |-> 1, manual_reset |-> manual]

MCSettings == {Setting(2, 2, FALSE), Setting(1, 3, TRUE)}

Calm(s) ==
  [air |-> "ok", sensor1_ok |-> TRUE, sensor2_ok |-> TRUE, evap |-> "warm",
   cond |-> "ok", door_open |-> FALSE, phase |-> "none", compressor |-> FALSE,
   released |-> FALSE, rising |-> FALSE, reset |-> FALSE, others |-> {}, settings |-> s]

MCInputs ==
  UNION {
    {[Calm(s) EXCEPT !.air = a, !.phase = p] :
        a \in {"ok", "high"}, p \in {"none", "heating", "drying"}}
    \cup {[Calm(s) EXCEPT !.air = "low"], [Calm(s) EXCEPT !.sensor1_ok = FALSE],
          [Calm(s) EXCEPT !.sensor2_ok = FALSE, !.air = "high"],
          [Calm(s) EXCEPT !.air = "high", !.reset = TRUE],
          [Calm(s) EXCEPT !.others = {"lockout"}, !.reset = TRUE]}
    \cup {[Calm(s) EXCEPT !.cond = c] : c \in {"nan", "warm", "hot"}}
    \cup {[Calm(s) EXCEPT !.door_open = TRUE, !.air = a] : a \in {"ok", "high"}}
    \cup {[Calm(s) EXCEPT !.compressor = TRUE, !.air = a, !.evap = "cold"] : a \in {"ok", "high"}}
    \cup {[Calm(s) EXCEPT !.compressor = TRUE, !.evap = e] : e \in {"nan", "warm"}}
    \cup {[Calm(s) EXCEPT !.compressor = TRUE, !.rising = TRUE, !.air = "high"],
          [Calm(s) EXCEPT !.compressor = TRUE, !.released = TRUE]} : s \in MCSettings}

===============================================================================
