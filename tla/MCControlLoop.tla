--------------------------- MODULE MCControlLoop ---------------------------
(* Instances of ControlLoop: every delay is a few passes, a compressor may   *)
(* still be held on, or off, when a defrost starts.                          *)
EXTENDS ControlLoop

MCBound == {"compressor", "defrost_relay", "cond_fan"}

\* Manual initiation: a command at any pass stands for the triggers as well.
MCSettings ==
  [type |-> 0, counter_mode |-> 1, initiation |-> 3, termination |-> 0,
   interval |-> 2, max_duration |-> 2,
   stabilize_time |-> 1, valve_delay |-> 1, equalize_time |-> 1,
   drip_time |-> 1, fan_delay |-> 1,
   end_temp |-> 1, demand_temp |-> -1, fad_temp |-> 0]

\* The types with a relay; a natural defrost only stops the compressor.
MCAllTypes == {1, 2}
MCBoards   == {{}}    \* relays on pins

NoProtection == [lockout |-> FALSE, compressor_blocked |-> FALSE,
                 condenser_block |-> FALSE, door_comp_blocked |-> FALSE]
\* The door's block acts as the condenser's does.
MCProtection ==
  {NoProtection} \cup {[NoProtection EXCEPT ![k] = TRUE] :
                        k \in {"lockout", "compressor_blocked", "condenser_block"}}

\* A dead sensor, ice, and warm enough to end a defrost.
MCEvap == {[ok |-> FALSE, temp |-> 0], [ok |-> TRUE, temp |-> -1], [ok |-> TRUE, temp |-> 1]}

=============================================================================
