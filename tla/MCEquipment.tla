----------------------------- MODULE MCEquipment -----------------------------
(* Instances of Equipment: the requests the other modules really publish.   *)
EXTENDS Equipment

MCThermostat == [compressor : BOOLEAN, evap_fan : BOOLEAN, cond_fan : {FALSE}]

DefrostKey(active, comp, heat, cond) ==
  [active |-> active, compressor |-> comp, defrost_relay |-> heat,
   evap_fan |-> FALSE, cond_fan |-> cond]

\* One record per phase of DefrostModule::enter_phase, and idle.
MCDefrost == {DefrostKey(FALSE, FALSE, FALSE, FALSE),   \* idle
              DefrostKey(TRUE,  TRUE,  FALSE, TRUE),    \* stabilize, fad
              DefrostKey(TRUE,  TRUE,  TRUE,  TRUE),    \* valve_open
              DefrostKey(TRUE,  TRUE,  TRUE,  FALSE),   \* active, hot gas
              DefrostKey(TRUE,  FALSE, TRUE,  FALSE),   \* active, heater
              DefrostKey(TRUE,  FALSE, FALSE, FALSE)}   \* natural, equalize, drip

\* A lockout, one block at a time, or nothing.
MCProtection ==
  {p \in ProtectionKeys :
     \A k, l \in DOMAIN p : p[k] /\ p[l] => k = l}

\* A tick outside a defrost looks at no type, one inside at no thermostat.
MCInputs ==
  [thermostat : MCThermostat, defrost : {DefrostKey(FALSE, FALSE, FALSE, FALSE)},
   protection : MCProtection, light : BOOLEAN, defrost_type : {0}]
  \cup
  [thermostat : {[compressor |-> FALSE, evap_fan |-> FALSE, cond_fan |-> FALSE]},
   defrost : {d \in MCDefrost : d.active}, protection : MCProtection, light : {TRUE},
   defrost_type : DefrostTypes]

MCBound == {"compressor", "defrost_relay", "evap_fan", "light"}

\* Relays on pins of the controller; one expander for all of them, as on the
\* kc868a6; the compressor on a pin beside an expander.
MCBoards == {{}, MCBound, MCBound \ {"compressor"}}

==============================================================================
