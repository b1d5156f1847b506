---------------------------- MODULE ControlLoop ----------------------------
(***************************************************************************)
(* One pass of the main loop (main/main.cpp, ModuleManager::update_all)    *)
(* over Equipment and Defrost, the two modules that decide together over   *)
(* the compressor and the defrost relay.  They never call each other: each *)
(* reads the keys the other left in SharedState, Equipment first.          *)
(*                                                                         *)
(* Protection and Thermostat run between the two and may leave any keys.   *)
(* The web server and the MQTT client run in tasks of their own: the user  *)
(* may change defrost.type, or start a defrost, between any two updates.   *)
(*                                                                         *)
(* WatchdogService runs in the same loop, before Equipment: what it finds  *)
(* overdue after a pass that took long it restarts. The hardware watchdog  *)
(* resets the unit.                                                        *)
(***************************************************************************)
EXTENDS Equipment, Defrost

CONSTANTS
  DefrostSettings,     \* the settings of defrost, but for the type
  TypeChoices,         \* the types the user may ever choose
  ProtectionChoices,   \* what Protection may leave in its keys
  EvapReadings,        \* what sensor2_ok and evap_temp may be
  MAX_RESTARTS         \* of WatchdogService: restarts of one module

\* What the loop lets the modules read is of the types they read.
ASSUME LoopAssumption ==
  /\ HasRelay <=> "defrost_relay" \in Bound
  /\ DefrostSettings \in Settings /\ TypeChoices \subseteq Types
  /\ ProtectionChoices \subseteq ProtectionKeys
  /\ EvapReadings \subseteq [ok : BOOLEAN, temp : Int]
  /\ MAX_RESTARTS \in Nat

VARIABLES
  turn,               \* the module update_all calls next
  thermostat,         \* the keys thermostat.req.*
  protection,         \* the keys of Protection
  defrost_type,       \* the key defrost.type
  restarts,           \* restart_counts_
  type_kept           \* history: the key was left alone since the cycle started

loopVars == <<turn, thermostat, protection, defrost_type, restarts, type_kept>>
vars     == <<equipmentVars, defrostVars, loopVars>>

-----------------------------------------------------------------------------
(* What the two modules find in SharedState.                               *)

FoundRequests ==
  [thermostat |-> thermostat, defrost |-> defrost, protection |-> protection,
   light |-> FALSE, defrost_type |-> defrost_type]

FoundReadings(evap) ==
  [lockout |-> protection'.lockout,
   compressor_blocked |-> protection'.compressor_blocked,
   compressor |-> equipment.compressor,
   sensor2_ok |-> evap.ok, evap_temp |-> evap.temp,
   settings |-> [DefrostSettings EXCEPT !.type = defrost_type]]

NoBlocks == [lockout |-> FALSE, compressor_blocked |-> FALSE,
             condenser_block |-> FALSE, door_comp_blocked |-> FALSE]

NoRequest == [compressor |-> FALSE, evap_fan |-> FALSE, cond_fan |-> FALSE]

\* The thermostat never asks for the compressor without its fans.
ThermostatChoices ==
  {[compressor |-> on, evap_fan |-> on, cond_fan |-> on] : on \in BOOLEAN}

\* Protection and Thermostat are supervised as well: the keys they leave when they are
\* restarted are among those they may leave in any pass.
Supervised == {"equipment", "defrost"}

\* What may be overdue: timeouts of five seconds (critical) and thirty (normal).
Overdue == {{"equipment"}, Supervised}

-----------------------------------------------------------------------------
Init ==
  /\ EquipmentInit /\ DefrostInit
  /\ turn = "watchdog"
  /\ thermostat = NoRequest /\ protection = NoBlocks
  /\ defrost_type \in TypeChoices
  /\ restarts = [m \in Supervised |-> 0]
  /\ type_kept = TRUE

\* WatchdogService::on_update. All that were updated in one pass carry the time it
\* began; a pass that takes long makes them overdue together, the shorter its timeout
\* the sooner, whichever of them was slow. Each is restarted until it has been often
\* enough; from then on it is only reported.
Check(overdue) ==
  LET again == {m \in overdue : restarts[m] < MAX_RESTARTS}
  IN  /\ turn = "watchdog" /\ turn' = "equipment"
      /\ again # {}
      /\ restarts' = [m \in Supervised |-> restarts[m] + (IF m \in again THEN 1 ELSE 0)]
      /\ IF "equipment" \in again THEN EquipmentRestart ELSE UNCHANGED equipmentVars
      /\ IF "defrost" \in again THEN DefrostRestart ELSE UNCHANGED defrostVars
      /\ UNCHANGED <<thermostat, protection, defrost_type, type_kept>>

\* The pass of a check that finds nothing, or of no check.
EquipmentTurn ==
  /\ turn \in {"watchdog", "equipment"} /\ turn' = "business"
  /\ EquipmentUpdate(FoundRequests)
  /\ UNCHANGED <<defrostVars, thermostat, protection, defrost_type, restarts, type_kept>>

\* Protection, Thermostat and Defrost, in the order of their priorities.
BusinessTurn ==
  /\ turn = "business" /\ turn' = "watchdog"
  /\ protection' \in ProtectionChoices
  /\ thermostat' \in ThermostatChoices
  /\ \E evap \in EvapReadings : DefrostUpdate(FoundReadings(evap))
  /\ type_kept' = (type_kept \/ phase' = "idle")
  /\ UNCHANGED <<equipmentVars, defrost_type, restarts>>

\* The user's writes land between two updates.
ChangeType ==
  /\ defrost_type' \in TypeChoices \ {defrost_type}
  /\ type_kept' = (phase = "idle")
  /\ UNCHANGED <<equipmentVars, defrostVars, turn, thermostat, protection, restarts>>

RequestDefrost == RaiseStart /\ UNCHANGED <<equipmentVars, loopVars>>

\* The hardware watchdog, a firmware that is not validated in time, or a power cut
\* ends the loop at any point; the settings are restored.
Reset ==
  /\ EquipmentReboot /\ DefrostReboot
  /\ turn' = "watchdog"
  /\ thermostat' = NoRequest /\ protection' = NoBlocks
  /\ restarts' = [m \in Supervised |-> 0]
  /\ type_kept' = TRUE
  /\ UNCHANGED defrost_type

Watchdog == \E overdue \in Overdue : Check(overdue)

Next == Watchdog \/ EquipmentTurn \/ BusinessTurn \/ ChangeType \/ RequestDefrost \/ Reset
Spec == Init /\ [][Next]_vars

-----------------------------------------------------------------------------
(* Properties.                                                             *)

\* The type invariants of the two modules, and of what lies between them.
TypeOK ==
  /\ EquipmentTypeOK /\ DefrostTypeOK
  /\ turn \in {"watchdog", "equipment", "business"}
  /\ restarts \in [Supervised -> 0..MAX_RESTARTS]
  /\ thermostat \in ThermostatChoices
  /\ protection \in ProtectionKeys
  /\ defrost_type \in Types
  /\ type_kept \in BOOLEAN

\* Relays that do what they are told: on an expander a write may fail.
HeaterOnPin == "defrost_relay" \in Bound \ expander
OnPins == HeaterOnPin /\ "compressor" \notin expander

Overlap == /\ cycle_type = 1 /\ phase # "idle"
           /\ relay["defrost_relay"] /\ relay["compressor"]

\* "Electric defrost relay and compressor NEVER simultaneously"
\* (equipment_module.h:18): while a cycle of the heater type runs, the two relays
\* are not energised together, as long as nobody writes defrost.type during the
\* cycle.  The type may change at any other time, and the watchdog may restart
\* either module: neither the type Equipment kept from an earlier cycle, nor a
\* lockout or a restart that made it miss the end of that cycle, lets the two meet.
KeptTypeExcludesCompressor == OnPins /\ type_kept => ~Overlap

\* A defrost of any type is over for the relays one pass after it is over for
\* Defrost, and no relay of a defrost starts without one: the valve or heater is
\* only ever on while a cycle runs, or in the pass that ended it.
RelayOnlyInDefrost ==
  HeaterOnPin /\ turn = "business" /\ relay["defrost_relay"] => phase \in {"valve_open", "active"}

=============================================================================
