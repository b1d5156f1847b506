------------------------------ MODULE Equipment ------------------------------
(***************************************************************************)
(* EquipmentModule (modules/equipment): the only owner of the relays.      *)
(* Every loop tick it reads the requests the business modules left in      *)
(* SharedState, arbitrates between them, applies the compressor            *)
(* anti-short-cycle and the interlocks, writes the relays and publishes    *)
(* the state the relay drivers report.                                     *)
(*                                                                         *)
(* One EquipmentUpdate is one call of on_update.  Time is counted in       *)
(* calls: the main loop passes the same dt_ms to every one.  The requests  *)
(* of a tick are its parameter, so that a composition can pass the keys    *)
(* the other modules wrote.                                                *)
(***************************************************************************)
EXTENDS Integers

CONSTANTS
  Bound,            \* actuators that have a driver
  Boards,           \* per board, the actuators on a PCF8574, whose writes may fail
  COMP_MIN_OFF,     \* ticks the compressor stays off between two runs
  COMP_MIN_ON,      \* ticks a run lasts unless something forces it to end
  TIMER_SATISFIED,  \* where the compressor timer saturates, and where it starts
  EquipmentInputs   \* the requests a tick may find in SharedState

Refrigeration == {"compressor", "defrost_relay", "evap_fan", "cond_fan"}
Actuators     == Refrigeration \cup {"light"}

VARIABLES
  expander,               \* the actuators on the expander of this board; never changes
  relay,                  \* relay_on_ of every bound driver
  equipment,              \* the keys equipment.compressor, ..., equipment.light
  prev_defrost_active,
  defrost_type_cached,
  comp_actual,
  comp_since,
  relay_age               \* history: ticks since the compressor relay last switched

equipmentVars == <<expander, relay, equipment, prev_defrost_active, defrost_type_cached,
                   comp_actual, comp_since, relay_age>>

-----------------------------------------------------------------------------
(* What read_requests finds in SharedState.                                *)

DefrostTypes   == 0..2     \* 0 natural, 1 electric heater, 2 hot gas
ThermostatKeys == [compressor : BOOLEAN, evap_fan : BOOLEAN, cond_fan : BOOLEAN]
DefrostKeys    == [active : BOOLEAN, compressor : BOOLEAN, defrost_relay : BOOLEAN,
                   evap_fan : BOOLEAN, cond_fan : BOOLEAN]
ProtectionKeys == [lockout : BOOLEAN, compressor_blocked : BOOLEAN,
                   condenser_block : BOOLEAN, door_comp_blocked : BOOLEAN]
Requests       == [thermostat : ThermostatKeys, defrost : DefrostKeys,
                   protection : ProtectionKeys, light : BOOLEAN,
                   defrost_type : DefrostTypes]

ASSUME EquipmentAssumption ==
  /\ Bound \subseteq Actuators /\ "compressor" \in Bound
  /\ Boards \subseteq SUBSET Actuators
  /\ COMP_MIN_OFF \in Nat /\ COMP_MIN_ON \in Nat /\ TIMER_SATISFIED \in Nat
  /\ COMP_MIN_OFF <= TIMER_SATISFIED /\ COMP_MIN_ON <= TIMER_SATISFIED
  /\ EquipmentInputs \subseteq Requests

-----------------------------------------------------------------------------
(* Arbitration.                                                            *)

AllOff == [a \in Actuators |-> FALSE]

\* The refrigeration outputs asked for by whoever has the floor.
Selected(req) ==
  [a \in Refrigeration |->
     IF req.defrost.active THEN req.defrost[a]
     ELSE IF a = "defrost_relay" THEN FALSE ELSE req.thermostat[a]]

\* Mutants: a start, or a stop, that does not wait for the timer.
AntiShortCycleStopOnly(want, since) == want \/ (comp_actual /\ since < COMP_MIN_ON)
AntiShortCycleStartOnly(want, since) == want /\ (comp_actual \/ since >= COMP_MIN_OFF)

\* A switch of the compressor waits for the timer; anything else passes.
AntiShortCycle(want, since) ==
  \/ want /\ (comp_actual \/ since >= COMP_MIN_OFF)
  \/ ~want /\ comp_actual /\ since < COMP_MIN_ON

CompressorBlocked(p) ==
  p.compressor_blocked \/ p.condenser_block \/ p.door_comp_blocked

\* The type the interlock uses: read on the first tick of a defrost, then kept.
TypeInEffect(req) ==
  IF req.defrost.active /\ ~prev_defrost_active
  THEN req.defrost_type ELSE defrost_type_cached

HeaterInterlock(req) == Selected(req).defrost_relay /\ TypeInEffect(req) = 1

\* Mutant: the interlock applied first, so that the timer may hold the run on.
CompressorOutHeldLast(req, since) ==
  /\ AntiShortCycle(Selected(req).compressor /\ ~HeaterInterlock(req), since)
  /\ ~CompressorBlocked(req.protection)

CompressorOut(req, since) ==
  /\ AntiShortCycle(Selected(req).compressor, since)
  /\ ~CompressorBlocked(req.protection)
  /\ ~HeaterInterlock(req)

\* A lockout returns before the light is looked at.
Outputs(req, since) ==
  IF req.protection.lockout THEN AllOff
  ELSE [a \in Actuators |->
          CASE a = "compressor" -> CompressorOut(req, since)
            [] a = "light"      -> req.light
            [] OTHER            -> Selected(req)[a]]

-----------------------------------------------------------------------------
(* Relays, published keys and the timer.                                   *)

\* A failed expander write is rolled back: the relay keeps its state.
ApplyOutputs(out) ==
  /\ relay' \in {r \in [Bound -> BOOLEAN] :
                   \A a \in Bound : r[a] = out[a] \/ (a \in expander /\ r[a] = relay[a])}
  /\ UNCHANGED expander

PublishEquipmentState(since) ==
  /\ equipment' = [a \in Actuators |-> a \in Bound /\ relay'[a]]
  /\ comp_actual' = relay'["compressor"]
  /\ comp_since' = IF relay'["compressor"] # comp_actual THEN 0 ELSE since

Aged(t) == IF t < TIMER_SATISFIED THEN t + 1 ELSE t

\* The history variable follows the relay itself, not the module's fields.
TrackRelay(age) ==
  relay_age' = IF relay'["compressor"] # relay["compressor"] THEN 0 ELSE age

-----------------------------------------------------------------------------
EquipmentInit ==
  /\ expander \in Boards
  /\ relay = [a \in Bound |-> FALSE]
  /\ equipment = AllOff
  /\ prev_defrost_active = FALSE
  /\ defrost_type_cached = 0
  /\ comp_actual = FALSE
  /\ comp_since = TIMER_SATISFIED
  /\ relay_age = TIMER_SATISFIED

\* on_update.  The early return of a lockout skips both defrost fields.
EquipmentUpdate(req) ==
  /\ ApplyOutputs(Outputs(req, Aged(comp_since)))
  /\ PublishEquipmentState(Aged(comp_since))
  /\ TrackRelay(Aged(relay_age))
  /\ IF req.protection.lockout
     THEN UNCHANGED <<prev_defrost_active, defrost_type_cached>>
     ELSE /\ prev_defrost_active' = req.defrost.active
          /\ defrost_type_cached' = TypeInEffect(req)

\* on_message(SYSTEM_SAFE_MODE).
SafeMode ==
  /\ ApplyOutputs(AllOff)
  /\ PublishEquipmentState(comp_since)
  /\ TrackRelay(relay_age)
  /\ UNCHANGED <<prev_defrost_active, defrost_type_cached>>

\* ModuleManager::restart_module: on_stop drops the relays but publishes
\* nothing, on_init resets the keys and none of the fields.
EquipmentRestart ==
  /\ ApplyOutputs(AllOff)
  /\ equipment' = AllOff
  /\ TrackRelay(relay_age)
  /\ UNCHANGED <<prev_defrost_active, defrost_type_cached, comp_actual, comp_since>>

\* A power cycle or esp_restart: the drivers switch the relays off, the object
\* is built anew.  Only the real age of the compressor's state survives.
EquipmentReboot ==
  /\ relay' = [a \in Bound |-> FALSE]
  /\ equipment' = AllOff
  /\ prev_defrost_active' = FALSE
  /\ defrost_type_cached' = 0
  /\ comp_actual' = FALSE
  /\ comp_since' = TIMER_SATISFIED
  /\ TrackRelay(relay_age)
  /\ UNCHANGED expander

\* The module as the main loop drives it.
EquipmentNext == SafeMode \/ \E req \in EquipmentInputs : EquipmentUpdate(req)
EquipmentSpec == EquipmentInit /\ [][EquipmentNext]_equipmentVars

\* The same with the watchdog's restarts, and with power cycles as well.
EquipmentRestartSpec == EquipmentInit /\ [][EquipmentNext \/ EquipmentRestart]_equipmentVars
EquipmentRebootSpec  == EquipmentInit /\ [][EquipmentNext \/ EquipmentReboot]_equipmentVars

-----------------------------------------------------------------------------
(* Properties.                                                             *)

\* Every variable has its type.
EquipmentTypeOK ==
  /\ expander \in Boards
  /\ relay \in [Bound -> BOOLEAN]
  /\ equipment \in [Actuators -> BOOLEAN]
  /\ prev_defrost_active \in BOOLEAN
  /\ defrost_type_cached \in DefrostTypes
  /\ comp_actual \in BOOLEAN
  /\ comp_since \in 0..TIMER_SATISFIED
  /\ relay_age \in 0..TIMER_SATISFIED

CompressorOn == relay["compressor"]

\* The timer the arbitration trusts measures the relay itself: whatever writes
\* failed and whatever safe mode did, comp_actual_ is the relay's state and
\* comp_since_ms_ the time since it last switched.
TimerTracksRelay == comp_actual = CompressorOn /\ comp_since = relay_age

\* Between two runs the compressor rests COMP_MIN_OFF ticks, whoever asks for
\* it, across defrosts, lockouts, safe mode and failed expander writes.
MinOffRespected ==
  [][~CompressorOn /\ CompressorOn' => Aged(relay_age) >= COMP_MIN_OFF]_equipmentVars

\* Arbitration ends a run before COMP_MIN_ON ticks only for a reason that may
\* override the anti-short-cycle: lockout, a compressor block, the interlock.
MayCutRun(req) ==
  \/ req.protection.lockout
  \/ CompressorBlocked(req.protection)
  \/ HeaterInterlock(req)
MinOnRespected ==
  [][CompressorOn /\ ~CompressorOn' /\ Aged(relay_age) < COMP_MIN_ON
       => \A req \in EquipmentInputs : MayCutRun(req) \/ ~EquipmentUpdate(req)]_equipmentVars

\* Where neither hangs on an expander, a type the module knows to be a heater
\* and the compressor are never energised together.
KnownHeaterExcludesCompressor ==
  ("defrost_relay" \in Bound \ expander /\ "compressor" \notin expander
     /\ defrost_type_cached = 1)
    => ~(relay["defrost_relay"] /\ CompressorOn)

===============================================================================
