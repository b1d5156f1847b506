--------------------------- MODULE ControlLoopProofs ---------------------------
(***************************************************************************)
(* Theorems about Equipment, Defrost and the loop that runs both, for      *)
(* every set of bound actuators, every board and every value of the        *)
(* constants. What is proved of Equipment or Defrost alone, whatever it    *)
(* may read, rests on that module's assumption only, and the loop's        *)
(* theorems rest on it.                                                    *)
(***************************************************************************)
EXTENDS ControlLoop, HeaterAlarm, TLAPS

\* A step of the module that switches relays follows its outputs or, on an
\* expander, leaves a relay as it was.
LEMMA RelayStep ==
  ASSUME NEW out, ApplyOutputs(out)
  PROVE  /\ relay' \in [Bound -> BOOLEAN]
         /\ \A a \in Bound : relay'[a] = out[a] \/ (a \in expander /\ relay'[a] = relay[a])
         /\ expander' = expander
BY DEF ApplyOutputs

\* A timer that ages by a tick stays within its range.
LEMMA AgedRange ==
  ASSUME NEW t \in 0..TIMER_SATISFIED
  PROVE  Aged(t) \in 0..TIMER_SATISFIED
BY EquipmentAssumption DEF Aged

-----------------------------------------------------------------------------
(* Type correctness, restarts and power cycles included.                     *)

\* The initial state has its types.
LEMMA EquipmentInitType == EquipmentInit => EquipmentTypeOK
<1> SUFFICES ASSUME EquipmentInit PROVE EquipmentTypeOK
  OBVIOUS
<1>1. 0 \in DefrostTypes
  BY DEF DefrostTypes
<1>2. TIMER_SATISFIED \in 0..TIMER_SATISFIED
  BY EquipmentAssumption
<1>3. relay \in [Bound -> BOOLEAN] /\ equipment \in [Actuators -> BOOLEAN]
  BY DEF EquipmentInit, AllOff
<1> QED
  BY <1>1, <1>2, <1>3 DEF EquipmentInit, EquipmentTypeOK

\* publish_state leaves keys and timer within their types.
LEMMA PublishType ==
  ASSUME EquipmentTypeOK, NEW since \in 0..TIMER_SATISFIED,
         relay' \in [Bound -> BOOLEAN], PublishEquipmentState(since)
  PROVE  /\ equipment' \in [Actuators -> BOOLEAN]
         /\ comp_actual' \in BOOLEAN
         /\ comp_since' \in 0..TIMER_SATISFIED
<1>1. equipment' \in [Actuators -> BOOLEAN]
  BY DEF PublishEquipmentState
<1>2. comp_actual' \in BOOLEAN
  BY EquipmentAssumption DEF PublishEquipmentState
<1>3. comp_since' \in 0..TIMER_SATISFIED
  BY EquipmentAssumption DEF PublishEquipmentState
<1> QED
  BY <1>1, <1>2, <1>3

\* The age of the relay's state stays within its range.
LEMMA TrackType ==
  ASSUME NEW age \in 0..TIMER_SATISFIED, TrackRelay(age)
  PROVE  relay_age' \in 0..TIMER_SATISFIED
BY EquipmentAssumption DEF TrackRelay

\* on_update keeps the types.
LEMMA EquipmentUpdateType ==
  ASSUME EquipmentTypeOK, NEW req \in Requests, EquipmentUpdate(req)
  PROVE  EquipmentTypeOK'
<1> DEFINE since == Aged(comp_since)
<1>1. since \in 0..TIMER_SATISFIED /\ Aged(relay_age) \in 0..TIMER_SATISFIED
  BY AgedRange DEF EquipmentTypeOK
<1>2. relay' \in [Bound -> BOOLEAN] /\ expander' = expander
  BY RelayStep DEF EquipmentUpdate
<1>3. /\ equipment' \in [Actuators -> BOOLEAN] /\ comp_actual' \in BOOLEAN
      /\ comp_since' \in 0..TIMER_SATISFIED
  <2> HIDE DEF since
  <2>1. PublishEquipmentState(since)
    BY DEF EquipmentUpdate, since
  <2> QED
    BY <1>1, <1>2, <2>1, PublishType
<1>4. relay_age' \in 0..TIMER_SATISFIED
  BY <1>1, TrackType DEF EquipmentUpdate
<1>5. prev_defrost_active' \in BOOLEAN /\ defrost_type_cached' \in DefrostTypes
  BY DEF EquipmentUpdate, EquipmentTypeOK, TypeInEffect, Requests, DefrostKeys
<1> QED
  BY <1>2, <1>3, <1>4, <1>5 DEF EquipmentTypeOK

\* Safe mode keeps the types.
LEMMA SafeModeType ==
  ASSUME EquipmentTypeOK, SafeMode
  PROVE  EquipmentTypeOK'
<1>1. relay' \in [Bound -> BOOLEAN] /\ expander' = expander
  BY RelayStep DEF SafeMode
<1>2. /\ equipment' \in [Actuators -> BOOLEAN] /\ comp_actual' \in BOOLEAN
      /\ comp_since' \in 0..TIMER_SATISFIED
  BY <1>1, PublishType DEF SafeMode, EquipmentTypeOK
<1>3. relay_age' \in 0..TIMER_SATISFIED
  BY TrackType DEF SafeMode, EquipmentTypeOK
<1> QED
  BY <1>1, <1>2, <1>3 DEF SafeMode, EquipmentTypeOK

\* A restart by the watchdog keeps the types.
LEMMA EquipmentRestartType ==
  ASSUME EquipmentTypeOK, EquipmentRestart
  PROVE  EquipmentTypeOK'
<1>1. relay' \in [Bound -> BOOLEAN] /\ expander' = expander
  BY RelayStep DEF EquipmentRestart
<1>2. equipment' \in [Actuators -> BOOLEAN]
  BY DEF EquipmentRestart, AllOff
<1>3. relay_age' \in 0..TIMER_SATISFIED
  BY TrackType DEF EquipmentRestart, EquipmentTypeOK
<1> QED
  BY <1>1, <1>2, <1>3 DEF EquipmentRestart, EquipmentTypeOK

\* A power cycle keeps the types.
LEMMA EquipmentRebootType ==
  ASSUME EquipmentTypeOK, EquipmentReboot
  PROVE  EquipmentTypeOK'
<1>1. relay' \in [Bound -> BOOLEAN] /\ equipment' \in [Actuators -> BOOLEAN]
  BY DEF EquipmentReboot, AllOff
<1>2. relay_age' \in 0..TIMER_SATISFIED
  BY TrackType DEF EquipmentReboot, EquipmentTypeOK
<1>3. comp_since' \in 0..TIMER_SATISFIED /\ defrost_type_cached' \in DefrostTypes
  BY EquipmentAssumption DEF EquipmentReboot, DefrostTypes
<1> QED
  BY <1>1, <1>2, <1>3 DEF EquipmentReboot, EquipmentTypeOK

\* Every step of every specification of Equipment keeps the types.
LEMMA EquipmentStepType ==
  EquipmentTypeOK /\ [EquipmentNext \/ EquipmentRestart \/ EquipmentReboot]_equipmentVars
    => EquipmentTypeOK'
<1> SUFFICES ASSUME EquipmentTypeOK,
                    [EquipmentNext \/ EquipmentRestart \/ EquipmentReboot]_equipmentVars
             PROVE  EquipmentTypeOK'
  OBVIOUS
<1>1. CASE \E req \in EquipmentInputs : EquipmentUpdate(req)
  BY <1>1, EquipmentUpdateType, EquipmentAssumption
<1>2. CASE SafeMode
  BY <1>2, SafeModeType
<1>3. CASE EquipmentRestart
  BY <1>3, EquipmentRestartType
<1>4. CASE EquipmentReboot
  BY <1>4, EquipmentRebootType
<1>5. CASE UNCHANGED equipmentVars
  BY <1>5 DEF equipmentVars, EquipmentTypeOK
<1> QED
  BY <1>1, <1>2, <1>3, <1>4, <1>5 DEF EquipmentNext

\* Every variable has its type in every run of the module: as the main loop
\* drives it, and with the watchdog's restarts or with power cycles as well.
THEOREM EquipmentTypeCorrect ==
  /\ EquipmentSpec => []EquipmentTypeOK
  /\ EquipmentRestartSpec => []EquipmentTypeOK
  /\ EquipmentRebootSpec => []EquipmentTypeOK
<1>1. EquipmentTypeOK /\ [EquipmentNext]_equipmentVars => EquipmentTypeOK'
  BY EquipmentStepType
<1>2. EquipmentTypeOK /\ [EquipmentNext \/ EquipmentRestart]_equipmentVars => EquipmentTypeOK'
  BY EquipmentStepType
<1>3. EquipmentTypeOK /\ [EquipmentNext \/ EquipmentReboot]_equipmentVars => EquipmentTypeOK'
  BY EquipmentStepType
<1> QED
  BY EquipmentInitType, <1>1, <1>2, <1>3, PTL DEF EquipmentSpec, EquipmentRestartSpec,
     EquipmentRebootSpec

-----------------------------------------------------------------------------
(* The timer of the anti-short-cycle.  TimerTracksRelay is inductive with the *)
(* types: PublishState compares the relay with comp_actual, the history       *)
(* variable compares it with its own past, and the two comparisons agree as   *)
(* long as comp_actual is the relay.                                          *)

\* At the start the timer is the age of the relay's state.
LEMMA InitTracks == EquipmentInit => TimerTracksRelay
BY EquipmentAssumption DEF EquipmentInit, TimerTracksRelay, CompressorOn

\* Every step as the main loop drives it keeps the timer true.
LEMMA StepTracks ==
  EquipmentTypeOK /\ TimerTracksRelay /\ [EquipmentNext]_equipmentVars
    => TimerTracksRelay'
<1> SUFFICES ASSUME EquipmentTypeOK, TimerTracksRelay, [EquipmentNext]_equipmentVars
             PROVE  TimerTracksRelay'
  OBVIOUS
<1>1. CASE \E req \in EquipmentInputs : EquipmentUpdate(req)
  BY <1>1 DEF EquipmentUpdate, PublishEquipmentState, TrackRelay, TimerTracksRelay, CompressorOn
<1>2. CASE SafeMode
  BY <1>2 DEF SafeMode, PublishEquipmentState, TrackRelay, TimerTracksRelay, CompressorOn
<1>3. CASE UNCHANGED equipmentVars
  BY <1>3 DEF equipmentVars, TimerTracksRelay, CompressorOn
<1> QED
  BY <1>1, <1>2, <1>3 DEF EquipmentNext

\* comp_actual_ and comp_since_ms_ measure the compressor relay itself, on any
\* bus, for any requests and through any safe mode.
THEOREM TimerIsTrue == EquipmentSpec => []TimerTracksRelay
<1>1. EquipmentTypeOK /\ [EquipmentNext]_equipmentVars => EquipmentTypeOK'
  BY EquipmentStepType
<1> QED
  BY EquipmentInitType, InitTracks, <1>1, StepTracks, PTL DEF EquipmentSpec

\* A switch of the compressor relay obeys the output that was computed.
LEMMA CompressorFollows ==
  ASSUME NEW out, ApplyOutputs(out), CompressorOn' # CompressorOn
  PROVE  CompressorOn' = out["compressor"]
BY EquipmentAssumption, RelayStep DEF CompressorOn

\* The compressor relay never closes before it has been open for COMP_MIN_OFF.
LEMMA StepMinOff ==
  ASSUME EquipmentTypeOK, TimerTracksRelay, [EquipmentNext]_equipmentVars,
         ~CompressorOn, CompressorOn'
  PROVE  Aged(relay_age) >= COMP_MIN_OFF
<1>1. CASE \E req \in EquipmentInputs : EquipmentUpdate(req)
  <2>1. PICK req \in EquipmentInputs : EquipmentUpdate(req)
    BY <1>1
  <2>2. Outputs(req, Aged(comp_since))["compressor"]
    BY <2>1, EquipmentAssumption, RelayStep DEF EquipmentUpdate, CompressorOn
  <2>3. CompressorOut(req, Aged(comp_since))
    BY <2>2 DEF Outputs, AllOff, Actuators, Refrigeration
  <2>4. AntiShortCycle(Selected(req).compressor, Aged(comp_since))
    BY <2>3 DEF CompressorOut
  <2> QED
    BY <2>4 DEF AntiShortCycle, TimerTracksRelay, CompressorOn
<1>2. CASE SafeMode
  BY <1>2, EquipmentAssumption, RelayStep
     DEF SafeMode, AllOff, Actuators, Refrigeration, CompressorOn
<1>3. CASE UNCHANGED equipmentVars
  BY <1>3 DEF equipmentVars, CompressorOn
<1> QED
  BY <1>1, <1>2, <1>3 DEF EquipmentNext

\* Between two runs the compressor rests COMP_MIN_OFF ticks, for every stream of
\* requests and every pattern of failed expander writes.
THEOREM MinOffHolds == EquipmentSpec => MinOffRespected
<1>1. EquipmentTypeOK /\ [EquipmentNext]_equipmentVars => EquipmentTypeOK'
  BY EquipmentStepType
<1>2. EquipmentTypeOK /\ TimerTracksRelay /\ [EquipmentNext]_equipmentVars
        => [~CompressorOn /\ CompressorOn' => Aged(relay_age) >= COMP_MIN_OFF]_equipmentVars
  BY StepMinOff
<1> QED
  BY EquipmentInitType, InitTracks, <1>1, StepTracks, <1>2, PTL DEF EquipmentSpec, MinOffRespected

-----------------------------------------------------------------------------
(* The length of a run.  A power cycle breaks TimerTracksRelay: the timer      *)
(* starts satisfied while the relay has just opened.  What survives it is the  *)
(* part that concerns a running compressor, and that is enough here.           *)

RunIsTimed ==
  /\ comp_actual = CompressorOn
  /\ CompressorOn => comp_since = relay_age

\* At the start no run is going on.
LEMMA InitRunTimed == EquipmentInit => RunIsTimed
BY EquipmentAssumption DEF EquipmentInit, RunIsTimed, CompressorOn

\* A running compressor is timed truly, power cycles included.
LEMMA StepRunTimed == RunIsTimed /\ [EquipmentNext \/ EquipmentReboot]_equipmentVars => RunIsTimed'
<1> SUFFICES ASSUME RunIsTimed, [EquipmentNext \/ EquipmentReboot]_equipmentVars
             PROVE  RunIsTimed'
  OBVIOUS
<1>1. CASE \E req \in EquipmentInputs : EquipmentUpdate(req)
  BY <1>1 DEF EquipmentUpdate, PublishEquipmentState, TrackRelay, RunIsTimed, CompressorOn
<1>2. CASE SafeMode
  BY <1>2 DEF SafeMode, PublishEquipmentState, TrackRelay, RunIsTimed, CompressorOn
<1>3. CASE EquipmentReboot
  BY <1>3, EquipmentAssumption DEF EquipmentReboot, RunIsTimed, CompressorOn
<1>4. CASE UNCHANGED equipmentVars
  BY <1>4 DEF equipmentVars, RunIsTimed, CompressorOn
<1> QED
  BY <1>1, <1>2, <1>3, <1>4 DEF EquipmentNext

\* What a single call of on_update may do to a young run.
LEMMA UpdateKeepsRun ==
  ASSUME RunIsTimed, NEW req \in Requests, EquipmentUpdate(req),
         CompressorOn, ~CompressorOn', Aged(relay_age) < COMP_MIN_ON
  PROVE  MayCutRun(req)
<1>1. ~Outputs(req, Aged(comp_since))["compressor"]
  BY EquipmentAssumption, RelayStep DEF EquipmentUpdate, CompressorOn
<1>2. CASE req.protection.lockout
  BY <1>2 DEF MayCutRun
<1>3. CASE ~req.protection.lockout
  <2>1. ~CompressorOut(req, Aged(comp_since))
    BY <1>1, <1>3 DEF Outputs, Actuators, Refrigeration
  <2>2. AntiShortCycle(Selected(req).compressor, Aged(comp_since))
    BY DEF AntiShortCycle, RunIsTimed
  <2> QED
    BY <2>1, <2>2 DEF CompressorOut, MayCutRun
<1> QED
  BY <1>2, <1>3

\* Arbitration cuts a run short of COMP_MIN_ON only for a lockout, a compressor
\* block or the heater interlock, power cycles or not.
THEOREM MinOnHolds == EquipmentRebootSpec => MinOnRespected
<1>1. RunIsTimed /\ [EquipmentNext \/ EquipmentReboot]_equipmentVars
        => [CompressorOn /\ ~CompressorOn' /\ Aged(relay_age) < COMP_MIN_ON
              => \A req \in EquipmentInputs : MayCutRun(req) \/ ~EquipmentUpdate(req)]_equipmentVars
  BY UpdateKeepsRun, EquipmentAssumption
<1> QED
  BY InitRunTimed, StepRunTimed, <1>1, PTL DEF EquipmentRebootSpec, MinOnRespected

-----------------------------------------------------------------------------
(* The interlock.                                                            *)

\* At the start no type is cached as a heater.
LEMMA InitExcludes == EquipmentInit => KnownHeaterExcludesCompressor
BY DEF EquipmentInit, KnownHeaterExcludesCompressor

\* The outputs of on_update never energise a known heater and the compressor.
LEMMA UpdateExcludes ==
  ASSUME NEW req \in Requests, EquipmentUpdate(req)
  PROVE  KnownHeaterExcludesCompressor'
<1> DEFINE out == Outputs(req, Aged(comp_since))
<1> SUFFICES ASSUME "defrost_relay" \in Bound, defrost_type_cached' = 1,
                    "defrost_relay" \notin expander', "compressor" \notin expander'
             PROVE  ~(relay'["defrost_relay"] /\ relay'["compressor"])
  BY DEF KnownHeaterExcludesCompressor, CompressorOn
<1>1. relay'["defrost_relay"] = out["defrost_relay"] /\ relay'["compressor"] = out["compressor"]
  BY EquipmentAssumption, RelayStep DEF EquipmentUpdate
<1>2. CASE req.protection.lockout
  BY <1>1, <1>2 DEF Outputs, AllOff, Actuators, Refrigeration
<1>3. CASE ~req.protection.lockout
  <2>1. TypeInEffect(req) = 1
    BY <1>3 DEF EquipmentUpdate
  <2>2. out["defrost_relay"] = Selected(req)["defrost_relay"]
    BY <1>3 DEF Outputs, Actuators, Refrigeration
  <2>3. out["compressor"] => ~Selected(req)["defrost_relay"]
    BY <1>3, <2>1 DEF Outputs, Actuators, Refrigeration, CompressorOut, HeaterInterlock
  <2> QED
    BY <1>1, <2>2, <2>3
<1> QED
  BY <1>2, <1>3

\* Every step, restarts included, keeps the two apart.
LEMMA StepExcludes ==
  EquipmentTypeOK /\ KnownHeaterExcludesCompressor
    /\ [EquipmentNext \/ EquipmentRestart]_equipmentVars
    => KnownHeaterExcludesCompressor'
<1> SUFFICES ASSUME KnownHeaterExcludesCompressor, [EquipmentNext \/ EquipmentRestart]_equipmentVars
             PROVE  KnownHeaterExcludesCompressor'
  OBVIOUS
<1>1. CASE \E req \in EquipmentInputs : EquipmentUpdate(req)
  BY <1>1, UpdateExcludes, EquipmentAssumption
<1>2. CASE SafeMode
  BY <1>2, EquipmentAssumption, RelayStep
     DEF SafeMode, AllOff, Actuators, Refrigeration, KnownHeaterExcludesCompressor, CompressorOn
<1>3. CASE EquipmentRestart
  BY <1>3, EquipmentAssumption, RelayStep
     DEF EquipmentRestart, AllOff, Actuators, Refrigeration, KnownHeaterExcludesCompressor,
        CompressorOn
<1>4. CASE UNCHANGED equipmentVars
  BY <1>4 DEF equipmentVars, KnownHeaterExcludesCompressor, CompressorOn
<1> QED
  BY <1>1, <1>2, <1>3, <1>4 DEF EquipmentNext

\* On a bus that does not fail, a defrost type the module has cached as a heater
\* and the compressor are never energised together, restarts included.
THEOREM InterlockHolds == EquipmentRestartSpec => []KnownHeaterExcludesCompressor
<1>1. EquipmentTypeOK /\ [EquipmentNext \/ EquipmentRestart]_equipmentVars => EquipmentTypeOK'
  BY EquipmentStepType
<1> QED
  BY EquipmentInitType, InitExcludes, <1>1, StepExcludes, PTL DEF EquipmentRestartSpec

-----------------------------------------------------------------------------
(* What a call of on_update may do to the phase.                             *)

\* A call that enters a phase, from IDLE or further along the cycle.
Started ==
  /\ phase = "idle"
  /\ \/ phase' = "stabilize" /\ cycle_type' = 2
     \/ phase' = "active" /\ cycle_type' \in {0, 1}
  /\ HasRelay \/ cycle_type' = 0

Advanced ==
  /\ phase # "idle" /\ cycle_type' = cycle_type
  /\ \/ phase' = "idle"
     \/ <<phase, phase'>> \in {<<"stabilize", "valve_open">>, <<"valve_open", "active">>,
                              <<"equalize", "drip">>, <<"drip", "fad">>}
     \/ phase = "active" /\ phase' = IF cycle_type = 2 THEN "equalize" ELSE "drip"

Moved == /\ Started \/ Advanced
         /\ phase_timer' = 0
         /\ defrost' = PhaseRequests(phase', cycle_type')

\* A call that stays in its phase.
Stayed(in) ==
  /\ UNCHANGED <<phase, cycle_type, defrost>>
  /\ \/ phase_timer' = phase_timer /\ phase # "active"
     \/ /\ phase_timer' = phase_timer + 1
        /\ phase = "active" => phase_timer' < MaxDuration(in.settings)

\* Every phase publishes requests of their type.
LEMMA RequestsType ==
  ASSUME NEW p \in Phases, NEW t \in Types
  PROVE  PhaseRequests(p, t) \in DefrostKeys
BY DEF PhaseRequests, SetRequests, DefrostKeys, Phases, Types

\* A start falls back to a natural cycle on a unit without the relay.
LEMMA StartMoves ==
  ASSUME phase = "idle", NEW in \in Readings, StartDefrost(in.settings)
  PROVE  Moved /\ interval_timer' = 0
<1>1. in.settings.type \in Types
  BY DefrostAssumption DEF Readings, Settings
<1> QED
  BY <1>1 DEF StartDefrost, EnterPhase, Moved, Started, Types

\* A call in IDLE starts a cycle or leaves the phase alone.
LEMMA IdleMoves ==
  ASSUME NEW in \in Readings, Idle(in)
  PROVE  Moved \/ Stayed(in)
<1>1. phase = "idle" /\ UpdateIdle(in)
  BY DEF Idle
<1>2. CASE StartDefrost(in.settings)
  BY <1>1, <1>2, StartMoves
<1>3. CASE Stay
  BY <1>1, <1>3 DEF Stay, Stayed
<1> QED
  BY <1>1, <1>2, <1>3 DEF UpdateIdle

\* A call in ACTIVE goes on only below the clamped maximum.
LEMMA ActiveMoves ==
  ASSUME DefrostTypeOK, NEW in \in Readings, Active(in)
  PROVE  Moved \/ Stayed(in)
<1>1. phase = "active" /\ UpdateActive(in)
  BY DEF Active, RunningPhase
<1>2. MaxDuration(in.settings) \in Nat
  BY DefrostAssumption DEF MaxDuration, Readings, Settings
<1>3. CASE FinishActive
  BY <1>1, <1>3 DEF FinishActive, EnterPhase, Moved, Advanced
<1>4. CASE ~FinishActive
  <2>1. /\ phase_timer' = phase_timer + 1
        /\ ~(phase_timer + 1 >= MaxDuration(in.settings))
        /\ UNCHANGED <<phase, cycle_type, defrost>>
    BY <1>1, <1>4 DEF UpdateActive, ActiveTimeout
  <2> QED
    BY <1>1, <1>2, <2>1 DEF Stayed, DefrostTypeOK
<1> QED
  BY <1>3, <1>4

\* The phases that run by the clock.
LEMMA TimedMoves ==
  ASSUME NEW in \in Readings, TimedPhase(in)
  PROVE  Moved \/ Stayed(in)
<1> DEFINE s == in.settings
<1>1. CASE phase = "stabilize" /\ RunPhase(s.stabilize_time, "valve_open")
  BY <1>1 DEF RunPhase, EnterPhase, Moved, Advanced, Stayed
<1>2. CASE phase = "valve_open" /\ RunPhase(s.valve_delay, "active")
  BY <1>2 DEF RunPhase, EnterPhase, Moved, Advanced, Stayed
<1>3. CASE phase = "equalize" /\ RunPhase(s.equalize_time, "drip")
  BY <1>3 DEF RunPhase, EnterPhase, Moved, Advanced, Stayed
<1>4. CASE phase = "drip" /\ RunPhase(s.drip_time, IF s.fan_delay = 0 THEN "idle" ELSE "fad")
  BY <1>4 DEF RunPhase, EnterPhase, Moved, Advanced, Stayed
<1>5. CASE phase = "fad" /\ UpdateFad(in)
  BY <1>5 DEF UpdateFad, RunPhase, EnterPhase, Moved, Advanced, Stayed
<1> QED
  BY <1>1, <1>2, <1>3, <1>4, <1>5 DEF TimedPhase, RunningPhase

\* An abort or a stop command goes to IDLE.
LEMMA AbortMoves ==
  ASSUME NEW in \in Readings, Abort(in) \/ ManualStop(in)
  PROVE  Moved
BY DEF Abort, ManualStop, LockoutAborts, BlockAborts, EnterPhase, Moved, Advanced

\* Every call of on_update moves or stays.
LEMMA UpdateMoves ==
  ASSUME DefrostTypeOK, NEW in \in Readings, DefrostUpdate(in)
  PROVE  Moved \/ Stayed(in)
BY IdleMoves, ActiveMoves, TimedMoves, AbortMoves DEF DefrostUpdate

-----------------------------------------------------------------------------
(* Type correctness, restarts included.                                      *)

\* The initial state has its types.
LEMMA DefrostInitType == DefrostInit => DefrostTypeOK
<1> SUFFICES ASSUME DefrostInit PROVE DefrostTypeOK
  OBVIOUS
<1>1. phase \in Phases /\ cycle_type \in Types /\ consecutive_timeouts \in 0..3
  BY DEF DefrostInit, Phases, Types
<1>2. /\ interval_timer \in 0..(INTERVAL_WRAP - 1) /\ interval_key \in 0..(INTERVAL_WRAP - 1)
      /\ since_start \in 0..INTERVAL_WRAP
  BY DefrostAssumption DEF DefrostInit
<1>3. /\ phase_timer \in Nat /\ relay_time \in Nat /\ heater_alarm \in BOOLEAN
      /\ manual_start \in BOOLEAN /\ manual_stop \in BOOLEAN
  BY DEF DefrostInit
<1>4. defrost \in [active : BOOLEAN, compressor : BOOLEAN, defrost_relay : BOOLEAN,
                  evap_fan : BOOLEAN, cond_fan : BOOLEAN]
  BY DEF DefrostInit, SetRequests
<1> QED
  BY <1>1, <1>2, <1>3, <1>4 DEF DefrostTypeOK

\* A move or a stay keeps the types of what it touches.
LEMMA MoveType ==
  ASSUME DefrostTypeOK, NEW in \in Readings, Moved \/ Stayed(in)
  PROVE  phase' \in Phases /\ phase_timer' \in Nat /\ cycle_type' \in Types
           /\ defrost' \in DefrostKeys
<1>1. CASE Moved
  <2>1. phase' \in Phases /\ cycle_type' \in Types
    BY <1>1 DEF Moved, Started, Advanced, DefrostTypeOK, Phases, Types
  <2> QED
    BY <1>1, <2>1, RequestsType DEF Moved
<1>2. CASE Stayed(in)
  BY <1>2 DEF Stayed, DefrostTypeOK, DefrostKeys
<1> QED
  BY <1>1, <1>2

\* What a timeout leaves.
LEMMA TimeoutCounted ==
  ASSUME DefrostTypeOK, CountTimeout
  PROVE  consecutive_timeouts' \in 0..3 /\ heater_alarm' \in BOOLEAN
<1>1. consecutive_timeouts' \in 0..3
  BY DEF CountTimeout, DefrostTypeOK
<1>2. heater_alarm' = (heater_alarm \/ consecutive_timeouts' >= 3)
  BY DEF CountTimeout
<1>3. heater_alarm' \in BOOLEAN
  BY <1>2, Zenon
<1> QED
  BY <1>1, <1>3

\* How a call in ACTIVE treats the counter and the alarm.
LEMMA ActiveCounts ==
  ASSUME NEW in \in Readings, Active(in)
  PROVE  \/ CountTimeout
         \/ consecutive_timeouts' = 0 /\ (heater_alarm' = FALSE \/ heater_alarm' = heater_alarm)
         \/ UNCHANGED <<consecutive_timeouts, heater_alarm>>
BY DEF Active, UpdateActive, ActiveTimeout

\* The counters and keys of a call of on_update keep their types.
LEMMA CounterType ==
  ASSUME DefrostTypeOK, NEW in \in Readings, DefrostUpdate(in)
  PROVE  /\ interval_timer' \in 0..(INTERVAL_WRAP - 1)
         /\ interval_key' \in 0..(INTERVAL_WRAP - 1)
         /\ consecutive_timeouts' \in 0..3 /\ heater_alarm' \in BOOLEAN
         /\ manual_start' \in BOOLEAN /\ manual_stop' \in BOOLEAN
<1>1. in.settings.interval \in 1..(INTERVAL_WRAP - 1)
  BY DefrostAssumption DEF Readings, Settings
<1>2. Counted(in) \in 0..(INTERVAL_WRAP - 1)
  BY DefrostAssumption DEF Counted, DefrostTypeOK
<1>3. CASE Abort(in) \/ ManualStop(in)
  BY <1>3 DEF Abort, ManualStop, counters, DefrostTypeOK
<1>4. CASE Idle(in)
  <2>1. interval_timer' \in 0..(INTERVAL_WRAP - 1)
    BY <1>2, <1>4, DefrostAssumption DEF Idle, UpdateIdle, StartDefrost, DefrostTypeOK
  <2>2. interval_key' \in 0..(INTERVAL_WRAP - 1)
    BY <1>1, <1>4, <2>1, DefrostAssumption DEF Idle, PublishDefrostState
  <2> QED
    BY <1>4, <2>1, <2>2 DEF Idle, UpdateIdle, DefrostTypeOK
<1>5. CASE Active(in)
  <2>1. interval_timer' \in 0..(INTERVAL_WRAP - 1)
    BY <1>5 DEF Active, RunningPhase, DefrostTypeOK
  <2>2. interval_key' \in 0..(INTERVAL_WRAP - 1)
    BY <1>1, <1>5, <2>1, DefrostAssumption DEF Active, RunningPhase, PublishDefrostState
  <2>3. consecutive_timeouts' \in 0..3 /\ heater_alarm' \in BOOLEAN
    <3>1. CASE CountTimeout
      BY <3>1, TimeoutCounted
    <3>2. CASE consecutive_timeouts' = 0 /\ (heater_alarm' = FALSE \/ heater_alarm' = heater_alarm)
      <4>1. consecutive_timeouts' \in 0..3
        BY <3>2
      <4>2. heater_alarm \in BOOLEAN
        BY DEF DefrostTypeOK
      <4>3. heater_alarm' \in BOOLEAN
        BY <3>2, <4>2, Zenon
      <4> QED
        BY <4>1, <4>3
    <3>3. CASE UNCHANGED <<consecutive_timeouts, heater_alarm>>
      BY <3>3 DEF DefrostTypeOK
    <3> QED
      BY <1>5, <3>1, <3>2, <3>3, ActiveCounts
  <2> QED
    BY <1>5, <2>1, <2>2, <2>3 DEF Active, RunningPhase, DefrostTypeOK
<1>6. CASE TimedPhase(in)
  <2>1. interval_timer' \in 0..(INTERVAL_WRAP - 1)
    BY <1>6 DEF TimedPhase, RunningPhase, DefrostTypeOK
  <2>2. interval_key' \in 0..(INTERVAL_WRAP - 1)
    BY <1>1, <1>6, <2>1, DefrostAssumption DEF TimedPhase, RunningPhase, PublishDefrostState
  <2> QED
    BY <1>6, <2>1, <2>2 DEF TimedPhase, RunningPhase, DefrostTypeOK
<1> QED
  BY <1>3, <1>4, <1>5, <1>6 DEF DefrostUpdate

\* A call of on_update keeps the types.
LEMMA DefrostUpdateType ==
  ASSUME DefrostTypeOK, NEW in \in Readings, DefrostUpdate(in)
  PROVE  DefrostTypeOK'
<1>1. relay_time' \in Nat /\ since_start' \in 0..INTERVAL_WRAP
  BY DefrostAssumption DEF DefrostUpdate, DefrostTypeOK
<1> QED
  BY <1>1, UpdateMoves, MoveType, CounterType DEF DefrostTypeOK, DefrostKeys

\* Every step keeps the types.
LEMMA DefrostStepType ==
  DefrostTypeOK /\ [DefrostNext \/ DefrostRestart \/ DefrostReboot]_defrostVars
    => DefrostTypeOK'
<1> SUFFICES ASSUME DefrostTypeOK, [DefrostNext \/ DefrostRestart \/ DefrostReboot]_defrostVars
             PROVE  DefrostTypeOK'
  OBVIOUS
<1>1. CASE Tick
  BY <1>1, DefrostUpdateType, DefrostAssumption DEF Tick
<1>2. CASE RaiseStart \/ RaiseStop
  BY <1>2 DEF RaiseStart, RaiseStop, counters, DefrostTypeOK
<1>3. CASE DefrostRestart
  BY <1>3 DEF DefrostRestart, DefrostTypeOK, SetRequests
<1>4. CASE DefrostReboot
  <2>1. DefrostInit'
    BY <1>4 DEF DefrostReboot, DefrostInit
  <2>2. DefrostInit' => DefrostTypeOK'
    BY DefrostInitType, PTL
  <2> QED
    BY <2>1, <2>2
<1>5. CASE UNCHANGED defrostVars
  BY <1>5 DEF defrostVars, DefrostTypeOK
<1> QED
  BY <1>1, <1>2, <1>3, <1>4, <1>5 DEF DefrostNext

\* Every variable has its type, whatever is read and whenever the module is
\* restarted or the unit loses its power.
THEOREM DefrostTypeCorrect ==
  (DefrostSpec => []DefrostTypeOK) /\ (DefrostRestartSpec => []DefrostTypeOK)
<1>1. DefrostTypeOK /\ [DefrostNext]_defrostVars => DefrostTypeOK'
  BY DefrostStepType
<1> QED
  BY DefrostInitType, DefrostStepType, <1>1, PTL DEF DefrostSpec, DefrostRestartSpec

-----------------------------------------------------------------------------
(* What Equipment reads.                                                     *)

\* A call leaves requests and phase in step.
LEMMA StepMatches ==
  DefrostTypeOK /\ RequestsMatchPhase /\ [DefrostNext]_defrostVars
    => RequestsMatchPhase'
<1> SUFFICES ASSUME DefrostTypeOK, RequestsMatchPhase, [DefrostNext]_defrostVars
             PROVE  RequestsMatchPhase'
  OBVIOUS
<1>1. CASE Tick
  <2>1. PICK in \in DefrostInputs : Moved \/ Stayed(in)
    BY <1>1, UpdateMoves, DefrostAssumption DEF Tick
  <2>2. CASE Moved
    BY <2>2 DEF Moved, RequestsMatchPhase
  <2>3. CASE Stayed(in)
    BY <2>3 DEF Stayed, RequestsMatchPhase, PhaseRequests
  <2> QED
    BY <2>1, <2>2, <2>3
<1>2. CASE RaiseStart \/ RaiseStop \/ UNCHANGED defrostVars
  BY <1>2 DEF RaiseStart, RaiseStop, defrostVars, RequestsMatchPhase, PhaseRequests
<1> QED
  BY <1>1, <1>2 DEF DefrostNext

\* As the main loop drives the module, the requests are those of the running
\* phase and of the type the cycle was started with.
THEOREM RequestsHold == DefrostSpec => []RequestsMatchPhase
<1>1. DefrostInit => RequestsMatchPhase
  BY DEF DefrostInit, RequestsMatchPhase, PhaseRequests, SetRequests
<1>2. DefrostTypeOK /\ [DefrostNext]_defrostVars => DefrostTypeOK'
  BY DefrostStepType
<1> QED
  BY DefrostInitType, <1>1, <1>2, StepMatches, PTL DEF DefrostSpec

-----------------------------------------------------------------------------
(* The ceiling of the heater.  The relay is requested in two phases only, and *)
(* a heater cycle knows one of them: there the time the relay was requested   *)
(* is at most the phase's timer, which stays below the ceiling.  All of it    *)
(* survives a restart, which clears the requests and keeps the phase.         *)

HeaterIsTimed ==
  /\ phase = "active" => phase_timer < MAX_DURATION_CEIL
  /\ defrost.defrost_relay => phase \in {"valve_open", "active"}
  /\ cycle_type = 1 => phase \notin {"stabilize", "valve_open", "equalize"}
  /\ cycle_type = 1 /\ phase = "active" => relay_time <= phase_timer

\* The clamp of max_duration.
LEMMA ClampRange ==
  ASSUME NEW in \in Readings
  PROVE  MaxDuration(in.settings) \in 1..MAX_DURATION_CEIL
BY DefrostAssumption DEF MaxDuration, Readings, Settings

\* A call keeps the heater timed.
LEMMA UpdateHeaterTimed ==
  ASSUME DefrostTypeOK, HeaterIsTimed, NEW in \in Readings, DefrostUpdate(in)
  PROVE  HeaterIsTimed'
<1>1. relay_time' = IF defrost'.defrost_relay /\ defrost.defrost_relay
                    THEN relay_time + 1 ELSE 0
  BY DEF DefrostUpdate
<1>2. CASE Moved
  <2>1. phase' = "active" => phase_timer' = 0 /\ phase_timer' < MAX_DURATION_CEIL
    BY <1>2, DefrostAssumption DEF Moved
  <2>2. defrost'.defrost_relay => phase' \in {"valve_open", "active"}
    BY <1>2 DEF Moved, PhaseRequests, SetRequests
  <2>3. cycle_type' = 1 => phase' \notin {"stabilize", "valve_open", "equalize"}
    BY <1>2 DEF Moved, Started, Advanced, HeaterIsTimed
  <2>4. cycle_type' = 1 /\ phase' = "active" => phase = "idle"
    BY <1>2 DEF Moved, Started, Advanced, HeaterIsTimed
  <2>5. cycle_type' = 1 /\ phase' = "active" => relay_time' <= phase_timer'
    BY <1>1, <1>2, <2>4 DEF Moved, HeaterIsTimed
  <2> QED
    BY <2>1, <2>2, <2>3, <2>5 DEF HeaterIsTimed
<1>3. CASE Stayed(in)
  <2>1. phase' = "active" => phase_timer' = phase_timer + 1 /\ phase_timer' < MAX_DURATION_CEIL
    BY <1>3, ClampRange, DefrostAssumption DEF Stayed, DefrostTypeOK
  <2>2. cycle_type' = 1 /\ phase' = "active" => relay_time' <= phase_timer'
    BY <1>1, <1>3, <2>1 DEF Stayed, HeaterIsTimed, DefrostTypeOK
  <2> QED
    BY <1>3, <2>1, <2>2 DEF Stayed, HeaterIsTimed
<1> QED
  BY <1>2, <1>3, UpdateMoves

\* Every step, restarts included, keeps the heater timed.
LEMMA StepHeaterTimed ==
  DefrostTypeOK /\ HeaterIsTimed /\ [DefrostNext \/ DefrostRestart \/ DefrostReboot]_defrostVars
    => HeaterIsTimed'
<1> SUFFICES ASSUME DefrostTypeOK, HeaterIsTimed,
                    [DefrostNext \/ DefrostRestart \/ DefrostReboot]_defrostVars
             PROVE  HeaterIsTimed'
  OBVIOUS
<1>1. CASE Tick
  BY <1>1, UpdateHeaterTimed, DefrostAssumption DEF Tick
<1>2. CASE RaiseStart \/ RaiseStop \/ UNCHANGED defrostVars
  BY <1>2 DEF RaiseStart, RaiseStop, defrostVars, HeaterIsTimed
<1>3. CASE DefrostRestart
  BY <1>3 DEF DefrostRestart, SetRequests, HeaterIsTimed, DefrostTypeOK
<1>4. CASE DefrostReboot
  BY <1>4 DEF DefrostReboot, SetRequests, HeaterIsTimed
<1> QED
  BY <1>1, <1>2, <1>3, <1>4 DEF DefrostNext

\* The heater is requested for less than the ceiling of the clamp, even if every
\* call reads other settings, the watchdog restarts the module in the cycle or the
\* power fails.
THEOREM CeilingHolds == DefrostRestartSpec => []HeaterCeiling
<1>1. DefrostInit => HeaterIsTimed
  BY DEF DefrostInit, SetRequests, HeaterIsTimed
<1>2. DefrostTypeOK /\ HeaterIsTimed => HeaterCeiling
  BY DefrostAssumption DEF DefrostTypeOK, HeaterIsTimed, HeaterCeiling
<1> QED
  BY DefrostInitType, DefrostStepType, <1>1, StepHeaterTimed, <1>2, PTL DEF DefrostRestartSpec

-----------------------------------------------------------------------------
(* The order of the phases.                                                  *)

\* A cycle keeps its type, and hot gas goes through its phases in order.
THEOREM OrderHolds == DefrostSpec => CycleOrder
<1> DEFINE Ordered ==
  /\ phase # "idle" => cycle_type' = cycle_type
  /\ phase' # phase /\ cycle_type' = 2 /\ phase' # "idle" =>
       <<phase, phase'>> \in {<<"idle", "stabilize">>, <<"stabilize", "valve_open">>,
                             <<"valve_open", "active">>, <<"active", "equalize">>,
                             <<"equalize", "drip">>, <<"drip", "fad">>}
<1>1. DefrostTypeOK /\ [DefrostNext]_defrostVars => [Ordered]_defrostVars
  <2> SUFFICES ASSUME DefrostTypeOK, DefrostNext PROVE Ordered
    OBVIOUS
  <2>1. CASE Tick
    BY <2>1, UpdateMoves, DefrostAssumption DEF Tick, Moved, Started, Advanced, Stayed
  <2>2. CASE RaiseStart \/ RaiseStop
    BY <2>2 DEF RaiseStart, RaiseStop
  <2> QED
    BY <2>1, <2>2 DEF DefrostNext
<1>2. DefrostTypeOK /\ [DefrostNext]_defrostVars => DefrostTypeOK'
  BY DefrostStepType
<1> QED
  BY DefrostInitType, <1>1, <1>2, PTL DEF DefrostSpec, CycleOrder

-----------------------------------------------------------------------------
(* The heater alarm.  The module counts; the history knows how the cycles    *)
(* ended.  CountsCold, inductive, says that the counter is the number of the *)
(* latest complete cycles in a row that ended cold, up to three: whatever    *)
(* was aborted between them, and whatever a restart does to the alarm.       *)

CountsCold ==
  /\ DefrostTypeOK
  /\ outcomes \in Outcomes \X Outcomes \X Outcomes
  /\ consecutive_timeouts >= 1 <=> outcomes[1] = "cold"
  /\ consecutive_timeouts >= 2 <=> outcomes[1] = "cold" /\ outcomes[2] = "cold"
  /\ consecutive_timeouts >= 3 <=> AllCold(outcomes)

\* What a call of on_update does to the counter and the alarm, by how the cycle ended.
CountsAs(in) ==
  \/ ~Completes /\ UNCHANGED <<consecutive_timeouts, heater_alarm>>
  \/ Completes /\ Outcome(in) = "cold" /\ CountTimeout
  \/ Completes /\ Outcome(in) = "warm" /\ consecutive_timeouts' = 0 /\ heater_alarm' = FALSE
  \/ Completes /\ Outcome(in) = "timer" /\ consecutive_timeouts' = 0 /\ UNCHANGED heater_alarm

\* A cycle runs into the clock in temperature mode only if it is cold: the clamp of
\* max_duration leaves the evaporator the time to be looked at.
LEMMA UpdateCounts ==
  ASSUME NEW in \in Readings, DefrostTypeOK, DefrostUpdate(in)
  PROVE  CountsAs(in)
<1>1. CASE Active(in)
  <2>1. phase = "active" /\ UpdateActive(in)
    BY <1>1 DEF Active, RunningPhase
  <2>2. FinishActive => Completes
    BY <2>1 DEF FinishActive, EnterPhase, Completes
  <2>3. CASE TempReached(in)
    BY <2>1, <2>2, <2>3 DEF UpdateActive, TempReached, Outcome, CountsAs
  <2>4. CASE ~TempReached(in) /\ phase_timer + 1 >= MaxDuration(in.settings)
    <3>1. ActiveTimeout(in) /\ Completes
      BY <2>1, <2>2, <2>4 DEF UpdateActive, ActiveTimeout
    <3>2. MaxDuration(in.settings) \in Nat /\ MaxDuration(in.settings) >= MIN_ACTIVE_CHECK
      BY DefrostAssumption DEF MaxDuration, Readings, Settings
    <3>3. phase_timer + 1 >= MIN_ACTIVE_CHECK
      BY <2>4, <3>2, DefrostAssumption DEF DefrostTypeOK
    <3>4. in.settings.termination \in {0, 1}
      BY DEF Readings, Settings
    <3> QED
      BY <2>4, <3>1, <3>3, <3>4 DEF ActiveTimeout, TempReached, Outcome, CountsAs
  <2>5. CASE ~TempReached(in) /\ ~(phase_timer + 1 >= MaxDuration(in.settings))
    BY <2>1, <2>5 DEF UpdateActive, Completes, CountsAs
  <2> QED
    BY <2>3, <2>4, <2>5
<1>2. CASE Abort(in) \/ ManualStop(in)
  BY <1>2 DEF Abort, ManualStop, EnterPhase, counters, Completes, CountsAs
<1>3. CASE Idle(in) \/ TimedPhase(in)
  BY <1>3 DEF Idle, TimedPhase, RunningPhase, Completes, CountsAs
<1> QED
  BY <1>1, <1>2, <1>3 DEF DefrostUpdate

\* A call of on_update keeps the counter true.
LEMMA RecordCounts ==
  ASSUME CountsCold, NEW in \in Readings, DefrostUpdate(in), Record(in)
  PROVE  CountsCold'
<1>1. DefrostTypeOK' /\ CountsAs(in)
  BY DefrostUpdateType, UpdateCounts DEF CountsCold
<1>2. CASE ~Completes /\ UNCHANGED <<consecutive_timeouts, heater_alarm>>
  BY <1>1, <1>2 DEF Record, CountsCold, AllCold
<1>3. CASE Completes
  <2>1. outcomes' = <<Outcome(in), outcomes[1], outcomes[2]>>
    BY <1>3 DEF Record
  <2>2. outcomes' \in Outcomes \X Outcomes \X Outcomes
    BY <2>1 DEF CountsCold, Outcome, Outcomes
  <2>3. /\ outcomes'[1] = Outcome(in) /\ outcomes'[2] = outcomes[1]
        /\ outcomes'[3] = outcomes[2]
    BY <2>1
  <2>4. CASE Outcome(in) = "cold"
    <3>1. consecutive_timeouts' = IF consecutive_timeouts < 3 THEN consecutive_timeouts + 1 ELSE 3
      BY <1>1, <1>3, <2>4 DEF CountsAs, CountTimeout
    <3>2. consecutive_timeouts \in 0..3
      BY DEF CountsCold, DefrostTypeOK
    <3> QED
      BY <1>1, <2>2, <2>3, <2>4, <3>1, <3>2 DEF CountsCold, AllCold
  <2>5. CASE Outcome(in) # "cold"
    <3>1. consecutive_timeouts' = 0
      BY <1>1, <1>3, <2>5 DEF CountsAs
    <3> QED
      BY <1>1, <2>2, <2>3, <2>5, <3>1 DEF CountsCold, AllCold
  <2> QED
    BY <2>4, <2>5
<1> QED
  BY <1>1, <1>2, <1>3 DEF CountsAs

\* Every step keeps the counter true, restarts and power cycles included.
LEMMA StepCounts ==
  CountsCold /\ [HeaterAlarmNext \/ HeaterAlarmRestart]_heaterAlarmVars => CountsCold'
<1> SUFFICES ASSUME CountsCold, [HeaterAlarmNext \/ HeaterAlarmRestart]_heaterAlarmVars
             PROVE  CountsCold'
  OBVIOUS
<1>1. CASE \E in \in DefrostInputs : DefrostUpdate(in) /\ Record(in)
  BY <1>1, RecordCounts, DefrostAssumption
<1>2. CASE (RaiseStart \/ RaiseStop \/ DefrostRestart) /\ UNCHANGED outcomes
  <2>1. DefrostTypeOK'
    BY <1>2, DefrostStepType DEF CountsCold, DefrostNext
  <2>2. UNCHANGED consecutive_timeouts
    BY <1>2 DEF RaiseStart, RaiseStop, DefrostRestart, counters
  <2> QED
    BY <1>2, <2>1, <2>2 DEF CountsCold, AllCold
<1>3. CASE DefrostReboot /\ Forget
  <2>1. DefrostTypeOK'
    BY <1>3, DefrostStepType DEF CountsCold
  <2> QED
    BY <1>3, <2>1 DEF DefrostReboot, Forget, CountsCold, AllCold, Outcomes
<1>4. CASE UNCHANGED heaterAlarmVars
  <2>1. DefrostTypeOK'
    BY <1>4, DefrostStepType DEF CountsCold, heaterAlarmVars
  <2> QED
    BY <1>4, <2>1 DEF heaterAlarmVars, defrostVars, CountsCold, AllCold
<1> QED
  BY <1>1, <1>2, <1>3, <1>4 DEF HeaterAlarmNext, HeaterAlarmTick, HeaterAlarmRestart

\* The heater alarm rises and falls as the cycles that really ended tell it, for
\* every stream of readings, settings, aborts, commands, restarts and power cycles.
THEOREM HeaterAlarmHolds == HeaterAlarmRestartSpec => HeaterAlarmTells
<1> DEFINE Tells ==
  /\ Completes /\ AllCold(outcomes') => heater_alarm'
  /\ ~heater_alarm /\ heater_alarm' => Completes /\ AllCold(outcomes')
  /\ heater_alarm /\ ~heater_alarm' =>
       \/ Completes /\ outcomes'[1] = "warm"
       \/ DefrostRestart \/ DefrostReboot
<1>1. HeaterAlarmInit => CountsCold
  BY DefrostInitType
     DEF HeaterAlarmInit, DefrostInit, CountsCold, AllCold, Outcomes
<1>2. CountsCold /\ [HeaterAlarmNext \/ HeaterAlarmRestart]_heaterAlarmVars
        => [Tells]_heaterAlarmVars
  <2> SUFFICES ASSUME CountsCold, HeaterAlarmNext \/ HeaterAlarmRestart PROVE Tells
    OBVIOUS
  <2>1. ASSUME NEW in \in DefrostInputs, DefrostUpdate(in), Record(in) PROVE Tells
    <3>1. in \in Readings
      BY DefrostAssumption
    <3>2. CountsCold' /\ CountsAs(in)
      BY <2>1, <3>1, RecordCounts, UpdateCounts DEF CountsCold
    <3>3. CASE ~Completes
      BY <3>2, <3>3 DEF CountsAs
    <3>4. CASE Completes
      <4>1. outcomes'[1] = Outcome(in)
        BY <2>1, <3>4 DEF Record
      <4>2. CASE Outcome(in) = "cold" /\ CountTimeout
        <5>1. consecutive_timeouts' >= 3 <=> AllCold(outcomes')
          BY <3>2 DEF CountsCold
        <5>2. heater_alarm' <=> heater_alarm \/ consecutive_timeouts' >= 3
          BY <4>2, TimeoutCounted DEF CountTimeout, CountsCold, DefrostTypeOK
        <5> QED
          BY <3>4, <5>1, <5>2, Zenon
      <4>3. CASE Outcome(in) # "cold"
        BY <3>2, <3>4, <4>1, <4>3 DEF CountsAs, AllCold
      <4> QED
        BY <3>2, <3>4, <4>2, <4>3 DEF CountsAs
    <3> QED
      BY <3>3, <3>4
  <2>2. CASE RaiseStart \/ RaiseStop
    BY <2>2 DEF RaiseStart, RaiseStop, counters, Completes
  <2>3. CASE DefrostRestart
    BY <2>3 DEF DefrostRestart, Completes
  <2>4. CASE DefrostReboot
    BY <2>4 DEF DefrostReboot, Completes
  <2> QED
    BY <2>1, <2>2, <2>3, <2>4 DEF HeaterAlarmNext, HeaterAlarmTick, HeaterAlarmRestart
<1> QED
  BY <1>1, StepCounts, <1>2, PTL DEF HeaterAlarmRestartSpec, HeaterAlarmTells

-----------------------------------------------------------------------------
(* Units without a relay.                                                    *)

\* On a unit without a defrost relay every cycle is a natural one, which requests
\* no relay (BUG-011), whatever type the settings ask for.
NaturalOnly == ~HasRelay => cycle_type = 0 /\ ~defrost.defrost_relay

\* The relay is never asked for where there is none.
THEOREM NoRelayNoRequest == DefrostSpec => []NaturalOnly
<1> DEFINE Inv == NaturalOnly /\ (~HasRelay => phase \notin {"stabilize", "valve_open"})
<1>1. DefrostInit => Inv
  BY DEF DefrostInit, NaturalOnly, SetRequests
<1>2. DefrostTypeOK /\ Inv /\ [DefrostNext]_defrostVars => Inv'
  <2> SUFFICES ASSUME DefrostTypeOK, Inv, [DefrostNext]_defrostVars, ~HasRelay PROVE Inv'
    BY DEF NaturalOnly
  <2>1. CASE Tick
    <3>1. PICK in \in DefrostInputs : Moved \/ Stayed(in)
      BY <2>1, UpdateMoves, DefrostAssumption DEF Tick
    <3>2. CASE Moved
      <4>1. cycle_type' = 0 /\ phase' \notin {"stabilize", "valve_open"}
        BY <3>2 DEF Moved, Started, Advanced, NaturalOnly
      <4>2. ~PhaseRequests(phase', 0).defrost_relay
        BY <4>1 DEF PhaseRequests, SetRequests
      <4> QED
        BY <3>2, <4>1, <4>2 DEF Moved, NaturalOnly
    <3>3. CASE Stayed(in)
      BY <3>3 DEF Stayed, NaturalOnly
    <3> QED
      BY <3>1, <3>2, <3>3
  <2>2. CASE RaiseStart \/ RaiseStop \/ UNCHANGED defrostVars
    BY <2>2 DEF RaiseStart, RaiseStop, defrostVars, NaturalOnly
  <2> QED
    BY <2>1, <2>2 DEF DefrostNext
<1>3. DefrostTypeOK /\ [DefrostNext]_defrostVars => DefrostTypeOK'
  BY DefrostStepType
<1> QED
  BY DefrostInitType, <1>1, <1>2, <1>3, PTL DEF DefrostSpec

-----------------------------------------------------------------------------
(* The distance of automatic cycles.  The interval timer never runs ahead of  *)
(* the calls since the last start: it counts at most one of each, wraps, and   *)
(* goes back to zero where a cycle starts or is skipped.                       *)

TimerBehind == interval_timer <= since_start

\* A call of on_update counts at most once.
LEMMA CountsOnce ==
  ASSUME DefrostTypeOK, NEW in \in Readings
  PROVE  Counted(in) \in 0..(interval_timer + 1)
<1>1. (interval_timer + 1) % INTERVAL_WRAP \in 0..(interval_timer + 1)
  BY DefrostAssumption DEF DefrostTypeOK
<1> QED
  BY <1>1 DEF Counted, DefrostTypeOK

\* A call leaves the timer behind.
LEMMA UpdateBehind ==
  ASSUME DefrostTypeOK, TimerBehind, NEW in \in Readings, DefrostUpdate(in)
  PROVE  TimerBehind'
<1>1. interval_timer' \in 0..(INTERVAL_WRAP - 1)
  BY CounterType
<1>2. since_start' = IF phase = "idle" /\ phase' # "idle" THEN 0
                     ELSE IF since_start < INTERVAL_WRAP THEN since_start + 1
                     ELSE since_start
  BY DEF DefrostUpdate
<1>3. CASE Idle(in)
  <2>1. \/ interval_timer' = 0
        \/ phase' = phase /\ interval_timer' \in 0..(interval_timer + 1)
    BY <1>3, CountsOnce DEF Idle, UpdateIdle, StartDefrost, Stay, DefrostTypeOK
  <2> QED
    BY <1>1, <1>2, <1>3, <2>1, DefrostAssumption DEF Idle, TimerBehind, DefrostTypeOK
<1>4. CASE ~Idle(in)
  <2>1. interval_timer' = interval_timer
    BY <1>4 DEF DefrostUpdate, Abort, ManualStop, Active, TimedPhase, RunningPhase, counters
  <2>2. phase # "idle"
    BY <1>4, UpdateMoves
       DEF DefrostUpdate, Abort, LockoutAborts, BlockAborts, ManualStop, Active, TimedPhase,
          RunningPhase
  <2> QED
    BY <1>1, <1>2, <2>1, <2>2, DefrostAssumption DEF TimerBehind, DefrostTypeOK
<1> QED
  BY <1>3, <1>4

\* A call that starts a cycle without a command has waited for a quarter of the
\* interval at least.
LEMMA StartsRested ==
  ASSUME DefrostTypeOK, TimerBehind, NEW in \in Readings, Idle(in), phase' # "idle", ~manual_start
  PROVE  since_start + 1 >= in.settings.interval \div 4
<1>1. Counted(in) >= in.settings.interval \/ Counted(in) >= in.settings.interval \div 4
  BY DEF Idle, UpdateIdle, Stay, TimerTrigger, DemandTrigger
<1>2. in.settings.interval \in Nat /\ in.settings.interval \div 4 <= in.settings.interval
  BY DefrostAssumption DEF Readings, Settings
<1>3. Counted(in) \in 0..(interval_timer + 1)
  BY CountsOnce
<1> QED
  BY <1>1, <1>2, <1>3, DefrostAssumption DEF TimerBehind, DefrostTypeOK

\* Whatever aborts, skips and changes of the settings lie between, an automatic
\* start comes no sooner than a quarter of the interval after the start before it.
THEOREM RestHolds == DefrostSpec => RestBetweenCycles
<1>1. DefrostInit => TimerBehind
  BY DEF DefrostInit, TimerBehind
<1>2. DefrostTypeOK /\ [DefrostNext]_defrostVars => DefrostTypeOK'
  BY DefrostStepType
<1>3. DefrostTypeOK /\ TimerBehind /\ [DefrostNext]_defrostVars => TimerBehind'
  <2> SUFFICES ASSUME DefrostTypeOK, TimerBehind, [DefrostNext]_defrostVars PROVE TimerBehind'
    OBVIOUS
  <2>1. CASE Tick
    BY <2>1, UpdateBehind, DefrostAssumption DEF Tick
  <2>2. CASE RaiseStart \/ RaiseStop \/ UNCHANGED defrostVars
    BY <2>2 DEF RaiseStart, RaiseStop, counters, defrostVars, TimerBehind
  <2> QED
    BY <2>1, <2>2 DEF DefrostNext
<1>4. DefrostTypeOK /\ TimerBehind /\ [DefrostNext]_defrostVars
        => [phase = "idle" /\ phase' # "idle" /\ ~manual_start
              => \A in \in DefrostInputs :
                   Idle(in) => since_start + 1 >= in.settings.interval \div 4]_defrostVars
  BY StartsRested, DefrostAssumption
<1> QED
  BY DefrostInitType, <1>1, <1>2, <1>3, <1>4, PTL DEF DefrostSpec, RestBetweenCycles

-----------------------------------------------------------------------------
(* The loop.  Every step of it is a step of the two modules, over requests    *)
(* and readings of their types.                                              *)

\* What Equipment finds in SharedState.
LEMMA RequestsTyped == TypeOK => FoundRequests \in Requests
BY DEF TypeOK, DefrostTypeOK, FoundRequests, Requests, ThermostatKeys, DefrostKeys,
   DefrostTypes, Types, ThermostatChoices

\* What Defrost finds there.
LEMMA ReadingsTyped ==
  ASSUME TypeOK, protection' \in ProtectionChoices, NEW evap \in EvapReadings
  PROVE  FoundReadings(evap) \in Readings
<1>1. protection' \in ProtectionKeys /\ evap.ok \in BOOLEAN /\ evap.temp \in Int
  BY LoopAssumption
<1>2. equipment.compressor \in BOOLEAN
  BY DEF TypeOK, EquipmentTypeOK, Actuators, Refrigeration
<1>3. [DefrostSettings EXCEPT !.type = defrost_type] \in Settings
  BY LoopAssumption DEF TypeOK, Settings
<1> QED
  BY <1>1, <1>2, <1>3 DEF FoundReadings, Readings, ProtectionKeys

\* A step of the loop, seen by Equipment and by Defrost.
EquipmentMove ==
  \/ EquipmentUpdate(FoundRequests) \/ EquipmentRestart \/ EquipmentReboot
  \/ UNCHANGED equipmentVars
DefrostMove ==
  \/ \E in \in Readings : DefrostUpdate(in)
  \/ RaiseStart \/ DefrostRestart \/ DefrostReboot \/ UNCHANGED defrostVars

\* Whatever the turn, the watchdog and the user do.
LEMMA LoopMoves == TypeOK /\ [Next]_vars => EquipmentMove /\ DefrostMove
<1> SUFFICES ASSUME TypeOK, [Next]_vars PROVE EquipmentMove /\ DefrostMove
  OBVIOUS
<1>1. CASE BusinessTurn
  BY <1>1, ReadingsTyped DEF BusinessTurn, EquipmentMove, DefrostMove
<1>2. CASE Watchdog
  BY <1>2 DEF Watchdog, Check, EquipmentMove, DefrostMove
<1>3. CASE EquipmentTurn \/ ChangeType \/ RequestDefrost \/ Reset \/ UNCHANGED vars
  BY <1>3 DEF EquipmentTurn, ChangeType, RequestDefrost, Reset, vars, EquipmentMove, DefrostMove
<1> QED
  BY <1>1, <1>2, <1>3 DEF Next

\* The relays, the phase and the keys keep their types in the loop.
LEMMA MovesType == TypeOK /\ [Next]_vars => EquipmentTypeOK' /\ DefrostTypeOK'
<1> SUFFICES ASSUME TypeOK, [Next]_vars PROVE EquipmentTypeOK' /\ DefrostTypeOK'
  OBVIOUS
<1>1. EquipmentTypeOK'
  <2>1. CASE EquipmentUpdate(FoundRequests)
    BY <2>1, RequestsTyped, EquipmentUpdateType DEF TypeOK
  <2>2. CASE EquipmentRestart \/ EquipmentReboot
    BY <2>2, EquipmentRestartType, EquipmentRebootType DEF TypeOK
  <2>3. CASE UNCHANGED equipmentVars
    BY <2>3 DEF equipmentVars, TypeOK, EquipmentTypeOK
  <2> QED
    BY <2>1, <2>2, <2>3, LoopMoves DEF EquipmentMove
<1>2. DefrostTypeOK'
  <2>1. ASSUME NEW in \in Readings, DefrostUpdate(in) PROVE DefrostTypeOK'
    BY <2>1, DefrostUpdateType DEF TypeOK
  <2>2. CASE RaiseStart \/ DefrostRestart \/ DefrostReboot
    BY <2>2, DefrostStepType DEF TypeOK, DefrostNext
  <2>3. CASE UNCHANGED defrostVars
    BY <2>3 DEF defrostVars, TypeOK, DefrostTypeOK
  <2> QED
    BY <2>1, <2>2, <2>3, LoopMoves DEF DefrostMove
<1> QED
  BY <1>1, <1>2

\* The loop keeps all types.
LEMMA LoopStepType == TypeOK /\ [Next]_vars => TypeOK'
<1> SUFFICES ASSUME TypeOK, [Next]_vars PROVE TypeOK'
  OBVIOUS
<1>1. EquipmentTypeOK' /\ DefrostTypeOK'
  BY MovesType
<1>2. turn' \in {"watchdog", "equipment", "business"}
  BY DEF TypeOK, Next, Watchdog, Check, EquipmentTurn, BusinessTurn, ChangeType, RequestDefrost,
     Reset, vars, loopVars
<1>3. restarts' \in [Supervised -> 0..MAX_RESTARTS]
  BY LoopAssumption DEF TypeOK, Next, Watchdog, Check, EquipmentTurn, BusinessTurn, ChangeType,
     RequestDefrost, Reset, vars, loopVars
<1>4. thermostat' \in ThermostatChoices /\ protection' \in ProtectionKeys
  <2>1. NoRequest \in ThermostatChoices
    BY DEF ThermostatChoices, NoRequest
  <2>2. NoBlocks \in ProtectionKeys
    BY DEF NoBlocks, ProtectionKeys
  <2> QED
    BY <2>1, <2>2, LoopAssumption
    DEF TypeOK, Next, Watchdog, Check, EquipmentTurn, BusinessTurn, ChangeType, RequestDefrost,
        Reset, vars, loopVars
<1>5. defrost_type' \in Types
  BY LoopAssumption DEF TypeOK, Next, Watchdog, Check, EquipmentTurn, BusinessTurn, ChangeType,
     RequestDefrost, Reset, vars, loopVars
<1>6. type_kept' \in BOOLEAN
  <2>1. CASE BusinessTurn
    BY <2>1, Zenon DEF BusinessTurn
  <2>2. CASE ChangeType
    BY <2>2, Zenon DEF ChangeType
  <2>3. CASE ~BusinessTurn /\ ~ChangeType
    BY <2>3 DEF TypeOK, Next, Watchdog, Check, EquipmentTurn, RequestDefrost, Reset, vars, loopVars
  <2> QED
    BY <2>1, <2>2, <2>3
<1> QED
  BY <1>1, <1>2, <1>3, <1>4, <1>5, <1>6 DEF TypeOK

\* The state after a power-up has the types.
LEMMA LoopInitType == Init => TypeOK
<1> SUFFICES ASSUME Init PROVE TypeOK
  OBVIOUS
<1>1. EquipmentTypeOK /\ DefrostTypeOK
  BY EquipmentInitType, DefrostInitType DEF Init
<1>2. thermostat \in ThermostatChoices /\ protection \in ProtectionKeys
  BY DEF Init, ThermostatChoices, NoRequest, NoBlocks, ProtectionKeys
<1>3. restarts \in [Supervised -> 0..MAX_RESTARTS] /\ defrost_type \in Types
  BY LoopAssumption DEF Init
<1> QED
  BY <1>1, <1>2, <1>3 DEF Init, TypeOK

-----------------------------------------------------------------------------
(* What the loop inherits from the modules.  Each of these is an invariant of *)
(* the module's own steps, and the loop takes no others.                      *)

\* Defrost publishes the requests of its phase, or none: after a restart, until
\* the phase it kept ends.
RequestsOrNone ==
  \/ defrost = PhaseRequests(phase, cycle_type)
  \/ defrost = SetRequests(FALSE, FALSE, FALSE, FALSE)

\* Every step of the loop keeps the heater timed and the requests plausible.
LEMMA LoopHeater ==
  TypeOK /\ HeaterIsTimed /\ RequestsOrNone /\ [Next]_vars => HeaterIsTimed' /\ RequestsOrNone'
<1> SUFFICES ASSUME TypeOK, HeaterIsTimed, RequestsOrNone, [Next]_vars
             PROVE  HeaterIsTimed' /\ RequestsOrNone'
  OBVIOUS
<1>1. ASSUME NEW in \in Readings, DefrostUpdate(in) PROVE HeaterIsTimed' /\ RequestsOrNone'
  <2>1. HeaterIsTimed'
    BY <1>1, UpdateHeaterTimed DEF TypeOK
  <2>2. ASSUME Moved PROVE RequestsOrNone'
    BY <2>2 DEF Moved, RequestsOrNone
  <2>3. ASSUME Stayed(in) PROVE RequestsOrNone'
    BY <2>3 DEF Stayed, RequestsOrNone, PhaseRequests
  <2> QED
    BY <1>1, <2>1, <2>2, <2>3, UpdateMoves DEF TypeOK
<1>2. CASE RaiseStart \/ DefrostRestart \/ DefrostReboot
  <2>1. HeaterIsTimed'
    BY <1>2, StepHeaterTimed DEF TypeOK, DefrostNext
  <2>2. RequestsOrNone'
    BY <1>2 DEF RaiseStart, DefrostRestart, DefrostReboot, RequestsOrNone, PhaseRequests
  <2> QED
    BY <2>1, <2>2
<1>3. CASE UNCHANGED defrostVars
  BY <1>3 DEF defrostVars, HeaterIsTimed, RequestsOrNone, PhaseRequests
<1> QED
  BY <1>1, <1>2, <1>3, LoopMoves DEF DefrostMove

\* What the requests say of the cycle.
LEMMA RequestsSay ==
  ASSUME TypeOK, HeaterIsTimed, RequestsOrNone
  PROVE  /\ phase = "idle" => ~defrost.active
         /\ defrost.defrost_relay => defrost.active /\ phase \in {"valve_open", "active"}
         /\ cycle_type = 1 /\ defrost.defrost_relay => phase = "active" /\ ~defrost.compressor
<1>1. CASE defrost = SetRequests(FALSE, FALSE, FALSE, FALSE)
  BY <1>1 DEF SetRequests
<1>2. CASE defrost = PhaseRequests(phase, cycle_type)
  <2>1. phase = "idle" => ~defrost.active
    BY <1>2 DEF PhaseRequests, SetRequests
  <2>2. defrost.defrost_relay => defrost.active
    BY <1>2 DEF PhaseRequests, SetRequests
  <2>3. ASSUME phase = "active", cycle_type = 1 PROVE ~defrost.compressor
    <3>1. defrost = SetRequests(TRUE, cycle_type = 2, cycle_type # 0, FALSE)
      BY <1>2, <2>3, Zenon DEF PhaseRequests
    <3>2. defrost.compressor = (cycle_type = 2)
      BY <3>1, Zenon DEF SetRequests
    <3>3. ~(cycle_type = 2)
      BY <2>3
    <3> QED
      BY <3>2, <3>3
  <2> QED
    BY <2>1, <2>2, <2>3 DEF HeaterIsTimed
<1> QED
  BY <1>1, <1>2 DEF RequestsOrNone

\* The interlock holds in the loop.
LEMMA LoopExcludes ==
  TypeOK /\ KnownHeaterExcludesCompressor /\ [Next]_vars
    => KnownHeaterExcludesCompressor'
<1> SUFFICES ASSUME TypeOK, KnownHeaterExcludesCompressor, [Next]_vars
             PROVE  KnownHeaterExcludesCompressor'
  OBVIOUS
<1>1. CASE EquipmentUpdate(FoundRequests)
  BY <1>1, RequestsTyped, UpdateExcludes
<1>2. CASE EquipmentRestart
  BY <1>2, StepExcludes DEF TypeOK
<1>3. CASE EquipmentReboot
  BY <1>3 DEF EquipmentReboot, KnownHeaterExcludesCompressor
<1>4. CASE UNCHANGED equipmentVars
  BY <1>4 DEF equipmentVars, KnownHeaterExcludesCompressor, CompressorOn
<1> QED
  BY <1>1, <1>2, <1>3, <1>4, LoopMoves DEF EquipmentMove

-----------------------------------------------------------------------------
(* The heater and the compressor.  Equipment learns the type of a cycle from  *)
(* defrost.type, and only on the pass in which it sees the cycle begin.  It    *)
(* misses the beginning when a lockout or a restart made it miss the end of    *)
(* the cycle before; but then the compressor is off, and nothing asks for it.  *)

CompressorRests == ~comp_actual /\ ~relay["compressor"]

\* The type Equipment will use for the cycle it is in, or is about to see, is
\* that of a heater.
HeaterKnown == IF prev_defrost_active THEN defrost_type_cached = 1 ELSE defrost_type = 1

HeaterRequested == cycle_type = 1 /\ phase = "active" /\ defrost.defrost_relay

\* Equipment has seen the end of a cycle, or has the compressor off.
EndSeen == turn = "business" /\ phase = "idle" => ~prev_defrost_active \/ CompressorRests
HeaterExpected == type_kept /\ HeaterRequested => CompressorRests \/ HeaterKnown

Apart == OnPins => EndSeen /\ HeaterExpected /\ (type_kept => ~Overlap)

LoopInv ==
  /\ TypeOK /\ HeaterIsTimed /\ RequestsOrNone /\ KnownHeaterExcludesCompressor
  /\ RelayOnlyInDefrost /\ Apart

\* The board does not change.
LEMMA SameBoard == [Next]_vars /\ TypeOK => (HeaterOnPin' <=> HeaterOnPin) /\ (OnPins' <=> OnPins)
<1> SUFFICES ASSUME [Next]_vars, TypeOK PROVE expander' = expander
  BY DEF HeaterOnPin, OnPins
<1> QED
  BY LoopMoves, RelayStep
  DEF EquipmentMove, EquipmentUpdate, EquipmentRestart, EquipmentReboot, ApplyOutputs, equipmentVars

\* What on_update makes of a request for the heater.
LEMMA HeaterFollows ==
  ASSUME HeaterOnPin, EquipmentUpdate(FoundRequests), relay'["defrost_relay"]
  PROVE  ~protection.lockout /\ defrost.active /\ defrost.defrost_relay
<1>1. Outputs(FoundRequests, Aged(comp_since))["defrost_relay"]
  BY RelayStep DEF EquipmentUpdate, HeaterOnPin
<1> QED
  BY <1>1 DEF Outputs, AllOff, Actuators, Refrigeration, Selected, FoundRequests

\* What on_update makes of a defrost with a heater that it knows, or that finds
\* the compressor off: the compressor is off afterwards.
LEMMA CompressorYields ==
  ASSUME TypeOK, OnPins, EquipmentUpdate(FoundRequests), defrost.active,
         \/ protection.lockout
         \/ CompressorRests /\ ~defrost.compressor
         \/ HeaterKnown /\ defrost.defrost_relay
  PROVE  CompressorRests'
<1> DEFINE since == Aged(comp_since)
<1>1. relay'["compressor"] = Outputs(FoundRequests, since)["compressor"]
  BY RelayStep, EquipmentAssumption DEF EquipmentUpdate, OnPins
<1>2. comp_actual' = relay'["compressor"]
  BY DEF EquipmentUpdate, PublishEquipmentState
<1>3. Selected(FoundRequests).compressor = defrost.compressor
  BY DEF Selected, Refrigeration, FoundRequests
<1>4. CASE protection.lockout
  BY <1>1, <1>2, <1>4 DEF Outputs, AllOff, Actuators, Refrigeration, FoundRequests,
     CompressorRests
<1>5. CASE ~protection.lockout
  <2>1. relay'["compressor"] = CompressorOut(FoundRequests, since)
    BY <1>1, <1>5 DEF Outputs, Actuators, Refrigeration, FoundRequests
  <2>2. ~CompressorOut(FoundRequests, since)
    <3>1. CASE CompressorRests /\ ~defrost.compressor
      BY <1>3, <3>1 DEF CompressorOut, AntiShortCycle, CompressorRests
    <3>2. CASE HeaterKnown /\ defrost.defrost_relay
      <4>1. TypeInEffect(FoundRequests) = 1
        BY <3>2 DEF TypeInEffect, HeaterKnown, FoundRequests
      <4>2. Selected(FoundRequests).defrost_relay
        BY <3>2 DEF Selected, Refrigeration, FoundRequests
      <4> QED
        BY <4>1, <4>2 DEF CompressorOut, HeaterInterlock
    <3> QED
      BY <1>5, <3>1, <3>2
  <2> QED
    BY <1>2, <2>1, <2>2 DEF CompressorRests
<1> QED
  BY <1>4, <1>5

\* A pass of Equipment.
LEMMA EquipmentTurnApart ==
  ASSUME LoopInv, EquipmentTurn
  PROVE  RelayOnlyInDefrost' /\ Apart'
<1> USE DEF LoopInv
<1>1. /\ EquipmentUpdate(FoundRequests) /\ turn' = "business"
      /\ UNCHANGED <<phase, cycle_type, defrost, protection, defrost_type, type_kept>>
  BY DEF EquipmentTurn, defrostVars
<1>2. (HeaterOnPin' <=> HeaterOnPin) /\ (OnPins' <=> OnPins)
  BY SameBoard DEF Next
<1>3. RelayOnlyInDefrost'
  BY <1>1, <1>2, HeaterFollows, RequestsSay DEF RelayOnlyInDefrost
<1>4. ASSUME OnPins PROVE EndSeen' /\ HeaterExpected' /\ (type_kept => ~Overlap')
  <2>1. EndSeen'
    <3>1. CASE protection.lockout
      <4>1. Outputs(FoundRequests, Aged(comp_since))["compressor"] = FALSE
        BY <3>1 DEF Outputs, AllOff, Actuators, Refrigeration, FoundRequests
      <4> QED
        BY <1>1, <1>4, <4>1, RelayStep, EquipmentAssumption
        DEF EquipmentUpdate, PublishEquipmentState, OnPins, EndSeen, CompressorRests
    <3>2. CASE ~protection.lockout
      <4>1. prev_defrost_active' = defrost.active
        BY <1>1, <3>2 DEF EquipmentUpdate, FoundRequests
      <4> QED
        BY <1>1, <4>1, RequestsSay DEF EndSeen
    <3> QED
      BY <3>1, <3>2
  <2>2. ASSUME type_kept, HeaterRequested PROVE CompressorRests'
    <3>1. defrost.active /\ ~defrost.compressor /\ (CompressorRests \/ HeaterKnown)
      BY <1>4, <2>2, RequestsSay DEF Apart, HeaterExpected, HeaterRequested
    <3> QED
      BY <1>1, <1>4, <2>2, <3>1, CompressorYields DEF HeaterRequested
  <2>3. HeaterExpected'
    BY <1>1, <2>2 DEF HeaterExpected, HeaterRequested
  <2>4. type_kept => ~Overlap'
    <3>1. ASSUME type_kept, Overlap' PROVE HeaterRequested
      BY <1>1, <1>4, <3>1, HeaterFollows, RequestsSay DEF Overlap, OnPins, HeaterRequested
    <3> QED
      BY <2>2, <3>1 DEF Overlap, CompressorRests
  <2> QED
    BY <2>1, <2>3, <2>4
<1> QED
  BY <1>1, <1>2, <1>3, <1>4 DEF Apart

\* A call of Defrost that finds itself in a heater cycle has started it, for the
\* type it read, or goes on with it.
LEMMA HeaterBegins ==
  ASSUME TypeOK, HeaterIsTimed, NEW in \in Readings, DefrostUpdate(in), HasRelay, HeaterRequested'
  PROVE  \/ phase = "idle" /\ in.settings.type = 1
         \/ HeaterRequested
<1>1. CASE Stayed(in)
  BY <1>1 DEF Stayed, HeaterRequested
<1>2. CASE Moved
  <2>1. phase = "idle"
    BY <1>2 DEF Moved, Started, Advanced, HeaterRequested, HeaterIsTimed
  <2>2. StartDefrost(in.settings)
    BY <2>1
    DEF DefrostUpdate, Abort, LockoutAborts, BlockAborts, ManualStop, Idle,
        UpdateIdle, Stay, Active, TimedPhase, RunningPhase, HeaterRequested
  <2> QED
    BY <2>1, <2>2 DEF StartDefrost, EnterPhase, HeaterRequested
<1> QED
  BY <1>1, <1>2, UpdateMoves DEF TypeOK

\* A pass of Protection, Thermostat and Defrost.
LEMMA BusinessTurnApart ==
  ASSUME LoopInv, BusinessTurn
  PROVE  RelayOnlyInDefrost' /\ Apart'
<1> USE DEF LoopInv
<1>1. /\ turn = "business" /\ turn' = "watchdog"
      /\ UNCHANGED <<expander, relay, prev_defrost_active, defrost_type_cached, comp_actual,
                     defrost_type>>
      /\ type_kept' = (type_kept \/ phase' = "idle")
  BY DEF BusinessTurn, equipmentVars
<1>2. PICK evap \in EvapReadings : DefrostUpdate(FoundReadings(evap))
  BY DEF BusinessTurn
<1>3. FoundReadings(evap) \in Readings /\ FoundReadings(evap).settings.type = defrost_type
  <2>1. FoundReadings(evap) \in Readings
    BY ReadingsTyped DEF BusinessTurn
  <2>2. FoundReadings(evap).settings.type = defrost_type
    BY LoopAssumption DEF FoundReadings, Settings
  <2> QED
    BY <2>1, <2>2
<1>4. RelayOnlyInDefrost'
  BY <1>1 DEF RelayOnlyInDefrost
<1>5. ASSUME OnPins, type_kept', Overlap' PROVE FALSE
  <2>1. type_kept /\ phase' # "idle"
    BY <1>1, <1>5 DEF Overlap
  <2>2. phase # "idle"
    BY <1>1, <1>5 DEF RelayOnlyInDefrost, Overlap, OnPins
  <2>3. cycle_type' = cycle_type
    BY <1>2, <1>3, <2>2, UpdateMoves DEF TypeOK, Moved, Started, Advanced, Stayed
  <2> QED
    BY <1>1, <1>5, <2>1, <2>2, <2>3 DEF Apart, Overlap
<1>6. ASSUME OnPins PROVE HeaterExpected'
  <2> SUFFICES ASSUME type_kept', HeaterRequested' PROVE CompressorRests \/ HeaterKnown
    BY <1>1 DEF HeaterExpected, CompressorRests, HeaterKnown
  <2>1. type_kept
    BY <1>1 DEF HeaterRequested
  <2>2. CASE HeaterRequested
    BY <1>6, <2>1, <2>2 DEF Apart, HeaterExpected
  <2>3. CASE phase = "idle" /\ defrost_type = 1
    BY <1>1, <1>6, <2>3 DEF Apart, EndSeen, HeaterKnown
  <2> QED
    BY <1>2, <1>3, <1>6, <2>2, <2>3, HeaterBegins, LoopAssumption
       DEF OnPins, HeaterOnPin
<1> QED
  BY <1>1, <1>4, <1>5, <1>6 DEF Apart, EndSeen, OnPins, HeaterOnPin

\* A check of the watchdog: a restart of Equipment opens the relays and keeps
\* what it knows of the defrost, one of Defrost takes the requests back.
LEMMA WatchdogApart ==
  ASSUME LoopInv, NEW overdue \in Overdue, Check(overdue)
  PROVE  RelayOnlyInDefrost' /\ Apart'
<1> USE DEF LoopInv
<1>1. turn' = "equipment" /\ UNCHANGED <<defrost_type, type_kept>>
  BY DEF Check
<1>2. (HeaterOnPin' <=> HeaterOnPin) /\ (OnPins' <=> OnPins)
  BY SameBoard DEF Next, Watchdog
<1>3. \/ UNCHANGED <<phase, cycle_type, defrost>>
      \/ UNCHANGED <<phase, cycle_type>> /\ ~defrost'.defrost_relay
  BY DEF Check, DefrostRestart, SetRequests, defrostVars
<1>4. HeaterRequested' => HeaterRequested
  BY <1>3 DEF HeaterRequested
<1>5. CASE UNCHANGED equipmentVars
  BY <1>1, <1>2, <1>3, <1>4, <1>5
  DEF equipmentVars, RelayOnlyInDefrost, Apart, EndSeen, HeaterExpected, HeaterKnown,
      CompressorRests, Overlap
<1>6. CASE EquipmentRestart
  <2>1. UNCHANGED <<prev_defrost_active, defrost_type_cached, comp_actual>>
    BY <1>6 DEF EquipmentRestart
  <2>2. OnPins => ~relay'["compressor"]
    BY <1>6, RelayStep, EquipmentAssumption
    DEF EquipmentRestart, AllOff, Actuators, Refrigeration, OnPins
  <2> QED
    BY <1>1, <1>2, <1>4, <2>1, <2>2
    DEF RelayOnlyInDefrost, Apart, EndSeen, HeaterExpected, HeaterKnown, CompressorRests, Overlap
<1> QED
  BY <1>5, <1>6 DEF Check

\* Every step keeps the heater and the compressor apart.
LEMMA LoopStep == LoopInv /\ [Next]_vars => LoopInv'
<1> SUFFICES ASSUME LoopInv, [Next]_vars PROVE LoopInv'
  OBVIOUS
<1>1. TypeOK' /\ HeaterIsTimed' /\ RequestsOrNone' /\ KnownHeaterExcludesCompressor'
  BY LoopStepType, LoopHeater, LoopExcludes DEF LoopInv
<1>2. RelayOnlyInDefrost' /\ Apart'
  <2>1. CASE Watchdog
    BY <2>1, WatchdogApart DEF Watchdog
  <2>2. CASE EquipmentTurn
    BY <2>2, EquipmentTurnApart
  <2>3. CASE BusinessTurn
    BY <2>3, BusinessTurnApart
  <2>4. CASE ChangeType
    BY <2>4
    DEF ChangeType, equipmentVars, defrostVars, LoopInv, RelayOnlyInDefrost, HeaterOnPin, OnPins,
        Apart, EndSeen, HeaterExpected, HeaterRequested, CompressorRests, Overlap
  <2>5. CASE RequestDefrost
    BY <2>5
    DEF RequestDefrost, RaiseStart, equipmentVars, loopVars, LoopInv, RelayOnlyInDefrost,
        HeaterOnPin, OnPins, Apart, EndSeen, HeaterExpected, HeaterRequested, HeaterKnown,
        CompressorRests, Overlap
  <2>6. CASE Reset
    BY <2>6
    DEF Reset, DefrostReboot, RelayOnlyInDefrost, Apart, EndSeen, HeaterExpected, HeaterRequested,
        Overlap
  <2>7. CASE UNCHANGED vars
    BY <2>7
    DEF vars, equipmentVars, defrostVars, loopVars, LoopInv, RelayOnlyInDefrost,
        HeaterOnPin, OnPins, Apart, EndSeen, HeaterExpected, HeaterRequested, HeaterKnown,
        CompressorRests, Overlap
  <2> QED
    BY <2>1, <2>2, <2>3, <2>4, <2>5, <2>6, <2>7 DEF Next
<1> QED
  BY <1>1, <1>2 DEF LoopInv

\* The state after a power-up.
LEMMA LoopStart == Init => LoopInv
<1> SUFFICES ASSUME Init PROVE LoopInv
  OBVIOUS
<1>1. phase = "idle" /\ turn = "watchdog" /\ cycle_type = 0 /\ defrost_type_cached = 0
  BY DEF Init, EquipmentInit, DefrostInit
<1>2. HeaterIsTimed /\ RequestsOrNone
  BY DEF Init, DefrostInit, SetRequests, HeaterIsTimed, RequestsOrNone
<1>3. KnownHeaterExcludesCompressor /\ RelayOnlyInDefrost
  BY <1>1 DEF KnownHeaterExcludesCompressor, RelayOnlyInDefrost
<1>4. Apart
  BY <1>1 DEF Apart, EndSeen, HeaterExpected, HeaterRequested, Overlap
<1> QED
  BY <1>2, <1>3, <1>4, LoopInitType DEF LoopInv

\* The inductive invariant holds.
LEMMA LoopInvariance == Spec => []LoopInv
BY LoopStart, LoopStep, PTL DEF Spec

\* Every variable of the loop has its type, restarts and resets included.
THEOREM LoopTypeCorrect == Spec => []TypeOK
<1>1. LoopInv => TypeOK
  BY DEF LoopInv
<1> QED
  BY <1>1, LoopInvariance, PTL

\* The electric heater and the compressor are never energised together in a
\* cycle during which nobody wrote defrost.type: whatever type an earlier cycle
\* had, whatever lockout, restart or reset came in between, on every board that
\* has both relays on pins.
THEOREM HeaterExcludesCompressor == Spec => []KeptTypeExcludesCompressor
<1>1. LoopInv => KeptTypeExcludesCompressor
  BY DEF LoopInv, Apart, KeptTypeExcludesCompressor
<1> QED
  BY <1>1, LoopInvariance, PTL

\* The relay of a defrost is on only while a cycle runs, or in the pass that
\* ended it.
THEOREM RelayHolds == Spec => []RelayOnlyInDefrost
<1>1. LoopInv => RelayOnlyInDefrost
  BY DEF LoopInv
<1> QED
  BY <1>1, LoopInvariance, PTL

\* What the two modules keep on their own they keep in the loop: the interlock
\* for a type that is cached, although a reset forgets it, and the ceiling of the
\* heater.
THEOREM LoopKeeps == Spec => [](KnownHeaterExcludesCompressor /\ HeaterCeiling)
<1>1. LoopInv => KnownHeaterExcludesCompressor /\ HeaterCeiling
  BY DefrostAssumption DEF LoopInv, TypeOK, DefrostTypeOK, HeaterIsTimed, HeaterCeiling
<1> QED
  BY <1>1, LoopInvariance, PTL

=============================================================================
