--------------------------- MODULE ThermostatProofs ---------------------------
(***************************************************************************)
(* Proofs about Thermostat, for every setting and every sequence of        *)
(* readings, with safe mode and the watchdog's restarts where the property *)
(* survives them (DropSpec).                                               *)
(***************************************************************************)
EXTENDS Thermostat, TLAPS

\* The request is the one the state stands for.
Matches(m) ==
  m.compressor_on <=> m.state = "cooling" \/ (m.state = "safety_run" /\ m.safety_phase_on)

\* Outside a pause the request matches, and a pause has dropped it.
RequestInv ==
  /\ ~was_defrost_active /\ ~was_lockout_active => Matches(fsm)
  /\ was_defrost_active \/ was_lockout_active => ~fsm.compressor_on

\* Neither compressor timer has run for longer than the request has stood.
Younger(m, age) == m.comp_on_time <= age /\ m.comp_off_time <= age

\* A step of the state machine keeps the timers, or drops both with the request.
SameTimers(m, n) ==
  /\ n.compressor_on <=> m.compressor_on
  /\ n.comp_on_time = m.comp_on_time /\ n.comp_off_time = m.comp_off_time
Fresh(n) == n.comp_on_time = 0 /\ n.comp_off_time = 0
Follows(m, n) == SameTimers(m, n) \/ Fresh(n)

\* A run-on counts the calls since the request was dropped, at most.
RunOnInv ==
  cond_fan_delay_active =>
    /\ HasCondFan /\ ~fsm.compressor_on
    /\ cond_fan_off_timer <= request_age + 1 \/ request_age = TIMER_SATISFIED

-----------------------------------------------------------------------------
(* The helpers of the state machine.                                       *)

\* What saturation does to a timer.
LEMMA SaturateType ==
  ASSUME NEW t \in Timer
  PROVE  /\ Saturate(t) \in Timer /\ t <= Saturate(t) /\ Saturate(t) <= t + 1
         /\ \A s \in Timer : s <= t => Saturate(s) <= Saturate(t)
         /\ Saturate(t) = t + 1 \/ Saturate(t) = TIMER_SATISFIED
BY ThermostatAssumption DEF Saturate, Timer

\* A new request starts both timers afresh and nothing else changes.
LEMMA RequestFacts ==
  ASSUME NEW m \in FsmType, NEW on \in BOOLEAN
  PROVE  /\ RequestCompressor(m, on) \in FsmType
         /\ RequestCompressor(m, on).compressor_on <=> on
         /\ RequestCompressor(m, on).state = m.state
         /\ RequestCompressor(m, on).safety_phase_on <=> m.safety_phase_on
         /\ Follows(m, RequestCompressor(m, on))
<1>1. 0 \in Timer
  BY ThermostatAssumption DEF Timer
<1>2. CASE m.compressor_on = on
  BY <1>2 DEF RequestCompressor, Follows, SameTimers
<1>3. CASE m.compressor_on # on
  <2> DEFINE n == [m EXCEPT !.compressor_on = on, !.comp_on_time = 0, !.comp_off_time = 0]
  <2>1. RequestCompressor(m, on) = n
    BY <1>3 DEF RequestCompressor
  <2>2. n \in FsmType
    BY <1>1 DEF FsmType
  <2>3. n.state = m.state /\ n.safety_phase_on = m.safety_phase_on /\ Fresh(n)
        /\ n.compressor_on = on
    BY DEF FsmType, Fresh
  <2> HIDE DEF n
  <2> QED
    BY <2>1, <2>2, <2>3 DEF Follows
<1> QED
  BY <1>2, <1>3

\* Entering another state requests what the state stands for.
LEMMA EnterFacts ==
  ASSUME NEW m \in FsmType, NEW s \in States
  PROVE  /\ EnterState(m, s) \in FsmType
         /\ EnterState(m, s).state = s
         /\ m.state # s \/ Matches(m) => Matches(EnterState(m, s))
         /\ Follows(m, EnterState(m, s))
<1> DEFINE e == [m EXCEPT !.state = s, !.state_timer = 0]
           r == [e EXCEPT !.safety_phase_on = TRUE, !.safety_timer = 0]
<1>1. 0 \in Timer
  BY ThermostatAssumption DEF Timer
<1>2. e \in FsmType /\ r \in FsmType
  BY <1>1 DEF FsmType
<1>3. /\ e.state = s /\ r.state = s /\ r.safety_phase_on
      /\ e.compressor_on = m.compressor_on /\ r.compressor_on = m.compressor_on
      /\ e.comp_on_time = m.comp_on_time /\ r.comp_on_time = m.comp_on_time
      /\ e.comp_off_time = m.comp_off_time /\ r.comp_off_time = m.comp_off_time
  BY DEF FsmType
<1>4. EnterState(m, s) = IF m.state = s THEN m
                         ELSE IF s = "safety_run" THEN RequestCompressor(r, TRUE)
                         ELSE RequestCompressor(e, s = "cooling")
  BY DEF EnterState
<1>5. \A n \in FsmType : Follows(e, n) \/ Follows(r, n) => Follows(m, n)
  BY <1>3 DEF Follows, SameTimers
<1> HIDE DEF e, r
<1>6. CASE m.state = s
  BY <1>4, <1>6 DEF Follows, SameTimers
<1>7. CASE m.state # s /\ s = "safety_run"
  <2>1. EnterState(m, s) = RequestCompressor(r, TRUE)
    BY <1>4, <1>7
  <2>2. /\ RequestCompressor(r, TRUE) \in FsmType
        /\ RequestCompressor(r, TRUE).compressor_on
        /\ RequestCompressor(r, TRUE).state = r.state
        /\ RequestCompressor(r, TRUE).safety_phase_on <=> r.safety_phase_on
        /\ Follows(r, RequestCompressor(r, TRUE))
    BY <1>2, RequestFacts
  <2> QED
    BY <1>3, <1>5, <1>7, <2>1, <2>2 DEF Matches
<1>8. CASE m.state # s /\ s # "safety_run"
  <2>1. EnterState(m, s) = RequestCompressor(e, s = "cooling")
    BY <1>4, <1>8
  <2>2. \A on \in BOOLEAN :
          /\ RequestCompressor(e, on) \in FsmType
          /\ RequestCompressor(e, on).compressor_on <=> on
          /\ RequestCompressor(e, on).state = e.state
          /\ Follows(e, RequestCompressor(e, on))
    BY <1>2, RequestFacts
  <2>3. /\ EnterState(m, s) \in FsmType
        /\ EnterState(m, s).compressor_on <=> s = "cooling"
        /\ EnterState(m, s).state = s
        /\ Follows(e, EnterState(m, s))
    <3>1. CASE s = "cooling"
      <4>1. EnterState(m, s) = RequestCompressor(e, TRUE)
        BY <2>1, <3>1
      <4> QED
        BY <1>3, <2>2, <3>1, <4>1
    <3>2. CASE s # "cooling"
      <4>1. EnterState(m, s) = RequestCompressor(e, FALSE)
        BY <2>1, <3>2
      <4> QED
        BY <1>3, <2>2, <3>2, <4>1
    <3> QED
      BY <3>1, <3>2
  <2>4. Matches(EnterState(m, s))
    BY <1>8, <2>3 DEF Matches
  <2>5. Follows(m, EnterState(m, s))
    BY <1>5, <2>3
  <2> QED
    BY <2>3, <2>4, <2>5
<1> QED
  BY <1>6, <1>7, <1>8

-----------------------------------------------------------------------------
(* One call of on_update.                                                  *)

\* What the assumption says of one reading.
LEMMA InputType ==
  ASSUME NEW in \in Inputs
  PROVE  /\ in \in Readings /\ in.settings \in Settings
         /\ in.settings.min_off \in Nat /\ in.settings.min_on \in Nat
         /\ in.settings.cond_fan_delay \in Nat
         /\ in.settings.cond_fan_delay <= TIMER_SATISFIED
BY ThermostatAssumption DEF Readings, Settings

\* The timers advance by one at most and the request stays.
LEMMA TimedFacts ==
  ASSUME TypeOK, NEW in \in Inputs
  PROVE  /\ Timed(in) \in FsmType
         /\ Timed(in).compressor_on <=> fsm.compressor_on
         /\ Timed(in).safety_phase_on <=> fsm.safety_phase_on
         /\ Timed(in).state = IF was_defrost_active THEN "idle" ELSE fsm.state
         /\ Younger(fsm, request_age) => Younger(Timed(in), Saturate(request_age))
<1> DEFINE d == DefrostEnded(fsm)
<1>1. 0 \in Timer /\ TIMER_SATISFIED \in Nat
  BY ThermostatAssumption DEF Timer
<1>2. /\ d \in FsmType
      /\ d.compressor_on = fsm.compressor_on /\ d.safety_phase_on = fsm.safety_phase_on
      /\ d.state = IF was_defrost_active THEN "idle" ELSE fsm.state
      /\ d.comp_on_time \in {0, fsm.comp_on_time}
      /\ d.comp_off_time \in {0, fsm.comp_off_time}
  <2>1. CASE was_defrost_active
    <3>1. d = [fsm EXCEPT !.state = "idle", !.state_timer = 0,
                          !.comp_on_time = 0, !.comp_off_time = 0]
      BY <2>1 DEF DefrostEnded
    <3> QED
      BY <1>1, <2>1, <3>1 DEF TypeOK, FsmType, States
  <2>2. CASE ~was_defrost_active
    BY <2>2 DEF DefrostEnded, TypeOK
  <2> QED
    BY <2>1, <2>2
<1> HIDE DEF d
<1> DEFINE on  == IF in.compressor THEN Saturate(d.comp_on_time) ELSE d.comp_on_time
           off == IF in.compressor THEN d.comp_off_time ELSE Saturate(d.comp_off_time)
<1>3. on \in Timer /\ off \in Timer /\ Saturate(d.state_timer) \in Timer
  BY <1>2, SaturateType DEF FsmType
<1>4. Younger(fsm, request_age) => on <= Saturate(request_age) /\ off <= Saturate(request_age)
  <2> SUFFICES ASSUME Younger(fsm, request_age)
               PROVE  on <= Saturate(request_age) /\ off <= Saturate(request_age)
    OBVIOUS
  <2>1. /\ d.comp_on_time \in Timer /\ d.comp_on_time <= request_age
        /\ d.comp_off_time \in Timer /\ d.comp_off_time <= request_age
    BY <1>1, <1>2 DEF Younger, FsmType, TypeOK, Timer
  <2> QED
    BY <2>1, ThermostatAssumption DEF TypeOK, Timer, Saturate
<1>5. Timed(in) = [d EXCEPT !.state_timer = Saturate(@), !.comp_on_time = on,
                            !.comp_off_time = off]
  BY DEF Timed, CountTime, d
<1> HIDE DEF on, off
<1> QED
  BY <1>2, <1>3, <1>4, <1>5 DEF FsmType, Younger

\* The state interrupted by a lockout is entered with its request.
LEMMA ClearedFacts ==
  ASSUME NEW m \in FsmType,
         IF was_lockout_active THEN ~m.compressor_on ELSE Matches(m)
  PROVE  /\ LockoutCleared(m) \in FsmType
         /\ LockoutCleared(m).state = m.state
         /\ Matches(LockoutCleared(m))
         /\ Follows(m, LockoutCleared(m))
<1> DEFINE u == [m EXCEPT !.state = "startup"]
<1>1. CASE was_lockout_active
  <2>1. u \in FsmType /\ m.state \in States
    BY DEF FsmType, States
  <2>2. /\ u.state = "startup" /\ u.compressor_on = m.compressor_on
        /\ u.comp_on_time = m.comp_on_time /\ u.comp_off_time = m.comp_off_time
    BY DEF FsmType
  <2>3. LockoutCleared(m) = EnterState(u, m.state)
    BY <1>1 DEF LockoutCleared
  <2>4. Matches(u)
    BY <1>1, <2>2 DEF Matches
  <2> HIDE DEF u
  <2>5. /\ EnterState(u, m.state) \in FsmType
        /\ EnterState(u, m.state).state = m.state
        /\ Matches(EnterState(u, m.state))
        /\ Follows(u, EnterState(u, m.state))
    BY <2>1, <2>4, EnterFacts
  <2> QED
    BY <2>2, <2>3, <2>5 DEF Follows, SameTimers
<1>2. CASE ~was_lockout_active
  BY <1>2 DEF LockoutCleared, Follows, SameTimers
<1> QED
  BY <1>1, <1>2

\* Without the match the type and the timers still follow.
LEMMA ClearedTimers ==
  ASSUME NEW m \in FsmType
  PROVE  /\ LockoutCleared(m) \in FsmType
         /\ LockoutCleared(m).state = m.state
         /\ Follows(m, LockoutCleared(m))
<1> DEFINE u == [m EXCEPT !.state = "startup"]
<1>1. CASE was_lockout_active
  <2>1. u \in FsmType /\ m.state \in States
    BY DEF FsmType, States
  <2>2. /\ u.compressor_on = m.compressor_on
        /\ u.comp_on_time = m.comp_on_time /\ u.comp_off_time = m.comp_off_time
    BY DEF FsmType
  <2>3. LockoutCleared(m) = EnterState(u, m.state)
    BY <1>1 DEF LockoutCleared
  <2> HIDE DEF u
  <2>4. /\ EnterState(u, m.state) \in FsmType
        /\ EnterState(u, m.state).state = m.state
        /\ Follows(u, EnterState(u, m.state))
    BY <2>1, EnterFacts
  <2> QED
    BY <2>2, <2>3, <2>4 DEF Follows, SameTimers
<1>2. CASE ~was_lockout_active
  BY <1>2 DEF LockoutCleared, Follows, SameTimers
<1> QED
  BY <1>1, <1>2

\* One call of the state machine.
LEMMA MachineFacts ==
  ASSUME NEW m \in FsmType, NEW in \in Inputs
  PROVE  /\ StateMachine(m, in) \in FsmType
         /\ Matches(m) => Matches(StateMachine(m, in))
         /\ Follows(m, StateMachine(m, in))
         /\ m.state = "idle" /\ StateMachine(m, in).state = "cooling"
              => m.comp_off_time >= in.settings.min_off
         /\ m.state = "cooling" /\ StateMachine(m, in).state = "idle"
              => m.comp_on_time >= in.settings.min_on
<1> DEFINE n == StateMachine(m, in)
<1>1. \A s \in States :
        /\ EnterState(m, s) \in FsmType
        /\ EnterState(m, s).state = s
        /\ Matches(m) => Matches(EnterState(m, s))
        /\ Follows(m, EnterState(m, s))
  BY EnterFacts
<1>2. m.state \in States /\ Follows(m, m)
  BY DEF FsmType, Follows, SameTimers
<1>3. CASE m.state = "startup"
  <2>1. n = m \/ n = EnterState(m, "idle")
    BY <1>3 DEF StateMachine
  <2> QED
    BY <1>1, <1>2, <1>3, <2>1 DEF States
<1>4. CASE m.state \in {"idle", "cooling"}
  <2>1. \/ n = m
        \/ n = EnterState(m, "safety_run")
        \/ m.state = "idle" /\ m.comp_off_time >= in.settings.min_off
           /\ n = EnterState(m, "cooling")
        \/ m.state = "cooling" /\ m.comp_on_time >= in.settings.min_on
           /\ n = EnterState(m, "idle")
    BY <1>4 DEF StateMachine, Regulation
  <2> HIDE DEF n
  <2> QED
    BY <1>1, <1>2, <1>4, <2>1 DEF States, n
<1>5. CASE m.state = "safety_run" /\ in.sensor1_ok
  <2>1. n = EnterState(m, "idle")
    BY <1>5 DEF StateMachine
  <2> QED
    BY <1>1, <1>5, <2>1 DEF States
<1>6. CASE m.state = "safety_run" /\ ~in.sensor1_ok
  <2>1. n = SafetyRun(m, in)
    BY <1>6 DEF StateMachine
  <2> DEFINE f == [m EXCEPT !.safety_phase_on = ~@, !.safety_timer = 0]
             c == [m EXCEPT !.safety_timer = @ + 1]
  <2>2. n = RequestCompressor(f, ~m.safety_phase_on) \/ n = c
    BY <2>1 DEF SafetyRun
  <2>3. f \in FsmType /\ c \in FsmType
    <3>1. (~m.safety_phase_on) \in BOOLEAN /\ m.safety_timer + 1 \in Nat
      BY DEF FsmType
    <3>2. f \in FsmType
      BY <3>1 DEF FsmType
    <3>3. c \in FsmType
      BY <3>1 DEF FsmType
    <3> QED
      BY <3>2, <3>3
  <2>4. /\ f.state = m.state /\ c.state = m.state
        /\ f.safety_phase_on <=> ~m.safety_phase_on
        /\ c.safety_phase_on <=> m.safety_phase_on
        /\ c.compressor_on <=> m.compressor_on
        /\ f.compressor_on <=> m.compressor_on
        /\ SameTimers(m, f) /\ SameTimers(m, c)
    BY DEF FsmType, SameTimers
  <2> HIDE DEF n, f, c
  <2>5. CASE n = c
    BY <1>6, <2>3, <2>4, <2>5 DEF Matches, Follows, n
  <2>6. CASE n = RequestCompressor(f, ~m.safety_phase_on)
    <3>1. (~m.safety_phase_on) \in BOOLEAN
      OBVIOUS
    <3>2. /\ n \in FsmType
          /\ n.compressor_on <=> ~m.safety_phase_on
          /\ n.state = f.state
          /\ n.safety_phase_on <=> f.safety_phase_on
          /\ Follows(f, n)
      BY <2>3, <2>6, <3>1, RequestFacts
    <3> QED
      BY <1>6, <2>4, <3>2 DEF Matches, Follows, SameTimers, n
  <2> QED
    BY <2>2, <2>5, <2>6
<1> QED
  BY <1>2, <1>3, <1>4, <1>5, <1>6 DEF States

-----------------------------------------------------------------------------
(* Types.                                                                  *)

\* The state of the power-up.
LEMMA InitType == Init => TypeOK
<1> SUFFICES ASSUME Init PROVE TypeOK
  OBVIOUS
<1>1. 0 \in Timer /\ TIMER_SATISFIED \in Timer
  BY ThermostatAssumption DEF Timer
<1>2. fsm \in FsmType
  BY <1>1 DEF Init, FsmType, States
<1> QED
  BY <1>1, <1>2 DEF Init, TypeOK

\* A dropped request leaves a state machine behind that is one still.
LEMMA DroppedFacts ==
  ASSUME NEW m \in FsmType
  PROVE  /\ RequestCompressor(m, FALSE) \in FsmType
         /\ ~RequestCompressor(m, FALSE).compressor_on
         /\ RequestCompressor(m, FALSE).state = m.state
         /\ Follows(m, RequestCompressor(m, FALSE))
BY RequestFacts

\* The state machine after a call that was not paused.
LEMMA RegulatedFacts ==
  ASSUME TypeOK, NEW in \in Inputs
  PROVE  /\ LockoutCleared(Timed(in)) \in FsmType
         /\ LockoutCleared(Timed(in)).state = Timed(in).state
         /\ Follows(Timed(in), LockoutCleared(Timed(in)))
         /\ StateMachine(LockoutCleared(Timed(in)), in) \in FsmType
         /\ Follows(LockoutCleared(Timed(in)), StateMachine(LockoutCleared(Timed(in)), in))
BY TimedFacts, ClearedTimers, MachineFacts

\* A call keeps the types.
LEMMA UpdateType == ASSUME TypeOK, NEW in \in Inputs, Update(in) PROVE TypeOK'
<1>1. fsm' \in FsmType
  <2>1. CASE Paused(in)
    BY <2>1, DroppedFacts DEF Paused, TypeOK
  <2>2. CASE LockedOut(in)
    BY <2>2, TimedFacts, DroppedFacts DEF LockedOut
  <2>3. CASE Regulating(in)
    BY <2>3, RegulatedFacts DEF Regulating
  <2> QED
    BY <2>1, <2>2, <2>3 DEF Update
<1>2. request_age' \in Timer
  BY SaturateType, ThermostatAssumption DEF Update, TrackRequest, TypeOK, Timer
<1>3. was_defrost_active' \in BOOLEAN /\ was_lockout_active' \in BOOLEAN
  BY DEF Update, Paused, LockedOut, Regulating, TypeOK
<1>4. DelayActive \in BOOLEAN /\ OffTimer \in Nat
  BY DEF TypeOK, DelayActive, OffTimer
<1>5. cond_fan_on' \in BOOLEAN /\ cond_fan_delay_active' \in BOOLEAN
  <2>1. CASE Paused(in)
    BY <2>1 DEF Paused, FansOff, TypeOK
  <2>2. CASE LockedOut(in)
    BY <1>4, <2>2 DEF LockedOut, FansOff
  <2>3. CASE Regulating(in)
    BY <1>4, <2>3 DEF Regulating, UpdateCondFan, RunOn, TypeOK
  <2> QED
    BY <2>1, <2>2, <2>3 DEF Update
<1>6. cond_fan_off_timer' \in Nat
  <2>1. CASE Paused(in)
    BY <2>1 DEF Paused, TypeOK
  <2>2. CASE LockedOut(in)
    BY <1>4, <2>2 DEF LockedOut
  <2>3. CASE Regulating(in)
    <3>1. \/ cond_fan_off_timer' \in {0, OffTimer}
          \/ cond_fan_off_timer' \in {0 + 1, OffTimer + 1}
      BY <2>3 DEF Regulating, UpdateCondFan
    <3> QED
      BY <1>4, <3>1
  <2> QED
    BY <2>1, <2>2, <2>3 DEF Update
<1>7. evap_fan_on' \in BOOLEAN
  <2>1. CASE Paused(in)
    BY <2>1 DEF Paused, FansOff, TypeOK
  <2>2. CASE LockedOut(in)
    BY <2>2 DEF LockedOut, FansOff
  <2>3. CASE Regulating(in)
    <3>1. fsm'.compressor_on \in BOOLEAN
      BY <1>1 DEF FsmType
    <3>2. (in.evap_temp <= in.settings.fan_stop_temp) \in BOOLEAN
      OBVIOUS
    <3>3. (in.evap_temp <= in.settings.fan_stop_temp - in.settings.fan_stop_hyst) \in BOOLEAN
      OBVIOUS
    <3> QED
      BY <2>3, <3>1, <3>2, <3>3, Zenon DEF Regulating, UpdateEvapFan, TypeOK
  <2> QED
    BY <2>1, <2>2, <2>3 DEF Update
<1> QED
  BY <1>1, <1>2, <1>3, <1>5, <1>6, <1>7 DEF TypeOK

\* So does a dropped request.
LEMMA DropType == ASSUME TypeOK, DropRequests PROVE TypeOK'
<1>1. fsm' \in FsmType
  BY DroppedFacts DEF DropRequests, TypeOK
<1>2. request_age' \in Timer
  <2>1. request_age' \in {0, Saturate(request_age)}
    BY DEF DropRequests, TrackRequest
  <2>2. 0 \in Timer /\ Saturate(request_age) \in Timer
    BY SaturateType, ThermostatAssumption DEF TypeOK, Timer
  <2> QED
    BY <2>1, <2>2
<1> QED
  BY <1>1, <1>2 DEF DropRequests, FansOff, TypeOK

\* Every step keeps the types.
LEMMA StepType == TypeOK /\ [Tick \/ DropRequests]_vars => TypeOK'
<1>1. TypeOK /\ UNCHANGED vars => TypeOK'
  BY DEF TypeOK, vars, fans
<1> QED
  BY <1>1, UpdateType, DropType DEF Tick

\* Without safe mode the system does nothing that it does not do with it.
LEMMA FewerSteps == Spec => DropSpec
<1>1. [Tick]_vars => [Tick \/ DropRequests]_vars
  OBVIOUS
<1> QED
  BY <1>1, PTL DEF Spec, DropSpec

\* The types hold with safe mode and restarts too.
LEMMA DropTypeCorrect == DropSpec => []TypeOK
BY InitType, StepType, PTL DEF DropSpec

\* Every variable of ThermostatModule keeps its type.
THEOREM TypeCorrect == Spec => []TypeOK
BY FewerSteps, DropTypeCorrect, PTL

-----------------------------------------------------------------------------
(* The request and the state.                                              *)

\* A call keeps the request and the state together.
LEMMA UpdateRequest ==
  ASSUME TypeOK, RequestInv, NEW in \in Inputs, Update(in)
  PROVE  RequestInv'
<1>1. CASE Paused(in)
  <2>1. was_defrost_active' /\ (was_defrost_active => fsm' = fsm)
    BY <1>1 DEF Paused
  <2>2. ~was_defrost_active => ~fsm'.compressor_on
    BY <1>1, DroppedFacts DEF Paused, TypeOK
  <2> QED
    BY <2>1, <2>2 DEF RequestInv
<1>2. CASE LockedOut(in)
  <2>1. ~fsm'.compressor_on
    BY <1>2, TimedFacts, DroppedFacts DEF LockedOut
  <2> QED
    BY <1>2, <2>1 DEF LockedOut, RequestInv
<1>3. CASE Regulating(in)
  <2> DEFINE t == Timed(in)
  <2>1. /\ t \in FsmType
        /\ t.compressor_on <=> fsm.compressor_on
        /\ t.safety_phase_on <=> fsm.safety_phase_on
        /\ t.state = IF was_defrost_active THEN "idle" ELSE fsm.state
    BY TimedFacts
  <2> HIDE DEF t
  <2>2. IF was_lockout_active THEN ~t.compressor_on ELSE Matches(t)
    <3>1. CASE was_lockout_active
      BY <2>1, <3>1 DEF RequestInv
    <3>2. CASE ~was_lockout_active /\ was_defrost_active
      BY <2>1, <3>2 DEF RequestInv, Matches
    <3>3. CASE ~was_lockout_active /\ ~was_defrost_active
      BY <2>1, <3>3 DEF RequestInv, Matches
    <3> QED
      BY <3>1, <3>2, <3>3
  <2>3. LockoutCleared(t) \in FsmType /\ Matches(LockoutCleared(t))
    BY <2>1, <2>2, ClearedFacts
  <2>4. Matches(StateMachine(LockoutCleared(t), in))
    BY <2>3, MachineFacts
  <2>5. fsm' = StateMachine(LockoutCleared(t), in)
    BY <1>3 DEF Regulating, t
  <2>6. Matches(fsm')
    BY <2>4, <2>5
  <2> QED
    BY <1>3, <2>6 DEF Regulating, RequestInv, Matches
<1> QED
  BY <1>1, <1>2, <1>3 DEF Update

\* Outside a pause the request is the one the state stands for: no way out of
\* a defrost or a lockout leaves COOLING without its request or IDLE with one.
THEOREM RequestMatches == Spec => []RequestMatchesState
<1>1. Init => RequestInv
  BY DEF Init, RequestInv, Matches
<1>2. RequestInv /\ UNCHANGED vars => RequestInv'
  BY DEF RequestInv, Matches, vars, fans
<1>3. TypeOK /\ RequestInv /\ [Tick]_vars => RequestInv'
  BY <1>2, UpdateRequest DEF Tick
<1>4. RequestInv => RequestMatchesState
  BY DEF RequestInv, RequestMatchesState, Matches
<1> QED
  BY <1>1, <1>3, <1>4, TypeCorrect, PTL DEF Spec

-----------------------------------------------------------------------------
(* The timers and the request's age.                                       *)

\* Two steps of the state machine are one as far as the timers go.
LEMMA FollowsTwice ==
  ASSUME NEW m, NEW c, NEW n, Follows(m, c), Follows(c, n)
  PROVE  Follows(m, n)
BY DEF Follows, SameTimers, Fresh

\* A call that keeps the request lets it age, a new one is of age 0, and the
\* timers are no older than it in either case.
LEMMA StepAges ==
  ASSUME TypeOK, Younger(fsm, request_age), TrackRequest,
         NEW m \in FsmType, m.compressor_on <=> fsm.compressor_on,
         Younger(m, Saturate(request_age)), fsm' \in FsmType, Follows(m, fsm')
  PROVE  Younger(fsm', request_age')
<1>1. /\ fsm'.compressor_on \in BOOLEAN /\ fsm.compressor_on \in BOOLEAN
      /\ m.compressor_on \in BOOLEAN
  BY DEF FsmType, TypeOK
<1>2. request_age' \in {0, Saturate(request_age)} /\ 0 <= request_age'
  <2>1. request_age' \in {0, Saturate(request_age)}
    BY DEF TrackRequest
  <2> QED
    BY <2>1, SaturateType, ThermostatAssumption DEF TypeOK, Timer
<1>3. CASE Fresh(fsm')
  BY <1>2, <1>3 DEF Fresh, Younger
<1>4. CASE SameTimers(m, fsm')
  <2>1. fsm'.compressor_on = fsm.compressor_on
    BY <1>1, <1>4, Zenon DEF SameTimers
  <2>2. request_age' = Saturate(request_age)
    BY <2>1 DEF TrackRequest
  <2> QED
    BY <1>4, <2>2 DEF SameTimers, Younger
<1> QED
  BY <1>3, <1>4 DEF Follows

\* A call keeps the timers no older than the request.
LEMMA UpdateAges ==
  ASSUME TypeOK, Younger(fsm, request_age), NEW in \in Inputs, Update(in)
  PROVE  Younger(fsm', request_age')
<1> DEFINE t == Timed(in)
<1>1. fsm' \in FsmType /\ TrackRequest /\ fsm \in FsmType
  BY UpdateType DEF TypeOK, Update
<1>2. Younger(fsm, Saturate(request_age))
  BY SaturateType, ThermostatAssumption DEF Younger, TypeOK, FsmType, Timer
<1>3. /\ t \in FsmType
      /\ t.compressor_on <=> fsm.compressor_on
      /\ Younger(t, Saturate(request_age))
  BY TimedFacts
<1>4. CASE Paused(in)
  <2>1. Follows(fsm, fsm')
    BY <1>1, <1>4, DroppedFacts DEF Paused, Follows, SameTimers
  <2> QED
    BY <1>1, <1>2, <2>1, StepAges
<1>5. CASE LockedOut(in)
  <2>1. fsm' = RequestCompressor(t, FALSE)
    BY <1>5 DEF LockedOut
  <2> HIDE DEF t
  <2>2. Follows(t, fsm')
    BY <1>3, <2>1, DroppedFacts
  <2> QED
    BY <1>1, <1>3, <2>2, StepAges
<1>6. CASE Regulating(in)
  <2>1. Follows(t, fsm')
    BY <1>6, RegulatedFacts, FollowsTwice DEF Regulating
  <2> HIDE DEF t
  <2> QED
    BY <1>1, <1>3, <2>1, StepAges
<1> QED
  BY <1>4, <1>5, <1>6 DEF Update

\* So does a dropped request.
LEMMA DropAges ==
  ASSUME TypeOK, Younger(fsm, request_age), DropRequests
  PROVE  Younger(fsm', request_age')
<1>1. fsm \in FsmType /\ TrackRequest /\ fsm' = RequestCompressor(fsm, FALSE)
  BY DEF TypeOK, DropRequests
<1>2. Younger(fsm, Saturate(request_age))
  BY SaturateType, ThermostatAssumption DEF Younger, TypeOK, FsmType, Timer
<1>3. fsm' \in FsmType /\ Follows(fsm, fsm')
  BY <1>1, DroppedFacts
<1> QED
  BY <1>1, <1>2, <1>3, StepAges

\* The timers are never older than the request, with safe mode and restarts.
LEMMA AgesHold == DropSpec => []Younger(fsm, request_age)
<1>1. Init => Younger(fsm, request_age)
  BY ThermostatAssumption DEF Init, Younger
<1>2. Younger(fsm, request_age) /\ UNCHANGED vars => Younger(fsm, request_age)'
  BY DEF Younger, vars, fans
<1>3. TypeOK /\ Younger(fsm, request_age) /\ [Tick \/ DropRequests]_vars
        => Younger(fsm, request_age)'
  BY <1>2, UpdateAges, DropAges DEF Tick
<1> QED
  BY <1>1, <1>3, DropTypeCorrect, PTL DEF DropSpec

\* What a call that starts or stops the regulation has waited for.
LEMMA CallRests ==
  ASSUME TypeOK, Younger(fsm, request_age), NEW in \in Inputs, Update(in)
  PROVE  /\ RegulatedStart => request_age + 1 >= in.settings.min_off
         /\ RegulatedStop => request_age + 1 >= in.settings.min_on
<1> DEFINE t == Timed(in)
           c == LockoutCleared(t)
<1>1. /\ t \in FsmType /\ Younger(t, Saturate(request_age))
      /\ t.state = IF was_defrost_active THEN "idle" ELSE fsm.state
  BY TimedFacts
<1>2. /\ c \in FsmType /\ c.state = t.state /\ Follows(t, c)
  BY RegulatedFacts
<1>3. /\ StateMachine(c, in).state = "cooling" /\ c.state = "idle"
           => c.comp_off_time >= in.settings.min_off
      /\ StateMachine(c, in).state = "idle" /\ c.state = "cooling"
           => c.comp_on_time >= in.settings.min_on
  BY <1>2, MachineFacts
<1>4. fsm.state \in States /\ request_age \in Timer /\ fsm \in FsmType
  BY DEF TypeOK, FsmType
<1>5. c.comp_on_time <= request_age + 1 /\ c.comp_off_time <= request_age + 1
  <2>1. /\ Saturate(request_age) \in Timer /\ request_age \in Timer
        /\ Saturate(request_age) <= request_age + 1
    BY <1>4, SaturateType
  <2>2. /\ c.comp_on_time \in {0, t.comp_on_time} /\ c.comp_off_time \in {0, t.comp_off_time}
    BY <1>2 DEF Follows, SameTimers, Fresh
  <2>3. /\ t.comp_on_time \in Timer /\ t.comp_on_time <= Saturate(request_age)
        /\ t.comp_off_time \in Timer /\ t.comp_off_time <= Saturate(request_age)
    BY <1>1 DEF Younger, FsmType
  <2> HIDE DEF t, c
  <2> QED
    BY <2>1, <2>2, <2>3, ThermostatAssumption DEF Timer
<1>6. c.comp_on_time \in Nat /\ c.comp_off_time \in Nat
  BY <1>2, ThermostatAssumption DEF FsmType, Timer
<1>7. in.settings.min_off \in Nat /\ in.settings.min_on \in Nat /\ request_age \in Nat
  BY <1>4, InputType, ThermostatAssumption DEF Timer
<1>8. CASE Regulating(in)
  <2>1. fsm' = StateMachine(c, in)
    BY <1>8 DEF Regulating
  <2> HIDE DEF t, c
  <2>2. RegulatedStart => request_age + 1 >= in.settings.min_off
    BY <1>1, <1>2, <1>3, <1>5, <1>6, <1>7, <2>1 DEF RegulatedStart
  <2>3. RegulatedStop => request_age + 1 >= in.settings.min_on
    BY <1>1, <1>2, <1>3, <1>5, <1>6, <1>7, <2>1 DEF RegulatedStop
  <2> QED
    BY <2>2, <2>3
<1>9. CASE Paused(in)
  <2>1. fsm'.state = fsm.state
    BY <1>4, <1>9, DroppedFacts DEF Paused
  <2> QED
    BY <2>1 DEF RegulatedStart, RegulatedStop
<1>10. CASE LockedOut(in)
  <2>1. fsm'.state = t.state
    BY <1>1, <1>10, DroppedFacts DEF LockedOut
  <2> QED
    BY <1>1, <2>1 DEF RegulatedStart, RegulatedStop
<1> QED
  BY <1>8, <1>9, <1>10 DEF Update

\* A regulated start or stop has waited out min_off or min_on since the request
\* last changed, for any alternation of defrosts, lockouts, sensor failures,
\* safe mode and restarts of the module by the watchdog.
THEOREM RegulationHolds == Spec \/ DropSpec => RegulationRests
<1>1. TypeOK /\ Younger(fsm, request_age)
        => (RegulatedStart \/ RegulatedStop =>
              \A in \in Inputs :
                \/ RegulatedStart /\ request_age + 1 >= in.settings.min_off
                \/ RegulatedStop  /\ request_age + 1 >= in.settings.min_on
                \/ ~Update(in))
  BY CallRests
<1>2. DropSpec => RegulationRests
  BY <1>1, DropTypeCorrect, AgesHold, PTL DEF DropSpec, RegulationRests
<1> QED
  BY <1>2, FewerSteps, PTL

-----------------------------------------------------------------------------
(* The condenser fan's run-on.                                             *)

\* The age of a request that stays dropped.
LEMMA DroppedAges ==
  ASSUME TypeOK, TrackRequest, fsm' \in FsmType, ~fsm.compressor_on, ~fsm'.compressor_on
  PROVE  /\ request_age' = Saturate(request_age)
         /\ request_age' = request_age + 1 \/ request_age' = TIMER_SATISFIED
<1>1. /\ fsm'.compressor_on \in BOOLEAN /\ fsm.compressor_on \in BOOLEAN
  BY DEF FsmType, TypeOK
<1>2. fsm'.compressor_on = fsm.compressor_on
  BY <1>1, Zenon
<1>3. request_age' = Saturate(request_age)
  BY <1>2 DEF TrackRequest
<1> QED
  BY <1>3, SaturateType DEF TypeOK

\* A step that leaves the run-on alone keeps it no longer than the request's age.
LEMMA KeptRunOn ==
  ASSUME TypeOK, RunOnInv, TrackRequest, fsm' \in FsmType,
         cond_fan_delay_active' =>
           /\ cond_fan_delay_active
           /\ cond_fan_off_timer' = cond_fan_off_timer
           /\ ~fsm'.compressor_on
  PROVE  RunOnInv'
<1> SUFFICES ASSUME cond_fan_delay_active'
             PROVE  /\ HasCondFan /\ ~fsm'.compressor_on
                    /\ \/ cond_fan_off_timer' <= request_age' + 1
                       \/ request_age' = TIMER_SATISFIED
  BY DEF RunOnInv
<1>1. /\ HasCondFan /\ ~fsm.compressor_on /\ ~fsm'.compressor_on
      /\ cond_fan_off_timer' = cond_fan_off_timer
  BY DEF RunOnInv
<1>2. cond_fan_off_timer <= request_age + 1 \/ request_age = TIMER_SATISFIED
  BY DEF RunOnInv
<1>3. request_age' = Saturate(request_age)
  BY <1>1, DroppedAges
<1>4. request_age \in Nat /\ cond_fan_off_timer \in Nat
  BY ThermostatAssumption DEF TypeOK, Timer
<1> QED
  BY <1>1, <1>2, <1>3, <1>4, ThermostatAssumption DEF Saturate, TypeOK, Timer

\* The fan's branch of a call that regulates.
LEMMA RegulatedRunOn ==
  ASSUME TypeOK, RunOnInv, NEW in \in Inputs, Update(in), Regulating(in)
  PROVE  RunOnInv'
<1>1. fsm' \in FsmType /\ TrackRequest
  BY UpdateType DEF TypeOK, Update
<1>2. UpdateCondFan(in, DelayActive, OffTimer)
  BY DEF Regulating
<1>3. DelayActive => cond_fan_delay_active /\ OffTimer = cond_fan_off_timer
  BY DEF DelayActive, OffTimer
<1>4. CASE HasCondFan /\ fsm'.compressor_on
  BY <1>2, <1>4 DEF UpdateCondFan, RunOnInv
<1>5. CASE HasCondFan /\ ~fsm'.compressor_on /\ (DelayActive \/ cond_fan_on)
  <2> DEFINE timer == IF DelayActive THEN OffTimer ELSE 0
  <2>1. RunOn(in, timer) /\ cond_fan_off_timer' = timer + 1
    BY <1>2, <1>5 DEF UpdateCondFan
  <2>2. request_age' \in Nat
    BY UpdateType, ThermostatAssumption DEF TypeOK, Timer
  <2>3. CASE DelayActive
    <3>1. ~fsm.compressor_on /\ timer = cond_fan_off_timer
      BY <1>3, <2>3 DEF RunOnInv
    <3>2. request_age' = request_age + 1 \/ request_age' = TIMER_SATISFIED
      BY <1>1, <1>5, <3>1, DroppedAges
    <3>3. cond_fan_off_timer <= request_age + 1 \/ request_age = TIMER_SATISFIED
      BY <1>3, <2>3 DEF RunOnInv
    <3>4. /\ request_age \in 0..TIMER_SATISFIED /\ request_age' \in 0..TIMER_SATISFIED
          /\ cond_fan_off_timer \in Nat /\ TIMER_SATISFIED \in Nat
      BY UpdateType, ThermostatAssumption DEF TypeOK, Timer
    <3>5. cond_fan_off_timer' <= request_age' + 1 \/ request_age' = TIMER_SATISFIED
      BY <2>1, <3>1, <3>2, <3>3, <3>4
    <3> QED
      BY <1>5, <3>5 DEF RunOnInv
  <2>4. CASE ~DelayActive
    <3>1. cond_fan_off_timer' <= request_age' + 1
      <4>1. timer = 0
        BY <2>4
      <4>2. cond_fan_off_timer' = 1
        BY <2>1, <4>1
      <4>3. \A n \in Nat : 1 <= n + 1
        OBVIOUS
      <4>4. 1 <= request_age' + 1
        BY <2>2, <4>3, Zenon
      <4> QED
        BY <4>2, <4>4, Zenon
    <3> QED
      BY <1>5, <3>1 DEF RunOnInv
  <2> QED
    BY <2>3, <2>4
<1>6. CASE ~HasCondFan \/ (~fsm'.compressor_on /\ ~DelayActive /\ ~cond_fan_on)
  <2>1. cond_fan_delay_active' = DelayActive
    BY <1>2, <1>6 DEF UpdateCondFan
  <2>2. ~DelayActive
    BY <1>3, <1>6 DEF RunOnInv
  <2> QED
    BY <2>1, <2>2 DEF RunOnInv
<1> QED
  BY <1>4, <1>5, <1>6

\* Every call keeps the run-on within the request's age.
LEMMA UpdateRunOn ==
  ASSUME TypeOK, RunOnInv, NEW in \in Inputs, Update(in)
  PROVE  RunOnInv'
<1>1. fsm' \in FsmType /\ TrackRequest
  BY UpdateType DEF TypeOK, Update
<1>2. CASE Paused(in)
  <2>1. /\ cond_fan_delay_active' = cond_fan_delay_active
        /\ cond_fan_off_timer' = cond_fan_off_timer
        /\ fsm' = fsm \/ fsm' = RequestCompressor(fsm, FALSE)
    BY <1>2 DEF Paused
  <2>2. cond_fan_delay_active => ~fsm'.compressor_on
    BY <2>1, DroppedFacts DEF RunOnInv, TypeOK
  <2> QED
    BY <1>1, <2>1, <2>2, KeptRunOn
<1>3. CASE LockedOut(in)
  <2>1. cond_fan_delay_active' = DelayActive /\ cond_fan_off_timer' = OffTimer
    BY <1>3 DEF LockedOut
  <2>2. ~fsm'.compressor_on
    BY <1>3, TimedFacts, DroppedFacts DEF LockedOut
  <2> QED
    BY <1>1, <2>1, <2>2, KeptRunOn DEF DelayActive, OffTimer
<1> QED
  BY <1>2, <1>3, RegulatedRunOn DEF Update

\* So does a dropped request.
LEMMA DropRunOn == ASSUME TypeOK, RunOnInv, DropRequests PROVE RunOnInv'
<1>1. fsm' \in FsmType /\ TrackRequest /\ ~fsm'.compressor_on
  BY DroppedFacts DEF DropRequests, TypeOK
<1> QED
  BY <1>1, KeptRunOn DEF DropRequests

\* A run-on is never longer than the request has been dropped.
LEMMA RunOnBounded == DropSpec => []RunOnInv
<1>1. Init => RunOnInv
  BY DEF Init, RunOnInv
<1>2. RunOnInv /\ UNCHANGED vars => RunOnInv'
  BY DEF RunOnInv, vars, fans
<1>3. TypeOK /\ RunOnInv /\ [Tick \/ DropRequests]_vars => RunOnInv'
  BY <1>2, UpdateRunOn, DropRunOn DEF Tick
<1> QED
  BY <1>1, <1>3, DropTypeCorrect, PTL DEF DropSpec

\* What a call that stops the fan has waited for.
LEMMA CallRunsOn ==
  ASSUME TypeOK, RunOnInv, cond_fan_on, ~cond_fan_on', NEW in \in Inputs, Update(in)
  PROVE  in.defrost \/ in.lockout \/ OffCalls >= in.settings.cond_fan_delay
<1> SUFFICES ASSUME ~in.defrost, ~in.lockout
             PROVE  OffCalls >= in.settings.cond_fan_delay
  OBVIOUS
<1> DEFINE timer == IF DelayActive THEN OffTimer ELSE 0
           delay == in.settings.cond_fan_delay
<1>1. UpdateCondFan(in, DelayActive, OffTimer)
  BY DEF Update, Paused, LockedOut, Regulating
<1>2. timer + 1 >= delay
  BY <1>1 DEF UpdateCondFan, RunOn
<1>3. delay \in Nat /\ delay <= TIMER_SATISFIED
  BY InputType
<1>4. request_age \in Nat /\ cond_fan_off_timer \in Nat /\ TIMER_SATISFIED \in Nat
  BY ThermostatAssumption DEF TypeOK, Timer
<1>5. OffCalls = 1 \/ OffCalls = request_age + 2
  BY DEF OffCalls
<1>6. CASE DelayActive
  <2>1. /\ timer = cond_fan_off_timer /\ ~fsm.compressor_on
        /\ cond_fan_off_timer <= request_age + 1 \/ request_age = TIMER_SATISFIED
    BY <1>6 DEF DelayActive, OffTimer, RunOnInv
  <2>2. OffCalls = request_age + 2
    BY <2>1 DEF OffCalls
  <2> HIDE DEF timer, delay
  <2> QED
    BY <1>2, <1>3, <1>4, <2>1, <2>2 DEF delay
<1>7. CASE ~DelayActive
  BY <1>2, <1>3, <1>4, <1>5, <1>7
<1> QED
  BY <1>6, <1>7

\* The condenser fan runs on for cond_fan_delay after the request was dropped,
\* whatever pauses, readings and restarts fell into the run-on.
THEOREM RunOnHolds == Spec \/ DropSpec => CondFanRunsOn
<1>1. TypeOK /\ RunOnInv
        => (cond_fan_on /\ ~cond_fan_on' =>
              \A in \in Inputs :
                \/ in.defrost \/ in.lockout
                \/ OffCalls >= in.settings.cond_fan_delay
                \/ ~Update(in))
  BY CallRunsOn
<1>2. DropSpec => CondFanRunsOn
  BY <1>1, DropTypeCorrect, RunOnBounded, PTL DEF DropSpec, CondFanRunsOn
<1> QED
  BY <1>2, FewerSteps, PTL

=============================================================================
