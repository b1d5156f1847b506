--------------------- MODULE CompressorProtectionProofs ---------------------
(* Theorems about CompressorProtection, for every stream of readings and all  *)
(* settings that the timers of the model can measure.                         *)
EXTENDS CompressorProtection, TLAPS

\* What a call reads, and the room its settings leave.
LEMMA InputType ==
  ASSUME NEW in \in Inputs
  PROVE  /\ in.compressor \in BOOLEAN /\ in.defrost \in BOOLEAN
         /\ in.settings.max_continuous_run \in Nat /\ in.settings.max_continuous_run < TIMER_CAP
         /\ in.settings.min_compressor_run \in Nat
         /\ in.settings.forced_off_period \in Nat /\ in.settings.forced_off_period <= TIMER_CAP
         /\ in.settings.max_retries \in Nat \ {0} /\ in.settings.manual_reset \in BOOLEAN
         /\ TIMER_CAP \in Nat \ {0} /\ OVERRUN_CAP \in Nat
<1>1. in \in Readings
  BY ProtectionAssumption
<1>2. in.compressor \in BOOLEAN /\ in.defrost \in BOOLEAN /\ in.settings \in Settings
  BY <1>1 DEF Readings
<1>3. /\ in.settings.max_continuous_run \in Nat /\ in.settings.min_compressor_run \in Nat
      /\ in.settings.forced_off_period \in Nat /\ in.settings.max_retries \in Nat \ {0}
      /\ in.settings.manual_reset \in BOOLEAN
  BY <1>2 DEF Settings
<1> QED
  BY <1>2, <1>3, ProtectionAssumption

-----------------------------------------------------------------------------
(* Types                                                                     *)

LEMMA Zeros == 0 \in Timer /\ 0 \in 0..(COUNT_WRAP - 1) /\ 0 \in 0..OVERRUN_CAP
BY ProtectionAssumption DEF Timer

LEMMA EdgeType ==
  ASSUME NEW c \in TrackerType, NEW in
  PROVE  Edge(c, in) \in TrackerType
<1> DEFINE count == IF c.current_run < in.settings.min_compressor_run
                    THEN (c.short_cycle_count + 1) % COUNT_WRAP ELSE 0
<1>1. (c.short_cycle_count + 1) % COUNT_WRAP \in 0..(COUNT_WRAP - 1)
  BY ProtectionAssumption DEF TrackerType
<1>2. count \in 0..(COUNT_WRAP - 1)
  BY <1>1, Zeros
<1> HIDE DEF count
<1>3. [c EXCEPT !.current_run = 0] \in TrackerType
  BY Zeros DEF TrackerType
<1>4. [c EXCEPT !.last_run = c.current_run, !.current_off = 0, !.short_cycle_count = count]
        \in TrackerType
  BY <1>2, Zeros DEF TrackerType
<1> QED
  BY <1>3, <1>4 DEF Edge, count

LEMMA AccumulateType ==
  ASSUME NEW c \in TrackerType, NEW in \in Inputs
  PROVE  Accumulate(c, in) \in TrackerType
<1>1. c.current_run \in Nat /\ c.current_off \in Nat /\ TIMER_CAP \in Nat
  BY ProtectionAssumption DEF TrackerType, Timer
<1>2. /\ Capped(c.current_run + 1, TIMER_CAP) \in Timer
      /\ Capped(c.current_off + 1, TIMER_CAP) \in Timer
  BY <1>1 DEF Timer, Capped
<1> QED
  BY <1>2, InputType DEF Accumulate, TrackerType

LEMMA TrackedType ==
  ASSUME TypeOK, NEW in \in Inputs
  PROVE  Tracked(in) \in TrackerType
<1>1. TrackerAfterReset(in) \in TrackerType
  BY Zeros DEF TypeOK, TrackerAfterReset, TrackerType
<1>2. \A c \in TrackerType : ForgetShortCycles(c, in) \in TrackerType
  BY Zeros DEF ForgetShortCycles, TrackerType
<1> QED
  BY <1>1, <1>2, EdgeType, AccumulateType DEF Tracked

LEMMA ReleasedType ==
  ASSUME NEW e \in EscalationType, NEW timer \in Nat, NEW count \in Nat, NEW lockout \in BOOLEAN
  PROVE  [e EXCEPT !.forced_off = FALSE, !.timer = timer, !.count = count, !.alarm = FALSE,
                   !.lockout = lockout] \in EscalationType
BY DEF EscalationType

LEMMA EscalatedType ==
  ASSUME TypeOK, NEW in \in Inputs, NEW c \in TrackerType
  PROVE  Escalated(EscalationAfterReset(in), c, in) \in EscalationType
<1> DEFINE e == EscalationAfterReset(in)
<1>1. e \in EscalationType
  BY DEF TypeOK, EscalationAfterReset, EscalationType, Released
<1> HIDE DEF e
<1>2. AfterForcedOff(e, in) \in EscalationType
  <2> DEFINE lockout == e.lockout \/ e.count + 1 >= in.settings.max_retries
  <2>1. lockout \in BOOLEAN
    OBVIOUS
  <2>2. AfterForcedOff(e, in) =
          [e EXCEPT !.forced_off = FALSE, !.timer = e.timer + 1, !.count = e.count + 1,
                    !.alarm = FALSE, !.lockout = lockout]
    BY <1>1 DEF AfterForcedOff, EscalationType
  <2>3. e.timer + 1 \in Nat /\ e.count + 1 \in Nat
    BY <1>1 DEF EscalationType
  <2> HIDE DEF lockout
  <2> DEFINE released(l) ==
               [e EXCEPT !.forced_off = FALSE, !.timer = e.timer + 1, !.count = e.count + 1,
                         !.alarm = FALSE, !.lockout = l]
  <2>4. \A l \in BOOLEAN : released(l) \in EscalationType
    BY <1>1, <2>3, ReleasedType
  <2>5. released(lockout) \in EscalationType
    BY <2>1, <2>4
  <2> QED
    BY <2>2, <2>5
<1>3. [e EXCEPT !.timer = @ + 1] \in EscalationType
  BY <1>1 DEF EscalationType
<1>4. Detect(e, c, in) \in EscalationType
  BY <1>1, InputType DEF Detect, EscalationType
<1>5. Escalated(e, c, in) \in EscalationType
  BY <1>2, <1>3, <1>4 DEF Escalated
<1> QED
  BY <1>5 DEF e

LEMMA HistoryType ==
  ASSUME TypeOK, NEW in \in Inputs, TrackHistory(in)
  PROVE  /\ run_age' \in Timer /\ run_reset' \in BOOLEAN
         /\ overruns' \in 0..OVERRUN_CAP /\ last_settings' \in {i.settings : i \in Inputs}
         /\ block_age' \in Timer
<1>1. run_age' \in Timer /\ block_age' \in Timer
  BY InputType DEF TypeOK, TrackHistory, Timer, Capped
<1>2. run_reset' \in BOOLEAN
  BY DEF TypeOK, TrackHistory
<1>3. overruns' \in 0..OVERRUN_CAP
  BY InputType DEF TypeOK, TrackHistory, Capped
<1>4. last_settings' \in {i.settings : i \in Inputs}
  BY DEF TrackHistory
<1> QED
  BY <1>1, <1>2, <1>3, <1>4

LEMMA UpdateType ==
  ASSUME TypeOK, NEW in \in Inputs, Update(in)
  PROVE  TypeOK'
<1>1. Tracked(in) \in TrackerType
  BY TrackedType
<1>2. comp' \in TrackerType
  BY <1>1, InputType DEF Update, TrackerType, Timer
<1>3. short_cycle' \in BOOLEAN
  BY DEF Update, ShortCycleAlarm
<1>4. esc' \in EscalationType
  BY <1>1, EscalatedType DEF Update
<1>5. keys' \in [compressor_blocked : BOOLEAN, lockout : BOOLEAN]
  BY <1>4 DEF Update, EscalationType
<1>6. TrackHistory(in)
  BY DEF Update
<1> QED
  BY <1>2, <1>3, <1>4, <1>5, <1>6, HistoryType DEF TypeOK

LEMMA InitType == Init => TypeOK
<1> SUFFICES ASSUME Init
             PROVE  TypeOK
  OBVIOUS
<1>1. comp \in TrackerType
  BY Zeros DEF Init, TrackerType
<1>2. esc \in EscalationType
  BY DEF Init, Released, EscalationType
<1> QED
  BY <1>1, <1>2, Zeros DEF Init, TypeOK

LEMMA NextType == TypeOK /\ [Tick]_vars => TypeOK'
<1> SUFFICES ASSUME TypeOK, [Tick]_vars
             PROVE  TypeOK'
  OBVIOUS
<1>1. CASE Tick
  BY <1>1, UpdateType DEF Tick
<1>2. CASE UNCHANGED vars
  BY <1>2 DEF TypeOK, vars, histories
<1> QED
  BY <1>1, <1>2

\* Every variable has its type.
THEOREM TypeCorrect == Spec => []TypeOK
<1> QED
  BY InitType, NextType, PTL DEF Spec

-----------------------------------------------------------------------------
(* The clock of a run                                                        *)

\* The tracker measures a run without a reset by the calls that saw it.
Clock ==
  ~run_reset => run_age = IF comp.prev_state THEN comp.current_run ELSE comp.last_run

\* What is published is what the escalation decided; its alarm stands for a forced
\* stop, and a lockout leaves neither.
Published == keys = [compressor_blocked |-> esc.forced_off, lockout |-> esc.lockout]
Single    == (esc.alarm => esc.forced_off) /\ (esc.lockout => ~esc.forced_off)

LEMMA TrackedFields ==
  ASSUME TypeOK, NEW in \in Inputs, ~Resets(in)
  PROVE  /\ Tracked(in).prev_state = in.compressor
         /\ Tracked(in).current_run =
              IF in.compressor
              THEN Capped((IF comp.prev_state THEN comp.current_run ELSE 0) + 1, TIMER_CAP)
              ELSE comp.current_run
         /\ Tracked(in).last_run = IF RunEnds(in) THEN comp.current_run ELSE comp.last_run
<1> DEFINE c2 == Edge(comp, in)
           c3 == Accumulate(c2, in)
<1>1. comp \in TrackerType /\ comp.prev_state \in BOOLEAN /\ in.compressor \in BOOLEAN
  BY InputType DEF TypeOK, TrackerType
<1>2. c2 \in TrackerType
  BY <1>1, EdgeType
<1>3. /\ c2.current_run = IF RunStarts(in) THEN 0 ELSE comp.current_run
      /\ c2.last_run = IF RunEnds(in) THEN comp.current_run ELSE comp.last_run
  BY <1>1 DEF Edge, RunStarts, RunEnds, TrackerType
<1> HIDE DEF c2
<1>4. c3 \in TrackerType
  BY <1>2, AccumulateType
<1>5. /\ c3.prev_state = in.compressor /\ c3.last_run = c2.last_run
      /\ c3.current_run = IF in.compressor THEN Capped(c2.current_run + 1, TIMER_CAP)
                          ELSE c2.current_run
  BY <1>2 DEF Accumulate, TrackerType
<1> HIDE DEF c3
<1>6. /\ ForgetShortCycles(c3, in).prev_state = c3.prev_state
      /\ ForgetShortCycles(c3, in).last_run = c3.last_run
      /\ ForgetShortCycles(c3, in).current_run = c3.current_run
  BY <1>4 DEF ForgetShortCycles, TrackerType
<1>7. Tracked(in) = ForgetShortCycles(c3, in)
  BY DEF Tracked, TrackerAfterReset, c2, c3
<1> QED
  BY <1>1, <1>3, <1>5, <1>6, <1>7 DEF RunStarts

\* A forced stop never ends while the compressor runs: Equipment has obeyed.
LEMMA StopEndsAtRest ==
  ASSUME TypeOK, Published, NEW in \in Inputs, Obeyed(in),
         Release(EscalationAfterReset(in), in)
  PROVE  ~in.compressor /\ ~Resets(in) /\ esc.forced_off
BY DEF Published, Obeyed, Release, EscalationAfterReset, Released, TypeOK, EscalationType

LEMMA NextClock ==
  ASSUME TypeOK, Published, Clock, NEW in \in Inputs, Obeyed(in), Update(in)
  PROVE  Clock'
<1> SUFFICES ASSUME ~run_reset'
             PROVE  run_age' = IF comp'.prev_state THEN comp'.current_run ELSE comp'.last_run
  BY DEF Clock
<1>1. ~Resets(in) /\ (run_reset => RunStarts(in))
  BY DEF Update, TrackHistory, TypeOK
<1>2. Tracked(in) \in TrackerType
  BY TrackedType
<1>3. /\ comp'.prev_state = in.compressor /\ comp'.last_run = Tracked(in).last_run
      /\ in.compressor => comp'.current_run = Tracked(in).current_run
  <2>1. CASE Release(EscalationAfterReset(in), in)
    BY <1>1, <1>2, <2>1, StopEndsAtRest, TrackedFields DEF Update, TrackerType
  <2>2. CASE ~Release(EscalationAfterReset(in), in)
    BY <1>1, <2>2, TrackedFields DEF Update
  <2> QED
    BY <2>1, <2>2
<1>4. run_age' = IF RunStarts(in) THEN 1
                 ELSE IF in.compressor THEN Capped(run_age + 1, TIMER_CAP) ELSE run_age
  BY DEF Update, TrackHistory
<1>5. Capped(1, TIMER_CAP) = 1
  BY InputType DEF Capped
<1>6. CASE in.compressor /\ ~comp.prev_state
  BY <1>1, <1>3, <1>4, <1>5, <1>6, TrackedFields DEF RunStarts
<1>7. CASE in.compressor /\ comp.prev_state
  BY <1>1, <1>3, <1>4, <1>7, TrackedFields DEF RunStarts, Clock
<1>8. CASE ~in.compressor
  BY <1>1, <1>3, <1>4, <1>8, TrackedFields DEF RunStarts, RunEnds, Clock
<1> QED
  BY <1>6, <1>7, <1>8

LEMMA NextSingle ==
  ASSUME TypeOK, Single, NEW in \in Inputs, Update(in)
  PROVE  Published' /\ Single'
<1>0. Published'
  BY DEF Update, Published
<1> SUFFICES Single'
  BY <1>0
<1> DEFINE e == EscalationAfterReset(in)
           c == Tracked(in)
<1>1. /\ e \in EscalationType
      /\ (e.alarm => e.forced_off) /\ (e.lockout => ~e.forced_off)
  BY DEF TypeOK, Single, EscalationAfterReset, Released, EscalationType
<1>2. esc' = Escalated(e, c, in)
  BY DEF Update
<1> HIDE DEF e, c
<1>3. CASE Release(e, in)
  <2>1. esc' = AfterForcedOff(e, in)
    BY <1>2, <1>3 DEF Escalated
  <2>2. esc'.alarm = FALSE /\ esc'.forced_off = FALSE
    BY <1>1, <2>1 DEF AfterForcedOff, EscalationType
  <2> QED
    BY <2>2 DEF Single
<1>4. CASE ~Release(e, in) /\ e.forced_off
  <2>1. esc' = [e EXCEPT !.timer = @ + 1]
    BY <1>2, <1>4 DEF Escalated
  <2>2. esc'.alarm = e.alarm /\ esc'.forced_off = e.forced_off /\ esc'.lockout = e.lockout
    BY <1>1, <2>1 DEF EscalationType
  <2> QED
    BY <1>1, <2>2 DEF Single
<1>5. CASE ~Release(e, in) /\ ~e.forced_off
  <2>1. esc' = Detect(e, c, in)
    BY <1>2, <1>5 DEF Escalated
  <2>2. e.alarm = FALSE /\ e.forced_off = FALSE
    BY <1>1, <1>5 DEF EscalationType
  <2>3. CASE esc' = [e EXCEPT !.alarm = TRUE, !.forced_off = TRUE, !.timer = 0] /\ ~e.lockout
    BY <1>1, <2>3 DEF Single, EscalationType
  <2>4. CASE esc' = e
    BY <1>1, <2>4 DEF Single
  <2>5. CASE /\ ~in.compressor
             /\ esc' = [e EXCEPT !.alarm = @ /\ in.settings.manual_reset,
                                 !.count = IF NormalCycle(c, in) THEN 0 ELSE @]
    <3>1. esc'.alarm = FALSE /\ esc'.forced_off = FALSE
      BY <1>1, <2>2, <2>5 DEF EscalationType
    <3> QED
      BY <3>1 DEF Single
  <2> QED
    BY <2>1, <2>3, <2>4, <2>5 DEF Detect
<1> QED
  BY <1>3, <1>4, <1>5

LEMMA ClockInvariant ==
  /\ Init => Published /\ Single /\ Clock
  /\ TypeOK /\ Published /\ Single /\ Clock /\ [Tick]_vars => (Published /\ Single /\ Clock)'
<1>1. Init => Published /\ Single /\ Clock
  BY DEF Init, Published, Single, Clock, Released
<1>2. ASSUME TypeOK, Published, Single, Clock, Tick
      PROVE  (Published /\ Single /\ Clock)'
  BY <1>2, NextClock, NextSingle DEF Tick
<1>3. ASSUME Published, Single, Clock, UNCHANGED vars
      PROVE  (Published /\ Single /\ Clock)'
  BY <1>3 DEF Published, Single, Clock, vars, histories
<1> QED
  BY <1>1, <1>2, <1>3

\* Outside a defrost no run gets past max_continuous_run without being stopped, unless the
\* alarms were reset while it lasted: update_continuous_run sees every run's length, and
\* no alarm that is still up keeps it from acting.
THEOREM OverlongHolds == Spec => OverlongRunIsStopped
<1> DEFINE Stopped(in) ==
             \/ ~in.compressor \/ in.defrost \/ ~Obeyed(in)
             \/ run_age' <= in.settings.max_continuous_run \/ run_reset'
             \/ keys'.compressor_blocked \/ keys'.lockout
             \/ ~Update(in)
<1>1. ASSUME TypeOK, Published, Single, Clock, NEW in \in Inputs
      PROVE  Stopped(in)
  <2> SUFFICES ASSUME in.compressor, ~in.defrost, Obeyed(in), Update(in), ~run_reset',
                      ~(run_age' <= in.settings.max_continuous_run)
               PROVE  keys'.compressor_blocked \/ keys'.lockout
    BY DEF Stopped
  <2>1. ~Resets(in) /\ ~esc.forced_off /\ ~esc.alarm
    BY <1>1 DEF Update, TrackHistory, Obeyed, Published, Single
  <2>2. EscalationAfterReset(in) = esc /\ ~Release(esc, in)
    BY <2>1 DEF EscalationAfterReset, Release
  <2>3. comp' = Tracked(in) /\ esc' = Detect(esc, Tracked(in), in)
    BY <2>1, <2>2 DEF Update, Escalated
  <2>4. Clock' /\ TypeOK'
    BY <1>1, NextClock, UpdateType
  <2>5. Tracked(in).current_run = run_age'
    BY <1>1, <2>1, <2>3, <2>4, TrackedFields DEF Clock
  <2>6. Tracked(in).current_run > in.settings.max_continuous_run
    BY <2>4, <2>5, InputType DEF TypeOK, Timer
  <2>7. esc'.lockout \/ esc'.forced_off
    BY <1>1, <2>1, <2>3, <2>6 DEF Detect, TypeOK, EscalationType
  <2> QED
    BY <2>7 DEF Update
<1>2. TypeOK /\ Published /\ Single /\ Clock /\ [Tick]_vars => [\A in \in Inputs : Stopped(in)]_vars
  BY <1>1
<1> QED
  BY <1>2, InitType, NextType, ClockInvariant, PTL DEF Spec, OverlongRunIsStopped

\* A lockout leaves no forced stop or detection pending, and only the user ends it
\* (update_continuous_run, check_reset_command).
THEOREM LockoutHolds == Spec => LockoutIsFinal
<1> DEFINE Final == keys.lockout => \/ keys' = [compressor_blocked |-> FALSE, lockout |-> TRUE]
                                    \/ \E in \in Inputs : Resets(in) /\ Update(in)
<1>1. ASSUME TypeOK, Published, Single, NEW in \in Inputs, Update(in), keys.lockout, ~Resets(in)
      PROVE  keys' = [compressor_blocked |-> FALSE, lockout |-> TRUE]
  <2>1. EscalationAfterReset(in) = esc /\ esc.lockout = TRUE /\ esc.forced_off = FALSE
    BY <1>1 DEF EscalationAfterReset, Published, Single, TypeOK, EscalationType
  <2>2. esc' = esc
    BY <1>1, <2>1 DEF Update, Escalated, Release, Detect
  <2> QED
    BY <1>1, <2>1, <2>2 DEF Update
<1>2. TypeOK /\ Published /\ Single /\ [Tick]_vars => [Final]_vars
  BY <1>1 DEF Tick
<1> QED
  BY <1>2, InitType, NextType, ClockInvariant, PTL DEF Spec, LockoutIsFinal

-----------------------------------------------------------------------------
(* The length of a forced stop                                               *)

Blocked == esc.forced_off => block_age = Capped(esc.timer, TIMER_CAP)

LEMMA NextBlocked ==
  ASSUME TypeOK, Published, Single, Blocked, NEW in \in Inputs, Obeyed(in), Update(in)
  PROVE  Blocked'
<1> SUFFICES ASSUME esc'.forced_off
             PROVE  block_age' = Capped(esc'.timer, TIMER_CAP)
  BY DEF Blocked
<1> DEFINE e == EscalationAfterReset(in)
           c == Tracked(in)
<1>1. /\ esc' = Escalated(e, c, in)
      /\ block_age' = IF keys.compressor_blocked THEN Capped(block_age + 1, TIMER_CAP) ELSE 0
  BY DEF Update, TrackHistory
<1>2. /\ e \in EscalationType /\ esc \in EscalationType
      /\ e.forced_off => e = esc
      /\ keys.compressor_blocked = esc.forced_off
  BY DEF TypeOK, EscalationAfterReset, Released, EscalationType, Published
<1>3. TIMER_CAP \in Nat
  BY ProtectionAssumption
<1> HIDE DEF e, c
<1>4. ~Release(e, in)
  BY <1>1, <1>2 DEF Escalated, AfterForcedOff, EscalationType
<1>5. CASE e.forced_off
  <2>1. esc'.timer = esc.timer + 1 /\ block_age' = Capped(block_age + 1, TIMER_CAP)
    BY <1>1, <1>2, <1>4, <1>5 DEF Escalated, EscalationType
  <2> QED
    BY <1>2, <1>3, <1>5, <2>1 DEF Blocked, Capped, EscalationType
<1>6. CASE ~e.forced_off
  <2>1. esc' = Detect(e, c, in)
    BY <1>1, <1>4, <1>6 DEF Escalated
  <2>2. in.compressor /\ esc'.timer = 0
    BY <1>2, <1>6, <2>1 DEF Detect, EscalationType
  <2>3. ~keys.compressor_blocked
    BY <2>2 DEF Obeyed
  <2> QED
    BY <1>1, <1>3, <2>2, <2>3 DEF Capped
<1> QED
  BY <1>5, <1>6

\* A forced stop lasts its period, whatever defrosts begin and end meanwhile; only the
\* user shortens it (update_continuous_run counts before it looks at the defrost).
THEOREM ForcedStopHolds == Spec => ForcedStopLasts
<1> DEFINE Lasts == keys.compressor_blocked /\ ~keys'.compressor_blocked =>
                      \A in \in Inputs : Update(in) =>
                        Resets(in) \/ block_age + 1 >= in.settings.forced_off_period
<1>1. Init => Blocked
  BY DEF Init, Blocked, Released
<1>2. TypeOK /\ Published /\ Single /\ Blocked /\ [Tick]_vars => Blocked'
  <2>1. ASSUME TypeOK, Published, Single, Blocked, Tick
        PROVE  Blocked'
    BY <2>1, NextBlocked DEF Tick
  <2>2. ASSUME Blocked, UNCHANGED vars
        PROVE  Blocked'
    BY <2>2 DEF Blocked, vars, histories
  <2> QED
    BY <2>1, <2>2
<1>3. TypeOK /\ Published /\ Blocked /\ [Tick]_vars => [Lasts]_vars
  <2> SUFFICES ASSUME TypeOK, Published, Blocked, keys.compressor_blocked,
                      ~keys'.compressor_blocked, NEW in \in Inputs, Update(in), ~Resets(in)
               PROVE  block_age + 1 >= in.settings.forced_off_period
    OBVIOUS
  <2>1. esc.forced_off /\ EscalationAfterReset(in) = esc /\ ~esc'.forced_off
    BY DEF Published, EscalationAfterReset, Update
  <2>2. Release(esc, in)
    BY <2>1 DEF Update, Escalated, TypeOK, EscalationType
  <2> QED
    BY <2>1, <2>2, InputType DEF Release, Blocked, Capped, TypeOK, EscalationType
<1> QED
  BY <1>1, <1>2, <1>3, InitType, NextType, ClockInvariant, PTL DEF Spec, ForcedStopLasts

-----------------------------------------------------------------------------
(* The retries                                                               *)

\* The module's count of forced stops is at least the history's: the run before a
\* stop that counts was measured in full, and is no normal one.
Counted ==
  /\ esc.lockout \/ overruns <= esc.count
  /\ overruns > 0 /\ ~comp.prev_state =>
       ~run_reset /\ run_age >= last_settings.max_continuous_run
  /\ RetriesLockOut

\* What a call without a new beginning does to the history.
LEMMA SameRun ==
  ASSUME TypeOK, Counted, NEW in \in Inputs, Update(in), overruns' > 0
  PROVE  /\ ~Resets(in) /\ in.settings = last_settings /\ last_settings' = in.settings
         /\ overruns' = IF Release(esc, in) THEN Capped(overruns + 1, OVERRUN_CAP) ELSE overruns
         /\ RunEnds(in) \/ Release(esc, in) =>
              ~run_reset /\ run_age >= in.settings.max_continuous_run
<1>1. ~Afresh(in)
  BY DEF Update, TrackHistory
<1>2. run_age \in Nat /\ in.settings.max_continuous_run \in Nat
  BY InputType DEF TypeOK, Timer
<1> QED
  BY <1>1, <1>2 DEF Afresh, Update, TrackHistory

LEMMA NextAtRest ==
  ASSUME TypeOK, Published, Counted, NEW in \in Inputs, Obeyed(in), Update(in),
         overruns' > 0, ~comp'.prev_state
  PROVE  ~run_reset' /\ run_age' >= last_settings'.max_continuous_run
<1>1. Tracked(in) \in TrackerType /\ ~Resets(in) /\ last_settings' = in.settings
  BY TrackedType, SameRun
<1>2. ~in.compressor
  BY <1>1, TrackedFields DEF Update, TrackerType
<1>3. run_age' = run_age /\ run_reset' = run_reset
  BY <1>1, <1>2 DEF Update, TrackHistory, RunStarts, TypeOK
<1>4. CASE RunEnds(in) \/ Release(esc, in)
  BY <1>1, <1>3, <1>4, SameRun
<1>5. CASE ~RunEnds(in) /\ ~Release(esc, in)
  <2>1. overruns > 0 /\ ~comp.prev_state
    BY <1>2, <1>5, SameRun DEF RunEnds
  <2> QED
    BY <1>3, <2>1, SameRun DEF Counted
<1> QED
  BY <1>4, <1>5

LEMMA NextCount ==
  ASSUME TypeOK, Published, Single, Clock, Counted, NEW in \in Inputs, Obeyed(in), Update(in),
         overruns' > 0
  PROVE  /\ esc'.lockout \/ overruns' <= esc'.count
         /\ overruns' >= last_settings'.max_retries => esc'.lockout
<1>1. /\ ~Resets(in) /\ in.settings = last_settings /\ last_settings' = in.settings
      /\ overruns' = IF Release(esc, in) THEN Capped(overruns + 1, OVERRUN_CAP) ELSE overruns
  BY SameRun
<1>2. EscalationAfterReset(in) = esc /\ esc' = Escalated(esc, Tracked(in), in)
  BY <1>1 DEF EscalationAfterReset, Update
<1>3. /\ esc.count \in Nat /\ overruns \in Nat /\ OVERRUN_CAP \in Nat
      /\ in.settings.max_retries \in Nat \ {0} /\ esc \in EscalationType
  BY InputType DEF TypeOK, EscalationType
<1>4. CASE Release(esc, in)
  <2>1. ~esc.lockout
    BY <1>3, <1>4 DEF Release, Single
  <2>2. esc'.count = esc.count + 1
    BY <1>2, <1>3, <1>4 DEF Escalated, AfterForcedOff, EscalationType
  <2>3. esc.count + 1 >= in.settings.max_retries => esc'.lockout
    BY <1>2, <1>3, <1>4 DEF Escalated, AfterForcedOff, EscalationType
  <2>4. overruns <= esc.count
    BY <2>1 DEF Counted
  <2>5. overruns' <= esc.count + 1
    BY <1>1, <1>3, <1>4, <2>4 DEF Capped
  <2> QED
    <3>1. overruns' \in Nat
      BY <1>1, <1>3, <1>4 DEF Capped
    <3>2. overruns' >= in.settings.max_retries => esc'.lockout
      BY <1>3, <2>3, <2>5, <3>1
    <3> QED
      BY <1>1, <2>2, <2>5, <3>2
<1>5. CASE ~Release(esc, in)
  <2>1. overruns' = overruns /\ (overruns >= last_settings.max_retries => esc.lockout)
    BY <1>1, <1>5 DEF Counted, RetriesLockOut
  <2>2. CASE esc'.count = esc.count /\ esc'.lockout = esc.lockout
    BY <1>1, <2>1, <2>2 DEF Counted
  <2>3. CASE ~(esc'.count = esc.count /\ esc'.lockout = esc.lockout)
    <3>1. esc' = Detect(esc, Tracked(in), in)
      BY <1>2, <1>3, <1>5, <2>3 DEF Escalated, EscalationType
    <3>2. ~in.compressor /\ NormalCycle(Tracked(in), in)
      BY <1>3, <2>3, <3>1 DEF Detect, EscalationType
    <3>3. /\ comp' = Tracked(in) /\ ~comp'.prev_state
          /\ comp'.last_run < in.settings.max_continuous_run
      BY <1>1, <1>2, <1>5, <3>2, TrackedFields DEF Update, NormalCycle
    <3>4. ~run_reset' /\ run_age' >= in.settings.max_continuous_run
      BY <1>1, <3>3, NextAtRest
    <3>5. run_age' = comp'.last_run
      BY <3>3, <3>4, NextClock DEF Clock
    <3> QED
      BY <3>3, <3>4, <3>5, UpdateType, InputType DEF TypeOK, Timer, TrackerType
  <2> QED
    BY <2>2, <2>3
<1> QED
  BY <1>4, <1>5

LEMMA NextCounted ==
  ASSUME TypeOK, Published, Single, Clock, Counted, NEW in \in Inputs, Obeyed(in), Update(in)
  PROVE  Counted'
<1>1. TypeOK'
  BY UpdateType
<1>2. CASE overruns' > 0
  BY <1>2, NextCount, NextAtRest DEF Counted, RetriesLockOut
<1>3. CASE overruns' = 0
  <2>1. esc'.count \in Nat /\ last_settings' = in.settings
    BY <1>1 DEF TypeOK, EscalationType, Update, TrackHistory
  <2>2. ~(0 >= last_settings'.max_retries)
    BY <2>1, InputType
  <2> QED
    BY <1>3, <2>1, <2>2 DEF Counted, RetriesLockOut
<1> QED
  BY <1>1, <1>2, <1>3 DEF TypeOK

\* max_retries forced stops with no shorter run, no reset and no change of the settings
\* between them lead to the lockout: nothing that happens between two of them makes
\* update_continuous_run forget one.
THEOREM RetriesHolds == Spec => []RetriesLockOut
<1>1. Init => Counted
  <2> SUFFICES ASSUME Init
               PROVE  Counted
    OBVIOUS
  <2>1. PICK in \in Inputs : last_settings = in.settings
    BY DEF Init
  <2>2. ~(0 >= last_settings.max_retries)
    BY <2>1, InputType
  <2> QED
    BY <2>2 DEF Init, Counted, RetriesLockOut, Released
<1>2. TypeOK /\ Published /\ Single /\ Clock /\ Counted /\ [Tick]_vars => Counted'
  <2>1. ASSUME TypeOK, Published, Single, Clock, Counted, Tick
        PROVE  Counted'
    BY <2>1, NextCounted DEF Tick
  <2>2. ASSUME Counted, UNCHANGED vars
        PROVE  Counted'
    BY <2>2 DEF Counted, RetriesLockOut, vars, histories
  <2> QED
    BY <2>1, <2>2
<1>3. Counted => RetriesLockOut
  BY DEF Counted
<1> QED
  BY <1>1, <1>2, <1>3, InitType, NextType, ClockInvariant, PTL DEF Spec

=============================================================================
