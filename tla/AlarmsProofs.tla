---------------------------- MODULE AlarmsProofs ----------------------------
(* Theorems about Alarms, for every board, all settings within the bound and  *)
(* every stream of readings; and about StartWindow, the window behind one more *)
(* alarm of the same module, for every hour, ring buffer and stream of starts. *)
EXTENDS Alarms, StartWindow, FiniteSetTheorems, TLAPS

\* What the readings of a call are, and that there is room to count a call.
LEMMA InputType ==
  ASSUME NEW in \in Inputs
  PROVE  /\ in \in Readings /\ in.settings \in Settings
         /\ in.settings.high_alarm_delay <= CALLS_CAP
         /\ in.settings.post_defrost_delay <= CALLS_CAP
         /\ CALLS_CAP \in Nat /\ CALLS_CAP >= 1
<1>1. in \in Readings
  BY AlarmsAssumption
<1>2. in.settings \in Settings
  BY <1>1 DEF Readings
<1>3. in.settings.pulldown_timeout \in Nat
  BY <1>2 DEF Settings
<1> QED
  BY <1>1, <1>2, <1>3, AlarmsAssumption

-----------------------------------------------------------------------------
(* Types                                                                     *)

LEMMA InitType == Init => TypeOK
BY AlarmsAssumption
   DEF Init, TypeOK, Delayed, Monitors, NoSettings, Settings

LEMMA SuppressionType ==
  ASSUME TypeOK, NEW in \in Inputs
  PROVE  PostDefrost(in) \in [was_defrost : BOOLEAN, on : BOOLEAN, timer : Nat]
BY InputType DEF TypeOK, PostDefrost, InDefrost, Readings, Settings

LEMMA PendingType ==
  ASSUME TypeOK, NEW in \in Inputs, NEW m \in Delayed
  PROVE  Pending(in, m) \in Nat
BY DEF TypeOK, Pending, PendingAfterReset

LEMMA RunType ==
  ASSUME TypeOK, NEW in \in Inputs
  PROVE  RunAfter(in) \in [prev_state : BOOLEAN, current_run : Nat,
                           temp_at_start : {"low", "ok", "high"},
                           evap_at_start : {"nan", "cold", "warm"}]
BY InputType DEF TypeOK, RunAfter, Readings, Capped, EvapTemp

LEMMA RateType ==
  ASSUME TypeOK, NEW in \in Inputs
  PROVE  RateAfter(in) \in [initialized : BOOLEAN, rising : Nat]
<1> DEFINE before == IF Resets(in) THEN [initialized |-> FALSE, rising |-> 0] ELSE rate
           Types  == [initialized : BOOLEAN, rising : Nat]
<1>1. before \in Types
  BY DEF TypeOK
<1>2. Capped(before.rising + 1) \in Nat
  BY <1>1, InputType DEF Capped
<1>3. [initialized |-> before.initialized /\ in.compressor /\ in.sensor1_ok, rising |-> 0] \in Types
  BY <1>1, InputType DEF Readings
<1>4. [before EXCEPT !.initialized = TRUE] \in Types
  BY <1>1
<1>5. [before EXCEPT !.rising = IF in.rising THEN Capped(@ + 1) ELSE 0] \in Types
  BY <1>1, <1>2
<1> HIDE DEF before, Types
<1>6. RateAfter(in) \in {before,
        [initialized |-> before.initialized /\ in.compressor /\ in.sensor1_ok, rising |-> 0],
        [before EXCEPT !.initialized = TRUE],
        [before EXCEPT !.rising = IF in.rising THEN Capped(@ + 1) ELSE 0]}
  BY DEF RateAfter, before
<1>7. RateAfter(in) \in Types
  BY <1>1, <1>3, <1>4, <1>5, <1>6
<1> QED
  BY <1>7 DEF Types

LEMMA ActiveType ==
  ASSUME TypeOK, NEW in \in Inputs
  PROVE  ActiveAfter(in) \in SUBSET Monitors
BY DEF TypeOK, ActiveAfter, ActiveAfterReset, Rises, Bad

LEMMA DoorType ==
  ASSUME TypeOK, NEW in \in Inputs
  PROVE  DoorComp(in) \in [timer : Nat, blocked : BOOLEAN]
BY InputType DEF TypeOK, DoorComp, Readings, Capped, Settings

LEMMA HistoryType ==
  ASSUME TypeOK, NEW in \in Inputs, TrackHistory(in)
  PROVE  /\ hot_for' \in 0..CALLS_CAP /\ since_defrost' \in 0..CALLS_CAP
         /\ calm' \in BOOLEAN
         /\ last' \in [settings : Settings, reset : BOOLEAN]
<1>1. hot_for' \in 0..CALLS_CAP /\ since_defrost' \in 0..CALLS_CAP
  BY InputType DEF TypeOK, TrackHistory, Capped
<1>2. calm' \in BOOLEAN
  BY DEF TrackHistory
<1>3. last' \in [settings : Settings, reset : BOOLEAN]
  BY InputType DEF TrackHistory, Resets, Readings
<1> QED
  BY <1>1, <1>2, <1>3

LEMMA NextType == TypeOK /\ [Next]_vars => TypeOK'
<1> SUFFICES ASSUME TypeOK, [Next]_vars
             PROVE  TypeOK'
  OBVIOUS
<1>1. ASSUME NEW in \in Inputs, Update(in)
      PROVE  TypeOK'
  <2>1. pending_ms' \in [Delayed -> Nat]
    BY <1>1, PendingType DEF Update
  <2>2. active' \in SUBSET Monitors
    BY <1>1, ActiveType DEF Update
  <2>3. /\ suppression' \in [was_defrost : BOOLEAN, on : BOOLEAN, timer : Nat]
        /\ run' \in [prev_state : BOOLEAN, current_run : Nat,
                     temp_at_start : {"low", "ok", "high"},
                     evap_at_start : {"nan", "cold", "warm"}]
        /\ rate' \in [initialized : BOOLEAN, rising : Nat]
        /\ door_comp' \in [timer : Nat, blocked : BOOLEAN]
    BY <1>1, SuppressionType, RunType, RateType, DoorType DEF Update
  <2>4. /\ hot_for' \in 0..CALLS_CAP /\ since_defrost' \in 0..CALLS_CAP
        /\ calm' \in BOOLEAN
        /\ last' \in [settings : Settings, reset : BOOLEAN]
    BY <1>1, HistoryType DEF Update
  <2>5. fitted' \in SUBSET Equipped
    BY <1>1 DEF Update, TypeOK
  <2> QED
    BY <2>1, <2>2, <2>3, <2>4, <2>5 DEF TypeOK
<1>2. CASE UNCHANGED <<fitted, fields, histories>>
  BY <1>2 DEF TypeOK, fields, histories
<1> QED
  BY <1>1, <1>2 DEF Next, Tick, Restart, vars

\* Every variable has its type.
THEOREM TypeCorrect == Spec => []TypeOK
<1> QED
  BY InitType, NextType, PTL DEF Spec

-----------------------------------------------------------------------------
(* Latching                                                                  *)

\* The block of the condenser is not among those that find their condition gone.
LEMMA BlockNeverNormal ==
  ASSUME NEW in
  PROVE  "cond_block" \notin Normal(in)
BY DEF Normal

\* Under manual_reset no alarm of any monitor ends but by the reset command, and the
\* condenser block never does: publish_alarms, check_reset_command and the monitors
\* of ProtectionModule.
THEOREM LatchHolds == Spec => AlarmsLatch
<1> DEFINE Ends(m) == last'.reset \/ (~last'.settings.manual_reset /\ m # "cond_block")
<1>1. ASSUME NEW in \in Inputs, Update(in), NEW m \in active \ active'
      PROVE  Ends(m)
  <2>1. last'.reset = Resets(in) /\ last'.settings = in.settings
    BY <1>1 DEF Update, TrackHistory
  <2>2. m \notin ActiveAfterReset(in) \/ m \in Falls(in)
    BY <1>1 DEF Update, ActiveAfter
  <2>3. CASE m \notin ActiveAfterReset(in)
    BY <1>1, <2>1, <2>3 DEF ActiveAfterReset
  <2>4. CASE m \in Falls(in)
    BY <2>1, <2>4, BlockNeverNormal DEF Falls
  <2> QED
    BY <2>2, <2>3, <2>4
<1>2. [Next]_vars => [\A m \in active \ active' : Ends(m)]_vars
  <2> SUFFICES ASSUME Next, NEW m \in active \ active'
               PROVE  Ends(m)
    BY DEF vars
  <2>1. CASE Restart
    BY <2>1 DEF Restart, fields
  <2> QED
    BY <1>1, <2>1 DEF Next, Tick
<1> QED
  BY <1>2, PTL DEF Spec, AlarmsLatch

-----------------------------------------------------------------------------
(* The suppression after a defrost                                           *)

\* The module's own account of it agrees with what happened: while and only while the
\* time after a defrost runs, high temperatures are suppressed.
Suppressed ==
  /\ suppression.was_defrost => ~suppression.on /\ ~calm /\ since_defrost = 0
  /\ suppression.on => ~calm /\ since_defrost = Capped(suppression.timer)
  /\ ~suppression.was_defrost /\ ~calm => suppression.on

LEMMA InitSuppressed == Init => Suppressed
BY DEF Init, Suppressed

LEMMA UpdateSuppressed ==
  ASSUME TypeOK, Suppressed, NEW in \in Inputs, Update(in)
  PROVE  Suppressed'
<1> DEFINE post == in.settings.post_defrost_delay
<1>1. post \in Nat /\ post <= CALLS_CAP /\ CALLS_CAP \in Nat /\ CALLS_CAP >= 1
  BY InputType DEF Settings
<1>2. /\ suppression' = PostDefrost(in)
      /\ since_defrost' = IF InDefrost(in) THEN 0 ELSE Capped(since_defrost + 1)
      /\ calm' = (~InDefrost(in) /\ (calm \/ since_defrost' >= post))
  BY DEF Update, TrackHistory
<1>3. /\ suppression \in [was_defrost : BOOLEAN, on : BOOLEAN, timer : Nat]
      /\ since_defrost \in Nat /\ calm \in BOOLEAN
  BY DEF TypeOK
<1>4. CASE InDefrost(in)
  BY <1>2, <1>3, <1>4 DEF PostDefrost, Suppressed
<1>5. CASE ~InDefrost(in) /\ suppression.was_defrost
  <2>1. /\ suppression'.was_defrost = FALSE /\ suppression'.timer = 1
        /\ suppression'.on = (1 < post)
    BY <1>1, <1>2, <1>3, <1>5 DEF PostDefrost
  <2>2. since_defrost' = Capped(1) /\ calm' = (since_defrost' >= post)
    BY <1>2, <1>5 DEF Suppressed
  <2>3. Capped(1) = 1
    BY <1>1 DEF Capped
  <2>4. calm' <=> 1 >= post
    BY <2>2, <2>3
  <2>5. suppression'.on <=> 1 < post
    BY <2>1, Zenon
  <2>6. ~(1 < post) <=> 1 >= post
    BY <1>1
  <2>7. ~calm' <=> suppression'.on
    BY <2>4, <2>5, <2>6, Zenon
  <2> QED
    BY <2>1, <2>2, <2>3, <2>7 DEF Suppressed
<1>6. CASE ~InDefrost(in) /\ ~suppression.was_defrost /\ suppression.on
  <2>1. /\ suppression'.was_defrost = FALSE /\ suppression'.timer = suppression.timer + 1
        /\ suppression'.on = (suppression.timer + 1 < post)
    BY <1>1, <1>2, <1>3, <1>6 DEF PostDefrost
  <2>2. /\ since_defrost' = Capped(Capped(suppression.timer) + 1)
        /\ calm' = (since_defrost' >= post)
    BY <1>2, <1>6 DEF Suppressed
  <2>3. since_defrost' = Capped(suppression.timer + 1)
    BY <1>1, <1>3, <2>2 DEF Capped
  <2> QED
    BY <1>1, <1>3, <2>1, <2>2, <2>3 DEF Suppressed, Capped
<1>7. CASE ~InDefrost(in) /\ ~suppression.was_defrost /\ ~suppression.on
  <2>1. suppression'.was_defrost = FALSE /\ suppression'.on = FALSE
    BY <1>2, <1>3, <1>7 DEF PostDefrost
  <2>2. calm' = TRUE
    BY <1>2, <1>3, <1>7 DEF Suppressed
  <2> QED
    BY <2>1, <2>2 DEF Suppressed
<1> QED
  BY <1>3, <1>4, <1>5, <1>6, <1>7

-----------------------------------------------------------------------------
(* The delay of the high temperature alarm                                   *)

\* As long as there is no alarm, pending_ms counts exactly the calls that should.
Counted ==
  "high_temp" \notin active => Capped(pending_ms["high_temp"]) = hot_for

LEMMA HighTempConditions ==
  ASSUME NEW in \in Inputs
  PROVE  /\ "high_temp" \in Bad(in) <=> in.sensor1_ok /\ ~SuppressHigh(in) /\ in.air = "high"
         /\ "high_temp" \in Normal(in) => in.air # "high"
BY DEF Bad, Normal, Monitors

\* The monitor sees its condition in the calls that should count, and in no others.
LEMMA BadIffCounts ==
  ASSUME TypeOK, Suppressed, NEW in \in Inputs, Update(in)
  PROVE  "high_temp" \in Bad(in) <=> CountsAsHot(in)
<1>1. Suppressed'
  BY UpdateSuppressed
<1>2. suppression' = PostDefrost(in) /\ suppression'.was_defrost = InDefrost(in)
  BY DEF Update, PostDefrost
<1>3. in.phase \in {"none", "heating", "drying"}
  BY InputType DEF Readings
<1>4. CASE in.phase = "heating"
  BY <1>4, HighTempConditions DEF SuppressHigh, CountsAsHot
<1>5. CASE in.phase = "drying"
  <2>1. ~SuppressHigh(in)
    BY <1>1, <1>2, <1>5 DEF SuppressHigh, InDefrost, Suppressed
  <2> QED
    BY <1>5, <2>1, HighTempConditions DEF CountsAsHot
<1>6. CASE in.phase = "none"
  <2>1. SuppressHigh(in) <=> ~calm'
    BY <1>1, <1>2, <1>6 DEF SuppressHigh, InDefrost, Suppressed
  <2> QED
    BY <1>6, <2>1, HighTempConditions DEF CountsAsHot
<1> QED
  BY <1>3, <1>4, <1>5, <1>6

\* What a call does to the count of a monitor without an alarm, and to an alarm.
LEMMA UpdateCounts ==
  ASSUME TypeOK, Suppressed, Counted, NEW in \in Inputs, Update(in)
  PROVE  /\ "high_temp" \notin ActiveAfterReset(in) =>
              Capped(pending_ms'["high_temp"]) = hot_for'
         /\ CountsAsHot(in) /\ "high_temp" \in ActiveAfterReset(in) => "high_temp" \in active'
         /\ CountsAsHot(in) <=> hot_for' > 0
<1>1. CALLS_CAP \in Nat /\ CALLS_CAP >= 1 /\ hot_for \in Nat /\ pending_ms["high_temp"] \in Nat
  BY InputType DEF TypeOK, Delayed
<1>2. hot_for' = IF ~CountsAsHot(in) THEN 0
                 ELSE IF Resets(in) THEN 1 ELSE Capped(hot_for + 1)
  BY DEF Update, TrackHistory
<1>3. pending_ms'["high_temp"] = Pending(in, "high_temp")
  BY DEF Update, Delayed
<1>4. CountsAsHot(in) <=> hot_for' > 0
  BY <1>1, <1>2 DEF Capped
<1>5. ASSUME CountsAsHot(in), "high_temp" \in ActiveAfterReset(in)
      PROVE  "high_temp" \in active'
  <2>1. "high_temp" \notin Falls(in)
    BY <1>5, HighTempConditions DEF CountsAsHot, Falls
  <2> QED
    BY <1>5, <2>1 DEF Update, ActiveAfter
<1>6. ASSUME "high_temp" \notin ActiveAfterReset(in)
      PROVE  Capped(pending_ms'["high_temp"]) = hot_for'
  <2>1. CASE ~CountsAsHot(in)
    <3>1. Pending(in, "high_temp") = 0
      BY <2>1, BadIffCounts DEF Pending
    <3> QED
      BY <1>1, <1>2, <1>3, <2>1, <3>1 DEF Capped
  <2>2. CASE CountsAsHot(in)
    <3>1. Pending(in, "high_temp") = PendingAfterReset(in, "high_temp") + 1
      BY <1>6, <2>2, BadIffCounts DEF Pending
    <3>2. CASE Resets(in)
      BY <1>1, <1>2, <1>3, <2>2, <3>1, <3>2 DEF Capped, PendingAfterReset
    <3>3. CASE ~Resets(in)
      <4>1. Capped(pending_ms["high_temp"]) = hot_for
        BY <1>6, <3>3 DEF Counted, ActiveAfterReset
      <4> QED
        BY <1>1, <1>2, <1>3, <2>2, <3>1, <3>3, <4>1 DEF Capped, PendingAfterReset
    <3> QED
      BY <3>2, <3>3
  <2> QED
    BY <2>1, <2>2
<1> QED
  BY <1>4, <1>5, <1>6

Delays == Suppressed /\ Counted /\ HighTempInTime

LEMMA InitDelays == Init => Delays
<1> SUFFICES ASSUME Init
             PROVE  Delays
  OBVIOUS
<1>1. Suppressed
  BY InitSuppressed
<1>2. Counted
  BY AlarmsAssumption DEF Init, Counted, Capped, Delayed
<1>3. HighTempInTime
  BY DEF Init, HighTempInTime
<1> QED
  BY <1>1, <1>2, <1>3 DEF Delays

LEMMA NextDelays == TypeOK /\ Delays /\ [Next]_vars => Delays'
<1> SUFFICES ASSUME TypeOK, Delays, [Next]_vars
             PROVE  Delays'
  OBVIOUS
<1>1. ASSUME NEW in \in Inputs, Update(in)
      PROVE  Delays'
  <2>1. Suppressed'
    BY <1>1, UpdateSuppressed DEF Delays
  <2>2. /\ "high_temp" \notin ActiveAfterReset(in) =>
             Capped(pending_ms'["high_temp"]) = hot_for'
        /\ CountsAsHot(in) /\ "high_temp" \in ActiveAfterReset(in) => "high_temp" \in active'
        /\ CountsAsHot(in) <=> hot_for' > 0
    BY <1>1, UpdateCounts DEF Delays
  <2>3. CountsAsHot(in) => "high_temp" \in Bad(in)
    BY <1>1, BadIffCounts DEF Delays
  <2>4. Counted'
    <3>1. CASE CountsAsHot(in)
      BY <2>2, <3>1 DEF Counted
    <3>2. CASE ~CountsAsHot(in) /\ "high_temp" \in ActiveAfterReset(in)
      <4>1. Pending(in, "high_temp") = 0
        BY <1>1, <3>2, BadIffCounts DEF Delays, Pending
      <4>2. pending_ms'["high_temp"] = 0 /\ hot_for' = 0
        BY <1>1, <3>2, <4>1 DEF Update, TrackHistory, Delayed
      <4> QED
        BY <4>2, AlarmsAssumption DEF Counted, Capped
    <3> QED
      BY <2>2, <3>1, <3>2 DEF Counted
  <2>5. HighTempInTime'
    <3> SUFFICES ASSUME hot_for' > 0, hot_for' >= in.settings.high_alarm_delay,
                        "high_temp" \notin ActiveAfterReset(in)
                 PROVE  "high_temp" \in active'
      BY <1>1, <2>2 DEF HighTempInTime, Update, TrackHistory
    <3>1. /\ Pending(in, "high_temp") \in Nat
          /\ pending_ms'["high_temp"] = Pending(in, "high_temp")
      BY <1>1, PendingType DEF Update, Delayed
    <3>2. Pending(in, "high_temp") >= in.settings.high_alarm_delay
      BY <1>1, <2>2, <3>1, InputType DEF Capped, Settings
    <3>3. "high_temp" \in Rises(in)
      BY <2>2, <2>3, <3>2 DEF Rises, Delay
    <3> QED
      BY <1>1, <3>3 DEF Update, ActiveAfter
  <2> QED
    BY <2>1, <2>4, <2>5 DEF Delays
<1>2. CASE UNCHANGED <<fitted, fields, histories>>
  BY <1>2 DEF Delays, Suppressed, Counted, HighTempInTime, Capped, fields, histories
<1> QED
  BY <1>1, <1>2 DEF Next, Tick, Restart, vars

\* A room that stays too warm for high_alarm_delay, a defrost and its aftermath set
\* aside, has its alarm: update_high_temp.
THEOREM InTimeHolds == Spec => []HighTempInTime
<1>1. Init => TypeOK /\ Delays
  BY InitType, InitDelays
<1>2. TypeOK /\ Delays /\ [Next]_vars => (TypeOK /\ Delays)'
  BY NextType, NextDelays
<1>3. Delays => HighTempInTime
  BY DEF Delays
<1> QED
  BY <1>1, <1>2, <1>3, PTL DEF Spec

\* The alarm never rises sooner: no time before, during or shortly after a defrost
\* counts towards the delay (BUG-007 in on_update).
THEOREM WhenDueHolds == Spec => HighTempWhenDue
<1> DEFINE Due == hot_for' > 0 /\ hot_for' >= last'.settings.high_alarm_delay
           Rise == "high_temp" \in active' /\ "high_temp" \notin active
<1>1. Init => TypeOK /\ Delays
  BY InitType, InitDelays
<1>2. TypeOK /\ Delays /\ [Next]_vars => (TypeOK /\ Delays)'
  BY NextType, NextDelays
<1>3. ASSUME TypeOK, Delays, NEW in \in Inputs, Update(in), Rise
      PROVE  Due
  <2>1. "high_temp" \in Rises(in) /\ "high_temp" \notin ActiveAfterReset(in)
    BY <1>3 DEF Update, ActiveAfter, ActiveAfterReset
  <2>2. /\ "high_temp" \in Bad(in)
        /\ Pending(in, "high_temp") >= in.settings.high_alarm_delay
    BY <2>1 DEF Rises, Delayed, Delay
  <2>3. hot_for' > 0 /\ Capped(pending_ms'["high_temp"]) = hot_for'
    BY <1>3, <2>1, <2>2, UpdateCounts, BadIffCounts DEF Delays
  <2>4. pending_ms'["high_temp"] = Pending(in, "high_temp")
    BY <1>3 DEF Update, Delayed
  <2>5. last'.settings = in.settings
    BY <1>3 DEF Update, TrackHistory
  <2> QED
    BY <2>2, <2>3, <2>4, <2>5, InputType DEF Capped
<1>4. TypeOK /\ Delays /\ [Next]_vars => [Rise => Due]_vars
  <2> SUFFICES ASSUME TypeOK, Delays, Next, Rise
               PROVE  Due
    BY DEF vars
  <2>1. CASE Restart
    BY <2>1 DEF Restart, fields
  <2> QED
    BY <1>3, <2>1 DEF Next, Tick
<1> QED
  BY <1>1, <1>2, <1>4, PTL DEF Spec, HighTempWhenDue

-----------------------------------------------------------------------------
(* StartWindow: types. The running time fits in the window it was taken in.   *)

TotalInWindow == total_on <= window

LEMMA WindowInputType ==
  ASSUME NEW in \in WindowInputs
  PROVE  /\ in.compressor \in BOOLEAN /\ in.reset \in BOOLEAN /\ in.manual_reset \in BOOLEAN
         /\ in.max_starts_hour \in Nat
BY WindowAssumption DEF WindowReadings

LEMMA InitWindowType == WindowInit => WindowTypeOK /\ TotalInWindow
<1> SUFFICES ASSUME WindowInit
             PROVE  WindowTypeOK /\ TotalInWindow
  OBVIOUS
<1>1. NoStarts \in [Slots -> 0..WINDOW]
  BY WindowAssumption DEF NoStarts
<1>2. past \in [1..WINDOW -> BOOLEAN]
  BY DEF WindowInit
<1>3. 0 \in 0..WINDOW /\ 0 \in Slots /\ 0 \in 0..MAX_STARTS /\ 0 <= 0
  BY WindowAssumption DEF Slots
<1>4. WindowTypeOK
  BY <1>1, <1>2, <1>3, Zenon DEF WindowInit, WindowTypeOK
<1> QED
  BY <1>4 DEF WindowInit, TotalInWindow

LEMMA SlideWindowType ==
  ASSUME NEW w \in 0..WINDOW, NEW total \in 0..w
  PROVE  /\ SlideWindow(w, total).window \in 1..WINDOW
         /\ SlideWindow(w, total).total \in 0..(SlideWindow(w, total).window - 1)
BY WindowAssumption DEF SlideWindow

LEMMA RecordStartType ==
  ASSUME NEW w \in 0..WINDOW, NEW stamps \in [Slots -> 0..WINDOW], NEW head \in Slots,
         NEW count \in 0..MAX_STARTS, RecordStart(w, stamps, head, count)
  PROVE  /\ start_timestamps' \in [Slots -> 0..WINDOW] /\ start_head' \in Slots
         /\ start_count' \in 0..MAX_STARTS
BY WindowAssumption DEF RecordStart, Slots

LEMMA NextWindowType ==
  WindowTypeOK /\ TotalInWindow /\ [WindowNext]_windowVars => (WindowTypeOK /\ TotalInWindow)'
<1> SUFFICES ASSUME WindowTypeOK, TotalInWindow, [WindowNext]_windowVars
             PROVE  (WindowTypeOK /\ TotalInWindow)'
  OBVIOUS
<1>1. CASE UNCHANGED windowVars
  BY <1>1 DEF windowVars, WindowTypeOK, TotalInWindow
<1>2. ASSUME NEW in \in WindowInputs, TrackStarts(in)
      PROVE  (WindowTypeOK /\ TotalInWindow)'
  <2> DEFINE w      == IF in.reset THEN 0 ELSE window
             total  == IF in.reset THEN 0 ELSE total_on
             stamps == IF in.reset THEN NoStarts ELSE start_timestamps
             head   == IF in.reset THEN 0 ELSE start_head
             count  == IF in.reset THEN 0 ELSE start_count
             slid   == SlideWindow(w, total)
  <2>1. w \in 0..WINDOW /\ total \in 0..w
    BY WindowAssumption DEF WindowTypeOK, TotalInWindow
  <2>2. /\ stamps \in [Slots -> 0..WINDOW] /\ head \in Slots /\ count \in 0..MAX_STARTS
    BY WindowAssumption DEF WindowTypeOK, NoStarts, Slots
  <2>3. slid.window \in 1..WINDOW /\ slid.total \in 0..(slid.window - 1)
    BY <2>1, SlideWindowType
  <2>4. /\ prev_state' = in.compressor /\ window' = slid.window
        /\ total_on' = IF in.compressor THEN slid.total + 1 ELSE slid.total
        /\ IF in.compressor /\ ~prev_state THEN RecordStart(slid.window, stamps, head, count)
           ELSE start_timestamps' = stamps /\ start_head' = head /\ start_count' = count
    BY <1>2 DEF TrackStarts
  <2> HIDE DEF w, total, stamps, head, count, slid
  <2>5. /\ prev_state' \in BOOLEAN /\ window' \in 0..WINDOW /\ total_on' \in 0..WINDOW
        /\ total_on' <= window'
    BY <2>3, <2>4, WindowInputType, WindowAssumption
  <2>6. /\ start_timestamps' \in [Slots -> 0..WINDOW] /\ start_head' \in Slots
        /\ start_count' \in 0..MAX_STARTS
    BY <2>2, <2>3, <2>4, RecordStartType
  <2>7. rapid_cycle' \in BOOLEAN
    BY <1>2 DEF TrackStarts
  <2>8. past' \in [1..WINDOW -> BOOLEAN]
    <3>1. \A age \in 1..WINDOW :
            (IF age = 1 THEN in.compressor /\ ~prev_state ELSE ~in.reset /\ past[age - 1]) \in BOOLEAN
      OBVIOUS
    <3> QED
      BY <1>2, <3>1 DEF TrackStarts, Remember
  <2> QED
    BY <2>5, <2>6, <2>7, <2>8 DEF WindowTypeOK, TotalInWindow
<1> QED
  BY <1>1, <1>2 DEF WindowNext

\* StartWindow keeps its types: the timestamps and the running time stay within the hour,
\* the head and the count within the ring buffer.
THEOREM WindowTypeCorrect == WindowSpec => []WindowTypeOK
<1>1. WindowInit => WindowTypeOK /\ TotalInWindow
  BY InitWindowType
<1>2. WindowTypeOK /\ TotalInWindow /\ [WindowNext]_windowVars => (WindowTypeOK /\ TotalInWindow)'
  BY NextWindowType
<1> QED
  BY <1>1, <1>2, PTL DEF WindowSpec

-----------------------------------------------------------------------------
(* StartWindow: every start of the last hour is still in the ring buffer,     *)
(* unless the buffer is full; and count_starts_in_window counts the buffer.   *)

Starts == {age \in 1..WINDOW : past[age]}

StartsAreHeld == start_count = MAX_STARTS \/ RecentStarts <= start_count

\* One call on, the starts but the newest are older by one.
LEMMA OlderStarts ==
  ASSUME NEW S \in SUBSET (1..WINDOW), NEW T \in SUBSET (1..WINDOW), 1 \notin T,
         \A age \in T : age - 1 \in S
  PROVE  /\ IsFiniteSet(S) /\ IsFiniteSet(T)
         /\ Cardinality(T) \in Nat /\ Cardinality(S) \in Nat /\ Cardinality(T) <= Cardinality(S)
<1>1. IsFiniteSet(1..WINDOW)
  BY FS_Interval, WindowAssumption
<1>2. IsFiniteSet(S)
  BY <1>1, FS_Subset
<1> DEFINE f == [age \in T |-> age - 1]
<1>3. f \in Injection(T, S)
  <2>1. f \in [T -> S]
    OBVIOUS
  <2>2. \A a, b \in T : f[a] = f[b] => a = b
    BY WindowAssumption
  <2> QED
    BY <2>1, <2>2 DEF Injection, IsInjective
<1>4. IsFiniteSet(T) /\ Cardinality(T) <= Cardinality(S)
  BY <1>2, <1>3, FS_Injection
<1> QED
  BY <1>2, <1>4, FS_CardinalityType

\* What one call adds to the starts of the last hour.
LEMMA RecentStartsGrow ==
  ASSUME WindowTypeOK, NEW in \in WindowInputs, TrackStarts(in)
  PROVE  /\ RecentStarts \in Nat /\ RecentStarts' \in Nat
         /\ RecentStarts' <= (IF in.reset THEN 0 ELSE RecentStarts)
                             + (IF in.compressor /\ ~prev_state THEN 1 ELSE 0)
<1> DEFINE S == IF in.reset THEN {} ELSE Starts
           T == Starts' \ {1}
<1>1. past' = [age \in 1..WINDOW |-> IF age = 1 THEN in.compressor /\ ~prev_state
                                     ELSE ~in.reset /\ past[age - 1]]
  BY DEF TrackStarts, Remember
<1>2. \A age \in 1..WINDOW : age \in Starts' <=> past'[age]
  BY DEF Starts
<1>3. \A age \in T : age - 1 \in S
  <2> SUFFICES ASSUME NEW age \in T
               PROVE  age - 1 \in S
    OBVIOUS
  <2>1. age \in 1..WINDOW /\ age # 1 /\ past'[age]
    BY <1>2 DEF Starts
  <2>2. ~in.reset /\ past[age - 1]
    BY <1>1, <2>1
  <2>3. age - 1 \in 1..WINDOW
    BY <2>1, WindowAssumption
  <2> QED
    BY <2>2, <2>3 DEF Starts
<1>4. /\ IsFiniteSet(S) /\ IsFiniteSet(T)
      /\ Cardinality(T) \in Nat /\ Cardinality(S) \in Nat /\ Cardinality(T) <= Cardinality(S)
  <2>1. S \in SUBSET (1..WINDOW) /\ T \in SUBSET (1..WINDOW) /\ 1 \notin T
    BY DEF Starts
  <2> HIDE DEF S, T
  <2> QED
    BY <1>3, <2>1, OlderStarts
<1>5. Cardinality(S) = IF in.reset THEN 0 ELSE RecentStarts
  <2>1. CASE in.reset
    BY <2>1, FS_EmptySet
  <2>2. CASE ~in.reset
    BY <2>2 DEF Starts, RecentStarts
  <2> QED
    BY <2>1, <2>2
<1>6. RecentStarts \in Nat
  <2>1. IsFiniteSet(1..WINDOW) /\ Starts \in SUBSET (1..WINDOW)
    BY FS_Interval, WindowAssumption DEF Starts
  <2>2. IsFiniteSet(Starts)
    BY <2>1, FS_Subset
  <2> QED
    BY <2>2, FS_CardinalityType DEF Starts, RecentStarts
<1>7. 1 \in 1..WINDOW
  BY WindowAssumption
<1>8. CASE in.compressor /\ ~prev_state
  <2>1. 1 \in 1..WINDOW /\ past'[1]
    BY <1>1, <1>7, <1>8, Zenon
  <2>2. 1 \in Starts'
    BY <1>2, <2>1
  <2>3. Cardinality(Starts') = Cardinality(T) + 1
    <3>1. Starts' = T \cup {1} /\ 1 \notin T
      BY <2>2
    <3> HIDE DEF T
    <3> QED
      BY <1>4, <3>1, FS_AddElement
  <2>4. RecentStarts' = Cardinality(T) + 1
    BY <2>3 DEF Starts, RecentStarts
  <2> HIDE DEF S, T
  <2> QED
    BY <1>4, <1>5, <1>6, <1>8, <2>4
<1>9. CASE ~(in.compressor /\ ~prev_state)
  <2>1. 1 \notin Starts'
    BY <1>1, <1>2, <1>7, <1>9, Zenon
  <2>2. Starts' = T
    BY <2>1
  <2>3. RecentStarts' = Cardinality(T)
    BY <2>2 DEF Starts, RecentStarts
  <2> HIDE DEF S, T
  <2> QED
    BY <1>4, <1>5, <1>6, <1>9, <2>3
<1> QED
  BY <1>8, <1>9

LEMMA NextHeld ==
  ASSUME WindowTypeOK, TotalInWindow, StartsAreHeld, NEW in \in WindowInputs, TrackStarts(in)
  PROVE  StartsAreHeld'
<1> DEFINE count == IF in.reset THEN 0 ELSE start_count
           before == IF in.reset THEN 0 ELSE RecentStarts
<1>1. count \in 0..MAX_STARTS /\ (count = MAX_STARTS \/ before <= count)
  BY WindowAssumption DEF WindowTypeOK, StartsAreHeld
<1>2. start_count' = IF in.compressor /\ ~prev_state
                     THEN IF count < MAX_STARTS THEN count + 1 ELSE count
                     ELSE count
  BY DEF TrackStarts, RecordStart
<1>3. /\ before \in Nat /\ RecentStarts' \in Nat
      /\ RecentStarts' <= before + (IF in.compressor /\ ~prev_state THEN 1 ELSE 0)
  BY RecentStartsGrow
<1> HIDE DEF count, before
<1> QED
  BY <1>1, <1>2, <1>3, WindowAssumption DEF StartsAreHeld

\* The window never grows past the hour, so that no timestamp is older than it.
LEMMA WholeBufferCounts ==
  ASSUME NEW w \in 0..WINDOW, NEW stamps \in [Slots -> 0..WINDOW], NEW head \in Slots,
         NEW count \in 0..MAX_STARTS
  PROVE  StartsInWindow(w, stamps, head, count) = count
<1> DEFINE cutoff == IF w > WINDOW THEN w - WINDOW ELSE 0
           oldest == head + MAX_STARTS - count
<1>1. cutoff = 0
  BY WindowAssumption
<1>2. \A i \in 0..(count - 1) : stamps[(oldest + i) % MAX_STARTS] >= cutoff
  <2> SUFFICES ASSUME NEW i \in 0..(count - 1)
               PROVE  stamps[(oldest + i) % MAX_STARTS] >= cutoff
    OBVIOUS
  <2>1. oldest + i \in Nat
    BY WindowAssumption DEF Slots
  <2> HIDE DEF oldest
  <2>2. (oldest + i) % MAX_STARTS \in Slots
    BY <2>1, WindowAssumption DEF Slots
  <2>3. stamps[(oldest + i) % MAX_STARTS] \in 0..WINDOW
    BY <2>2
  <2> QED
    BY <1>1, <2>3, WindowAssumption
<1>3. {i \in 0..(count - 1) : stamps[(oldest + i) % MAX_STARTS] >= cutoff} = 0..(count - 1)
  BY <1>2
<1>4. Cardinality(0..(count - 1)) = count
  BY FS_Interval, WindowAssumption
<1> QED
  BY <1>3, <1>4 DEF StartsInWindow

\* More than max_starts_hour starts within the last hour are never missed, as long as the
\* limit is one the ring buffer of update_compressor_tracker can hold.
THEOREM RapidStartsHold == WindowSpec => RapidStartsAlarm
<1> DEFINE Safe == WindowTypeOK /\ TotalInWindow /\ StartsAreHeld
           Rings == \A in \in WindowInputs :
                      TrackStarts(in) /\ in.max_starts_hour < MAX_STARTS
                        /\ RecentStarts' > in.max_starts_hour
                      => rapid_cycle'
<1>1. WindowInit => Safe
  <2> SUFFICES ASSUME WindowInit
               PROVE  StartsAreHeld
    BY InitWindowType
  <2>1. {age \in 1..WINDOW : past[age]} = {}
    BY DEF WindowInit
  <2> QED
    BY <2>1, FS_EmptySet DEF WindowInit, StartsAreHeld, RecentStarts
<1>2. Safe /\ [WindowNext]_windowVars => Safe'
  <2> SUFFICES ASSUME Safe, [WindowNext]_windowVars
               PROVE  StartsAreHeld'
    BY NextWindowType
  <2>1. CASE UNCHANGED windowVars
    BY <2>1 DEF windowVars, StartsAreHeld, RecentStarts
  <2> QED
    BY <2>1, NextHeld DEF WindowNext
<1>3. Safe /\ Safe' => Rings
  <2> SUFFICES ASSUME Safe, Safe', NEW in \in WindowInputs, TrackStarts(in),
                      in.max_starts_hour < MAX_STARTS, RecentStarts' > in.max_starts_hour
               PROVE  rapid_cycle'
    OBVIOUS
  <2>1. StartsInWindow(window', start_timestamps', start_head', start_count') = start_count'
    BY WholeBufferCounts DEF WindowTypeOK
  <2>2. start_count' > in.max_starts_hour
    <3>1. /\ start_count' \in Nat /\ RecentStarts' \in Nat /\ in.max_starts_hour \in Nat
          /\ MAX_STARTS \in Nat
      BY RecentStartsGrow, WindowInputType, WindowAssumption DEF WindowTypeOK
    <3>2. start_count' = MAX_STARTS \/ RecentStarts' <= start_count'
      BY DEF StartsAreHeld
    <3> QED
      BY <3>1, <3>2
  <2> QED
    BY <2>1, <2>2 DEF TrackStarts
<1>4. Safe /\ Safe' => [Rings]_windowVars
  <2> HIDE DEF Safe, Rings
  <2> QED
    BY <1>3
<1> QED
  BY <1>1, <1>2, <1>4, PTL DEF WindowSpec, RapidStartsAlarm

=============================================================================
