---------------------------- MODULE StartWindow ----------------------------
(***************************************************************************)
(* ProtectionModule (modules/protection), the one-hour window of its       *)
(* CompressorTracker: the ring buffer of start timestamps behind the       *)
(* rapid-cycle alarm, and the running time behind the duty cycle.          *)
(*                                                                         *)
(* One step of TrackStarts is what one call of on_update does to these     *)
(* fields.                                                                 *)
(***************************************************************************)
EXTENDS Integers, FiniteSets

CONSTANTS
  WINDOW,        \* one hour, in calls
  MAX_STARTS,    \* the size of the ring buffer, 30
  WindowInputs   \* what a call may read

\* reset: check_reset_command found the command and an active alarm.
WindowReadings ==
  [compressor : BOOLEAN, reset : BOOLEAN, manual_reset : BOOLEAN, max_starts_hour : Nat]

ASSUME WindowAssumption ==
  /\ WINDOW \in Nat \ {0} /\ MAX_STARTS \in Nat \ {0}
  /\ WindowInputs \subseteq WindowReadings

VARIABLES
  prev_state,
  window,             \* window_ms
  start_timestamps,
  start_head,
  start_count,
  total_on,           \* total_on_1h_ms
  rapid_cycle,        \* rapid_cycle_.active
  past                \* history: the starts in the last WINDOW calls, latest first

windowVars == <<prev_state, window, start_timestamps, start_head, start_count, total_on,
                rapid_cycle, past>>

Slots == 0..(MAX_STARTS - 1)
NoStarts == [i \in Slots |-> 0]

-----------------------------------------------------------------------------
\* The window grows by one call up to an hour; what grows over is taken off the
\* running time.
SlideWindow(w, total) ==
  IF w + 1 > WINDOW
  THEN [window |-> WINDOW, total |-> IF total > w + 1 - WINDOW THEN total - (w + 1 - WINDOW) ELSE 0]
  ELSE [window |-> w + 1, total |-> total]

\* Mutant: one slot of the ring is never used.
RecordStartOneLess(w, stamps, head, count) ==
  /\ start_timestamps' = [stamps EXCEPT ![head] = w]
  /\ start_head' = (head + 1) % MAX_STARTS
  /\ start_count' = IF count < MAX_STARTS - 1 THEN count + 1 ELSE count

RecordStart(w, stamps, head, count) ==
  /\ start_timestamps' = [stamps EXCEPT ![head] = w]
  /\ start_head' = (head + 1) % MAX_STARTS
  /\ start_count' = IF count < MAX_STARTS THEN count + 1 ELSE count

\* count_starts_in_window, from the oldest entry of the ring to the newest.
StartsInWindow(w, stamps, head, count) ==
  LET cutoff == IF w > WINDOW THEN w - WINDOW ELSE 0
      oldest == head + MAX_STARTS - count
  IN  Cardinality({i \in 0..(count - 1) : stamps[(oldest + i) % MAX_STARTS] >= cutoff})

WindowInit ==
  /\ prev_state = FALSE
  /\ window = 0 /\ total_on = 0
  /\ start_timestamps = NoStarts /\ start_head = 0 /\ start_count = 0
  /\ rapid_cycle = FALSE
  /\ past = [age \in 1..WINDOW |-> FALSE]

Remember(in) ==
  past' = [age \in 1..WINDOW |->
             IF age = 1 THEN in.compressor /\ ~prev_state
             ELSE ~in.reset /\ past[age - 1]]

\* A reset clears the ring and the window before the relay is looked at.
TrackStarts(in) ==
  LET slid   == SlideWindow(IF in.reset THEN 0 ELSE window, IF in.reset THEN 0 ELSE total_on)
      stamps == IF in.reset THEN NoStarts ELSE start_timestamps
      head   == IF in.reset THEN 0 ELSE start_head
      count  == IF in.reset THEN 0 ELSE start_count
  IN  /\ prev_state' = in.compressor
      /\ window' = slid.window
      /\ total_on' = IF in.compressor THEN slid.total + 1 ELSE slid.total
      /\ IF in.compressor /\ ~prev_state
         THEN RecordStart(slid.window, stamps, head, count)
         ELSE start_timestamps' = stamps /\ start_head' = head /\ start_count' = count
      /\ rapid_cycle' =
           (\/ StartsInWindow(window', start_timestamps', start_head', start_count')
                 > in.max_starts_hour
            \/ rapid_cycle /\ ~in.reset /\ in.manual_reset)
      /\ Remember(in)

WindowNext == \E in \in WindowInputs : TrackStarts(in)
WindowSpec == WindowInit /\ [][WindowNext]_windowVars

-----------------------------------------------------------------------------
(* Properties.                                                             *)

\* Every variable has its type.
WindowTypeOK ==
  /\ prev_state \in BOOLEAN
  /\ window \in 0..WINDOW
  /\ start_timestamps \in [Slots -> 0..WINDOW]
  /\ start_head \in Slots
  /\ start_count \in 0..MAX_STARTS
  /\ total_on \in 0..WINDOW
  /\ rapid_cycle \in BOOLEAN
  /\ past \in [1..WINDOW -> BOOLEAN]

RecentStarts == Cardinality({age \in 1..WINDOW : past[age]})

\* More than max_starts_hour starts within the last hour are never missed, as
\* long as the limit is one the ring buffer can hold.
RapidStartsAlarm ==
  [][\A in \in WindowInputs :
       TrackStarts(in) /\ in.max_starts_hour < MAX_STARTS /\ RecentStarts' > in.max_starts_hour
         => rapid_cycle']_windowVars

=============================================================================
