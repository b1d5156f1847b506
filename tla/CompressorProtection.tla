------------------------ MODULE CompressorProtection ------------------------
(***************************************************************************)
(* ProtectionModule (modules/protection), its compressor side: the cycle   *)
(* tracker, the short-cycle alarm and the continuous-run escalation, which *)
(* first forces the compressor off for a while (compressor_blocked) and    *)
(* after max_retries in a row locks everything out.                        *)
(*                                                                         *)
(* One step of Update is what one call of on_update does to these fields.  *)
(* The module watches equipment.compressor and answers through two keys    *)
(* that Equipment obeys before the next call reads the relay.              *)
(***************************************************************************)
EXTENDS Integers

CONSTANTS
  COUNT_WRAP,     \* short_cycle_count is a uint8_t: 256
  IDLE_FACTOR,    \* a rest of so many min_compressor_run forgets short cycles
  TIMER_CAP,      \* where the model stops the tracker's timers
  OVERRUN_CAP,    \* where the history variable overruns stops
  Inputs          \* what a call may read

Settings ==
  [min_compressor_run : Nat, max_continuous_run : Nat,
   forced_off_period : Nat, max_retries : Nat \ {0}, manual_reset : BOOLEAN]

\* reset: the command reset_alarms is raised; other_alarm: an alarm of a
\* monitor outside this module is active.
Readings ==
  [compressor : BOOLEAN, defrost : BOOLEAN, reset : BOOLEAN,
   other_alarm : BOOLEAN, settings : Settings]

ASSUME ProtectionAssumption ==
  /\ COUNT_WRAP \in Nat \ {0} /\ IDLE_FACTOR \in Nat
  /\ TIMER_CAP \in Nat /\ OVERRUN_CAP \in Nat
  /\ Inputs \subseteq Readings
  /\ \A in \in Inputs :
       /\ in.settings.min_compressor_run * IDLE_FACTOR < TIMER_CAP
       /\ in.settings.max_continuous_run < TIMER_CAP
       /\ in.settings.forced_off_period <= TIMER_CAP

VARIABLES
  comp,           \* comp_, the cycle tracker
  short_cycle,    \* short_cycle_.active
  esc,            \* the fields of the escalation, see EscalationType
  keys,           \* the keys compressor_blocked and lockout
  run_age,        \* history: calls that saw the present, or last, run
  run_reset,      \* history: an alarm reset fell into that run
  overruns,       \* history: forced stops since the last regular run, run with a
                  \* reset in it, or change of settings
  last_settings,  \* history: the settings of the last call
  block_age       \* history: calls since compressor_blocked rose

histories == <<run_age, run_reset, overruns, last_settings, block_age>>
vars == <<comp, short_cycle, esc, keys, histories>>

Timer == 0..TIMER_CAP

TrackerType ==
  [prev_state : BOOLEAN, current_run : Timer, current_off : Timer, last_run : Timer,
   short_cycle_count : 0..(COUNT_WRAP - 1)]

EscalationType ==
  [forced_off : BOOLEAN, timer : Nat, count : Nat, lockout : BOOLEAN, alarm : BOOLEAN]

Capped(n, cap) == IF n < cap THEN n ELSE cap

-----------------------------------------------------------------------------
(* check_reset_command.                                                    *)

AnyAlarm(in) ==
  in.other_alarm \/ short_cycle \/ esc.alarm \/ esc.lockout \/ esc.forced_off

Resets(in) == in.reset /\ AnyAlarm(in)

TrackerAfterReset(in) ==
  IF Resets(in) THEN [comp EXCEPT !.current_run = 0, !.short_cycle_count = 0] ELSE comp

Released == [forced_off |-> FALSE, timer |-> 0, count |-> 0,
             lockout |-> FALSE, alarm |-> FALSE]

EscalationAfterReset(in) == IF Resets(in) THEN Released ELSE esc

-----------------------------------------------------------------------------
(* update_compressor_tracker: edges, accumulated times, short cycles.      *)

Edge(c, in) ==
  IF in.compressor /\ ~c.prev_state
  THEN [c EXCEPT !.current_run = 0]
  ELSE IF ~in.compressor /\ c.prev_state
  THEN [c EXCEPT !.last_run = c.current_run, !.current_off = 0,
                 !.short_cycle_count =
                    IF c.current_run < in.settings.min_compressor_run
                    THEN (@ + 1) % COUNT_WRAP ELSE 0]
  ELSE c

Accumulate(c, in) ==
  [c EXCEPT !.prev_state  = in.compressor,
            !.current_run = IF in.compressor THEN Capped(@ + 1, TIMER_CAP) ELSE @,
            !.current_off = IF in.compressor THEN @ ELSE Capped(@ + 1, TIMER_CAP)]

LongRest(c, in) ==
  ~in.compressor /\ c.current_off > in.settings.min_compressor_run * IDLE_FACTOR

ForgetShortCycles(c, in) ==
  IF LongRest(c, in)
  THEN [c EXCEPT !.short_cycle_count = 0] ELSE c

Tracked(in) == ForgetShortCycles(Accumulate(Edge(TrackerAfterReset(in), in), in), in)

ShortCycleAlarm(c, in) ==
  \/ c.short_cycle_count >= 3
  \/ short_cycle /\ ~Resets(in) /\ in.settings.manual_reset

-----------------------------------------------------------------------------
(* The continuous-run escalation.                                          *)

\* The end of a forced stop; it counts through a defrost as well (M4).
Release(e, in) == e.forced_off /\ e.timer + 1 >= in.settings.forced_off_period

\* Mutants: the alarm stays, which hides the next overlong run; the stop stays
\* when it ends in the lockout; the retry is not counted; one retry too many.
AfterForcedOffAlarmKept(e, in) ==
  [e EXCEPT !.forced_off = FALSE, !.timer = @ + 1, !.count = @ + 1,
            !.lockout = @ \/ e.count + 1 >= in.settings.max_retries]
AfterForcedOffStopKept(e, in) ==
  [e EXCEPT !.forced_off = e.count + 1 >= in.settings.max_retries,
            !.timer = @ + 1, !.count = @ + 1, !.alarm = FALSE,
            !.lockout = @ \/ e.count + 1 >= in.settings.max_retries]
AfterForcedOffUncounted(e, in) ==
  [e EXCEPT !.forced_off = FALSE, !.timer = @ + 1, !.alarm = FALSE,
            !.lockout = @ \/ e.count + 1 >= in.settings.max_retries]
AfterForcedOffOneMore(e, in) ==
  [e EXCEPT !.forced_off = FALSE, !.timer = @ + 1, !.count = @ + 1, !.alarm = FALSE,
            !.lockout = @ \/ e.count >= in.settings.max_retries]

AfterForcedOff(e, in) ==
  [e EXCEPT !.forced_off = FALSE, !.timer = @ + 1, !.count = @ + 1, !.alarm = FALSE,
            !.lockout = @ \/ e.count + 1 >= in.settings.max_retries]

\* The run that just ended was a normal one: the retries start afresh.
NormalCycle(c, in) == c.last_run > 0 /\ c.last_run < in.settings.max_continuous_run

Detect(e, c, in) ==
  IF in.defrost \/ e.lockout THEN e
  ELSE IF ~in.compressor
  THEN [e EXCEPT !.alarm = @ /\ in.settings.manual_reset,
                 !.count = IF NormalCycle(c, in) THEN 0 ELSE @]
  ELSE IF c.current_run > in.settings.max_continuous_run /\ ~e.alarm
  THEN [e EXCEPT !.alarm = TRUE, !.forced_off = TRUE, !.timer = 0]
  ELSE e

Escalated(e, c, in) ==
  IF Release(e, in) THEN AfterForcedOff(e, in)
  ELSE IF e.forced_off THEN [e EXCEPT !.timer = @ + 1]
  ELSE Detect(e, c, in)

\* The release with a frozen evaporator asks for a defrost (defrost.manual_start).
AsksForDefrost(in) ==
  LET e == EscalationAfterReset(in)
  IN  Release(e, in) /\ e.count + 1 < in.settings.max_retries

-----------------------------------------------------------------------------
Init ==
  /\ comp = [prev_state |-> FALSE, current_run |-> 0, current_off |-> 0,
             last_run |-> 0, short_cycle_count |-> 0]
  /\ short_cycle = FALSE
  /\ esc = Released
  /\ keys = [compressor_blocked |-> FALSE, lockout |-> FALSE]
  /\ run_age = 0 /\ run_reset = FALSE
  /\ overruns = 0 /\ last_settings \in {in.settings : in \in Inputs}
  /\ block_age = 0

RunEnds(in)   == ~in.compressor /\ comp.prev_state
RunStarts(in) == in.compressor /\ ~comp.prev_state

\* What ends the count of overruns.
Afresh(in) ==
  \/ Resets(in) \/ in.settings # last_settings
  \/ /\ RunEnds(in) \/ Release(esc, in)
     /\ run_reset \/ run_age < in.settings.max_continuous_run

TrackHistory(in) ==
  /\ run_age' = IF RunStarts(in) THEN 1
                ELSE IF in.compressor THEN Capped(run_age + 1, TIMER_CAP) ELSE run_age
  /\ run_reset' = (Resets(in) \/ (run_reset /\ ~RunStarts(in)))
  /\ overruns' = IF Afresh(in) THEN 0
                 ELSE IF Release(esc, in) THEN Capped(overruns + 1, OVERRUN_CAP)
                 ELSE overruns
  /\ last_settings' = in.settings
  /\ block_age' = IF keys.compressor_blocked THEN Capped(block_age + 1, TIMER_CAP) ELSE 0

\* Equipment turned the compressor off when it read the keys (faultless relays).
Obeyed(in) == keys.compressor_blocked \/ keys.lockout => ~in.compressor

Update(in) ==
  LET c == Tracked(in)
      e == EscalationAfterReset(in)
  IN  /\ comp' = IF Release(e, in) THEN [c EXCEPT !.current_run = 0] ELSE c
      /\ short_cycle' = ShortCycleAlarm(c, in)
      /\ esc' = Escalated(e, c, in)
      /\ keys' = [compressor_blocked |-> esc'.forced_off, lockout |-> esc'.lockout]
      /\ TrackHistory(in)

Tick == \E in \in Inputs : Obeyed(in) /\ Update(in)

Spec     == Init /\ [][Tick]_vars
FairSpec == Spec /\ WF_vars(Tick)

-----------------------------------------------------------------------------
(* Properties.                                                             *)

\* Every variable has its type.
TypeOK ==
  /\ comp \in TrackerType
  /\ short_cycle \in BOOLEAN
  /\ esc \in EscalationType
  /\ keys \in [compressor_blocked : BOOLEAN, lockout : BOOLEAN]
  /\ run_age \in Timer /\ run_reset \in BOOLEAN
  /\ overruns \in 0..OVERRUN_CAP /\ last_settings \in {in.settings : in \in Inputs}
  /\ block_age \in Timer

\* Outside a defrost no run gets past max_continuous_run without being stopped,
\* unless the alarms were reset while it lasted, which restarts its clock.
OverlongRunIsStopped ==
  [][\A in \in Inputs :
       \/ ~in.compressor \/ in.defrost \/ ~Obeyed(in)
       \/ run_age' <= in.settings.max_continuous_run \/ run_reset'
       \/ keys'.compressor_blocked \/ keys'.lockout
       \/ ~Update(in)]_vars

\* A forced stop lasts its period, whatever defrosts begin and end meanwhile;
\* only the user shortens it.
ForcedStopLasts ==
  [][keys.compressor_blocked /\ ~keys'.compressor_blocked =>
       \A in \in Inputs : Update(in) =>
         Resets(in) \/ block_age + 1 >= in.settings.forced_off_period]_vars

\* A lockout leaves no forced stop or detection pending, and only the user ends it.
LockoutIsFinal ==
  [][keys.lockout => \/ keys' = [compressor_blocked |-> FALSE, lockout |-> TRUE]
                     \/ \E in \in Inputs : Resets(in) /\ Update(in)]_vars

\* max_retries forced stops with no shorter run, no reset and no change of the
\* settings between them lead to the lockout (docs/11_protection.md:73). A reset in
\* the run before the first of them counts as one between them.
RetriesLockOut == overruns >= last_settings.max_retries => esc.lockout

\* A compressor that runs whenever it may, and never long enough to cool, ends
\* in the lockout: the escalation cannot cycle for ever.
NeverSatisfied(in) ==
  /\ in.compressor <=> ~keys.compressor_blocked /\ ~keys.lockout
  /\ ~in.reset /\ ~in.defrost
LockoutReached ==
  <>[][\E in \in Inputs : NeverSatisfied(in) /\ Update(in)]_vars => <>[]keys.lockout

===============================================================================
