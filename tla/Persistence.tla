------------------------------ MODULE Persistence ------------------------------
(***************************************************************************)
(* How a setting gets from a client into flash and back after a restart:   *)
(* SharedState::set with its persist callback, PersistService (restore at  *)
(* boot, dirty flags, debounced flush), the motor hours ProtectionModule   *)
(* accumulates, and the handlers of HttpService that end in esp_restart.   *)
(*                                                                         *)
(* Three tasks interleave.  Main is the control loop; Httpd runs the       *)
(* handlers; Client is whichever other task sets a key for a client.  Only *)
(* the map is behind a mutex: the callback runs after its release, and the *)
(* flags, the timer and NVS are shared without one.                        *)
(***************************************************************************)
EXTENDS Integers, Sequences

CONSTANTS
  KEYS,           \* STATE_META entries with persist, in the order of the table
  MAX_VALUE,      \* bound: values of a key, 0 being its default
  DEBOUNCE,       \* DEBOUNCE_MS in passes of the loop: 500
  HOURS_PERIOD,   \* diagnostics passes between two publications: 720
  MAX_FAULTS,     \* bound: power cuts, NVS failures and mutex timeouts
  Flashes         \* what NVS may hold when the power first comes on

Keys == 1..KEYS
Hours == KEYS                  \* protection.compressor_hours
Settings == Keys \ {Hours}
Values == 0..MAX_VALUE
Default == 0
Absent == -1                   \* NVS has no such entry
Main == "main"
Httpd == "httpd"
Client == "client"
Tasks == {Main, Httpd, Client}
Flushers == {Main, Httpd}

Entries == [Keys -> Values \union {Absent}]

ASSUME PersistenceAssumption ==
  /\ KEYS \in Nat \ {0} /\ MAX_VALUE \in Nat
  /\ DEBOUNCE \in Nat \ {0} /\ HOURS_PERIOD \in Nat \ {0} /\ MAX_FAULTS \in Nat
  /\ Flashes \subseteq [nvs : Entries, legacy : Entries]

VARIABLES
  map,            \* SharedState::map_, its persisted keys
  dirty,          \* dirty_
  debounce_timer, \* debounce_timer_
  notifying,      \* key whose set has left the mutex, its callback not yet run
  at,             \* loop index of a task in flush_to_nvs, 0 outside
  held,           \* what that task does with the key: see HeldType
  nvs,            \* entries under the keys "s<hash>"
  legacy,         \* entries under the positional keys "p<n>"
  booting,        \* loop index of restore_from_nvs; KEYS + 1 once it is done,
                  \* KEYS + 2 once the other modules are up
  migrating,      \* step of a migration in progress
  main_at,        \* what the loop does next: "persist" or "protection"
  hours,          \* ProtectionModule::compressor_hours_
  hours_counter,  \* hours_persist_counter_
  stopped,        \* modules that stop_all has stopped
  request,        \* the handler that is on its way to esp_restart
  todo,           \* the steps it has left
  faults,         \* faults so far
  excused,        \* history: keys whose value NVS or a timeout lost, or whose
                  \* flushes overlapped
  since_flush     \* history: passes since the loop last flushed

ram == <<map, dirty, debounce_timer, notifying, at, held, main_at, hours,
         hours_counter, stopped>>
flash == <<nvs, legacy>>
boot == <<booting, migrating>>
handler == <<request, todo>>
histories == <<excused, since_flush>>
vars == <<ram, flash, boot, handler, faults, histories>>

Idle == [step |-> "idle", value |-> Default]
HeldType == [step : {"idle", "cleared", "read"}, value : Values]

StepNames == {"stop_protection", "stop_persist", "flush", "erase", "wait"}

\* What each handler does besides answering, in this order.
Stop == <<"stop_protection", "stop_persist">>

\* Mutant: /api/restart flushes before the modules have stopped.
StepsFlushFirst ==
  [restart |-> <<"flush">> \o Stop \o <<"wait">>,
   restore |-> <<"flush">> \o Stop \o <<"wait">>,
   ota     |-> Stop \o <<"wait">>,
   factory |-> <<"erase">> \o Stop \o <<"wait">>]

Steps ==
  [restart |-> Stop \o <<"flush", "wait">>,
   restore |-> <<"flush">> \o Stop \o <<"wait">>,
   ota     |-> Stop \o <<"wait">>,
   factory |-> <<"erase">> \o Stop \o <<"wait">>]
Requests == DOMAIN Steps

(***************************************************************************)
(* What a boot now would put in the map: the entry, else the entry an      *)
(* older firmware left under the key's position, else the default.         *)
(***************************************************************************)
Restored(k) ==
  IF nvs[k] # Absent THEN nvs[k] ELSE IF legacy[k] # Absent THEN legacy[k] ELSE Default

Running == booting = KEYS + 2
Fault == faults < MAX_FAULTS /\ faults' = faults + 1
Holds(t, k) == at[t] = k /\ held[t].step # "idle"

-----------------------------------------------------------------------------
\* SharedState::set: the map changes under the mutex; the callback is left for
\* a later step, and only a changed value gets one.
Set(t, k, v) ==
  /\ map' = [map EXCEPT ![k] = v]
  /\ notifying' = [notifying EXCEPT ![t] = IF map[k] = v THEN 0 ELSE k]

\* A client may write the hours too; the module reads them at boot only and
\* publishes over them, so that write is left out.
ClientSets(k, v) ==
  /\ Running /\ notifying[Client] = 0
  /\ Set(Client, k, v)
  /\ UNCHANGED <<dirty, debounce_timer, at, held, main_at, hours, hours_counter,
                 stopped, flash, boot, handler, faults, histories>>

\* Mutant: every change starts the debounce afresh (before BUG-025).
MarkDirtyDebounced(t) ==
  /\ notifying[t] # 0
  /\ dirty' = [dirty EXCEPT ![notifying[t]] = TRUE]
  /\ debounce_timer' = 0
  /\ notifying' = [notifying EXCEPT ![t] = 0]
  /\ UNCHANGED <<map, at, held, main_at, hours, hours_counter,
                 stopped, flash, boot, handler, faults, histories>>

\* PersistService::on_state_changed, in the task that called set.
MarkDirty(t) ==
  /\ notifying[t] # 0
  /\ dirty' = [dirty EXCEPT ![notifying[t]] = TRUE]
  /\ notifying' = [notifying EXCEPT ![t] = 0]
  /\ UNCHANGED <<map, debounce_timer, at, held, main_at, hours, hours_counter,
                 stopped, flash, boot, handler, faults, histories>>

-----------------------------------------------------------------------------
(***************************************************************************)
(* flush_to_nvs, by the loop or by a handler through flush_now.            *)
(***************************************************************************)
HasDirty == \E k \in Keys : dirty[k]

\* batch_open fails: nothing is written and the flags stay.
OpenFails == Fault /\ UNCHANGED <<at, excused>>

PersistUpdate ==
  /\ Running /\ main_at = "persist" /\ at[Main] = 0 /\ notifying[Main] = 0
  /\ \/ /\ "persist" \in stopped \/ ~HasDirty
        /\ main_at' = "protection"
        /\ UNCHANGED <<debounce_timer, at, faults, excused>>
     \/ /\ "persist" \notin stopped /\ HasDirty
        /\ debounce_timer + 1 < DEBOUNCE
        /\ debounce_timer' = debounce_timer + 1
        /\ main_at' = "protection"
        /\ UNCHANGED <<at, faults, excused>>
     \/ /\ "persist" \notin stopped /\ HasDirty
        /\ debounce_timer + 1 >= DEBOUNCE
        /\ \/ OpenFails /\ main_at' = "protection" /\ debounce_timer' = 0
           \/ /\ at' = [at EXCEPT ![Main] = 1]
              /\ debounce_timer' = debounce_timer + 1
              /\ UNCHANGED <<main_at, faults, excused>>
  /\ since_flush' = IF since_flush < DEBOUNCE THEN since_flush + 1 ELSE since_flush
  /\ UNCHANGED <<map, dirty, notifying, held, hours, hours_counter, stopped,
                 flash, boot, handler>>

Flushing(t) == at[t] \in Keys
NextKey(t) == at' = [at EXCEPT ![t] = @ + 1] /\ held' = [held EXCEPT ![t] = Idle]

InOtherHands(t, k) ==
  \/ \E u \in Flushers \ {t} : Holds(u, k)
  \/ t = Httpd /\ \E u \in Tasks \ {t} : notifying[u] = k

SkipClean(t) ==
  /\ Flushing(t) /\ held[t].step = "idle" /\ ~dirty[at[t]]
  /\ NextKey(t)
  /\ excused' = IF t = Httpd /\ InOtherHands(t, at[t])
                THEN excused \union {at[t]} ELSE excused
  /\ UNCHANGED <<map, dirty, debounce_timer, notifying, main_at, hours,
                 hours_counter, stopped, flash, boot, handler, faults, since_flush>>

ClearDirty(t) ==
  /\ Flushing(t) /\ held[t].step = "idle" /\ dirty[at[t]]
  /\ dirty' = [dirty EXCEPT ![at[t]] = FALSE]
  /\ held' = [held EXCEPT ![t].step = "cleared"]
  /\ excused' = IF InOtherHands(t, at[t])
                THEN excused \union {at[t]} ELSE excused \ {at[t]}
  /\ UNCHANGED <<map, debounce_timer, notifying, at, main_at, hours,
                 hours_counter, stopped, flash, boot, handler, faults, since_flush>>

\* SharedState::get, which gives up on the key when the mutex is not free.
ReadValue(t) ==
  /\ Flushing(t) /\ held[t].step = "cleared"
  /\ \/ /\ held' = [held EXCEPT ![t] = [step |-> "read", value |-> map[at[t]]]]
        /\ UNCHANGED <<at, faults, excused>>
     \/ /\ Fault /\ NextKey(t)
        /\ excused' = excused \union {at[t]}
  /\ UNCHANGED <<map, dirty, debounce_timer, notifying, main_at, hours,
                 hours_counter, stopped, flash, boot, handler, since_flush>>

\* Mutant: a successful write clears the flag (again).
WriteValueThenClear(t) ==
  /\ Flushing(t) /\ held[t].step = "read"
  /\ NextKey(t)
  /\ \/ /\ nvs' = [nvs EXCEPT ![at[t]] = held[t].value]
        /\ dirty' = [dirty EXCEPT ![at[t]] = FALSE]
        /\ UNCHANGED <<faults, excused>>
     \/ Fault /\ excused' = excused \union {at[t]} /\ UNCHANGED <<nvs, dirty>>
  /\ UNCHANGED <<map, debounce_timer, notifying, main_at, hours,
                 hours_counter, stopped, legacy, boot, handler, since_flush>>

\* nvs_set_*; a refused write is only logged.
WriteValue(t) ==
  /\ Flushing(t) /\ held[t].step = "read"
  /\ NextKey(t)
  /\ \/ /\ nvs' = [nvs EXCEPT ![at[t]] = held[t].value]
        /\ UNCHANGED <<faults, excused>>
     \/ Fault /\ excused' = excused \union {at[t]} /\ UNCHANGED nvs
  /\ UNCHANGED <<map, dirty, debounce_timer, notifying, main_at, hours,
                 hours_counter, stopped, legacy, boot, handler, since_flush>>

\* batch_close, and the callers' reset of the timer.
FlushDone(t) ==
  /\ at[t] = KEYS + 1
  /\ at' = [at EXCEPT ![t] = 0]
  /\ debounce_timer' = 0
  /\ IF t = Main
     THEN main_at' = "protection" /\ since_flush' = 0 /\ UNCHANGED todo
     ELSE todo' = Tail(todo) /\ UNCHANGED <<main_at, since_flush>>
  /\ UNCHANGED <<map, dirty, notifying, held, hours, hours_counter, stopped,
                 flash, boot, request, faults, excused>>

-----------------------------------------------------------------------------
(***************************************************************************)
(* The motor hours: accumulated in a field of ProtectionModule, published  *)
(* now and then, and once more by on_stop.                                 *)
(***************************************************************************)
\* One diagnostics pass, with the compressor running or not, ends the pass of
\* the loop.
ProtectionUpdate(compressor) ==
  /\ Running /\ main_at = "protection" /\ notifying[Main] = 0
  /\ main_at' = "persist"
  /\ IF "protection" \in stopped THEN UNCHANGED <<map, notifying, hours, hours_counter>>
     ELSE /\ compressor => hours < MAX_VALUE
          /\ hours' = IF compressor THEN hours + 1 ELSE hours
          /\ hours_counter' = IF hours_counter + 1 >= HOURS_PERIOD THEN 0
                              ELSE hours_counter + 1
          /\ IF hours_counter' = 0 THEN Set(Main, Hours, hours')
             ELSE UNCHANGED <<map, notifying>>
  /\ UNCHANGED <<dirty, debounce_timer, at, held, stopped, flash, boot, handler,
                 faults, histories>>

-----------------------------------------------------------------------------
(***************************************************************************)
(* The handlers of HttpService that end in esp_restart, one at a time.     *)
(***************************************************************************)
Accept(r) ==
  /\ Running /\ request = "none"
  /\ request' = r /\ todo' = Steps[r]
  /\ UNCHANGED <<ram, flash, boot, faults, histories>>

Doing(step) == todo # <<>> /\ Head(todo) = step /\ notifying[Httpd] = 0
StepDone == todo' = Tail(todo) /\ UNCHANGED request

\* stop_all reaches Protection, whose on_stop publishes the hours ...
StopProtection ==
  /\ Doing("stop_protection")
  /\ Set(Httpd, Hours, hours)
  /\ stopped' = stopped \union {"protection"}
  /\ StepDone
  /\ UNCHANGED <<dirty, debounce_timer, at, held, main_at, hours, hours_counter,
                 flash, boot, faults, histories>>

\* ... and later PersistService, whose on_update is never called again.
StopPersist ==
  /\ Doing("stop_persist")
  /\ stopped' = stopped \union {"persist"}
  /\ StepDone
  /\ UNCHANGED <<map, dirty, debounce_timer, notifying, at, held, main_at, hours,
                 hours_counter, flash, boot, faults, histories>>

FlushNow ==
  /\ Doing("flush") /\ at[Httpd] = 0
  /\ \/ /\ at' = [at EXCEPT ![Httpd] = 1]
        /\ UNCHANGED <<debounce_timer, todo, faults, excused>>
     \/ /\ Fault
        /\ excused' = Keys
        /\ debounce_timer' = 0 /\ todo' = Tail(todo)
        /\ UNCHANGED at
  /\ UNCHANGED <<map, dirty, notifying, held, main_at, hours, hours_counter,
                 stopped, flash, boot, request, since_flush>>

\* nvs_flash_erase also closes NVS: a flush under way can write no more, nor
\* can a later one open it.
EraseFlash ==
  /\ Doing("erase")
  /\ nvs' = [k \in Keys |-> Absent] /\ legacy' = [k \in Keys |-> Absent]
  /\ at' = [t \in Flushers |-> 0] /\ held' = [t \in Flushers |-> Idle]
  /\ main_at' = IF at[Main] # 0 THEN "protection" ELSE main_at
  /\ stopped' = stopped \union {"persist"}
  /\ excused' = Keys
  /\ StepDone
  /\ UNCHANGED <<map, dirty, debounce_timer, notifying, hours, hours_counter,
                 boot, faults, since_flush>>

-----------------------------------------------------------------------------
(***************************************************************************)
(* Boot: nothing in RAM survives, and PersistService::on_init restores one *)
(* key after the other before it registers its callback.                   *)
(***************************************************************************)
PowerUp ==
  /\ map' = [k \in Keys |-> Default] /\ dirty' = [k \in Keys |-> FALSE]
  /\ debounce_timer' = 0 /\ notifying' = [t \in Tasks |-> 0]
  /\ at' = [t \in Flushers |-> 0] /\ held' = [t \in Flushers |-> Idle]
  /\ main_at' = "persist" /\ hours' = 0 /\ hours_counter' = 0 /\ stopped' = {}
  /\ booting' = 1 /\ migrating' = "no"
  /\ request' = "none" /\ todo' = <<>>
  /\ excused' = {} /\ since_flush' = 0
  /\ UNCHANGED flash

PowerCut == Fault /\ PowerUp

\* The delay before esp_restart is longer than a flush of the loop takes.
EspRestart == Doing("wait") /\ at[Main] = 0 /\ PowerUp /\ UNCHANGED faults

RestoreKey ==
  /\ booting \in Keys /\ migrating = "no"
  /\ map' = [map EXCEPT ![booting] = Restored(booting)]
  /\ IF nvs[booting] = Absent /\ legacy[booting] # Absent
     THEN migrating' = "write" /\ UNCHANGED booting
     ELSE booting' = booting + 1 /\ UNCHANGED migrating
  /\ UNCHANGED <<dirty, debounce_timer, notifying, at, held, main_at, hours,
                 hours_counter, stopped, flash, handler, faults, histories>>

\* The result of either call on NVS is ignored.
MigrateWrite ==
  /\ migrating = "write"
  /\ migrating' = "erase"
  /\ \/ /\ nvs' = [nvs EXCEPT ![booting] = legacy[booting]]
        /\ UNCHANGED <<faults, excused>>
     \/ Fault /\ excused' = excused \union {booting} /\ UNCHANGED nvs
  /\ UNCHANGED <<ram, legacy, booting, handler, since_flush>>

MigrateErase ==
  /\ migrating = "erase"
  /\ migrating' = "no" /\ booting' = booting + 1
  /\ \/ legacy' = [legacy EXCEPT ![booting] = Absent] /\ UNCHANGED faults
     \/ Fault /\ UNCHANGED legacy
  /\ UNCHANGED <<ram, nvs, handler, histories>>

\* Mutant: the old entry is erased before the new one is written.
MigrateEraseFirst ==
  \/ /\ migrating = "write" /\ migrating' = "erase"
     /\ legacy' = [legacy EXCEPT ![booting] = Absent]
     /\ UNCHANGED <<ram, nvs, booting, handler, faults, histories>>
  \/ /\ migrating = "erase" /\ migrating' = "no" /\ booting' = booting + 1
     /\ nvs' = [nvs EXCEPT ![booting] = map[booting]]
     /\ UNCHANGED <<ram, legacy, handler, faults, histories>>

Migrate == MigrateWrite \/ MigrateErase

\* Protection's on_init, the only time it reads the key.
ReadHours ==
  /\ booting = KEYS + 1
  /\ booting' = booting + 1
  /\ hours' = map[Hours]
  /\ UNCHANGED <<map, dirty, debounce_timer, notifying, at, held, main_at,
                 hours_counter, stopped, flash, migrating, handler, faults, histories>>

-----------------------------------------------------------------------------
\* The state the power comes on in: NVS holds whatever earlier lives left.
Init ==
  /\ map = [k \in Keys |-> Default] /\ dirty = [k \in Keys |-> FALSE]
  /\ debounce_timer = 0 /\ notifying = [t \in Tasks |-> 0]
  /\ at = [t \in Flushers |-> 0] /\ held = [t \in Flushers |-> Idle]
  /\ main_at = "persist" /\ hours = 0 /\ hours_counter = 0 /\ stopped = {}
  /\ \E flash_state \in Flashes : nvs = flash_state.nvs /\ legacy = flash_state.legacy
  /\ booting = 1 /\ migrating = "no"
  /\ request = "none" /\ todo = <<>>
  /\ faults = 0 /\ excused = {} /\ since_flush = 0

FlushStep(t) ==
  SkipClean(t) \/ ClearDirty(t) \/ ReadValue(t) \/ WriteValue(t) \/ FlushDone(t)

MainStep ==
  \/ PersistUpdate \/ FlushStep(Main) \/ MarkDirty(Main)
  \/ \E compressor \in BOOLEAN : ProtectionUpdate(compressor)

HttpdStep ==
  \/ \E r \in Requests : Accept(r)
  \/ StopProtection \/ StopPersist \/ FlushNow \/ EraseFlash
  \/ FlushStep(Httpd) \/ MarkDirty(Httpd) \/ EspRestart

ClientStep == MarkDirty(Client) \/ \E k \in Settings, v \in Values : ClientSets(k, v)

BootStep == RestoreKey \/ Migrate \/ ReadHours

Next == MainStep \/ HttpdStep \/ ClientStep \/ BootStep \/ PowerCut

Spec == Init /\ [][Next]_vars

\* The loop runs every 10 ms, whatever the other tasks do.
FairSpec == Spec /\ WF_vars(MainStep)

-----------------------------------------------------------------------------
TypeOK ==
  /\ map \in [Keys -> Values] /\ dirty \in [Keys -> BOOLEAN]
  /\ debounce_timer \in 0..DEBOUNCE
  /\ notifying \in [Tasks -> Keys \union {0}]
  /\ at \in [Flushers -> 0..(KEYS + 1)] /\ held \in [Flushers -> HeldType]
  /\ nvs \in Entries /\ legacy \in Entries
  /\ booting \in 1..(KEYS + 2) /\ migrating \in {"no", "write", "erase"}
  /\ main_at \in {"persist", "protection"}
  /\ hours \in Values /\ hours_counter \in 0..(HOURS_PERIOD - 1)
  /\ stopped \subseteq {"protection", "persist"}
  /\ request \in Requests \union {"none"}
  /\ todo \in Seq(StepNames)
  /\ faults \in 0..MAX_FAULTS /\ excused \subseteq Keys /\ since_flush \in 0..DEBOUNCE

(***************************************************************************)
(* Every value of the map that a boot would not bring back is accounted    *)
(* for: its key is dirty, or a callback is about to make it so, or a flush *)
(* has it in hand - unless NVS or a mutex timeout refused it, or the loop  *)
(* and a handler flushed the key at the same time.                         *)
(***************************************************************************)
Accounted(k) ==
  \/ dirty[k]
  \/ \E t \in Tasks : notifying[t] = k
  \/ \E t \in Flushers : Holds(t, k)
  \/ k \in excused

NothingForgotten ==
  \A k \in Keys : booting > k /\ map[k] # Restored(k) => Accounted(k)

(***************************************************************************)
(* A boot, with the migration of old entries and the power cuts that fall  *)
(* into it, never changes what the next boot restores, unless NVS refused  *)
(* the new entry.                                                          *)
(***************************************************************************)
BootPreserves ==
  [][~Running => \A k \in Keys \ excused' : Restored(k)' = Restored(k)]_vars

\* Between two flushes of the loop pass at least DEBOUNCE of its passes: what
\* the wear of the flash depends on.
FlushesAreSpaced == [][at[Main] = 0 /\ at'[Main] # 0 => since_flush' = DEBOUNCE]_vars

\* A dirty key is written in the end, however often keys keep changing.
DirtyIsFlushed ==
  \A k \in Keys : dirty[k] ~> (~dirty[k] \/ "persist" \in stopped)

(***************************************************************************)
(* When one of the handlers rs is about to restart, a boot will bring back *)
(* the motor hours on_stop has published.                                  *)
(***************************************************************************)
HoursKeptBy(rs) ==
  request \in rs /\ todo = <<"wait">> /\ notifying[Httpd] = 0 =>
    Hours \in excused \/ Holds(Main, Hours) \/ Restored(Hours) = hours

\* POST /api/restart stops the modules, then flushes.
RestartKeepsHours == HoursKeptBy({"restart"})

=============================================================================
