# ModESP v4: a verification project

ModESP v4 is the firmware of a refrigeration controller on an ESP32: it reads the sensors of a cold
room, drives compressor, fans, defrost relay and light, raises alarms, keeps its settings in flash and
talks to the world over HTTP, WebSocket, MQTT and AWS IoT. This directory holds TLA+ modules of its
logic, the TLC configurations that check them on small instances, and TLAPS proofs of what matters
most. Paths below are relative to the repository's root; `X.cpp:n` is line n.

Contents: 1 the system, 2 the models, 3 the runs, 4 the proofs, 5 what the models found,
6 abstractions and limits, 7 the plan.

## 1. The system

### How it runs

`main/main.cpp` registers the modules, initialises them in the order of their priority and then runs
one loop at 100 Hz (`main.cpp:332-371`): update the drivers, call `on_update` of every running module
(`ModuleManager::update_all`), feed the hardware watchdog, sleep until the next 10 ms. Critical modules
come first in a pass (errors, watchdog, configuration, persistence, Equipment), then the high priorities
(WiFi, cloud, Protection), then Thermostat, Defrost and Lighting, last the system monitor and the data
logger.
The control modules never call each other. They share one map, `SharedState`, whose keys (`defrost.req.compressor`,
`equipment.air_temp`, `protection.lockout`, ...) are the whole protocol between them: whoever runs earlier
in the pass is read in the same pass, whoever runs later is read in the next one.

The web server, the MQTT client, the event handlers of WiFi and the OTA download run in tasks of their
own and write to the same map at any moment. Only the map has a mutex; flags, timers and NVS do not.

### Components

| component | state | operations | what makes it correct |
|---|---|---|---|
| Equipment (`modules/equipment`) | outputs, cached defrost type, anti-short-cycle timer, EMA filters | `on_update`: read sensors, read requests, arbitrate, drive relays, publish; safe mode; stop | minimum rest and run of the compressor; no heater beside a running compressor; keys show relays |
| Defrost (`modules/defrost`) | phase, its timer, interval timer, cached type, timeouts, two command flags | seven phases, four triggers, aborts, commands | requests follow the phase; the heater has a ceiling; every cycle ends; no back-to-back cycles |
| Thermostat (`modules/thermostat`) | state, timers, fan run-on, memory of defrost and lockout | regulation with differential and night setback, safety run, fans | a warm room is cooled, whatever interrupted it; rests between runs; fan beside the compressor |
| Protection (`modules/protection`) | alarm monitors, suppression after a defrost, cycle tracker, escalation, ring of starts, motor hours | ten monitors, forced stop, retries, lockout, reset, diagnostics | overlong runs are stopped, retries are counted, lockout stays; alarms come and go as documented |
| Lighting (`modules/lighting`) | override, linger | manual, door, schedule | light off after the linger |
| Data logger (`modules/datalogger`) | RAM buffers, two ring files, cursor of the backfill | sample, flush, rotate, serve | no record lost or sent twice, the files stay below their limits |
| SharedState, ModuleManager (`modesp_core`) | map, list of changed keys; states and order of modules | set, get, collect changes; init, update, stop, restart | a change reaches the broadcast and the persistence; a failed module does not stop the others |
| PersistService, nvs_helper (`modesp_services`) | dirty flags, debounce timer, NVS | restore and migrate, mark, flush, flush now | no changed value forgotten, no wear, a boot never loses what it found |
| Watchdog, error service, system monitor | heartbeats, restart counts, boot counters | restart a module, safe mode, measure | a stalled module is restarted a bounded number of times |
| OTA (`ota_handler`, `main.cpp`) | flag of a running download, partition states | download, verify, mark valid, roll back | a bad image is rolled back, a good one confirmed |
| WiFi, HTTP, WebSocket (`modesp_net`) | connection state, retries, clients, snapshots | connect, fall back to an access point; handlers; delta broadcast | reconnects for ever; a client's view converges |
| MQTT, AWS IoT (`modesp_mqtt`, `modesp_aws`) | connection, caches of published values, backfill cursor | publish changes, commands, backfill | the broker converges; commands are clamped |
| HAL and drivers (`modesp_hal`, `drivers`) | relay states, sensor health | write, read, count errors | a failed expander write is rolled back and reported |

### What is hard here

* Order within a pass: a decision of Defrost or Protection reaches the relays one pass later, and each
  module caches (the defrost type, the relay's state) what another may have changed since.
* Other tasks write settings and commands between any two updates, in the middle of a defrost too.
* Timers that must agree with something real (the relay) over failed I2C writes, safe mode, a restart by
  the watchdog and a power cycle.
* Long protocols: a forced stop, its retry, the lockout and the reset are hours apart, with defrosts in
  between.
* Liveness: a request that is dropped outside the state machine, a defrost whose sensor dies, a safety
  run, a debounce that never expires.
* Persistence: flags, values and flash are touched by three tasks without a common lock, and the power
  may go at any step.
* Counters at their limits: eight bits, thirty slots, a float that stops growing.

`PROJECT.json` lists each of these at its line, with the property that covers it or the reason why none does.

## 2. The models

Time is counted in calls of `on_update`: the main loop passes the same 10 ms each time, so that a
duration is a number of calls. Within the update of one module the model is atomic: it reads and writes
under the map's mutex key by key, and no property depends on a write of another task that falls between
two reads of the same update, except in Persistence, where the steps of the tasks are interleaved one
by one. What a call reads that another module wrote is the call's parameter. In `PROJECT.json`, "map"
leads from every definition to its lines.

* **Equipment** models `read_requests`, `apply_arbitration`, `apply_outputs`, `publish_state`, safe mode,
  `restart_module` and a power cycle. `relay` is what the drivers report; a write to a relay in
  `expander` may fail, the driver then keeps its old state (`pcf8574_relay_driver.cpp:46-73`). `equipment` are
  the published keys, `comp_actual` and `comp_since` the anti-short-cycle timer, `relay_age` a history
  variable that measures the relay independently.
* **Defrost** models `on_update` with every phase, trigger and abort. Settings are read anew by each call,
  so they are an input that may differ each time. `defrost` are the keys Equipment reads. The command
  flags are variables, raised by other tasks at any time. `relay_time` and `since_start` are history.
* **HeaterAlarm** is Defrost beside a history of how the last complete cycles ended (`outcomes`: warm, cold, by the timer),
  kept from what the cycles did and not from the counter the module keeps. It constrains no step. TLC checks its property
  without restarts of the module, the proof includes them (HeaterAlarmRestartSpec).
* **Thermostat** models `on_update`: pause in a defrost, lockout, state machine, both fans; and the drops of
  its requests by safe mode and by a restart.
* **CompressorProtection** models the compressor side of Protection: edges, short cycles, the escalation
  from detection to lockout, the reset. `Obeyed` ties its input to its output: Equipment runs first in
  a pass and lets no compressor run that was blocked in the pass before.
* **StartWindow** models the ring of start timestamps and the running time of the same tracker.
* **Alarms** models the monitors of Protection: delays, suppression in and after a defrost, doors, the
  condenser's block, pulldown, rate, the reset command, manual reset, the published summary. A temperature
  is what it is against its limits. `hot_for`, `since_defrost` and `calm` are history: for how long the
  room has been too warm without an excuse.
* **ControlLoop** composes Equipment and Defrost (it extends both; their definitions carry the module's name where
  two would clash: `EquipmentNext`, `DefrostNext`) into the pass of `update_all`: WatchdogService, Equipment's turn, then the business modules', with a user who writes
  `defrost.type` or starts a defrost between any two updates, and a reset of the unit at any point.
  Protection and Thermostat leave arbitrary keys. `Check` is the watchdog's check after a pass that took
  long: all modules carry the time their pass began, so that it finds them overdue together.
* **Persistence** models `SharedState::set` with its callback, `PersistService` whole, the motor hours of
  Protection and the four HTTP handlers that restart the unit. Three tasks interleave: the loop, the web
  server, any other client. `at` and `held` are where a task stands in `flush_to_nvs` and what it holds
  of the key: the flag is cleared, then the value read, then written, as in the code. `booting` and
  `migrating` do the same for `restore_from_nvs`. Power is cut, NVS refuses a write and a mutex times out
  at most `MAX_FAULTS` times in a run.
* **LiveView** models how a browser follows the map: the list of changed keys in SharedState with its
  overflow, `for_each_changed_and_clear`, the broadcast and the heartbeat of WsService in the main loop,
  the handshake, the queued frames and the closing of sessions in the web server's task. `view` is what a
  browser shows. `sender` and `server` are where the main loop and the web server's task stand and what they hold
  meanwhile. `missed` is history: the keys a failing call has kept from a client.
* **DataLog** models the data logger and the backfill of MqttService that reads its files: buffers, the current and
  the older file of a stream, rotation, the cursor in RAM and in NVS, and the recovery at boot. Two tasks are at work:
  the main loop logs, flushes and sends, and the web server's task, asked to restart the unit, stops the modules
  (`http_service.cpp:789`, `module_manager.cpp:112-116`) while the loop goes on: first the data logger, which flushes and saves, much
  later MQTT. What a task does in a call is its agenda of single operations (`append`, `clear`, `remove`, `rename`,
  `save_offset`, `save_file`, `advance`), which the other task interleaves with its own and a power failure cuts anywhere.
  A message is sent in one operation and counted in another. `accepted` is what the client took; `torn`, `unsaved`, `skipped` and
  `clean` say what has gone wrong with a cursor.
* **Delivery** is what DataLog promises of a stream, without files, cursors or NVS: an outbox that sends its
  records in order and each at least once, drops the oldest to make room, goes on where it was after an orderly restart, and
  says which records are lost to any other restart, or to two tasks in each other's way (`Displaced`).
  `Delivers` is the refinement: `D(s)` instantiates Delivery for stream s, with `NextToSend(s)`, the number the
  cursor stands at once the message in flight counts, for its `next`. While a rotation has removed the older file and not yet renamed the current
  one, a cursor in the older file stands nowhere; it maps to the current file's first record, where the rename will put it.
* **CloudLink** models MqttService and AwsIotService (a build has one): start, stop and restart of the
  client, its events, the change-driven publishing with its cache, key by key, the republishing of alarms,
  the shadow's report, commands that arrive in the client's task, configurations saved in the web server's. A key in
  `Untracked` is set with `track_change = false` and does not move the version (`shared_state.cpp:54-58`); the shadow's document
  carries all parameters of `Fits` and perhaps some others. `behind` and `report.behind` are the comparisons of the
  version with what the service noted last. `missed` is history: keys with a change that no comparison will show.
* **Wifi** models WiFiService: station, retries with backoff, access point, probes, the scan. The main
  loop, the event task and the web server's task share its flags; a check and the step it decides are two
  steps. `driver` is the IDF's driver as the code uses it: a mode, a station, a queue of events.

How they fit together: Equipment, Defrost and the watchdog meet in ControlLoop. Thermostat,
CompressorProtection, StartWindow and Alarms read what Equipment and Defrost publish as inputs that may take any
value at any call, so that what is shown of them holds in every composition. Persistence and LiveView are
two readers of the same map; CloudLink is a third; DataLog is what CloudLink sends after a time without
connection; Wifi decides whether there is one.

Operators named after a definition with a suffix (`AntiShortCycleStopOnly`, `StepsFlushFirst`, ...) are
that definition with a plausible bug in it, one for each checked property: with the bug in place, TLC
finds the property violated.

## 3. The runs

| run | states | shows |
|---|---|---|
| MCEquipment | 1,380 | every request the other modules really publish, safe mode at any tick, relays on pins, all on an expander, or the compressor on a pin beside one: rests and runs keep their lengths, a heater the module knows of excludes the compressor |
| MCDefrost | 71,160 | Defrost with HeaterAlarm, six sets of settings that may change at every call, dying sensors, commands, lockouts and blocks: the heater's ceiling, the distance of automatic cycles; every cycle ends; the heater alarm tells that the last three complete cycles ended cold, and stays |
| MCThermostat | 10,631 | both sides of every threshold, dead sensors, night, defrosts and lockouts at any call, two sets of settings: the fan's run-on, rests; a warm room is cooled again and again, a dead sensor leads to a cycling safety run |
| MCCompressorProtection | 9,830 | any runs, defrosts, resets and two sets of settings: overlong runs are stopped, retries lead to the lockout, and a compressor that never cools is locked out in the end |
| MCStartWindow | 1,860 | every pattern of runs and resets over an hour of five calls: no burst of starts is missed |
| MCControlLoop | 607,176 | Equipment, Defrost and the watchdog together, one restart of each module, any number of resets: while the type is left alone, heater and compressor exclude each other, and the relay of a defrost does not outlive it by more than a pass |
| MCPersistence | 431,633 | three tasks and one fault anywhere: nothing forgotten, boots preserve, dirty keys are written, a requested restart keeps the hours |
| MCAlarms | 37,183 | four boards, every sequence of readings, defrosts, dead sensors, resets and settings: a warm room has its alarm when it is due and not before; alarms latch |
| MCLiveView | 367,178 | two sockets for one place in the list, a key that does not fit a full broadcast, one failing call: a browser's view is current or on its way, it catches up, places are freed |
| MCDataLog | 167,850 | one stream, rotations in the middle of the backfill, of a save and of another rotation, one cut, orderly restart or lost connection, one failing call: no record on the flash is skipped, the stream is the outbox of Delivery, done means sent, the backfill ends |
| MCCloudLink | 250,846 | both builds, an alarm that is not tracked, a parameter that may not fit the shadow, two troubles (link, refused message, command, request) between any two steps: the client in use is the configured one, a disabled one stops, values, alarms and parameters reach the broker |
| MCWifi | 421,896 | three tasks on the same flags and five disturbances: flags and driver agree, the unit gets back to its network, or ends up with an access point |

**Why the bounds are enough.** No duration matters for its length, only for its order among the others and
for being reached exactly, just missed or passed. The instances keep those orders: a rest of three ticks
and a run of two with a timer that saturates at five; a defrost interval with a quarter of one tick and
of two; durations below, inside and above the clamp of `max_duration`; delays of zero; a suppression
longer than the alarm's delay and one equal to it. Temperatures take one value
on each side of every threshold and one inside each band. `COUNT_WRAP` is 6 instead of 256, so that the
eight-bit counter does wrap; `MAX_STARTS` is 3 instead of 30, with limits below it and equal to it. Where
keys are independent of one another two suffice, a setting and the hours, with two values each: a
violation of the accounting needs one key, two tasks at it and a third that changes it. The flashes are
a new controller, one an older firmware leaves behind and one whose migration was cut short. One fault
is enough for TLC in Persistence because the proofs hold for any number.

LiveView's list holds one changed key of two, so that it overflows, and one client of two, so that a
browser is refused; its queue holds two frames, fewer than the tasks may want to queue. DataLog's files rotate after one
record, its messages take two, its cursor is saved every second message: four samples rotate under a
running backfill with the cursor in either file, which needs two rotations, and the cut falls in a
rotation, in a save or in a shutdown, or between a message and its counting. Streams share only the agenda, the count of messages to the next save
and the restart. Larger instances hold as well but take longer: two streams (530,727 states), and two cuts for the safety
properties (1,159,192 states), which reach a cut in the recovery from another.
In CloudLink two troubles are a lost message and what hides it, and one change of a value meets every step of a scan and of a report;
with two changes (`MAX_WRITES = 2`, 1,347,368 states) everything holds as well. Wifi's five disturbances are
what the longest known interplay takes: the network goes, a scan begins, a probe is cancelled, its late
answer arrives, the unit restarts. The proofs of Wifi, CloudLink, DataLog and Alarms drop these bounds.

**Fairness.** In Defrost, Thermostat and CompressorProtection weak fairness of the loop's own step, in Persistence of
the loop (`WF_vars(MainStep)`): the loop has no blocking call but its sleep, and the hardware watchdog
resets a unit whose loop stalls for five seconds. LiveView, DataLog, CloudLink and Wifi have several tasks of
FreeRTOS, each of which runs as long as it has something to do: weak fairness of each, of a shutdown that has begun
(`WF_vars(Shutdown)`) too. In CloudLink nobody is obliged to change a value: that another change would show an earlier one is not assumed. Strong fairness is assumed of
steps that a timer of `on_update` triggers and that other steps of the same loop can put off for a call
(broadcast and heartbeat every 1.5 s and 20 s, the scan of the keys, the next backfill message): the timer
has run out and stays so, and the call that may not act is followed by one that may. Of the outside it is assumed that an MQTT client that tries
again and again reaches its broker (`OnConnected`, `Connected`), and that an attempt of the WiFi driver has a result;
nothing is assumed of users, browsers, commands or the network itself. Where a property needs the
environment to stay as it is, it says so in its premise (`<>[][...]_vars` in WarmRoomCools,
SafetyRunCycles and LockoutReached, `router` in BackOnline and FallsBack).

**Deadlock** is checked in every run but three. DataLog comes to rest when every record of the bound is
sent, Wifi when the network is settled and no trouble is left, CloudLink when nobody changes a value and everything is published.

**Mutants.** With each mutant operator in place of its original TLC finds its property violated; `PROJECT.json`
lists the pairs.

## 4. The proofs

TLAPS proves these for every value of the constants that meets the modules' assumptions.

| module | theorem | states |
|---|---|---|
| ControlLoopProofs | EquipmentTypeCorrect, DefrostTypeCorrect | types of Equipment and of Defrost, whatever they read, with restarts and power cycles |
| | TimerIsTrue | `EquipmentSpec => []TimerTracksRelay` |
| | MinOffHolds, MinOnHolds | `MinOffRespected` under EquipmentSpec, `MinOnRespected` even with power cycles (EquipmentRebootSpec) |
| | InterlockHolds | `KnownHeaterExcludesCompressor`, with restarts (EquipmentRestartSpec) |
| | RequestsHold, OrderHolds | `RequestsMatchPhase`, `CycleOrder` |
| | HeaterAlarmHolds | `HeaterAlarmTells`, for any inputs, commands, restarts and power cycles |
| | RestHolds | `RestBetweenCycles`, whatever settings and commands come in between |
| | CeilingHolds | `HeaterCeiling`, with restarts and power cycles |
| | NoRelayNoRequest | a unit without a defrost relay only runs natural defrosts |
| | LoopTypeCorrect | types of the composed loop |
| | HeaterExcludesCompressor | `KeptTypeExcludesCompressor`: heater and compressor in the composed loop, restarts, resets and lockouts included |
| | RelayHolds | `RelayOnlyInDefrost` |
| | LoopKeeps | what Equipment and Defrost keep alone, they keep in the loop |
| ThermostatProofs | TypeCorrect | types |
| | RequestMatches | `Spec => []RequestMatchesState` |
| | RegulationHolds, RunOnHolds | `RegulationRests`, `CondFanRunsOn`, with safe mode and restarts (DropSpec) |
| CompressorProtectionProofs | TypeCorrect | types |
| | OverlongHolds, RetriesHolds | `OverlongRunIsStopped`, `RetriesLockOut` |
| | ForcedStopHolds, LockoutHolds | `ForcedStopLasts`, `LockoutIsFinal` |
| AlarmsProofs | TypeCorrect | types |
| | InTimeHolds, WhenDueHolds | `HighTempInTime`, `HighTempWhenDue` |
| | LatchHolds | `AlarmsLatch`, for all monitors |
| | WindowTypeCorrect | types of StartWindow: no index leaves the ring buffer, no time the hour |
| | RapidStartsHold | `RapidStartsAlarm`, for every hour, ring buffer and limit below its size |
| PersistenceProofs | TypeCorrect | types, the bound of the debounce timer among them |
| | NothingIsForgotten | `NothingForgotten`, for any number of keys and faults |
| | BootHolds | `BootPreserves` |
| | FlushesSpaced | `FlushesAreSpaced` |
| | HoursSurviveRestart | `RestartKeepsHours`, against flushes, writes and faults of the other tasks |
| DataLogProofs | TypeCorrect | types and the order of a stream's boundaries |
| | NothingSkippedHolds | `NothingSkipped`, for any number of streams, cuts, restarts and failing calls |
| | SentOnceHolds | `SentOnce`: nothing is sent twice, until a race with the shutdown or a power cut ends `clean` |
| | DoneMeansSentHolds | `DoneMeansSent` |
| | Refinement | `Delivers`: every stream implements Delivery, with both tasks at work |
| CloudLinkProofs | TypeCorrect | types |
| | ConfigInUseHolds | `ConfigInUse`, for any number of keys, tenants and troubles |
| NetworkProofs | TypeCorrect | types of Wifi |
| | ApIsServedHolds, ConnectedIsUpHolds | `ApIsServed`, `ConnectedIsUp`, for any number of retries and disturbances |
| | ViewTypeCorrect | types of LiveView: the lists and the queue stay within their capacity |
| | OnTheWayHolds | `ChangesOnTheWay`, for any number of keys, sockets, clients, writes and failing calls |

*Assumptions.* Constants are natural numbers, positive where the code's are; the timers of Equipment and
the defrost clamp are ordered as the code's constants are; thresholds a saturated timer is compared with do
not exceed the saturation, nor delays the caps of history variables; the inputs have their types; in the loop a defrost relay is known to Defrost exactly if it is bound; the streams
of the data logger have different names. Nothing
bounds the number of inputs, settings, keys, streams or faults.

*Equipment.* `MinOffRespected` speaks of the relay, the code of `comp_since`. The inductive invariant is
TypeOK with `TimerTracksRelay`: `publish_state` compares the relay with `comp_actual`, the history
variable compares it with its own past, and the two agree as long as `comp_actual` is the relay. Given
that, a start can only come out of `AntiShortCycle`, whose guard is then the property. A power cycle breaks
`TimerTracksRelay` (the timer starts satisfied), and what survives it, `RunIsTimed`, is the half that
concerns a running compressor, which is what the length of a run needs.

*Defrost.* All theorems rest on one lemma, `UpdateMoves`: a call of `on_update` either enters a phase or
stays in it and lets its timer run, and in both cases the requests are known. `HeaterCeiling` needs
`HeaterIsTimed`: the time the relay has been requested is at most the phase timer, which the clamp of
`max_duration` bounds in every call, whatever the settings were in earlier ones.
`RestBetweenCycles` needs `TimerBehind`: the interval timer is never ahead of the time since the last cycle began.
`HeaterAlarmTells` needs `CountsCold`, which relates the module's counter and its alarm to the history of cycles.

*The loop.* `KeptTypeExcludesCompressor` relates what the two modules believe of each other, half a pass apart. Its invariant,
`LoopInv`, says what each knows at each turn: Equipment has seen the end of a cycle before Defrost starts another, or the
compressor rests (`EndSeen`); while an electric cycle requests its relay the compressor rests or Equipment has cached, or will
cache, the heater (`HeaterExpected`). What is proved of Equipment and of Defrost alone carries over, since every step
of the loop is a step of either (`LoopMoves`).

*Thermostat.* The timers follow the relay, the property the request. `Younger` says that neither timer has run
longer than the request has stood, and is inductive because every helper of the state machine either
keeps request and timers or zeroes both timers (`Follows`); what a regulated start has waited for is then
the guard of `Regulation`. `RequestInv` adds to `RequestMatchesState` that a pause has dropped the request, which
is what makes the way out of a lockout, through STARTUP, request it again. `RunOnInv` bounds the run-on's timer by
the age of the dropped request.

*CompressorProtection.* Four invariants. `Clock`: a run that saw no reset is as long as the tracker says.
`Published` and `Single`: the keys are what the escalation decided, and an alarm, a forced stop and a lockout
exclude each other as they should. `Blocked`: the escalation's timer is the age of the block. `Counted`: the
module's count is at least the history's, because the run before a stop that counts was measured in full and
is no normal one. That last step uses the property's proviso that no reset fell within the run, since the
tracker measures such a run from the reset; TLC found no violation without the proviso, but the proof has it.

*Alarms.* `Suppressed`: the module's flags and timer agree with the time since the defrost. `Counted`: without
an alarm, `pending_ms` counts exactly the calls that should count. With them the two halves, in time and
not before, are the two directions of the monitor's guard. `AlarmsLatch` needs no invariant: every monitor is
shown on its own not to fall.

*StartWindow.* `TotalInWindow`: the running time fits in the window. `StartsAreHeld`: the ring holds every start of the last
hour, unless it is full. One call makes every start one call older, so that the starts of the hour grow by at most the new one
(`OlderStarts`, an injection), and the count grows with them. As the window's clock stops at the hour, nothing in the ring is ever
too old (`WholeBufferCounts`): `count_starts_in_window` returns the number of entries, which is why no burst is missed, and also why
old starts keep counting (section 5).

*Persistence.* `NothingForgotten` is not inductive: a flush that writes an old value would forget the new one.
The strengthening is `HeldIsFresh` (a value read for a flush is the map's, or the key is pending again),
`BothExcused` (a key two tasks hold is excused), `Migration` (what a migration has in hand) and the
structure around them: an idle task holds no key, the web server flushes only as a step of a handler,
and while the unit boots nobody else runs. Steps are sorted first into the few kinds that matter
(`Classified`), so that each part of the invariant is argued once per kind. `FlushesAreSpaced` follows from `Spaced`,
by which the debounce never runs ahead of the passes since the last flush. `RestartKeepsHours` adds `Restart`: the handler
that restarts follows its plan (`RestartPlan`), nobody holds a key the plan has passed, and once Protection has
stopped the map has the hours and every flush since leaves them clean or pending (`HoursStopped`, `HoursSettled`).

*DataLog.* Nothing about a cursor is inductive while two tasks may be in the middle of something, so that the invariant
(`Inv`) first says what may stand on an agenda (`Ordered`): the two halves of a cursor are saved one after the other, a message that was sent
is all the loop has to do until it counts, a restart is the last of all. Then, stream by stream (`Tracked`): the cursor
is within its file and will be when the message in flight counts (`Placed`); everything before it was sent or is in `skipped` (`SentUpTo`);
the cursor in NVS is not ahead of it unless a move is unsaved (`SavedTrue`); nothing from it on was sent while `clean`
(`SentBefore`). `HalfSaved` and `WebSaved` say what NVS has while a task is between the two entries of a save and after `on_stop` has saved.
`torn` is what makes them true in the presence of the other task: a cursor that leaves the older file between the two halves of
the other's save, or between its sending and its counting. `SavedTrue` covers the file of one cursor with the offset of the next, which a cut between
the two entries leaves behind. The refinement is then one lemma per action: an append keeps
records, a removal drops them, a rename and a save are not seen, a message delivers when it is sent and not when it counts, a boot, a
second rotation and a torn count displace. The agenda is
unbounded in length and in streams; what a sequence operator returns is taken from the library's theorems.

*CloudLink.* `ConfigInUse` is inductive with the types: whoever changes the prefix is in the middle of a
handler that will ask for the restart (`task`, `httpd`), and whoever takes the request starts the client with
what is then configured.

*Wifi.* `ApIsServed` and `ConnectedIsUp` need `Roles` and `Told`: who of the three tasks may be in which step under
which flags, and that a station that is down has told so, in the queue of events or in the flags already. The
queue is unbounded in the proof.

*LiveView.* `ChangesOnTheWay` is inductive with three facts about the frames in the tasks' hands: one that is being sent says
what the map says or the key was noted since (`SenderCurrent`), which makes it safe to send a frame after a newer one;
the frame of a handshake is never ahead of the map (`ServerNotAhead`), so that a key it may set back is one that `Crossed` sees; and
an idle task holds nothing (`Held`). `Coming` chooses the last frame that carries a key. The invariant says instead that there
is such a frame (`Brings`), which an append and a removal at the head preserve for a queue of any length (`AppendLast`, `AppendOther`,
`TailBrings`) without an induction. A client whose session outlives its place in the list is not served again before the next handshake,
which starts with every key missed.

*Model-checked only.* Liveness (CycleEnds, WarmRoomCools, SafetyRunCycles, LockoutReached, DirtyIsFlushed,
BrowsersCatchUp, SlotsAreFreed, BackfillEnds, DisabledStops, TelemetryCatchesUp, AlarmsCatchUp, ShadowCatchesUp, BackOnline, FallsBack),
which is out of this prover's reach. Every invariant and action property of the runs is proved. No module declares a RECURSIVE
operator and no theorem needs an induction over data.

## 5. What the models found

Each of these can be reproduced with the run named in bold and the change in parentheses.

* **MCEquipment** (EquipmentRestartSpec in place of EquipmentSpec: `MinOffRespected` fails.) `on_stop` opens the relay without
  `publish_state` (`equipment_module.cpp:168`); the timer goes on as if the compressor ran, and after the watchdog's restart of
  the module the compressor starts again at once, while `docs/07_equipment.md:76` promises the rest always.
* **MCThermostat** (`WF_vars(Tick)` with DropSpec: `WarmRoomCools` fails.) Safe mode and `on_stop` drop the compressor request
  and leave the state at COOLING, which no later call requests again (`thermostat_module.cpp:540`): the room warms up under a
  thermostat that believes it cools.
* **MCStartWindow** (a property that counts the starts of the last WINDOW calls only.) The window's clock stops
  at an hour and so do the timestamps taken from it: after the first hour no start leaves the window until
  a reset, although `protection_module.h:12` calls it rolling.
* **MCControlLoop** (`KeptTypeExcludesCompressor` without `type_kept`.) `defrost.type` written between the start of a heater defrost
  and the next tick of Equipment (`equipment_module.cpp:291`) disarms the interlock for that cycle, while the minimum run holds the
  compressor on.
* **MCPersistence** (`HoursKeptBy({"ota"})` or `{"restore"}`.) The OTA upload stops the modules and restarts without a flush
  (`http_service.cpp:1157`); the motor hours that Protection's `on_stop` has just published (`protection_module.cpp:909`) are lost.
  `/api/restore` flushes before it stops.

Seen while reading and modelling; where a property has an exception for it, the property's comment says so:

* Equipment. A lockout switches the light off (`equipment_module.cpp:276`), although the comment at `:356`
  calls it independent. The interlock judges by `out_`: when the expander refuses to open the compressor
  relay, the heater relay closes beside it (`:366`). For that reason `KnownHeaterExcludesCompressor` speaks
  of boards whose two relays are on pins; the kc868a6 has them on one expander. After a power cut the timer starts satisfied
  (`equipment_module.h:144`).
* Defrost. A start command raised in the call of an abort survives it, since the abort returns before the
  flag is cleared (`defrost_module.cpp:242-274`). A start in IDLE under a lockout or a block begins a cycle, which
  the next call aborts, and the interval is used up. The type is validated against the relay only when a cycle starts
  (`:368`). The key `defrost.interval_timer` holds the remaining time and
  `on_init` reads it as the elapsed one (`:186`); `docs/05_cooling_defrost.md:309` says that it survives a reboot, which
  it does not. The hot-gas valve opens by the clock on a compressor that Equipment may still hold off
  (`:391`, docs/05:233). Timer mode resets the count of timeouts without clearing `heater_alarm`.
* Thermostat. The compressor is requested without regard to `min_off` after a lockout and on entry of the
  safety run (`thermostat_module.cpp:321-327`, `:342-343`); Equipment's own three minutes still hold.
* Protection, the compressor. A reset in the middle of a run makes that run count as short (`protection_module.cpp:758`). Retries are
  cleared by a run inside a defrost too (`:572`). `short_cycle_count` wraps at 256 (`:449`).
  A limit of thirty starts an hour equals the ring and never alarms (`:438`). The running time loses its duty
  one for one after the first hour (`:410`). A restart of the module clears its keys for a pass.
  The motor hours are a float that grows by 5/3600: above 16384 h each step is rounded up, above 32768 h it vanishes,
  while the key may go up to 999999.
* Protection, the alarms. The rate of change is never computed at 100 Hz, its time step is below the code's minimum
  (`:656`), so that its alarm cannot rise. On a board without an evaporator sensor the pulldown is judged by an evaporator
  at 0.0 (`equipment_module.cpp:89`), where the comment at `protection_module.cpp:586` and `docs/11_protection.md:78` fall back to the air. High temperatures are
  blocked while a defrost heats and suppressed afterwards; docs/11:134 has it for the whole cycle.
* Watchdog. `last_update_ms` of every module is the time its pass began (`module_manager.cpp:97-106`), so that a slow pass
  makes innocent modules overdue together with the slow one, which cannot be told apart, and only if the check,
  made once a second, falls in the pass right after. Behind a hardware watchdog of five seconds (`main.cpp:296-322`) only
  critical modules can be found overdue at all. A module whose restart fails goes to ERROR and is not tried again. No caller reports a
  FATAL error, so that the safe mode of `docs/03_services.md:28` is never entered.
* Persistence. When `flush_now` overtakes the loop inside `flush_to_nvs`, the older of two values may be
  written last with the flag clear: these keys are excused in `NothingForgotten`. A refused write is only
  logged, and in a migration the old entry is erased even so. `wifi_service.cpp:273` and the MQTT OTA
  (`ota_handler.cpp:336`) restart without a flush. `docs/03_services.md:124` has the write before the clearing of the flags.
* Live view. A full state serialised before a delta and queued after it leaves the browser with old values; a
  full broadcast of 154 keys does not fit in 4096 bytes and the rest is dropped with the list; a broadcast skipped for
  want of heap loses its changes. These keys are `missed`. A browser that is refused a place, or dropped from the list, keeps
  its session open, and the web page (`webui/src/lib/websocket.js`) does not notice. Frames for a closed session
  reach whoever gets its descriptor next.
* Data logger. When all of the current file was sent and it rotates, the cursor stays parked at the end of the older
  file and the new one waits. A power cut between a rotation and its save, or after a boot that reset the cursor, which does not save it, skips or
  repeats records; an orderly restart with nothing but a sent older file repeats it. `on_stop` runs in the web server's task beside the
  loop (`http_service.cpp:789`): a message that counts after the save is repeated after the restart; one during which `on_stop` rotates counts in the wrong file and
  skips records; two flushes at a time append the same buffer twice and may rotate twice, which moves the cursor back to the
  beginning; a rotation between the two entries of the other task's save leaves NVS with halves of two cursors. An interval of 30 s makes
  20 samples per flush for a buffer of 16. A short `fwrite` empties the buffer all the same. What a lost connection should
  flush is flushed after the reconnect. The download of the log reads files and buffer from the web server's task without a lock.
* Cloud. A connect forces a full publish by `last_version_` (`mqtt_service.cpp:348`) but keeps the cache, so that keys
  published into a dying link or under the former prefix are not sent again until they change; the cache is updated
  even if the publish failed (`:470`). An orderly stop suppresses the will, so that the former prefix goes on
  saying "online". The deferred reconnect of the comment at `:773` is not there. The AWS client is neither stopped nor
  restarted by a changed configuration, and starts in access-point mode too. A change that falls between a report and the clearing
  of its flag waits for the next one (`aws_iot_service.cpp:124`), and so does one behind a scan, which notes at its end the version of that moment. Published keys that are
  set with `track_change = false` (`protection_module.cpp:705-709`, `thermostat_module.cpp:519-520`, `defrost_module.cpp:520`, `:525`) wait
  for the change of a tracked one. The shadow's document takes no more keys once 2016 of its 2048 bytes are used
  (`aws_iot_service.cpp:482`): with the defaults of the manifests it ends after 2023 bytes, so that `datalogger.log_setpoint` and `datalogger.log_humidity`
  are never reported. `ShadowCatchesUp` speaks of the parameters that fit.
* WiFi. `wifi.connected` can stay true in access-point mode; the late answer to a cancelled probe empties `wifi.ip` under a
  running access point. Saving credentials answers "Restart to connect" (`http_service.cpp:616`), but probes begin by themselves within
  30 s. A scan that ends after a probe has succeeded brings the access point back until the retries run out. `request_reconnect` has no caller.
  The station's watchdog restarts the unit without a flush (`wifi_service.cpp:273`), where `docs/FEATURES.md:135` has a restart of the subsystem.

## 6. Abstractions and limits

* Sensors are inputs: filtering, EMA and the drivers' health counters are not modelled. A dead sensor is
  a flag; its temperature is then never looked at, as NaN compares false in the code.
* Requests over HTTP and MQTT are clamped to the range of their key (`http_service.cpp:524-542`,
  `mqtt_service.cpp:840-873`), so settings are in range; parsing and authentication are input and output.
* NVS: `nvs_set_*` takes effect when it returns, the commit at the end of a batch is not a step of its own,
  which makes flushes easier to cut and nothing easier to keep. An erased NVS is closed. Reads do not
  fail. The 500 ms before a restart outlast a flush of the loop that has begun. Clients do not write
  the motor hours. Float, integer and Boolean keys take the same path and are not told apart.
* LiveView: a value is the number of its write; the size of a frame is the set of keys that fit. DataLog: records are
  numbers, files are intervals of them. CloudLink: a value is one bit, a tenant stands for its prefix, will and
  subscription; which parameters fit the document is a choice of each report. The libraries (NVS, files, the MQTT client, the WiFi driver, the web server's queue) are modelled as
  the code in `src` uses them.
* DataLog: reading a batch and sending it, one operation on a file with the boundaries it changes, a rename with the move of the cursor right after it, and
  one entry of NVS are single steps. Two tasks that change a buffer's vector in the same instant can do worse than
  append it twice; that is not modelled. What the MQTT client still holds when it is stopped or the power goes is lost with it.
* Persistence: Protection's `on_stop` and the mark that it has stopped (`module_manager.cpp:116-117`), a few instructions apart, are one step.
* CloudLink: a document whose closing braces do not fit, which takes a particular length, is not modelled.
* Restarts of PersistService itself by the watchdog, and of Protection, are not modelled.

**Not modelled.** Lighting (a timer and a few inputs that decide about one relay nothing depends on). OTA: the image's download, marking
and rollback are the IDF's; the handler checks and reports. Of HttpService the handlers that read and format; of WiFiService
mDNS, signal strength and the skipping of probes for want of heap; of the MQTT service credentials set by command, commands for OTA
and AWS jobs, Home Assistant's discovery, the heartbeat; of the data logger the download and the summary. The message bus and the sorting of
modules. ConfigService, which only reads files at boot. Drivers below the level of a write that succeeds or fails. Logger,
JSON, the web UI and the generators, which format. `PROJECT.json` has the reason with each component.

## 7. The plan

Modelled is who may switch the compressor and the heater, when, and what survives a restart; how alarms come
and go; how values reach flash, browsers, files and the cloud; how the unit gets on the network. What is left, in order of
what it would add:

1. Protection and Thermostat as modules of ControlLoop in place of arbitrary keys, with an abstract compressor guard
   (rest, run, exclusion) that the loop implements.
2. The download of the log against flush and rotation; the restart of PersistService.
3. OTA: boot validation against resets in the first minute.
