------------------------------ MODULE DataLog ------------------------------
(***************************************************************************)
(* DataLoggerModule (modules/datalogger) and the backfill with which       *)
(* MqttService (modesp_mqtt) sends the cloud what it logged while there    *)
(* was no connection.                                                      *)
(*                                                                         *)
(* A stream (samples, events) is a buffer in RAM and two files: the        *)
(* current one, and the older one it becomes when it is too long. A cursor *)
(* says up to where a stream has been sent. Records are numbered in the    *)
(* order they are buffered; the two files and the buffer always hold       *)
(* consecutive numbers, so three boundaries and a length stand for them.   *)
(*                                                                         *)
(* The main loop logs, flushes and sends; the web server's task stops the  *)
(* modules before a restart, among them this one while the loop goes on,   *)
(* and MQTT later. What a task does in a call, and the other task or a     *)
(* power cut may interrupt, is its agenda: one operation on the buffer, a  *)
(* file, the cursor or an entry of NVS after the other.                    *)
(***************************************************************************)
EXTENDS Integers, Sequences, FiniteSets

CONSTANTS
  Streams,      \* in the order they are flushed and saved: <<"temp", "event">>
  BUFFER,       \* records a buffer holds: 16 and 32
  MAX_FILE,     \* records after which a file is rotated
  BATCH,        \* records in a backfill message: 10
  SAVE_EVERY,   \* advances of the cursor between two saves: 10
  MAX_RECORDS,  \* bounds of the model: records of each stream,
  MAX_CUTS,     \* power cuts, restarts and losses of the connection,
  MAX_FAULTS    \* and calls that fail

ASSUME DataLogAssumption ==
  /\ Streams \in Seq(STRING) /\ Streams # << >>
  /\ \A i, j \in DOMAIN Streams : Streams[i] = Streams[j] => i = j
  /\ {BUFFER, BATCH, SAVE_EVERY} \subseteq Nat \ {0}
  /\ {MAX_FILE, MAX_CUTS, MAX_FAULTS} \subseteq Nat
  /\ MAX_RECORDS \in [{Streams[i] : i \in DOMAIN Streams} -> Nat]

StreamSet == {Streams[i] : i \in DOMAIN Streams}

Tasks == {"loop", "web"}
Other(t) == IF t = "loop" THEN "web" ELSE "loop"

VARIABLES
  files,     \* of each stream: the first number in the older file, the first in the
             \* current one, and the first that is in neither
  buffered,  \* how many records are in temp_buf_ and event_buf_
  cursor,    \* temp_sync_file_ and _offset_, event_sync_file_ and _offset_
  nvs,       \* the saved cursors
  advances,  \* nvs_write_count_ modulo SAVE_EVERY
  agenda,    \* what each task is still to do in its call
  batch,     \* records in the message that is sent but does not count yet
  mqtt,      \* connected_, disconnect_flush_pending_, backfill_check_pending_,
             \* backfill_active_ and the streams that are done
  accepted,  \* history: the numbers whose message the MQTT client took
  unsaved,   \* history: a rotation, or a boot, has moved the cursor to another file and
             \* NVS does not have it
  torn,      \* history: the cursor has left the older file while the task was in the
             \* middle of saving or of counting in it
  skipped,   \* history: the numbers left behind by a boot at such a time, or by a message
             \* that counted in the wrong file
  clean,     \* history: no boot, and no race of the two tasks, has moved the cursor back
  cuts, faults

ram       == <<buffered, cursor, advances, agenda, batch, mqtt>>
histories == <<accepted, unsaved, torn, skipped, clean>>
bounds    == <<cuts, faults>>
vars == <<files, nvs, ram, histories, bounds>>

Fault == faults < MAX_FAULTS /\ faults' = faults + 1

OldLength(s)     == files[s].current - files[s].old
CurrentLength(s) == files[s].end - files[s].current

\* The file a cursor is in: an empty file does not exist.
LengthAt(s, c) == IF c.file = 0 THEN OldLength(s) ELSE CurrentLength(s)

\* The number of the record a cursor stands at.
Position(s, c) == (IF c.file = 0 THEN files[s].old ELSE files[s].current) + c.offset

Op(name, s) == [op |-> name, of |-> s]

\* Mutant: the file of a cursor is saved before its offset.
SaveFileFirst ==
  [i \in 1..2 * Len(Streams) |->
     Op(IF i % 2 = 1 THEN "save_file" ELSE "save_offset", Streams[(i + 1) \div 2])]

\* save_sync_pos: four entries, one after the other.
SaveSyncPos ==
  [i \in 1..2 * Len(Streams) |->
     Op(IF i % 2 = 1 THEN "save_offset" ELSE "save_file", Streams[(i + 1) \div 2])]

Idle(t)           == agenda[t] = << >>
Doing(t, name, s) == agenda[t] # << >> /\ Head(agenda[t]) = Op(name, s)

\* One operation is done, and may bring others that come before what is left.
Then(t, ops) == agenda' = [agenda EXCEPT ![t] = ops \o Tail(@)]

-----------------------------------------------------------------------------
(* Logging and flushing                                                    *)

\* The web server's task has stopped the data logger, the MQTT service.
LoggerStopped == agenda["web"] # << >> /\ Head(agenda["web"]).op \in {"stop_mqtt", "restart"}
MqttStopped   == agenda["web"] # << >> /\ Head(agenda["web"]).op = "restart"

\* A sample, or an event (on_init logs one as well); one that finds the buffer full is
\* lost.
Log(s) ==
  /\ Idle("loop") /\ ~LoggerStopped
  /\ buffered[s] < BUFFER /\ files[s].end + buffered[s] < MAX_RECORDS[s]
  /\ buffered' = [buffered EXCEPT ![s] = @ + 1]
  /\ UNCHANGED <<files, nvs, cursor, advances, agenda, batch, mqtt, histories, bounds>>

\* One stream after the other.
FlushToFlash == [i \in DOMAIN Streams |-> Op("append", Streams[i])]

\* on_update every ten minutes.
Flush ==
  /\ Idle("loop") /\ ~LoggerStopped
  /\ \E s \in StreamSet : buffered[s] > 0
  /\ agenda' = [agenda EXCEPT !["loop"] = FlushToFlash]
  /\ UNCHANGED <<files, nvs, buffered, cursor, advances, batch, mqtt, histories, bounds>>

\* rotate_if_needed: the older file is removed before the current one takes its name.
Rotation(s) ==
  IF CurrentLength(s) > MAX_FILE THEN <<Op("remove", s), Op("rename", s)>> ELSE << >>

\* The buffer is written, perhaps only part of it, or the file cannot be opened. An
\* empty buffer leaves its file alone.
AppendFile(t, s) ==
  /\ Doing(t, "append", s)
  /\ \/ buffered[s] = 0 /\ Then(t, << >>) /\ UNCHANGED <<files, faults>>
     \/ /\ buffered[s] > 0 /\ Then(t, <<Op("clear", s)>>)
        /\ \E n \in 0..buffered[s] :
             /\ files' = [files EXCEPT ![s].end = @ + n]
             /\ IF n = buffered[s] THEN UNCHANGED faults ELSE Fault
     \/ buffered[s] > 0 /\ Fault /\ Then(t, Rotation(s)) /\ UNCHANGED files
  /\ UNCHANGED <<nvs, buffered, cursor, advances, batch, mqtt, histories, cuts>>

\* The buffer is emptied, whatever could be written of it and was logged since.
Clear(t, s) ==
  /\ Doing(t, "clear", s)
  /\ buffered' = [buffered EXCEPT ![s] = 0]
  /\ Then(t, Rotation(s))
  /\ UNCHANGED <<files, nvs, cursor, advances, batch, mqtt, histories, bounds>>

RemoveOld(t, s) ==
  /\ Doing(t, "remove", s)
  /\ files' = [files EXCEPT ![s].old = files[s].current]
  /\ Then(t, << >>)
  /\ UNCHANGED <<nvs, buffered, cursor, advances, batch, mqtt, histories, bounds>>

\* The other task is between the two halves of a save, or between sending and counting.
Upset(t, s) ==
  torn' = [torn EXCEPT ![Other(t)] =
             @ \/ Doing(Other(t), "save_file", s) \/ Doing(Other(t), "advance", s)]

\* Mutant: a rotation does not move the cursor.
RotatedKept(c) == c

\* Where a rotation leaves the cursor: what was in the current file keeps its
\* offset; what was in the older file is gone.
Rotated(c) == [file |-> 0, offset |-> IF c.file = 0 THEN 0 ELSE c.offset]

\* There may be nothing to rename, if the other task has rotated as well.
RenameCurrent(t, s) ==
  /\ Doing(t, "rename", s)
  /\ files' = IF CurrentLength(s) = 0 THEN files
              ELSE [files EXCEPT ![s].old = files[s].current, ![s].current = files[s].end]
  /\ cursor' = [cursor EXCEPT ![s] = Rotated(@)]
  /\ unsaved' = [unsaved EXCEPT ![s] = TRUE]
  /\ IF cursor[s].file = 0 THEN Upset(t, s) ELSE UNCHANGED torn
  /\ clean' = (clean /\ CurrentLength(s) > 0)
  /\ Then(t, SaveSyncPos)
  /\ UNCHANGED <<nvs, buffered, advances, batch, mqtt, accepted, skipped, bounds>>

SaveOffset(t, s) ==
  /\ Doing(t, "save_offset", s)
  /\ nvs' = [nvs EXCEPT ![s].offset = cursor[s].offset]
  /\ Then(t, << >>)
  /\ UNCHANGED <<files, buffered, cursor, advances, batch, mqtt, histories, bounds>>

SaveFile(t, s) ==
  /\ Doing(t, "save_file", s)
  /\ nvs' = [nvs EXCEPT ![s].file = cursor[s].file]
  /\ unsaved' = [unsaved EXCEPT ![s] = torn[t]]
  /\ torn' = [torn EXCEPT ![t] = FALSE]
  /\ Then(t, << >>)
  /\ UNCHANGED <<files, buffered, cursor, advances, batch, mqtt, accepted, skipped, clean,
                 bounds>>

-----------------------------------------------------------------------------
(* The connection and the backfill                                         *)

\* The MQTT task, at any time.
Connected ==
  /\ ~mqtt.connected /\ ~MqttStopped
  /\ mqtt' = [mqtt EXCEPT !.connected = TRUE, !.check = TRUE]
  /\ UNCHANGED <<files, nvs, buffered, cursor, advances, agenda, batch, histories, bounds>>

Disconnected ==
  /\ mqtt.connected /\ cuts < MAX_CUTS /\ cuts' = cuts + 1
  /\ mqtt' = [mqtt EXCEPT !.connected = FALSE, !.active = FALSE, !.flush = TRUE]
  /\ UNCHANGED <<files, nvs, buffered, cursor, advances, agenda, batch, histories, faults>>

\* on_update of the service returns early without a connection, so the flush a lost
\* connection asks for waits for the next one.
DisconnectFlush ==
  /\ Idle("loop") /\ mqtt.connected /\ mqtt.flush
  /\ mqtt' = [mqtt EXCEPT !.flush = FALSE]
  /\ agenda' = [agenda EXCEPT !["loop"] = FlushToFlash]
  /\ UNCHANGED <<files, nvs, buffered, cursor, advances, batch, histories, bounds>>

\* get_unsync_temp_count and get_unsync_event_count.
Unsent(s) ==
  LET here == LengthAt(s, cursor[s]) - cursor[s].offset
  IN  (IF here > 0 THEN here ELSE 0) + (IF cursor[s].file = 0 THEN CurrentLength(s) ELSE 0)

BackfillCheck ==
  /\ Idle("loop") /\ mqtt.connected /\ ~mqtt.flush /\ mqtt.check
  /\ mqtt' = [mqtt EXCEPT !.check = FALSE,
                          !.active = @ \/ \E s \in StreamSet : Unsent(s) > 0,
                          !.done = IF \E s \in StreamSet : Unsent(s) > 0 THEN {} ELSE @]
  /\ UNCHANGED <<files, nvs, buffered, cursor, advances, agenda, batch, histories, bounds>>

\* One stream after the other.
Backfilling(s) ==
  /\ Idle("loop") /\ mqtt.connected /\ mqtt.active /\ ~mqtt.flush /\ ~mqtt.check
  /\ s \notin mqtt.done
  /\ \A i, j \in DOMAIN Streams : i < j /\ Streams[j] = s => Streams[i] \in mqtt.done

\* Mutant: a message is only counted once there is a whole batch.
CountWhole(s) ==
  LET left == LengthAt(s, cursor[s]) - cursor[s].offset
  IN  IF left < BATCH THEN 0 ELSE BATCH

\* How many records read_records_from_file returns: of the cursor's file only.
Count(s) ==
  LET left == LengthAt(s, cursor[s]) - cursor[s].offset
  IN  IF left < 0 THEN 0 ELSE IF left < BATCH THEN left ELSE BATCH

\* Mutant: at the end of a file the cursor starts over.
AdvancedRound(s, n) ==
  IF cursor[s].offset + n >= LengthAt(s, cursor[s])
  THEN [cursor[s] EXCEPT !.offset = 0] ELSE [cursor[s] EXCEPT !.offset = @ + n]

\* advance_temp_sync and advance_event_sync.
Advanced(s, n) ==
  LET offset == cursor[s].offset + n
  IN  IF cursor[s].file = 0 /\ offset >= LengthAt(s, cursor[s])
      THEN [file |-> 1, offset |-> 0]
      ELSE [cursor[s] EXCEPT !.offset = offset]

\* A message the MQTT client accepts. What it still holds when the power is cut,
\* or when the client is stopped, is lost with it: not modelled.
SendBatch(s) ==
  /\ Backfilling(s) /\ Count(s) > 0
  /\ accepted' = [accepted EXCEPT ![s] = @ \cup
                    Position(s, cursor[s])..(Position(s, cursor[s]) + Count(s) - 1)]
  /\ batch' = Count(s)
  /\ agenda' = [agenda EXCEPT !["loop"] = <<Op("advance", s)>>]
  /\ UNCHANGED <<files, nvs, buffered, cursor, advances, mqtt, unsaved, torn, skipped, clean,
                 bounds>>

\* on_stop is past the save of this stream.
Late(s) ==
  /\ agenda["web"] # << >>
  /\ \A i \in DOMAIN agenda["web"] : agenda["web"][i] # Op("save_offset", s)

\* The message counts, in the file where the cursor is by now.
Advance(s) ==
  LET c == Advanced(s, batch)
  IN  /\ Doing("loop", "advance", s)
      /\ cursor' = [cursor EXCEPT ![s] = c]
      /\ advances' = (advances + 1) % SAVE_EVERY
      /\ Then("loop", IF advances' = 0 THEN SaveSyncPos ELSE << >>)
      /\ torn' = [torn EXCEPT !["loop"] = FALSE,
                               !["web"] = @ \/ (/\ c.file # cursor[s].file
                                                /\ Doing("web", "save_file", s))]
      /\ skipped' = IF torn["loop"]
                    THEN [skipped EXCEPT ![s] = @ \cup files[s].old..(Position(s, c) - 1)]
                    ELSE skipped
      /\ clean' = (clean /\ ~torn["loop"] /\ ~Late(s))
      /\ UNCHANGED <<files, nvs, buffered, batch, mqtt, accepted, unsaved, bounds>>

\* The outbox is full, or there is no memory: the same records again next time.
SendRefused(s) ==
  /\ Backfilling(s) /\ Count(s) > 0 /\ Fault
  /\ UNCHANGED <<files, nvs, ram, histories, cuts>>

\* Nothing read, whether there is nothing or the file could not be opened. With the
\* last stream the backfill is over: the cursors are saved and the cloud is told.
StreamDone(s) ==
  /\ Backfilling(s)
  /\ IF Count(s) = 0 THEN UNCHANGED faults ELSE Fault
  /\ LET done == mqtt.done \cup {s}
     IN  /\ mqtt' = [mqtt EXCEPT !.done = done, !.active = done # StreamSet]
         /\ agenda' = IF done = StreamSet THEN [agenda EXCEPT !["loop"] = SaveSyncPos] ELSE agenda
  /\ UNCHANGED <<files, nvs, buffered, cursor, advances, batch, histories, cuts>>

-----------------------------------------------------------------------------
(* Shutdown and boot                                                       *)

\* load_sync_pos: a cursor beyond its file starts again with the oldest record.
Loaded(s) ==
  IF LengthAt(s, nvs[s]) = 0 \/ nvs[s].offset > LengthAt(s, nvs[s])
  THEN [file |-> IF OldLength(s) > 0 THEN 0 ELSE 1, offset |-> 0]
  ELSE nvs[s]

Offline == [connected |-> FALSE, flush |-> FALSE, check |-> FALSE, active |-> FALSE, done |-> {}]

\* What was in RAM is gone; files and NVS are as the last operations left them.
Boot ==
  /\ cursor' = [s \in StreamSet |-> Loaded(s)]
  /\ buffered' = [s \in StreamSet |-> 0]
  /\ advances' = 0 /\ agenda' = [t \in Tasks |-> << >>] /\ batch' = 0 /\ mqtt' = Offline
  /\ unsaved' = [s \in StreamSet |-> Loaded(s) # nvs[s]]
  /\ torn' = [t \in Tasks |-> FALSE]
  /\ skipped' = [s \in StreamSet |-> skipped[s] \cup
       IF unsaved[s] THEN files[s].old..(Position(s, Loaded(s)) - 1) ELSE {}]
  /\ UNCHANGED <<files, nvs, accepted, faults>>

\* The same for a restart nobody has stopped the modules for.
PowerCut ==
  /\ cuts < MAX_CUTS /\ cuts' = cuts + 1
  /\ Boot
  /\ clean' = FALSE

\* on_stop flushes and saves; much later the MQTT service is stopped, and then the unit
\* restarts.
StopAll ==
  FlushToFlash \o (SaveSyncPos \o <<Op("stop_mqtt", Streams[1]), Op("restart", Streams[1])>>)

\* A request to restart, in the web server's task, whatever the main loop is doing.
OnStop ==
  /\ Idle("web") /\ cuts < MAX_CUTS /\ cuts' = cuts + 1
  /\ agenda' = [agenda EXCEPT !["web"] = StopAll]
  /\ UNCHANGED <<files, nvs, buffered, cursor, advances, batch, mqtt, histories, faults>>

\* stop_client
StopMqtt ==
  /\ Doing("web", "stop_mqtt", Streams[1])
  /\ mqtt' = [mqtt EXCEPT !.connected = FALSE]
  /\ Then("web", << >>)
  /\ UNCHANGED <<files, nvs, buffered, cursor, advances, batch, histories, bounds>>

Restart ==
  /\ Doing("web", "restart", Streams[1])
  /\ Boot
  /\ clean' = /\ clean
              /\ \A s \in StreamSet : /\ ~Doing("loop", "advance", s)
                                      /\ Loaded(s) = nvs[s] /\ ~unsaved[s]
  /\ UNCHANGED cuts

-----------------------------------------------------------------------------

Init ==
  /\ files = [s \in StreamSet |-> [old |-> 0, current |-> 0, end |-> 0]]
  /\ nvs = [s \in StreamSet |-> [file |-> 1, offset |-> 0]]
  /\ cursor = nvs
  /\ buffered = [s \in StreamSet |-> 0]
  /\ advances = 0 /\ agenda = [t \in Tasks |-> << >>] /\ batch = 0 /\ mqtt = Offline
  /\ accepted = [s \in StreamSet |-> {}] /\ skipped = accepted
  /\ unsaved = [s \in StreamSet |-> FALSE] /\ torn = [t \in Tasks |-> FALSE]
  /\ clean = TRUE /\ cuts = 0 /\ faults = 0

OnFlash(t, s) ==
  \/ AppendFile(t, s) \/ Clear(t, s) \/ RemoveOld(t, s) \/ RenameCurrent(t, s)
  \/ SaveOffset(t, s) \/ SaveFile(t, s)

Backfill(s) == SendBatch(s) \/ SendRefused(s) \/ StreamDone(s)

Loop ==
  \/ Flush \/ DisconnectFlush \/ BackfillCheck
  \/ \E s \in StreamSet : OnFlash("loop", s) \/ Advance(s) \/ Backfill(s)

Shutdown == StopMqtt \/ Restart \/ \E s \in StreamSet : OnFlash("web", s)

Next ==
  \/ Loop \/ Shutdown
  \/ \E s \in StreamSet : Log(s)
  \/ Connected \/ Disconnected \/ PowerCut \/ OnStop

Spec == Init /\ [][Next]_vars

\* The main loop runs for ever, a shutdown comes to its end, and the broker is reached in
\* the end.
FairSpec ==
  /\ Spec /\ WF_vars(Loop) /\ WF_vars(Shutdown) /\ WF_vars(Connected)
  /\ \A s \in StreamSet : SF_vars(Backfill(s))
  /\ SF_vars(BackfillCheck)

-----------------------------------------------------------------------------
(* Properties                                                              *)

Cursors == [file : {0, 1}, offset : Nat]

Ops == [op : {"append", "clear", "remove", "rename", "save_offset", "save_file", "advance",
              "stop_mqtt", "restart"},
        of : StreamSet]

\* The types; the boundaries of a stream are in order.
TypeOK ==
  /\ files \in [StreamSet -> [old : Nat, current : Nat, end : Nat]]
  /\ \A s \in StreamSet : files[s].old <= files[s].current /\ files[s].current <= files[s].end
  /\ buffered \in [StreamSet -> 0..BUFFER]
  /\ cursor \in [StreamSet -> Cursors] /\ nvs \in [StreamSet -> Cursors]
  /\ advances \in 0..SAVE_EVERY - 1 /\ batch \in 0..BATCH
  /\ agenda \in [Tasks -> Seq(Ops)]
  /\ mqtt \in [connected : BOOLEAN, flush : BOOLEAN, check : BOOLEAN, active : BOOLEAN,
               done : SUBSET StreamSet]

\* The older file the cursor was in has been removed, and the cursor not moved yet.
Astray(s) == cursor[s].file = 0 /\ cursor[s].offset > OldLength(s)

\* A message that was sent and does not count yet, if it will in the file it was read from.
InFlight(s) == IF Doing("loop", "advance", s) /\ ~torn["loop"] THEN batch ELSE 0

\* The first record the backfill has not passed. The older file, read to its end or gone,
\* leads to the current one.
NextToSend(s) ==
  LET n == cursor[s].offset + InFlight(s)
  IN  IF cursor[s].file = 1 THEN files[s].current + n
      ELSE IF n < OldLength(s) THEN files[s].old + n ELSE files[s].current

\* Of each stream, what Delivery promises.
D(s) == INSTANCE Delivery WITH
  oldest <- files[s].old, end <- files[s].end, next <- NextToSend(s),
  sent <- accepted[s], lost <- skipped[s], orderly <- clean

\* The other task has rotated the file already.
NothingToRename(s) ==
  CurrentLength(s) = 0 /\ \E t \in Tasks : RenameCurrent(t, s)

\* Each stream is an outbox that delivers in order and at least once: a rotation drops
\* what was the older file and nothing else, only a message moves the stream on, only a
\* boot or two rotations at the same time move it back, and whatever else moves it on
\* says what is lost. A boot does not move it when the modules were stopped before,
\* nothing was sent or saved while they were, and the cursor is in a file that exists.
Delivers ==
  /\ \A s \in StreamSet : D(s)!DeliveryInit
  /\ [][\A s \in StreamSet :
          /\ [D(s)!DeliveryNext]_(D(s)!deliveryVars)
          /\ NextToSend(s)' < NextToSend(s) => Boot \/ NothingToRename(s)]_vars

OnFlashNumbers(s) == files[s].old..(files[s].end - 1)

\* Every record on the flash that the cursor has passed was taken by the MQTT client,
\* whatever was rotated, stopped, restarted, refused or cut off in between. The exceptions
\* are in skipped: a boot after a rotation, or after a boot that had to reset the cursor,
\* and before NVS has the moved cursor, or when the two tasks have saved half of it each;
\* and a message during which on_stop has rotated the file it was read from.
NothingSkipped ==
  \A s \in StreamSet : ~Astray(s) =>
    \A n \in OnFlashNumbers(s) :
       n < Position(s, cursor[s]) => n \in accepted[s] \cup skipped[s]

\* It follows that no record is sent twice, whatever was rotated meanwhile, however often the
\* connection was lost and the unit restarted in order. The exceptions are the ends of
\* clean: a power cut; a restart with a message that counted, or was about to, after
\* on_stop had saved the cursor, or with a cursor that was not saved, or that is in a newer
\* file which does not exist; two rotations at the same time.
SentOnce ==
  [][\A s \in StreamSet : clean /\ SendBatch(s) =>
       Position(s, cursor[s])..(Position(s, cursor[s]) + Count(s) - 1) \cap accepted[s] = {}]_vars

\* The cursor is at the end of the older file, where a rotation has left it because
\* all of that file was sent: nothing is read there, and the newer file not reached.
Parked(s) ==
  cursor[s].file = 0 /\ cursor[s].offset >= OldLength(s)

\* When a stream is declared done, all that is on the flash of it has been sent,
\* unless its file could not be read or the cursor is parked.
DoneMeansSent ==
  [][\A s \in StreamSet : StreamDone(s) /\ UNCHANGED faults =>
       Parked(s) \/ OnFlashNumbers(s) \subseteq accepted[s] \cup skipped[s]]_vars

\* A backfill comes to an end: the cloud is told, or the connection is lost.
BackfillEnds == mqtt.active ~> ~mqtt.active

=============================================================================
