---------------------------- MODULE PersistenceProofs ----------------------------
(***************************************************************************)
(* Proofs about Persistence, for every number of keys and values, every    *)
(* debounce and every pattern of failures.                                 *)
(***************************************************************************)
EXTENDS Persistence, SequenceTheorems, TLAPS

\* A task outside the loop of flush_to_nvs holds no key.
HandsEmpty == \A t \in Flushers : at[t] \notin Keys => held[t] = Idle

\* The timer can only have run out inside a flush, or for good.
TimerInFlush == debounce_timer < DEBOUNCE \/ at[Main] # 0 \/ "persist" \in stopped

\* While the unit boots no task touches a key.
BootAlone ==
  booting # KEYS + 2 =>
    /\ todo = <<>>
    /\ \A t \in Tasks : notifying[t] = 0
    /\ \A t \in Flushers : at[t] = 0

\* Httpd flushes as the step of a handler.
HandlerFlushes ==
  /\ todo # <<>> => request # "none"
  /\ at[Httpd] # 0 => todo # <<>> /\ Head(todo) = "flush"

\* What a migration has in hand.
MigratesKey == migrating # "no" => booting \in Keys
Migration ==
  /\ migrating = "write" =>
       nvs[booting] = Absent /\ legacy[booting] # Absent /\ map[booting] = legacy[booting]
  /\ migrating = "erase" => nvs[booting] = map[booting] \/ booting \in excused

\* A key that both tasks hold is excused.
BothExcused == \A k \in Keys : Holds(Main, k) /\ Holds(Httpd, k) => k \in excused

\* A value read for a flush is the map's, or its key will be flushed again.
Pending(k) == dirty[k] \/ (\E t \in Tasks : notifying[t] = k) \/ k \in excused
HeldIsFresh ==
  \A t \in Flushers, k \in Keys : at[t] = k /\ held[t].step = "read" =>
    held[t].value = map[k] \/ Pending(k)

Structure ==
  TypeOK /\ HandsEmpty /\ TimerInFlush /\ HandlerFlushes /\ BootAlone /\ MigratesKey /\ Migration
IInv == Structure /\ BothExcused /\ HeldIsFresh /\ NothingForgotten
-----------------------------------------------------------------------------
(* Types.                                                                    *)

\* What the assumption says of the sets built from the constants.
LEMMA Constants ==
  /\ KEYS \in Nat \ {0} /\ MAX_VALUE \in Nat
  /\ DEBOUNCE \in Nat \ {0} /\ HOURS_PERIOD \in Nat \ {0} /\ MAX_FAULTS \in Nat
  /\ Hours \in Keys /\ Settings \subseteq Keys /\ 0 \notin Keys
  /\ Default \in Values /\ Absent \notin Values
BY PersistenceAssumption DEF Hours, Keys, Settings, Default, Values, Absent

\* What a flush may hold is of its type.
LEMMA HeldRecords ==
  Idle \in HeldType /\ \A v \in Values : [step |-> "read", value |-> v] \in HeldType
BY Constants DEF Idle, HeldType

\* The four handlers.
LEMMA RequestsAre == Requests = {"restart", "restore", "ota", "factory"}
BY DEF Requests, Steps

\* Every handler's steps are steps.
LEMMA StepsType == ASSUME NEW r \in Requests PROVE Steps[r] \in Seq(StepNames)
<1>1. Stop \in Seq(StepNames) /\ <<"flush", "wait">> \in Seq(StepNames)
  BY DEF Stop, StepNames
<1>2. /\ <<"flush">> \in Seq(StepNames) /\ <<"wait">> \in Seq(StepNames)
      /\ <<"erase">> \in Seq(StepNames)
  BY DEF StepNames
<1>3. Requests = {"restart", "restore", "ota", "factory"}
  BY RequestsAre
<1>4. ASSUME NEW a \in Seq(StepNames), NEW b \in Seq(StepNames) PROVE a \o b \in Seq(StepNames)
  OBVIOUS
<1>5. CASE r = "restart"
  BY <1>1, <1>4, <1>5 DEF Steps
<1>6. CASE r = "restore"
  BY <1>1, <1>2, <1>4, <1>6 DEF Steps
<1>7. CASE r = "ota"
  BY <1>1, <1>2, <1>4, <1>7 DEF Steps
<1>8. CASE r = "factory"
  BY <1>1, <1>2, <1>4, <1>8 DEF Steps
<1> QED
  BY <1>3, <1>5, <1>6, <1>7, <1>8

\* Every step keeps the types.
LEMMA TypeStep == TypeOK /\ TimerInFlush /\ HandlerFlushes /\ MigratesKey /\ [Next]_vars => TypeOK'
<1> SUFFICES ASSUME TypeOK, TimerInFlush, HandlerFlushes, MigratesKey, [Next]_vars PROVE TypeOK'
  OBVIOUS
<1> USE Constants
<1>1. ASSUME PersistUpdate PROVE TypeOK'
  <2>1. main_at' \in {"persist", "protection"}
    BY <1>1 DEF TypeOK, PersistUpdate
  <2>2. debounce_timer' \in 0..DEBOUNCE
    BY <1>1 DEF TypeOK, PersistUpdate, OpenFails, TimerInFlush
  <2>3. at' \in [Flushers -> 0..(KEYS + 1)]
    BY <1>1 DEF TypeOK, PersistUpdate, NextKey, Flushing, Keys, Flushers, Main, Httpd, OpenFails
  <2>4. faults' \in 0..MAX_FAULTS
    BY <1>1 DEF TypeOK, PersistUpdate, Fault, OpenFails
  <2>5. excused' \in SUBSET Keys
    BY <1>1 DEF TypeOK, PersistUpdate, NextKey, Flushing, OpenFails
  <2>6. since_flush' \in 0..DEBOUNCE
    BY <1>1 DEF TypeOK, PersistUpdate
  <2> QED
    BY <1>1, <2>1, <2>2, <2>3, <2>4, <2>5, <2>6 DEF TypeOK, PersistUpdate, vars, ram, flash,
       boot, handler, histories
<1>2. ASSUME NEW t \in Flushers, SkipClean(t) PROVE TypeOK'
  <2>1. at' \in [Flushers -> 0..(KEYS + 1)]
    BY <1>2 DEF TypeOK, SkipClean, NextKey, Flushing, Keys, Flushers, Main, Httpd
  <2>2. held' \in [Flushers -> HeldType]
    BY <1>2, HeldRecords DEF TypeOK, SkipClean, NextKey, Flushing
  <2>3. excused' \in SUBSET Keys
    BY <1>2 DEF TypeOK, SkipClean, NextKey, Flushing
  <2> QED
    BY <1>2, <2>1, <2>2, <2>3 DEF TypeOK, SkipClean, vars, ram, flash, boot, handler, histories
<1>3. ASSUME NEW t \in Flushers, ClearDirty(t) PROVE TypeOK'
  <2>1. dirty' \in [Keys -> BOOLEAN]
    BY <1>3 DEF TypeOK, ClearDirty, Flushing
  <2>2. held' \in [Flushers -> HeldType]
    BY <1>3 DEF TypeOK, ClearDirty, NextKey, Flushing, HeldType, Idle
  <2>3. excused' \in SUBSET Keys
    BY <1>3 DEF TypeOK, ClearDirty, NextKey, Flushing
  <2> QED
    BY <1>3, <2>1, <2>2, <2>3 DEF TypeOK, ClearDirty, vars, ram, flash, boot, handler, histories
<1>4. ASSUME NEW t \in Flushers, ReadValue(t) PROVE TypeOK'
  <2>1. at' \in [Flushers -> 0..(KEYS + 1)]
    BY <1>4 DEF TypeOK, ReadValue, NextKey, Flushing, Keys, Flushers, Main, Httpd
  <2>2. held' \in [Flushers -> HeldType]
    <3>1. map[at[t]] \in Values
      BY <1>4 DEF TypeOK, ReadValue, Flushing
    <3>2. \/ held' = [held EXCEPT ![t] = [step |-> "read", value |-> map[at[t]]]]
          \/ held' = [held EXCEPT ![t] = Idle]
      BY <1>4 DEF ReadValue, NextKey
    <3> QED
      BY <3>1, <3>2, HeldRecords DEF TypeOK
  <2>3. faults' \in 0..MAX_FAULTS
    BY <1>4 DEF TypeOK, ReadValue, Fault
  <2>4. excused' \in SUBSET Keys
    BY <1>4 DEF TypeOK, ReadValue, NextKey, Flushing
  <2> QED
    BY <1>4, <2>1, <2>2, <2>3, <2>4 DEF TypeOK, ReadValue, vars, ram, flash, boot, handler,
       histories
<1>5. ASSUME NEW t \in Flushers, WriteValue(t) PROVE TypeOK'
  <2>1. at' \in [Flushers -> 0..(KEYS + 1)]
    BY <1>5 DEF TypeOK, WriteValue, NextKey, Flushing, Keys, Flushers, Main, Httpd
  <2>2. held' \in [Flushers -> HeldType]
    BY <1>5, HeldRecords DEF TypeOK, WriteValue, NextKey, Flushing
  <2>3. nvs' \in Entries
    BY <1>5 DEF TypeOK, WriteValue, Flushing, Entries, Keys, HeldType
  <2>4. faults' \in 0..MAX_FAULTS
    BY <1>5 DEF TypeOK, WriteValue, Fault
  <2>5. excused' \in SUBSET Keys
    BY <1>5 DEF TypeOK, WriteValue, NextKey, Flushing
  <2> QED
    BY <1>5, <2>1, <2>2, <2>3, <2>4, <2>5 DEF TypeOK, WriteValue, vars, ram, flash, boot,
       handler, histories
<1>6. ASSUME NEW t \in Flushers, FlushDone(t) PROVE TypeOK'
  <2>1. at' \in [Flushers -> 0..(KEYS + 1)]
    BY <1>6 DEF TypeOK, FlushDone, NextKey, Flushing, Keys, Flushers, Main, Httpd
  <2>2. debounce_timer' \in 0..DEBOUNCE
    BY <1>6 DEF TypeOK, FlushDone
  <2>3. main_at' \in {"persist", "protection"}
    BY <1>6 DEF TypeOK, FlushDone
  <2>4. since_flush' \in 0..DEBOUNCE
    BY <1>6 DEF TypeOK, FlushDone
  <2>5. todo' \in Seq(StepNames)
    BY <1>6 DEF TypeOK, FlushDone, StepDone, Doing, HandlerFlushes, Flushers
  <2> QED
    BY <1>6, <2>1, <2>2, <2>3, <2>4, <2>5 DEF TypeOK, FlushDone, vars, ram, flash, boot,
       handler, histories
<1>7. ASSUME NEW t \in Tasks, MarkDirty(t) PROVE TypeOK'
  <2>1. dirty' \in [Keys -> BOOLEAN]
    BY <1>7 DEF TypeOK, MarkDirty, Flushing
  <2>2. notifying' \in [Tasks -> Keys \union {0}]
    BY <1>7 DEF TypeOK, MarkDirty, Set
  <2> QED
    BY <1>7, <2>1, <2>2 DEF TypeOK, MarkDirty, vars, ram, flash, boot, handler, histories
<1>8. ASSUME NEW compressor \in BOOLEAN, ProtectionUpdate(compressor) PROVE TypeOK'
  <2>1. main_at' \in {"persist", "protection"}
    BY <1>8 DEF TypeOK, ProtectionUpdate
  <2>2. hours' \in Values
    BY <1>8 DEF TypeOK, ProtectionUpdate, Values
  <2>3. hours_counter' \in 0..(HOURS_PERIOD - 1)
    BY <1>8 DEF TypeOK, ProtectionUpdate
  <2>4. map' \in [Keys -> Values]
    BY <1>8, <2>2 DEF TypeOK, ProtectionUpdate, Set
  <2>5. notifying' \in [Tasks -> Keys \union {0}]
    BY <1>8, <2>2 DEF TypeOK, ProtectionUpdate, Set
  <2> QED
    BY <1>8, <2>1, <2>2, <2>3, <2>4, <2>5 DEF TypeOK, ProtectionUpdate, vars, ram, flash, boot,
       handler, histories
<1>9. ASSUME NEW r \in Requests, Accept(r) PROVE TypeOK'
  <2>1. request' \in Requests \union {"none"}
    BY <1>9 DEF TypeOK, Accept
  <2>2. todo' \in Seq(StepNames)
    BY <1>9, StepsType DEF TypeOK, Accept, StepDone, Doing
  <2> QED
    BY <1>9, <2>1, <2>2 DEF TypeOK, Accept, vars, ram, flash, boot, handler, histories
<1>10. ASSUME StopProtection PROVE TypeOK'
  <2>1. map' \in [Keys -> Values]
    BY <1>10 DEF TypeOK, StopProtection, Set
  <2>2. notifying' \in [Tasks -> Keys \union {0}]
    BY <1>10 DEF TypeOK, StopProtection, Set
  <2>3. stopped' \in SUBSET {"protection", "persist"}
    BY <1>10 DEF TypeOK, StopProtection
  <2>4. todo' \in Seq(StepNames)
    BY <1>10 DEF TypeOK, StopProtection, StepDone, Doing
  <2> QED
    BY <1>10, <2>1, <2>2, <2>3, <2>4 DEF TypeOK, StopProtection, vars, ram, flash, boot,
       handler, histories, StepDone
<1>11. ASSUME StopPersist PROVE TypeOK'
  <2>1. stopped' \in SUBSET {"protection", "persist"}
    BY <1>11 DEF TypeOK, StopPersist
  <2>2. todo' \in Seq(StepNames)
    BY <1>11 DEF TypeOK, StopPersist, StepDone, Doing
  <2> QED
    BY <1>11, <2>1, <2>2 DEF TypeOK, StopPersist, vars, ram, flash, boot, handler, histories,
       StepDone
<1>12. ASSUME FlushNow PROVE TypeOK'
  <2>1. at' \in [Flushers -> 0..(KEYS + 1)]
    BY <1>12 DEF TypeOK, FlushNow, NextKey, Flushing, Keys, Flushers, Main, Httpd
  <2>2. excused' \in SUBSET Keys
    BY <1>12 DEF TypeOK, FlushNow, NextKey, Flushing
  <2>3. debounce_timer' \in 0..DEBOUNCE
    BY <1>12 DEF TypeOK, FlushNow
  <2>4. todo' \in Seq(StepNames)
    <3>1. todo # <<>> /\ todo \in Seq(StepNames)
      BY <1>12 DEF FlushNow, Doing, TypeOK
    <3>2. todo' = todo \/ todo' = Tail(todo)
      BY <1>12 DEF FlushNow
    <3> QED
      BY <3>1, <3>2
  <2>5. faults' \in 0..MAX_FAULTS
    BY <1>12 DEF TypeOK, FlushNow, Fault
  <2> QED
    BY <1>12, <2>1, <2>2, <2>3, <2>4, <2>5 DEF TypeOK, FlushNow, vars, ram, flash, boot,
       handler, histories
<1>13. ASSUME EraseFlash PROVE TypeOK'
  <2>1. nvs' \in Entries
    BY <1>13 DEF TypeOK, EraseFlash, Flushing, Entries, Keys, HeldType
  <2>2. legacy' \in Entries
    BY <1>13 DEF TypeOK, EraseFlash, Entries
  <2>3. at' \in [Flushers -> 0..(KEYS + 1)]
    BY <1>13 DEF TypeOK, EraseFlash, NextKey, Flushing, Keys, Flushers, Main, Httpd
  <2>4. held' \in [Flushers -> HeldType]
    BY <1>13, HeldRecords DEF TypeOK, EraseFlash, NextKey, Flushing
  <2>5. main_at' \in {"persist", "protection"}
    BY <1>13 DEF TypeOK, EraseFlash
  <2>6. stopped' \in SUBSET {"protection", "persist"}
    BY <1>13 DEF TypeOK, EraseFlash
  <2>7. excused' \in SUBSET Keys
    BY <1>13 DEF TypeOK, EraseFlash, NextKey, Flushing
  <2>8. todo' \in Seq(StepNames)
    BY <1>13 DEF TypeOK, EraseFlash, StepDone, Doing
  <2> QED
    BY <1>13, <2>1, <2>2, <2>3, <2>4, <2>5, <2>6, <2>7, <2>8 DEF TypeOK, EraseFlash, vars, ram,
       flash, boot, handler, histories, StepDone
<1>14. ASSUME NEW k \in Settings, NEW v \in Values, ClientSets(k, v) PROVE TypeOK'
  <2>1. map' \in [Keys -> Values]
    BY <1>14 DEF TypeOK, ClientSets, Set
  <2>2. notifying' \in [Tasks -> Keys \union {0}]
    BY <1>14 DEF TypeOK, ClientSets, Set
  <2> QED
    BY <1>14, <2>1, <2>2 DEF TypeOK, ClientSets, vars, ram, flash, boot, handler, histories
<1>15. ASSUME RestoreKey PROVE TypeOK'
  <2>1. map' \in [Keys -> Values]
    BY <1>15 DEF TypeOK, RestoreKey, Restored, Entries
  <2>2. booting' \in 1..(KEYS + 2)
    BY <1>15 DEF TypeOK, RestoreKey, Keys
  <2>3. migrating' \in {"no", "write", "erase"}
    BY <1>15 DEF TypeOK, RestoreKey
  <2> QED
    BY <1>15, <2>1, <2>2, <2>3 DEF TypeOK, RestoreKey, vars, ram, flash, boot, handler, histories
<1>16. ASSUME MigrateWrite PROVE TypeOK'
  <2>1. migrating' \in {"no", "write", "erase"}
    BY <1>16 DEF TypeOK, MigrateWrite
  <2>2. nvs' \in Entries
    BY <1>16 DEF TypeOK, MigrateWrite, Flushing, Entries, Keys, HeldType, Values
  <2>3. faults' \in 0..MAX_FAULTS
    BY <1>16 DEF TypeOK, MigrateWrite, Fault
  <2>4. excused' \in SUBSET Keys
    BY <1>16 DEF TypeOK, MigrateWrite, MigratesKey
  <2> QED
    BY <1>16, <2>1, <2>2, <2>3, <2>4 DEF TypeOK, MigrateWrite, vars, ram, flash, boot, handler,
       histories
<1>17. ASSUME MigrateErase PROVE TypeOK'
  <2>1. migrating' \in {"no", "write", "erase"}
    BY <1>17 DEF TypeOK, MigrateErase
  <2>2. booting' \in 1..(KEYS + 2)
    BY <1>17 DEF TypeOK, MigrateErase, Keys, MigratesKey
  <2>3. legacy' \in Entries
    BY <1>17 DEF TypeOK, MigrateErase, Entries
  <2>4. faults' \in 0..MAX_FAULTS
    BY <1>17 DEF TypeOK, MigrateErase, Fault
  <2> QED
    BY <1>17, <2>1, <2>2, <2>3, <2>4 DEF TypeOK, MigrateErase, vars, ram, flash, boot, handler,
       histories, StepDone
<1>18. ASSUME ReadHours PROVE TypeOK'
  <2>1. booting' \in 1..(KEYS + 2)
    BY <1>18 DEF TypeOK, ReadHours, Keys
  <2>2. hours' \in Values
    BY <1>18 DEF TypeOK, ReadHours, Values
  <2> QED
    BY <1>18, <2>1, <2>2 DEF TypeOK, ReadHours, vars, ram, flash, boot, handler, histories
<1>19. ASSUME PowerUp, faults' \in 0..MAX_FAULTS PROVE TypeOK'
  <2>1. /\ map' \in [Keys -> Values] /\ dirty' \in [Keys -> BOOLEAN]
        /\ notifying' \in [Tasks -> Keys \union {0}]
    BY <1>19 DEF PowerUp
  <2>2. at' \in [Flushers -> 0..(KEYS + 1)] /\ held' \in [Flushers -> HeldType]
    BY <1>19, HeldRecords DEF PowerUp
  <2>3. hours' \in Values /\ booting' \in 1..(KEYS + 2) /\ todo' \in Seq(StepNames)
    BY <1>19 DEF PowerUp, Values
  <2>4. /\ hours_counter' \in 0..(HOURS_PERIOD - 1) /\ debounce_timer' \in 0..DEBOUNCE
        /\ since_flush' \in 0..DEBOUNCE
    BY <1>19 DEF PowerUp
  <2> QED
    BY <1>19, <2>1, <2>2, <2>3, <2>4 DEF TypeOK, PowerUp, flash
<1>20. CASE PowerCut \/ EspRestart
  BY <1>19, <1>20 DEF PowerCut, EspRestart, Fault, TypeOK
<1>21. CASE UNCHANGED vars
  BY <1>21 DEF TypeOK, vars, ram, flash, boot, handler, histories
<1> QED
  BY <1>1, <1>2, <1>3, <1>4, <1>5, <1>6, <1>7, <1>8, <1>9, <1>10, <1>11, <1>12, <1>13, <1>14,
     <1>15, <1>16, <1>17, <1>18, <1>19, <1>20, <1>21
  DEF Next, MainStep, HttpdStep, ClientStep, BootStep, FlushStep, Migrate, Flushers, Tasks

-----------------------------------------------------------------------------
(* The structure around the flags.                                         *)

\* No step leaves a key in the hands of a task outside the loop.
LEMMA HandsStep == TypeOK /\ HandsEmpty /\ [Next]_vars => HandsEmpty'
<1> SUFFICES ASSUME TypeOK, HandsEmpty, [Next]_vars, NEW u \in Flushers, at'[u] \notin Keys
             PROVE  held'[u] = Idle
  BY DEF HandsEmpty
<1>1. CASE UNCHANGED <<at, held>>
  BY <1>1 DEF HandsEmpty
<1>2. ASSUME NEW t \in Flushers, at[t] \in Keys, NextKey(t) PROVE held'[u] = Idle
  BY <1>2 DEF HandsEmpty, NextKey, TypeOK
<1>3. ASSUME NEW t \in Flushers, Flushing(t), UNCHANGED at,
             held' = [held EXCEPT ![t] = held'[t]]
      PROVE  held'[u] = Idle
  BY <1>3 DEF HandsEmpty, Flushing, TypeOK
<1>4. ASSUME NEW t \in Flushers, at[t] \notin Keys, UNCHANGED held,
             at' = [at EXCEPT ![t] = at'[t]]
      PROVE  held'[u] = Idle
  BY <1>4 DEF HandsEmpty, TypeOK
<1>5. CASE EraseFlash \/ PowerUp
  BY <1>5 DEF EraseFlash, PowerUp
<1>6. ASSUME NEW t \in Flushers, FlushStep(t) PROVE held'[u] = Idle
  <2>1. CASE SkipClean(t)
    BY <1>2, <2>1 DEF SkipClean, Flushing
  <2>2. CASE ClearDirty(t)
    BY <1>3, <2>2 DEF ClearDirty, TypeOK
  <2>3. CASE ReadValue(t)
    BY <1>2, <1>3, <2>3 DEF ReadValue, Flushing, TypeOK
  <2>4. CASE WriteValue(t)
    BY <1>2, <2>4 DEF WriteValue, Flushing
  <2>5. CASE FlushDone(t)
    <3>1. at[t] \notin Keys /\ UNCHANGED held
      BY <2>5, Constants DEF FlushDone, Keys
    <3>2. at' = [at EXCEPT ![t] = at'[t]]
      BY <2>5 DEF FlushDone, TypeOK
    <3> QED
      BY <1>4, <3>1, <3>2
  <2> QED
    BY <1>6, <2>1, <2>2, <2>3, <2>4, <2>5 DEF FlushStep
<1>7. CASE PersistUpdate
  BY <1>1, <1>4, <1>7, Constants DEF PersistUpdate, OpenFails, TypeOK, Flushers
<1>8. CASE FlushNow
  BY <1>1, <1>4, <1>8, Constants DEF FlushNow, TypeOK, Flushers
<1>9. CASE \/ \E t \in Tasks : MarkDirty(t)
           \/ \E compressor \in BOOLEAN : ProtectionUpdate(compressor)
           \/ \E r \in Requests : Accept(r)
           \/ StopProtection \/ StopPersist
           \/ \E k \in Settings, v \in Values : ClientSets(k, v)
           \/ BootStep \/ UNCHANGED vars
  <2>1. UNCHANGED <<at, held>>
    BY <1>9 DEF MarkDirty, ProtectionUpdate, Accept, StopProtection, StopPersist,
       ClientSets, BootStep, RestoreKey, Migrate, MigrateWrite, MigrateErase, ReadHours, vars, ram
  <2> QED
    BY <1>1, <2>1
<1> QED
  BY <1>5, <1>6, <1>7, <1>8, <1>9
  DEF Next, MainStep, HttpdStep, ClientStep, PowerCut, EspRestart, Flushers, Tasks

\* The timer runs out only where the loop flushes.
LEMMA TimerStep == TypeOK /\ TimerInFlush /\ [Next]_vars => TimerInFlush'
<1> SUFFICES ASSUME TypeOK, TimerInFlush, [Next]_vars PROVE TimerInFlush'
  OBVIOUS
<1>1. CASE UNCHANGED <<debounce_timer, at, stopped>>
  BY <1>1 DEF TimerInFlush
<1>2. CASE PersistUpdate
  BY <1>2, Constants DEF PersistUpdate, OpenFails, TimerInFlush, TypeOK, Flushers, Main
<1>3. ASSUME NEW t \in Flushers, FlushStep(t) PROVE TimerInFlush'
  <2>1. CASE NextKey(t) /\ Flushing(t) /\ UNCHANGED <<debounce_timer, stopped>>
    BY <2>1, Constants DEF NextKey, Flushing, TimerInFlush, TypeOK, Keys, Flushers, Main
  <2>2. CASE FlushDone(t)
    BY <2>2, Constants DEF FlushDone, TimerInFlush
  <2> QED
    BY <1>1, <1>3, <2>1, <2>2 DEF FlushStep, SkipClean, ClearDirty, ReadValue, WriteValue
<1>4. CASE StopProtection \/ StopPersist \/ EraseFlash
  BY <1>4 DEF StopProtection, StopPersist, EraseFlash, TimerInFlush
<1>5. CASE FlushNow
  BY <1>5, Constants DEF FlushNow, TimerInFlush, TypeOK, Flushers, Main, Httpd
<1>6. CASE PowerUp
  BY <1>6, Constants DEF PowerUp, TimerInFlush
<1>7. CASE \/ \E t \in Tasks : MarkDirty(t)
           \/ \E compressor \in BOOLEAN : ProtectionUpdate(compressor)
           \/ \E r \in Requests : Accept(r)
           \/ \E k \in Settings, v \in Values : ClientSets(k, v)
           \/ BootStep \/ UNCHANGED vars
  BY <1>1, <1>7 DEF MarkDirty, ProtectionUpdate, Accept, ClientSets, BootStep,
     RestoreKey, Migrate, MigrateWrite, MigrateErase, ReadHours, vars, ram
<1> QED
  BY <1>2, <1>3, <1>4, <1>5, <1>6, <1>7
  DEF Next, MainStep, HttpdStep, ClientStep, PowerCut, EspRestart, Flushers, Tasks

\* No step flushes for a handler that has not reached its flush.
LEMMA HandlerStep == TypeOK /\ HandlerFlushes /\ [Next]_vars => HandlerFlushes'
<1> SUFFICES ASSUME TypeOK, HandlerFlushes, [Next]_vars PROVE HandlerFlushes'
  OBVIOUS
<1>1. CASE UNCHANGED <<request, todo>> /\ at'[Httpd] = at[Httpd]
  BY <1>1 DEF HandlerFlushes
<1>2. CASE PersistUpdate
  <2>1. at'[Httpd] = at[Httpd]
    BY <1>2 DEF PersistUpdate, OpenFails, TypeOK, Flushers, Main, Httpd
  <2> QED
    BY <1>1, <1>2, <2>1 DEF PersistUpdate, handler
<1>3. ASSUME NEW t \in Flushers, FlushStep(t) PROVE HandlerFlushes'
  <2>1. CASE NextKey(t) /\ Flushing(t) /\ UNCHANGED handler
    BY <2>1, Constants DEF NextKey, Flushing, HandlerFlushes, TypeOK, handler
  <2>2. CASE FlushDone(Main)
    BY <1>1, <2>2 DEF FlushDone, TypeOK, Flushers, Main, Httpd
  <2>3. CASE FlushDone(Httpd)
    BY <2>3, Constants DEF FlushDone, HandlerFlushes, TypeOK, Flushers, Main, Httpd
  <2>4. CASE UNCHANGED <<at, handler>>
    BY <1>1, <2>4 DEF handler
  <2> QED
    BY <1>3, <2>1, <2>2, <2>3, <2>4
    DEF FlushStep, SkipClean, ClearDirty, ReadValue, WriteValue, Flushers
<1>4. CASE StopProtection \/ StopPersist
  BY <1>4 DEF StopProtection, StopPersist, StepDone, Doing, HandlerFlushes
<1>5. CASE EraseFlash \/ PowerUp
  BY <1>5 DEF EraseFlash, StepDone, Doing, PowerUp, HandlerFlushes, Flushers
<1>6. CASE FlushNow
  BY <1>6 DEF FlushNow, Doing, HandlerFlushes, TypeOK, Flushers
<1>7. ASSUME NEW r \in Requests, Accept(r) PROVE HandlerFlushes'
  <2>1. at[Httpd] = 0
    BY <1>7 DEF Accept, HandlerFlushes
  <2> QED
    BY <1>7, <2>1, RequestsAre DEF Accept, HandlerFlushes, ram
<1>8. CASE \/ \E t \in Tasks : MarkDirty(t)
           \/ \E compressor \in BOOLEAN : ProtectionUpdate(compressor)
           \/ \E k \in Settings, v \in Values : ClientSets(k, v)
           \/ BootStep \/ UNCHANGED vars
  BY <1>1, <1>8 DEF MarkDirty, ProtectionUpdate, ClientSets, BootStep, RestoreKey,
     Migrate, MigrateWrite, MigrateErase, ReadHours, vars, ram, handler
<1> QED
  BY <1>2, <1>3, <1>4, <1>5, <1>6, <1>7, <1>8
  DEF Next, MainStep, HttpdStep, ClientStep, PowerCut, EspRestart, Flushers, Tasks

\* While the unit boots nothing else happens to it than the boot.
LEMMA OnlyBoots ==
  ASSUME BootAlone, booting # KEYS + 2, Next
  PROVE  BootStep \/ PowerUp
<1>1. /\ todo = <<>>
      /\ \A t \in Tasks : notifying[t] = 0
      /\ \A t \in Flushers : at[t] = 0
  BY DEF BootAlone
<1>2. ~MainStep
  BY <1>1, Constants DEF MainStep, PersistUpdate, FlushStep, SkipClean, ClearDirty,
     ReadValue, WriteValue, FlushDone, Flushing, MarkDirty, ProtectionUpdate, Running,
     Flushers, Tasks
<1>3. ~HttpdStep
  BY <1>1, Constants DEF HttpdStep, FlushStep, SkipClean, ClearDirty,
     ReadValue, WriteValue, FlushDone, Flushing, MarkDirty, Accept, Running,
     StopProtection, StopPersist, FlushNow, EraseFlash, EspRestart, Doing, Flushers, Tasks
<1>4. ~ClientStep
  BY <1>1 DEF ClientStep, MarkDirty, ClientSets, Running, Tasks
<1> QED
  BY <1>2, <1>3, <1>4 DEF Next, PowerCut

\* Only the boot and a power-up move its index.
LEMMA BootMoves == Next => BootStep \/ PowerUp \/ UNCHANGED boot
BY DEF Next, MainStep, HttpdStep, ClientStep, PowerCut, EspRestart, FlushStep, PersistUpdate,
   SkipClean, ClearDirty, ReadValue, WriteValue, FlushDone, MarkDirty, ProtectionUpdate,
   Accept, StopProtection, StopPersist, FlushNow, EraseFlash, ClientSets

\* No step touches a key while the unit boots.
LEMMA BootStepAlone == TypeOK /\ MigratesKey /\ BootAlone /\ [Next]_vars => BootAlone'
<1> SUFFICES ASSUME TypeOK, MigratesKey, BootAlone, [Next]_vars, booting' # KEYS + 2
             PROVE  /\ todo' = <<>>
                    /\ \A t \in Tasks : notifying'[t] = 0
                    /\ \A t \in Flushers : at'[t] = 0
  BY DEF BootAlone
<1>1. CASE PowerUp
  BY <1>1 DEF PowerUp
<1>2. CASE BootStep
  <2>1. booting # KEYS + 2
    BY <1>2, Constants DEF BootStep, RestoreKey, ReadHours, Migrate, MigrateWrite,
       MigrateErase, MigratesKey, Keys, TypeOK
  <2> QED
    BY <1>2, <2>1 DEF BootAlone, BootStep, RestoreKey, ReadHours, Migrate, MigrateWrite,
       MigrateErase, ram, handler
<1>3. CASE UNCHANGED vars
  BY <1>3 DEF BootAlone, vars, ram, handler, boot
<1> QED
  BY <1>1, <1>2, <1>3, OnlyBoots, BootMoves DEF boot

\* A migration knows what it moves, a refused write included.
LEMMA MigrationStep ==
  TypeOK /\ BootAlone /\ MigratesKey /\ Migration /\ [Next]_vars => MigratesKey' /\ Migration'
<1> SUFFICES ASSUME TypeOK, BootAlone, MigratesKey, Migration, [Next]_vars, migrating' # "no"
             PROVE  MigratesKey' /\ Migration'
  BY DEF MigratesKey, Migration
<1>1. CASE BootStep
  <2>1. CASE RestoreKey
    <3>1. /\ booting \in Keys /\ UNCHANGED <<booting, flash>> /\ migrating' = "write"
          /\ nvs[booting] = Absent /\ legacy[booting] # Absent
          /\ map' = [map EXCEPT ![booting] = Restored(booting)]
      BY <2>1 DEF RestoreKey
    <3>2. map'[booting] = legacy[booting]
      BY <3>1 DEF Restored, TypeOK
    <3> QED
      BY <3>1, <3>2 DEF MigratesKey, Migration, flash
  <2>2. CASE MigrateWrite
    BY <2>2 DEF MigrateWrite, MigratesKey, Migration, TypeOK, Entries, ram
  <2>3. CASE MigrateErase
    BY <2>3 DEF MigrateErase
  <2>4. CASE ReadHours
    BY <2>4, Constants DEF ReadHours, MigratesKey, Keys
  <2> QED
    BY <1>1, <2>1, <2>2, <2>3, <2>4 DEF BootStep, Migrate
<1>2. CASE UNCHANGED boot /\ ~UNCHANGED vars
  <2>1. booting # KEYS + 2
    BY <1>2, Constants DEF MigratesKey, Keys, boot
  <2> QED
    BY <1>1, <1>2, <2>1, OnlyBoots DEF PowerUp
<1>3. CASE UNCHANGED vars
  BY <1>3 DEF vars, ram, flash, boot, histories, MigratesKey, Migration
<1> QED
  BY <1>1, <1>2, <1>3, BootMoves DEF PowerUp

-----------------------------------------------------------------------------
(* What happens to a value on its way to flash.                            *)

\* The steps that neither flush, nor set a key, nor erase: they leave the flags,
\* the entries and the callbacks alone, and nothing loses its excuse.
Quiet ==
  /\ UNCHANGED <<dirty, notifying, nvs, legacy, map, booting>>
  /\ excused \subseteq excused'
  /\ \A t \in Flushers : \/ at'[t] = at[t] /\ held'[t] = held[t]
                         \/ held[t].step = "idle" /\ held'[t].step = "idle"

\* These are the quiet ones.
LEMMA QuietSteps ==
  ASSUME TypeOK, HandsEmpty,
         \/ PersistUpdate \/ FlushNow \/ StopPersist \/ UNCHANGED vars
         \/ \E r \in Requests : Accept(r)
         \/ \E t \in Flushers : FlushDone(t) \/ SkipClean(t)
  PROVE  Quiet
<1>1. CASE PersistUpdate
  <2>1. UNCHANGED <<dirty, notifying, held, nvs, legacy, map, booting, excused>>
    BY <1>1 DEF PersistUpdate, OpenFails, flash, boot
  <2>2. at' = at \/ (at[Main] = 0 /\ at' = [at EXCEPT ![Main] = 1])
    BY <1>1 DEF PersistUpdate, OpenFails
  <2>3. at[Main] = 0 => held[Main].step = "idle"
    BY Constants DEF HandsEmpty, Idle, Flushers
  <2> QED
    BY <2>1, <2>2, <2>3 DEF Quiet, TypeOK
<1>2. CASE FlushNow
  BY <1>2, Constants DEF FlushNow, Quiet, HandsEmpty, Idle, TypeOK, Flushers, Httpd, flash, boot
<1>3. CASE StopPersist \/ UNCHANGED vars \/ \E r \in Requests : Accept(r)
  BY <1>3 DEF StopPersist, Accept, Quiet, vars, ram, flash, boot, histories
<1>4. ASSUME NEW t \in Flushers, FlushDone(t) PROVE Quiet
  <2>1. at[t] \notin Keys
    BY <1>4, Constants DEF FlushDone, Keys
  <2> QED
    BY <1>4, <2>1 DEF FlushDone, Quiet, HandsEmpty, Idle, TypeOK, flash, boot
<1>5. ASSUME NEW t \in Flushers, SkipClean(t) PROVE Quiet
  <2>1. held[t].step = "idle" /\ held'[t].step = "idle"
    BY <1>5 DEF SkipClean, NextKey, Idle, TypeOK
  <2>2. ASSUME NEW u \in Flushers \ {t} PROVE at'[u] = at[u] /\ held'[u] = held[u]
    BY <1>5 DEF SkipClean, NextKey, TypeOK
  <2> QED
    BY <1>5, <2>1, <2>2 DEF SkipClean, Quiet, flash, boot
<1> QED
  BY <1>1, <1>2, <1>3, <1>4, <1>5

\* A task sets a key in the map and leaves the callback for later.
Sets(t, k, v) ==
  /\ notifying[t] = 0 /\ Set(t, k, v)
  /\ UNCHANGED <<dirty, at, held, nvs, legacy, booting, excused>>

\* These set a key, or are quiet.
LEMMA SetSteps ==
  ASSUME TypeOK,
         \/ StopProtection
         \/ \E compressor \in BOOLEAN : ProtectionUpdate(compressor)
         \/ \E k \in Settings, v \in Values : ClientSets(k, v)
  PROVE  Quiet \/ \E t \in Tasks, k \in Keys, v \in Values : Sets(t, k, v)
<1>1. CASE StopProtection
  <2>1. Sets(Httpd, Hours, hours)
    BY <1>1 DEF StopProtection, Doing, Sets, flash, boot, histories
  <2> QED
    BY <2>1, Constants DEF Tasks, TypeOK
<1>2. ASSUME NEW compressor \in BOOLEAN, ProtectionUpdate(compressor)
      PROVE  Quiet \/ \E t \in Tasks, k \in Keys, v \in Values : Sets(t, k, v)
  <2>1. hours' \in Values
    BY <1>2, Constants DEF ProtectionUpdate, TypeOK, Values
  <2>2. Set(Main, Hours, hours') => Sets(Main, Hours, hours')
    BY <1>2 DEF ProtectionUpdate, Sets, flash, boot, histories
  <2>3. ~Set(Main, Hours, hours') => Quiet
    BY <1>2 DEF ProtectionUpdate, Quiet, flash, boot, histories
  <2> QED
    BY <2>1, <2>2, <2>3, Constants DEF Tasks
<1>3. ASSUME NEW k \in Settings, NEW v \in Values, ClientSets(k, v)
      PROVE  \E t \in Tasks, j \in Keys, w \in Values : Sets(t, j, w)
  <2>1. Sets(Client, k, v)
    BY <1>3 DEF ClientSets, Sets, flash, boot, histories
  <2> QED
    BY <2>1, Constants DEF Tasks
<1> QED
  BY <1>1, <1>2, <1>3

\* Every step is quiet or touches a value on its way.
LEMMA Classified ==
  ASSUME TypeOK, HandsEmpty, [Next]_vars
  PROVE  \/ Quiet \/ BootStep \/ PowerUp \/ EraseFlash
         \/ \E t \in Tasks, k \in Keys, v \in Values : Sets(t, k, v)
         \/ \E t \in Tasks : MarkDirty(t)
         \/ \E t \in Flushers : ClearDirty(t) \/ ReadValue(t) \/ WriteValue(t)
BY QuietSteps, SetSteps
DEF Next, MainStep, HttpdStep, ClientStep, PowerCut, EspRestart, FlushStep, Flushers, Tasks

\* A key two flushes come to hold is excused, by whoever takes it second.
LEMMA BothStep == Structure /\ BothExcused /\ [Next]_vars => BothExcused'
<1> SUFFICES ASSUME TypeOK, HandsEmpty, BothExcused, [Next]_vars,
                    NEW k \in Keys, Holds(Main, k)', Holds(Httpd, k)'
             PROVE  k \in excused'
  BY DEF BothExcused, Structure
<1>1. CASE UNCHANGED <<at, held>> /\ excused \subseteq excused'
  BY <1>1 DEF BothExcused, Holds
<1>2. CASE Quiet
  BY <1>2 DEF Quiet, BothExcused, Holds, Flushers
<1>3. CASE BootStep
  BY <1>1, <1>3 DEF BootStep, RestoreKey, Migrate, MigrateWrite, MigrateErase, ReadHours,
     ram, histories
<1>4. CASE EraseFlash \/ PowerUp
  BY <1>4, Constants DEF EraseFlash, PowerUp, Holds, Flushers
<1>5. ASSUME NEW t \in Tasks, MarkDirty(t) PROVE k \in excused'
  BY <1>1, <1>5 DEF MarkDirty, histories
<1>6. ASSUME NEW t \in Tasks, NEW j \in Keys, NEW v \in Values, Sets(t, j, v) PROVE k \in excused'
  BY <1>1, <1>6 DEF Sets
<1>7. ASSUME NEW t \in Flushers, ClearDirty(t) PROVE k \in excused'
  BY <1>7 DEF ClearDirty, Flushing, InOtherHands, BothExcused, Holds, Flushers, Main, Httpd, TypeOK
<1>8. ASSUME NEW t \in Flushers, ReadValue(t) PROVE k \in excused'
  BY <1>8 DEF ReadValue, Flushing, NextKey, Idle, BothExcused, Holds, Flushers, TypeOK
<1>9. ASSUME NEW t \in Flushers, WriteValue(t) PROVE k \in excused'
  BY <1>9 DEF WriteValue, Flushing, NextKey, Idle, BothExcused, Holds, Flushers, TypeOK
<1> QED
  BY <1>2, <1>3, <1>4, <1>5, <1>6, <1>7, <1>8, <1>9, Classified

\* A value read stays the map's, or a set makes its key pending.
LEMMA FreshStep ==
  Structure /\ BothExcused /\ HeldIsFresh /\ [Next]_vars => HeldIsFresh'
<1> SUFFICES ASSUME Structure, HeldIsFresh, [Next]_vars,
                    NEW t \in Flushers, NEW k \in Keys, at'[t] = k, held'[t].step = "read"
             PROVE  held'[t].value = map'[k] \/ Pending(k)'
  BY DEF HeldIsFresh
<1> USE DEF Structure
<1>1. ASSUME at[t] = k, held'[t] = held[t], map'[k] = map[k], Pending(k) => Pending(k)'
      PROVE  held'[t].value = map'[k] \/ Pending(k)'
  BY <1>1 DEF HeldIsFresh
<1>2. CASE Quiet
  BY <1>1, <1>2 DEF Quiet, Pending
<1>3. CASE BootStep
  <2>1. booting # KEYS + 2 => at[t] = 0
    BY DEF BootAlone
  <2>2. at'[t] = at[t]
    BY <1>3 DEF BootStep, RestoreKey, Migrate, MigrateWrite, MigrateErase, ReadHours, ram
  <2>3. booting # KEYS + 2
    BY <1>3, Constants DEF BootStep, RestoreKey, Migrate, MigrateWrite, MigrateErase, ReadHours,
       MigratesKey, Keys
  <2> QED
    BY <2>1, <2>2, <2>3, Constants
<1>4. CASE EraseFlash \/ PowerUp
  BY <1>4, Constants DEF EraseFlash, PowerUp
<1>5. ASSUME NEW u \in Tasks, MarkDirty(u)
      PROVE  held'[t].value = map'[k] \/ Pending(k)'
  <2>1. Pending(k) => Pending(k)'
    BY <1>5 DEF MarkDirty, Pending, histories, TypeOK
  <2> QED
    BY <1>1, <1>5, <2>1 DEF MarkDirty
<1>6. ASSUME NEW u \in Tasks, NEW j \in Keys, NEW v \in Values, Sets(u, j, v)
      PROVE  held'[t].value = map'[k] \/ Pending(k)'
  <2>1. CASE map[j] = v
    BY <1>1, <1>6, <2>1, Constants DEF Sets, Set, Pending, TypeOK
  <2>2. CASE map[j] # v /\ j = k
    BY <1>6, <2>2 DEF Sets, Set, Pending, TypeOK
  <2>3. CASE map[j] # v /\ j # k
    <3>1. Pending(k) => Pending(k)'
      BY <1>6, <2>3, Constants DEF Sets, Set, Pending, TypeOK
    <3> QED
      BY <1>1, <1>6, <2>3, <3>1 DEF Sets, Set, TypeOK
  <2> QED
    BY <2>1, <2>2, <2>3
<1>7. ASSUME NEW u \in Flushers, ClearDirty(u)
      PROVE  held'[t].value = map'[k] \/ Pending(k)'
  <2>1. CASE u = t
    BY <1>7, <2>1 DEF ClearDirty, TypeOK
  <2>2. CASE u # t
    <3>1. Pending(k) => Pending(k)'
      BY <1>7, <2>2 DEF ClearDirty, Flushing, InOtherHands, Holds, Pending, TypeOK
    <3> QED
      BY <1>1, <1>7, <2>2, <3>1 DEF ClearDirty, TypeOK
  <2> QED
    BY <2>1, <2>2
<1>8. ASSUME NEW u \in Flushers, ReadValue(u)
      PROVE  held'[t].value = map'[k] \/ Pending(k)'
  <2>1. CASE u = t
    BY <1>8, <2>1 DEF ReadValue, NextKey, Idle, TypeOK
  <2>2. CASE u # t
    BY <1>1, <1>8, <2>2 DEF ReadValue, NextKey, Flushing, Pending, TypeOK
  <2> QED
    BY <2>1, <2>2
<1>9. ASSUME NEW u \in Flushers, WriteValue(u)
      PROVE  held'[t].value = map'[k] \/ Pending(k)'
  <2>1. CASE u = t
    BY <1>9, <2>1 DEF WriteValue, NextKey, Idle, TypeOK
  <2>2. CASE u # t
    BY <1>1, <1>9, <2>2 DEF WriteValue, NextKey, Flushing, Pending, TypeOK
  <2> QED
    BY <2>1, <2>2
<1> QED
  BY <1>2, <1>3, <1>4, <1>5, <1>6, <1>7, <1>8, <1>9, Classified

\* No step forgets a value.  The flag goes to the hands of the flush, from there
\* to NVS; a set in between finds the callback.
LEMMA ForgottenStep ==
  Structure /\ HeldIsFresh /\ NothingForgotten /\ [Next]_vars => NothingForgotten'
<1> SUFFICES ASSUME Structure, HeldIsFresh, NothingForgotten, [Next]_vars,
                    NEW k \in Keys, (booting > k)', map'[k] # Restored(k)'
             PROVE  Accounted(k)'
  BY DEF NothingForgotten
<1> USE DEF Structure
<1>1. ASSUME booting' = booting, map'[k] = map[k], nvs'[k] = nvs[k], legacy'[k] = legacy[k],
             Accounted(k) => Accounted(k)'
      PROVE  Accounted(k)'
  BY <1>1 DEF NothingForgotten, Restored
<1>2. CASE Quiet
  <2>1. ASSUME NEW t \in Flushers, Holds(t, k) PROVE Holds(t, k)'
    BY <1>2, <2>1 DEF Quiet, Holds
  <2> QED
    BY <1>1, <1>2, <2>1 DEF Quiet, Accounted
<1>3. CASE BootStep
  <2>1. Accounted(k) => Accounted(k)'
    BY <1>3 DEF BootStep, RestoreKey, Migrate, MigrateWrite, MigrateErase, ReadHours,
       Accounted, Holds, ram, histories
  <2>2. CASE RestoreKey
    <3>1. nvs' = nvs /\ legacy' = legacy /\ map' = [map EXCEPT ![booting] = Restored(booting)]
      BY <2>2 DEF RestoreKey, flash
    <3>2. k # booting
      BY <3>1 DEF Restored, TypeOK
    <3>3. booting > k
      BY <2>2, <3>2 DEF RestoreKey, Keys
    <3>4. map'[k] = map[k] /\ Restored(k)' = Restored(k)
      BY <3>1, <3>2 DEF Restored, TypeOK
    <3> QED
      BY <2>1, <3>3, <3>4 DEF NothingForgotten
  <2>3. CASE MigrateWrite
    <3>1. k # booting
      BY <2>3 DEF MigrateWrite, MigratesKey, Keys
    <3> QED
      BY <1>1, <2>1, <2>3, <3>1 DEF MigrateWrite, ram, TypeOK, Entries
  <2>4. CASE MigrateErase
    <3>1. booting \in Keys /\ map' = map /\ nvs' = nvs /\ excused' = excused
      BY <2>4 DEF MigrateErase, MigratesKey, ram, histories
    <3>2. CASE k = booting
      <4>1. nvs[k] = map[k] => Restored(k)' = map[k]
        BY <3>1, Constants DEF Restored, TypeOK
      <4> QED
        BY <2>4, <3>1, <3>2, <4>1 DEF MigrateErase, Migration, Accounted
    <3>3. CASE k # booting
      <4>1. booting > k
        BY <2>4, <3>1, <3>3, Constants DEF MigrateErase, Keys
      <4>2. legacy'[k] = legacy[k]
        BY <2>4, <3>1, <3>3 DEF MigrateErase, TypeOK, Entries
      <4>3. Restored(k)' = Restored(k)
        BY <3>1, <4>2 DEF Restored
      <4> QED
        BY <2>1, <3>1, <4>1, <4>3 DEF NothingForgotten
    <3> QED
      BY <3>2, <3>3
  <2>5. CASE ReadHours
    <3>1. booting > k /\ map' = map /\ nvs' = nvs /\ legacy' = legacy
      BY <2>5, Constants DEF ReadHours, Keys, flash
    <3> QED
      BY <2>1, <3>1 DEF NothingForgotten, Restored
  <2> QED
    BY <1>3, <2>2, <2>3, <2>4, <2>5 DEF BootStep, Migrate
<1>4. CASE EraseFlash
  BY <1>4 DEF EraseFlash, Accounted
<1>5. CASE PowerUp
  BY <1>5 DEF PowerUp, Keys
<1>6. ASSUME NEW t \in Tasks, MarkDirty(t) PROVE Accounted(k)'
  <2>1. Accounted(k) => Accounted(k)'
    <3>1. notifying[t] = k => dirty'[k]
      BY <1>6 DEF MarkDirty, TypeOK
    <3>2. dirty[k] => dirty'[k]
      BY <1>6 DEF MarkDirty, TypeOK
    <3>3. ASSUME NEW u \in Tasks \ {t} PROVE notifying'[u] = notifying[u]
      BY <1>6 DEF MarkDirty, TypeOK
    <3>4. at' = at /\ held' = held /\ excused' = excused
      BY <1>6 DEF MarkDirty, histories
    <3> QED
      BY <3>1, <3>2, <3>3, <3>4 DEF Accounted, Holds
  <2> QED
    BY <1>1, <1>6, <2>1 DEF MarkDirty, flash, boot
<1>7. ASSUME NEW t \in Tasks, NEW j \in Keys, NEW v \in Values, Sets(t, j, v)
      PROVE  Accounted(k)'
  <2>1. Accounted(k) => Accounted(k)'
    <3>1. ASSUME NEW u \in Tasks, notifying[u] = k PROVE notifying'[u] = k
      BY <1>7, <3>1, Constants DEF Sets, Set, TypeOK
    <3> QED
      BY <1>7, <3>1 DEF Sets, Accounted, Holds
  <2>2. CASE map'[k] = map[k]
    BY <1>1, <1>7, <2>1, <2>2 DEF Sets
  <2>3. CASE map'[k] # map[k]
    BY <1>7, <2>3 DEF Sets, Set, TypeOK, Accounted
  <2> QED
    BY <2>2, <2>3
<1>8. ASSUME NEW t \in Flushers, ClearDirty(t) PROVE Accounted(k)'
  <2>1. CASE at[t] = k
    BY <1>8, <2>1 DEF ClearDirty, Accounted, Holds, TypeOK
  <2>2. CASE at[t] # k
    <3>1. Accounted(k) => Accounted(k)'
      BY <1>8, <2>2 DEF ClearDirty, Flushing, Accounted, Holds, TypeOK
    <3> QED
      BY <1>1, <1>8, <3>1 DEF ClearDirty, flash, boot
  <2> QED
    BY <2>1, <2>2
<1>9. ASSUME NEW t \in Flushers, ReadValue(t) PROVE Accounted(k)'
  <2>1. Accounted(k) => Accounted(k)'
    <3>1. ASSUME NEW u \in Flushers, Holds(u, k) PROVE Holds(u, k)' \/ k \in excused'
      BY <1>9, <3>1 DEF ReadValue, NextKey, Holds, TypeOK
    <3>2. dirty' = dirty /\ notifying' = notifying /\ excused \subseteq excused'
      BY <1>9 DEF ReadValue
    <3> QED
      BY <3>1, <3>2 DEF Accounted
  <2> QED
    BY <1>1, <1>9, <2>1 DEF ReadValue, flash, boot
<1>10. ASSUME NEW t \in Flushers, WriteValue(t) PROVE Accounted(k)'
  <2>1. dirty' = dirty /\ notifying' = notifying /\ excused \subseteq excused' /\ map' = map
    BY <1>10 DEF WriteValue
  <2>2. CASE at[t] = k
    <3>1. Pending(k) => Accounted(k)'
      BY <2>1 DEF Pending, Accounted
    <3>2. CASE nvs' = [nvs EXCEPT ![at[t]] = held[t].value] /\ held[t].value = map[k]
      BY <2>1, <2>2, <3>2, Constants DEF Restored, TypeOK, Entries
    <3>3. CASE k \in excused'
      BY <3>3 DEF Accounted
    <3> QED
      BY <1>10, <2>2, <3>1, <3>2, <3>3 DEF WriteValue, HeldIsFresh
  <2>3. CASE at[t] # k
    <3>1. ASSUME NEW u \in Flushers, Holds(u, k) PROVE Holds(u, k)'
      BY <1>10, <2>3, <3>1 DEF WriteValue, NextKey, Holds, TypeOK
    <3>2. Accounted(k) => Accounted(k)'
      BY <2>1, <3>1 DEF Accounted
    <3> QED
      BY <1>1, <1>10, <2>3, <3>2 DEF WriteValue, TypeOK, Entries, boot
  <2> QED
    BY <2>2, <2>3
<1> QED
  BY <1>2, <1>3, <1>4, <1>5, <1>6, <1>7, <1>8, <1>9, <1>10, Classified

-----------------------------------------------------------------------------
(* The invariant and what follows from it.                                 *)

\* The state the power comes on in.
LEMMA InitIInv == Init => IInv
<1> SUFFICES ASSUME Init PROVE IInv
  OBVIOUS
<1> USE Constants
<1>1. /\ notifying = [t \in Tasks |-> 0] /\ at = [t \in Flushers |-> 0]
      /\ held = [t \in Flushers |-> Idle] /\ todo = <<>> /\ migrating = "no"
      /\ debounce_timer = 0 /\ booting = 1 /\ hours = 0
  BY DEF Init
<1>2. TypeOK
  <2>1. nvs \in Entries /\ legacy \in Entries
    BY PersistenceAssumption DEF Init
  <2>2. at \in [Flushers -> 0..(KEYS + 1)] /\ held \in [Flushers -> HeldType]
    BY <1>1, HeldRecords
  <2>3. hours \in Values /\ booting \in 1..(KEYS + 2) /\ todo \in Seq(StepNames)
    BY <1>1 DEF Values
  <2>4. hours_counter \in 0..(HOURS_PERIOD - 1) /\ faults \in 0..MAX_FAULTS
    BY DEF Init
  <2> QED
    BY <1>1, <2>1, <2>2, <2>3, <2>4 DEF Init, TypeOK
<1>3. HandsEmpty /\ TimerInFlush /\ BootAlone /\ HandlerFlushes /\ MigratesKey /\ Migration
  BY <1>1 DEF HandsEmpty, TimerInFlush, BootAlone, HandlerFlushes, MigratesKey, Migration,
     Flushers
<1>4. BothExcused /\ HeldIsFresh
  BY <1>1 DEF BothExcused, HeldIsFresh, Holds, Flushers
<1>5. NothingForgotten
  BY <1>1 DEF NothingForgotten, Keys
<1> QED
  BY <1>2, <1>3, <1>4, <1>5 DEF IInv, Structure

\* The conjunction of the lemmas above.
LEMMA StepIInv == IInv /\ [Next]_vars => IInv'
BY TypeStep, HandsStep, TimerStep, HandlerStep, BootStepAlone, MigrationStep, BothStep,
   FreshStep, ForgottenStep
DEF IInv, Structure

\* The inductive invariant holds.
LEMMA Invariance == Spec => []IInv
BY InitIInv, StepIInv, PTL DEF Spec

\* Every variable keeps its type.
THEOREM TypeCorrect == Spec => []TypeOK
<1>1. IInv => TypeOK
  BY DEF IInv, Structure
<1> QED
  BY <1>1, Invariance, PTL

\* No value of the map that a boot would not bring back is forgotten: the
\* accounting of dirty_, on_state_changed and flush_to_nvs, with its flag
\* cleared before the read, holds for every interleaving of the three tasks.
THEOREM NothingIsForgotten == Spec => []NothingForgotten
<1>1. IInv => NothingForgotten
  BY DEF IInv
<1> QED
  BY <1>1, Invariance, PTL

\* restore_from_nvs, cut anywhere, never changes what the next boot restores.
THEOREM BootHolds == Spec => BootPreserves
<1>1. IInv /\ [Next]_vars =>
        [~Running => \A k \in Keys \ excused' : Restored(k)' = Restored(k)]_vars
  <2> SUFFICES ASSUME IInv, Next, ~Running, NEW k \in Keys \ excused'
               PROVE  Restored(k)' = Restored(k)
    OBVIOUS
  <2> USE DEF IInv, Structure
  <2>1. BootStep \/ PowerUp
    BY OnlyBoots DEF Running
  <2>2. CASE UNCHANGED flash
    BY <2>2 DEF flash, Restored
  <2>3. CASE MigrateWrite
    <3>1. \/ nvs' = [nvs EXCEPT ![booting] = legacy[booting]] /\ legacy' = legacy
          \/ UNCHANGED flash
      BY <2>3 DEF MigrateWrite, flash
    <3> QED
      BY <2>2, <2>3, <3>1 DEF MigrateWrite, Migration, Restored, TypeOK, Entries
  <2>4. CASE MigrateErase
    <3>1. k = booting => nvs[k] = map[k] /\ map[k] # Absent
      BY <2>4, Constants DEF MigrateErase, Migration, histories, TypeOK
    <3>2. nvs' = nvs /\ (k # booting => legacy'[k] = legacy[k])
      BY <2>4 DEF MigrateErase, TypeOK, Entries
    <3> QED
      BY <3>1, <3>2 DEF Restored
  <2> QED
    BY <2>1, <2>2, <2>3, <2>4 DEF BootStep, Migrate, RestoreKey, ReadHours, PowerUp
<1> QED
  BY <1>1, Invariance, PTL DEF Spec, BootPreserves

-----------------------------------------------------------------------------
(* How often the loop flushes.                                             *)

\* The debounce runs no faster than the loop's passes.
Spaced == debounce_timer <= since_flush

\* What a pass of PersistService does to the two counters.
LEMMA PassSpaced ==
  ASSUME TypeOK, TimerInFlush, Spaced, PersistUpdate
  PROVE  /\ Spaced'
         /\ at'[Main] # 0 => since_flush' = DEBOUNCE
<1> USE Constants
<1>1. /\ debounce_timer \in 0..DEBOUNCE /\ since_flush \in 0..DEBOUNCE
      /\ since_flush' = IF since_flush < DEBOUNCE THEN since_flush + 1 ELSE since_flush
  BY DEF TypeOK, PersistUpdate
<1>2. \/ debounce_timer' = debounce_timer /\ UNCHANGED at
      \/ debounce_timer + 1 < DEBOUNCE /\ debounce_timer' = debounce_timer + 1 /\ UNCHANGED at
      \/ debounce_timer + 1 >= DEBOUNCE /\ debounce_timer' = 0 /\ UNCHANGED at
      \/ debounce_timer + 1 >= DEBOUNCE /\ debounce_timer' = debounce_timer + 1
         /\ at' = [at EXCEPT ![Main] = 1]
  BY DEF PersistUpdate, OpenFails
<1>3. at[Main] = 0
  BY DEF PersistUpdate
<1>4. debounce_timer' = debounce_timer + 1 => debounce_timer < DEBOUNCE
  BY <1>1, <1>3 DEF TimerInFlush, PersistUpdate, OpenFails
<1>5. CASE debounce_timer' = debounce_timer /\ UNCHANGED at
  BY <1>1, <1>3, <1>5 DEF Spaced
<1>6. CASE debounce_timer' = debounce_timer + 1 /\ since_flush < DEBOUNCE
  BY <1>1, <1>2, <1>3, <1>4, <1>6 DEF Spaced
<1>7. CASE debounce_timer' = debounce_timer + 1 /\ since_flush = DEBOUNCE
  BY <1>1, <1>2, <1>3, <1>4, <1>7 DEF Spaced
<1>8. CASE debounce_timer' = 0 /\ UNCHANGED at
  BY <1>1, <1>3, <1>8 DEF Spaced
<1> QED
  BY <1>1, <1>2, <1>5, <1>6, <1>7, <1>8

\* Every other step leaves the counters alone or starts the debounce afresh,
\* and none of them begins a flush of the loop.
LEMMA OthersSpaced ==
  ASSUME TypeOK, Spaced, [Next]_vars, ~PersistUpdate
  PROVE  Spaced' /\ (at[Main] = 0 => at'[Main] = 0)
<1> USE Constants
<1>1. debounce_timer \in 0..DEBOUNCE /\ since_flush \in 0..DEBOUNCE
  BY DEF TypeOK
<1>2. CASE UNCHANGED <<debounce_timer, since_flush, at>>
  BY <1>2 DEF Spaced
<1>3. ASSUME NEW t \in Flushers, FlushStep(t) PROVE Spaced' /\ (at[Main] = 0 => at'[Main] = 0)
  <2>1. at[t] # 0
    BY <1>3 DEF FlushStep, SkipClean, ClearDirty, ReadValue, WriteValue, FlushDone, Flushing,
       Keys
  <2>2. at[Main] = 0 => at'[Main] = 0
    <3>1. at' = at \/ at' = [at EXCEPT ![t] = at'[t]]
      BY <1>3 DEF FlushStep, SkipClean, ClearDirty, ReadValue, WriteValue, FlushDone, NextKey,
         TypeOK
    <3> QED
      BY <2>1, <3>1 DEF TypeOK, Flushers
  <2>3. \/ UNCHANGED <<debounce_timer, since_flush>>
        \/ debounce_timer' = 0 /\ since_flush' \in {0, since_flush}
    BY <1>3 DEF FlushStep, SkipClean, ClearDirty, ReadValue, WriteValue, FlushDone
  <2>4. Spaced'
    BY <1>1, <2>3 DEF Spaced
  <2> QED
    BY <2>2, <2>4
<1>4. CASE FlushNow
  <2>1. at' = at \/ at' = [at EXCEPT ![Httpd] = 1]
    BY <1>4 DEF FlushNow
  <2>2. at[Main] = 0 => at'[Main] = 0
    BY <2>1 DEF TypeOK, Flushers, Main, Httpd
  <2>3. since_flush' = since_flush /\ debounce_timer' \in {0, debounce_timer}
    BY <1>4 DEF FlushNow
  <2> QED
    BY <1>1, <2>2, <2>3 DEF Spaced
<1>5. CASE EraseFlash
  BY <1>5 DEF EraseFlash, Spaced, Flushers
<1>6. CASE PowerUp
  BY <1>6 DEF PowerUp, Spaced, Flushers
<1>7. CASE BootStep \/ UNCHANGED vars
  BY <1>2, <1>7 DEF BootStep, RestoreKey, Migrate, MigrateWrite, MigrateErase, ReadHours,
     vars, ram, histories
<1>8. ASSUME NEW t \in Tasks, MarkDirty(t) PROVE UNCHANGED <<debounce_timer, since_flush, at>>
  BY <1>8 DEF MarkDirty, histories
<1>9. ASSUME NEW compressor \in BOOLEAN, ProtectionUpdate(compressor)
      PROVE  UNCHANGED <<debounce_timer, since_flush, at>>
  BY <1>9 DEF ProtectionUpdate, histories
<1>10. CASE StopProtection \/ StopPersist \/ \E r \in Requests : Accept(r)
  BY <1>2, <1>10 DEF StopProtection, StopPersist, Accept, ram, histories
<1>11. CASE \E k \in Settings, v \in Values : ClientSets(k, v)
  BY <1>2, <1>11 DEF ClientSets, histories
<1>12. PowerCut \/ EspRestart => PowerUp
  BY DEF PowerCut, EspRestart
<1> QED
  BY <1>2, <1>3, <1>4, <1>5, <1>6, <1>7, <1>8, <1>9, <1>10, <1>11, <1>12
  DEF Next, MainStep, HttpdStep, ClientStep, Flushers, Tasks

\* Between two flushes of the loop pass at least DEBOUNCE of its passes,
\* whatever the keys, the handlers and the failures of NVS do: neither
\* flush_now nor a change of a key makes on_update flush earlier.
THEOREM FlushesSpaced == Spec => FlushesAreSpaced
<1>1. Init => Spaced
  BY DEF Init, Spaced
<1>2. IInv => TypeOK /\ TimerInFlush
  BY DEF IInv, Structure
<1>3. TypeOK /\ TimerInFlush /\ Spaced /\ [Next]_vars => Spaced'
  BY PassSpaced, OthersSpaced
<1>4. TypeOK /\ TimerInFlush /\ Spaced /\ [Next]_vars
        => [at[Main] = 0 /\ at'[Main] # 0 => since_flush' = DEBOUNCE]_vars
  BY PassSpaced, OthersSpaced
<1> QED
  BY <1>1, <1>2, <1>3, <1>4, Invariance, PTL DEF Spec, FlushesAreSpaced

-----------------------------------------------------------------------------
(* The motor hours across /api/restart.                                      *)

\* The steps of POST /api/restart, and how far its handler has come.
Restarting == <<"stop_protection", "stop_persist", "flush", "wait">>
RestartPlan ==
  request = "restart" =>
    /\ todo \in {Restarting, <<"stop_persist", "flush", "wait">>, <<"flush", "wait">>, <<"wait">>}
    /\ todo # Restarting => "protection" \in stopped
    /\ todo = <<"wait">> => notifying[Httpd] = 0

\* A task that flushes has no callback left to run, and only the loop and the
\* handlers publish the hours.
FlushersQuiet ==
  /\ notifying[Client] # Hours
  /\ \A t \in Flushers : at[t] # 0 => notifying[t] = 0
  /\ at[Main] # 0 => main_at = "persist"

\* Once Protection has stopped, the map holds its hours for good.
HoursStopped == "protection" \in stopped => Running /\ map[Hours] = hours

\* The handler's flush has taken the hours in hand, or is past them.
Passed ==
  /\ request = "restart"
  /\ \/ todo = <<"wait">>
     \/ todo = <<"flush", "wait">> /\ (at[Httpd] = KEYS + 1 \/ Holds(Httpd, Hours))

\* From there on nothing makes them dirty again.
HoursSettled ==
  Passed => Hours \in excused \/ (~dirty[Hours] /\ \A t \in Tasks : notifying[t] # Hours)

Restart == RestartPlan /\ FlushersQuiet /\ HoursStopped /\ HoursSettled

\* The handler's steps, one after the other.
LEMMA RestartSteps ==
  /\ Steps["restart"] = Restarting
  /\ Head(Restarting) = "stop_protection" /\ Tail(Restarting) = <<"stop_persist", "flush", "wait">>
  /\ Head(<<"stop_persist", "flush", "wait">>) = "stop_persist"
  /\ Tail(<<"stop_persist", "flush", "wait">>) = <<"flush", "wait">>
  /\ Head(<<"flush", "wait">>) = "flush" /\ Tail(<<"flush", "wait">>) = <<"wait">>
  /\ Head(<<"wait">>) = "wait"
  /\ Restarting # <<"stop_persist", "flush", "wait">>
  /\ Restarting # <<"flush", "wait">> /\ Restarting # <<"wait">>
  /\ <<"flush", "wait">> # <<"wait">>
<1>1. Stop \o <<"flush", "wait">> = Restarting
  <2> DEFINE f == <<"flush", "wait">>
  <2>1. /\ Stop \in Seq(StepNames) /\ Len(Stop) = 2
        /\ Stop[1] = "stop_protection" /\ Stop[2] = "stop_persist"
    BY DEF Stop, StepNames
  <2>2. f \in Seq(StepNames) /\ Len(f) = 2 /\ f[1] = "flush" /\ f[2] = "wait"
    BY DEF StepNames
  <2>3. Restarting \in Seq(StepNames) /\ Len(Restarting) = 4
    BY DEF Restarting, StepNames
  <2> HIDE DEF f
  <2>4. Stop \o f \in Seq(StepNames) /\ Len(Stop \o f) = 4
    BY <2>1, <2>2, ConcatProperties
  <2>5. ASSUME NEW i \in 1..4 PROVE (Stop \o f)[i] = Restarting[i]
    <3>1. (Stop \o f)[i] = IF i <= Len(Stop) THEN Stop[i] ELSE f[i - Len(Stop)]
      <4>1. i \in 1..Len(Stop) + Len(f)
        BY <2>1, <2>2
      <4> QED
        BY <2>1, <2>2, <4>1, ConcatProperties
    <3>2. /\ Restarting[1] = "stop_protection" /\ Restarting[2] = "stop_persist"
          /\ Restarting[3] = "flush" /\ Restarting[4] = "wait"
      BY DEF Restarting
    <3> HIDE DEF Restarting, Stop
    <3> QED
      BY <2>1, <2>2, <3>1, <3>2
  <2> QED
    BY <2>3, <2>4, <2>5, SeqEqual DEF f
<1>2. Steps["restart"] = Stop \o <<"flush", "wait">>
  BY Zenon DEF Steps
<1>3. /\ Head(Restarting) = "stop_protection"
      /\ Tail(Restarting) = <<"stop_persist", "flush", "wait">>
  BY DEF Restarting
<1>4. /\ Head(<<"stop_persist", "flush", "wait">>) = "stop_persist"
      /\ Tail(<<"stop_persist", "flush", "wait">>) = <<"flush", "wait">>
  OBVIOUS
<1>5. /\ Head(<<"flush", "wait">>) = "flush" /\ Tail(<<"flush", "wait">>) = <<"wait">>
      /\ Head(<<"wait">>) = "wait"
  OBVIOUS
<1>6. /\ Restarting # <<"stop_persist", "flush", "wait">>
      /\ Restarting # <<"flush", "wait">> /\ Restarting # <<"wait">>
      /\ <<"flush", "wait">> # <<"wait">>
  BY DEF Restarting
<1> QED
  BY <1>1, <1>2, <1>3, <1>4, <1>5, <1>6

\* The handler follows its plan, and the callback of on_stop is done before it
\* waits.
LEMMA PlanStep ==
  Structure /\ FlushersQuiet /\ RestartPlan /\ [Next]_vars => RestartPlan'
<1> SUFFICES ASSUME Structure, FlushersQuiet, RestartPlan, [Next]_vars PROVE RestartPlan'
  OBVIOUS
<1> USE DEF Structure
<1>1. CASE UNCHANGED <<request, todo, stopped>> /\ notifying'[Httpd] \in {0, notifying[Httpd]}
  BY <1>1 DEF RestartPlan
<1>2. ASSUME NEW r \in Requests, Accept(r) PROVE RestartPlan'
  BY <1>2, RestartSteps DEF Accept, RestartPlan, ram
<1>3. CASE StopProtection
  BY <1>3, RestartSteps DEF StopProtection, Doing, StepDone, RestartPlan
<1>4. CASE StopPersist
  BY <1>4, RestartSteps DEF StopPersist, Doing, StepDone, RestartPlan
<1>5. CASE FlushNow
  BY <1>5, RestartSteps DEF FlushNow, Doing, RestartPlan
<1>6. CASE EraseFlash
  BY <1>6, RestartSteps DEF EraseFlash, Doing, StepDone, RestartPlan
<1>7. CASE FlushDone(Httpd)
  <2>1. at[Httpd] # 0 /\ todo' = Tail(todo) /\ UNCHANGED <<request, stopped, notifying>>
    BY <1>7, Constants DEF FlushDone, Main, Httpd
  <2>2. Head(todo) = "flush" /\ notifying[Httpd] = 0
    BY <2>1 DEF HandlerFlushes, FlushersQuiet, Flushers
  <2> QED
    BY <2>1, <2>2, RestartSteps DEF RestartPlan
<1>8. CASE PowerUp
  BY <1>8 DEF PowerUp, RestartPlan
<1>9. ASSUME NEW t \in Tasks, MarkDirty(t) PROVE RestartPlan'
  BY <1>1, <1>9 DEF MarkDirty, TypeOK, handler, Tasks
<1>10. ASSUME NEW t \in Tasks \ {Httpd}, NEW k \in Keys, NEW v \in Values, Set(t, k, v)
       PROVE  notifying'[Httpd] = notifying[Httpd]
  BY <1>10 DEF Set, TypeOK, Tasks
<1>11. ASSUME NEW compressor \in BOOLEAN, ProtectionUpdate(compressor) PROVE RestartPlan'
  <2>1. notifying'[Httpd] = notifying[Httpd]
    BY <1>11, Constants DEF ProtectionUpdate, Set, TypeOK, Tasks, Main, Httpd
  <2> QED
    BY <1>1, <1>11, <2>1 DEF ProtectionUpdate, handler
<1>12. ASSUME NEW k \in Settings, NEW v \in Values, ClientSets(k, v) PROVE RestartPlan'
  <2>1. notifying'[Httpd] = notifying[Httpd]
    BY <1>12 DEF ClientSets, Set, TypeOK, Tasks, Client, Httpd
  <2> QED
    BY <1>1, <1>12, <2>1 DEF ClientSets, handler
<1>13. ASSUME NEW t \in Flushers, \/ SkipClean(t) \/ ClearDirty(t) \/ ReadValue(t)
                                  \/ WriteValue(t) \/ FlushDone(Main) \/ PersistUpdate
       PROVE  RestartPlan'
  BY <1>1, <1>13 DEF SkipClean, ClearDirty, ReadValue, WriteValue, FlushDone, PersistUpdate, handler
<1>14. CASE BootStep \/ UNCHANGED vars
  BY <1>1, <1>14 DEF BootStep, RestoreKey, Migrate, MigrateWrite, MigrateErase, ReadHours,
     vars, ram, handler
<1> QED
  BY <1>2, <1>3, <1>4, <1>5, <1>6, <1>7, <1>8, <1>9, <1>11, <1>12, <1>13, <1>14
  DEF Next, MainStep, HttpdStep, ClientStep, FlushStep, PowerCut, EspRestart, Flushers, Tasks

\* A flush begins after the callbacks of its task, and no set comes in between.
LEMMA QuietStep ==
  Structure /\ FlushersQuiet /\ [Next]_vars => FlushersQuiet'
<1> SUFFICES ASSUME Structure, FlushersQuiet, [Next]_vars PROVE FlushersQuiet'
  OBVIOUS
<1> USE DEF Structure
<1>1. CASE UNCHANGED <<notifying, at, main_at>>
  BY <1>1 DEF FlushersQuiet
<1>2. CASE PersistUpdate
  BY <1>2 DEF PersistUpdate, OpenFails, FlushersQuiet, TypeOK, Flushers, Main, Httpd
<1>3. ASSUME NEW t \in Flushers, SkipClean(t) \/ ReadValue(t) \/ WriteValue(t)
      PROVE  FlushersQuiet'
  <2>1. UNCHANGED <<notifying, main_at>> /\ at[t] # 0 /\ at' \in {at, [at EXCEPT ![t] = @ + 1]}
    BY <1>3, Constants DEF SkipClean, ReadValue, WriteValue, NextKey, Flushing
  <2> QED
    BY <2>1 DEF FlushersQuiet, TypeOK, Flushers
<1>4. ASSUME NEW t \in Flushers, ClearDirty(t) PROVE FlushersQuiet'
  BY <1>1, <1>4 DEF ClearDirty
<1>5. ASSUME NEW t \in Flushers, FlushDone(t) PROVE FlushersQuiet'
  BY <1>5 DEF FlushDone, FlushersQuiet, TypeOK, Flushers, Main, Httpd
<1>6. ASSUME NEW t \in Tasks, MarkDirty(t) PROVE FlushersQuiet'
  BY <1>6, Constants DEF MarkDirty, FlushersQuiet, TypeOK, Tasks, Flushers
<1>7. ASSUME NEW compressor \in BOOLEAN, ProtectionUpdate(compressor) PROVE FlushersQuiet'
  <2>1. at[Main] = 0
    BY <1>7 DEF ProtectionUpdate, FlushersQuiet
  <2>2. at' = at /\ \A t \in Tasks \ {Main} : notifying'[t] = notifying[t]
    BY <1>7 DEF ProtectionUpdate, Set, TypeOK, Tasks
  <2> QED
    BY <2>1, <2>2 DEF FlushersQuiet, Tasks, Flushers, Main, Httpd, Client
<1>8. CASE StopProtection
  <2>1. at[Httpd] = 0
    BY <1>8 DEF StopProtection, Doing, HandlerFlushes
  <2>2. UNCHANGED <<at, main_at>> /\ \A t \in Tasks \ {Httpd} : notifying'[t] = notifying[t]
    BY <1>8 DEF StopProtection, Set, TypeOK, Tasks
  <2> QED
    BY <2>1, <2>2 DEF FlushersQuiet, Tasks, Flushers, Main, Httpd, Client
<1>9. CASE FlushNow
  <2>1. UNCHANGED <<notifying, main_at>> /\ notifying[Httpd] = 0
    BY <1>9 DEF FlushNow, Doing
  <2>2. \A t \in Flushers \ {Httpd} : at'[t] = at[t]
    BY <1>9 DEF FlushNow, TypeOK
  <2> QED
    BY <2>1, <2>2 DEF FlushersQuiet, Flushers, Main, Httpd
<1>10. CASE EraseFlash
  BY <1>10 DEF EraseFlash, FlushersQuiet, Flushers
<1>11. CASE PowerUp
  BY <1>11, Constants DEF PowerUp, FlushersQuiet, Flushers, Tasks
<1>12. ASSUME NEW k \in Settings, NEW v \in Values, ClientSets(k, v) PROVE FlushersQuiet'
  <2>1. UNCHANGED <<at, main_at>> /\ \A t \in Tasks \ {Client} : notifying'[t] = notifying[t]
    BY <1>12 DEF ClientSets, Set, TypeOK, Tasks
  <2>2. notifying'[Client] # Hours
    BY <1>12, Constants DEF ClientSets, Set, TypeOK, Tasks, Settings
  <2> QED
    BY <2>1, <2>2 DEF FlushersQuiet, Tasks, Flushers, Main, Httpd, Client
<1>13. CASE StopPersist \/ BootStep \/ UNCHANGED vars \/ \E r \in Requests : Accept(r)
  BY <1>1, <1>13 DEF StopPersist, Accept, BootStep, RestoreKey, Migrate, MigrateWrite,
     MigrateErase, ReadHours, vars, ram
<1> QED
  BY <1>2, <1>3, <1>4, <1>5, <1>6, <1>7, <1>8, <1>9, <1>10, <1>11, <1>12, <1>13
  DEF Next, MainStep, HttpdStep, ClientStep, FlushStep, PowerCut, EspRestart, Flushers, Tasks

\* on_stop publishes the field, and nothing but Protection and a boot changes
\* either.
LEMMA StoppedStep == Structure /\ HoursStopped /\ [Next]_vars => HoursStopped'
<1> SUFFICES ASSUME Structure, HoursStopped, [Next]_vars PROVE HoursStopped'
  OBVIOUS
<1> USE DEF Structure
<1>1. CASE UNCHANGED <<booting, hours>> /\ map'[Hours] = map[Hours]
           /\ ("protection" \in stopped' => "protection" \in stopped)
  BY <1>1 DEF HoursStopped, Running
<1>2. CASE StopProtection
  <2>1. booting' = KEYS + 2
    BY <1>2 DEF StopProtection, Doing, BootAlone, boot
  <2>2. map'[Hours] = hours /\ hours' = hours
    BY <1>2, Constants DEF StopProtection, Set, TypeOK
  <2> QED
    BY <2>1, <2>2 DEF HoursStopped, Running
<1>3. CASE PowerUp
  BY <1>3 DEF PowerUp, HoursStopped
<1>4. CASE BootStep
  <2>1. booting # KEYS + 2 /\ stopped' = stopped
    BY <1>4, Constants DEF BootStep, RestoreKey, Migrate, MigrateWrite, MigrateErase,
       ReadHours, MigratesKey, Keys, ram, TypeOK
  <2> QED
    BY <2>1 DEF HoursStopped, Running
<1>5. ASSUME NEW compressor \in BOOLEAN, ProtectionUpdate(compressor) PROVE HoursStopped'
  BY <1>1, <1>5 DEF ProtectionUpdate, HoursStopped, boot
<1>6. ASSUME NEW k \in Settings, NEW v \in Values, ClientSets(k, v) PROVE HoursStopped'
  <2>1. map'[Hours] = map[Hours]
    BY <1>6, Constants DEF ClientSets, Set, TypeOK, Settings
  <2> QED
    BY <1>1, <1>6, <2>1 DEF ClientSets, boot
<1>7. ASSUME NEW t \in Tasks, MarkDirty(t) PROVE HoursStopped'
  BY <1>1, <1>7 DEF MarkDirty, boot
<1>8. ASSUME NEW t \in Flushers,
             SkipClean(t) \/ ClearDirty(t) \/ ReadValue(t) \/ WriteValue(t) \/ FlushDone(t)
      PROVE  HoursStopped'
  BY <1>1, <1>8 DEF SkipClean, ClearDirty, ReadValue, WriteValue, FlushDone, boot
<1>9. CASE \/ PersistUpdate \/ StopPersist \/ FlushNow \/ EraseFlash \/ UNCHANGED vars
           \/ \E r \in Requests : Accept(r)
  BY <1>1, <1>9 DEF PersistUpdate, StopPersist, FlushNow, EraseFlash, Accept, vars, ram, boot
<1> QED
  BY <1>2, <1>3, <1>4, <1>5, <1>6, <1>7, <1>8, <1>9
  DEF Next, MainStep, HttpdStep, ClientStep, FlushStep, PowerCut, EspRestart, Flushers, Tasks

\* What the plan says of a handler that has passed the hours.
LEMMA PassedMeans ==
  ASSUME Structure, FlushersQuiet, RestartPlan, Passed
  PROVE  /\ "protection" \in stopped /\ notifying[Httpd] = 0
         /\ todo = <<"wait">> => at[Httpd] = 0
<1>1. todo = <<"wait">> => at[Httpd] = 0
  BY RestartSteps DEF Structure, HandlerFlushes, Passed
<1>2. CASE todo = <<"wait">>
  BY <1>1, <1>2, RestartSteps DEF RestartPlan, Passed
<1>3. CASE todo = <<"flush", "wait">>
  <2>1. at[Httpd] # 0
    BY <1>3, RestartSteps, Constants DEF Passed, Holds
  <2> QED
    BY <1>3, <2>1, RestartSteps DEF RestartPlan, Passed, FlushersQuiet, Flushers
<1> QED
  BY <1>1, <1>2, <1>3 DEF Passed

\* Past the hours, the flags and the callbacks leave them alone: Protection no
\* longer publishes, and whatever was still to come has excused them.
LEMMA SettledStep ==
  Structure /\ FlushersQuiet /\ RestartPlan /\ HoursSettled /\ [Next]_vars => HoursSettled'
<1> DEFINE Settled == Hours \in excused \/ (~dirty[Hours] /\ \A t \in Tasks : notifying[t] # Hours)
<1> SUFFICES ASSUME Structure, FlushersQuiet, RestartPlan, HoursSettled, [Next]_vars, Passed'
             PROVE  Settled'
  BY DEF HoursSettled
<1> USE DEF Structure
<1>1. Hours = KEYS /\ Hours \in Keys /\ KEYS \in Nat
  BY Constants DEF Hours
<1>2. ASSUME UNCHANGED <<dirty, notifying>>, excused \subseteq excused', Passed
      PROVE  Settled'
  BY <1>2 DEF HoursSettled
<1>3. ASSUME UNCHANGED handler, at'[Httpd] = at[Httpd], held'[Httpd] = held[Httpd]
      PROVE  Passed
  BY <1>3 DEF Passed, Holds, handler
<1>4. CASE PersistUpdate
  <2>1. UNCHANGED <<dirty, notifying, handler, held, excused>> /\ at'[Httpd] = at[Httpd]
    BY <1>4 DEF PersistUpdate, OpenFails, TypeOK, Flushers, Main, Httpd
  <2> QED
    BY <1>2, <1>3, <2>1
<1>5. CASE SkipClean(Main)
  <2>1. UNCHANGED <<dirty, notifying, handler>> /\ excused \subseteq excused'
    BY <1>5 DEF SkipClean
  <2>2. at'[Httpd] = at[Httpd] /\ held'[Httpd] = held[Httpd]
    BY <1>5 DEF SkipClean, NextKey, TypeOK, Flushers, Main, Httpd
  <2> QED
    BY <1>2, <1>3, <2>1, <2>2
<1>6. CASE SkipClean(Httpd)
  <2>1. /\ UNCHANGED <<dirty, notifying, handler>>
        /\ at[Httpd] \in Keys /\ at'[Httpd] = at[Httpd] + 1 /\ held'[Httpd] = Idle
    BY <1>6 DEF SkipClean, Flushing, NextKey, TypeOK, Flushers
  <2>2. todo = <<"flush", "wait">> /\ at'[Httpd] = KEYS + 1
    BY <2>1, RestartSteps DEF Passed, Holds, Idle, HandlerFlushes, Keys, handler
  <2>3. at[Httpd] = Hours
    BY <1>1, <2>1, <2>2 DEF Keys
  <2>4. ~dirty[Hours] /\ notifying[Httpd] = 0
    BY <1>1, <1>6, <2>3 DEF SkipClean, FlushersQuiet, Keys, Flushers
  <2>5. InOtherHands(Httpd, Hours) => Hours \in excused'
    BY <1>6, <2>3 DEF SkipClean
  <2> QED
    BY <1>1, <2>1, <2>4, <2>5 DEF InOtherHands, Keys
<1>7. CASE ClearDirty(Main)
  <2>1. UNCHANGED <<notifying, handler, at>> /\ held'[Httpd] = held[Httpd]
    BY <1>7 DEF ClearDirty, TypeOK, Flushers, Main, Httpd
  <2>2. Passed
    BY <1>3, <2>1
  <2>3. CASE at[Main] = Hours
    <3>1. ~dirty'[Hours]
      BY <1>1, <1>7, <2>3 DEF ClearDirty, TypeOK
    <3>2. notifying[Main] = 0 /\ notifying[Client] # Hours
      BY <1>1, <2>3 DEF FlushersQuiet, Flushers, Keys
    <3> QED
      BY <1>1, <2>1, <2>2, <3>1, <3>2, PassedMeans DEF Tasks, Keys
  <2>4. CASE at[Main] # Hours
    <3>1. dirty'[Hours] = dirty[Hours] /\ (Hours \in excused => Hours \in excused')
      BY <1>1, <1>7, <2>4 DEF ClearDirty, Flushing, TypeOK
    <3> QED
      BY <2>1, <2>2, <3>1 DEF HoursSettled
  <2> QED
    BY <2>3, <2>4
<1>8. CASE ClearDirty(Httpd)
  <2>1. at[Httpd] \in Keys /\ at' = at /\ UNCHANGED <<notifying, handler>>
    BY <1>8 DEF ClearDirty, Flushing
  <2>2. at[Httpd] = Hours
    BY <1>1, <2>1, RestartSteps DEF Passed, Holds, HandlerFlushes, Keys, handler
  <2>3. ~dirty'[Hours] /\ notifying[Httpd] = 0
    BY <1>1, <1>8, <2>2 DEF ClearDirty, TypeOK, FlushersQuiet, Flushers, Keys
  <2>4. InOtherHands(Httpd, Hours) => Hours \in excused'
    BY <1>8, <2>2 DEF ClearDirty
  <2> QED
    BY <1>1, <2>1, <2>3, <2>4 DEF InOtherHands, Keys
<1>9. ASSUME NEW t \in Flushers, ReadValue(t) \/ WriteValue(t) PROVE Settled'
  <2>1. UNCHANGED <<dirty, notifying, handler>> /\ excused \subseteq excused'
    BY <1>9 DEF ReadValue, WriteValue
  <2>2. CASE t = Httpd
    <3>1. at[Httpd] \in Keys /\ held[Httpd].step # "idle"
      BY <1>9, <2>2 DEF ReadValue, WriteValue, Flushing
    <3>2. /\ at'[Httpd] \in {at[Httpd], at[Httpd] + 1}
          /\ Holds(Httpd, Hours)' => at'[Httpd] = at[Httpd]
      BY <1>9, <2>2 DEF ReadValue, WriteValue, NextKey, Holds, Idle, TypeOK, Flushers
    <3>3. todo' # <<"wait">>
      BY <2>1, <3>1, RestartSteps, Constants DEF HandlerFlushes, handler
    <3>4. at[Httpd] = Hours
      BY <1>1, <3>1, <3>2, <3>3 DEF Passed, Holds, Keys
    <3>5. Passed
      BY <2>1, <3>1, <3>3, <3>4 DEF Passed, Holds, handler
    <3> QED
      BY <1>2, <2>1, <3>5
  <2>3. CASE t # Httpd
    <3>1. at'[Httpd] = at[Httpd] /\ held'[Httpd] = held[Httpd]
      BY <1>9, <2>3 DEF ReadValue, WriteValue, NextKey, TypeOK, Flushers
    <3> QED
      BY <1>2, <1>3, <2>1, <3>1
  <2> QED
    BY <2>2, <2>3
<1>10. CASE FlushDone(Main)
  <2>1. /\ UNCHANGED <<dirty, notifying, handler, held, excused>>
        /\ at'[Httpd] = at[Httpd]
    BY <1>10 DEF FlushDone, TypeOK, Flushers, Main, Httpd, handler
  <2> QED
    BY <1>2, <1>3, <2>1
<1>11. CASE FlushDone(Httpd)
  <2>1. /\ UNCHANGED <<dirty, notifying, request, excused>>
        /\ at[Httpd] = KEYS + 1 /\ todo' = Tail(todo)
    BY <1>11 DEF FlushDone, Main, Httpd
  <2>2. Head(todo) = "flush"
    BY <1>1, <2>1 DEF HandlerFlushes
  <2>3. Passed
    BY <2>1, <2>2, RestartSteps DEF Passed, RestartPlan
  <2> QED
    BY <1>2, <2>1, <2>3
<1>12. ASSUME NEW t \in Tasks, MarkDirty(t) PROVE Settled'
  <2>1. UNCHANGED <<handler, at, held, excused>>
    BY <1>12 DEF MarkDirty, histories
  <2>2. Passed
    BY <1>3, <2>1
  <2>3. CASE notifying[t] = Hours
    BY <1>1, <2>1, <2>2, <2>3 DEF HoursSettled
  <2>4. CASE notifying[t] # Hours
    <3>1. dirty'[Hours] = dirty[Hours]
      BY <1>1, <1>12, <2>4 DEF MarkDirty, TypeOK
    <3>2. \A u \in Tasks : notifying'[u] \in {0, notifying[u]}
      BY <1>12 DEF MarkDirty, TypeOK
    <3> QED
      BY <1>1, <2>1, <2>2, <3>1, <3>2 DEF HoursSettled, Keys
  <2> QED
    BY <2>3, <2>4
<1>13. ASSUME NEW compressor \in BOOLEAN, ProtectionUpdate(compressor) PROVE Settled'
  <2>1. UNCHANGED <<dirty, at, held, handler, stopped, excused>>
    BY <1>13 DEF ProtectionUpdate, histories
  <2>2. Passed
    BY <1>3, <2>1
  <2>3. notifying' = notifying
    BY <1>13, <2>2, PassedMeans DEF ProtectionUpdate
  <2> QED
    BY <1>2, <2>1, <2>2, <2>3
<1>14. ASSUME NEW r \in Requests, Accept(r) PROVE Settled'
  BY <1>14, RestartSteps DEF Accept, Passed
<1>15. CASE StopProtection
  BY <1>15, RestartSteps DEF StopProtection, Doing, StepDone, Passed, RestartPlan
<1>16. CASE StopPersist
  <2>1. at[Httpd] = 0 /\ at' = at
    BY <1>16 DEF StopPersist, Doing, HandlerFlushes
  <2>2. todo' # <<"wait">>
    BY <1>16, RestartSteps DEF StopPersist, Doing, StepDone, Passed, RestartPlan
  <2> QED
    BY <1>1, <2>1, <2>2, Constants DEF Passed, Holds
<1>17. CASE FlushNow
  <2>1. CASE excused' = Keys
    BY <1>1, <2>1
  <2>2. CASE at' = [at EXCEPT ![Httpd] = 1] /\ UNCHANGED todo
    <3>1. todo' # <<"wait">> /\ at'[Httpd] = 1 /\ at[Httpd] = 0 /\ held' = held
      BY <1>17, <2>2, RestartSteps DEF FlushNow, Doing, TypeOK, Flushers
    <3>2. held'[Httpd] = Idle
      BY <3>1, Constants DEF HandsEmpty, Flushers
    <3> QED
      BY <1>1, <3>1, <3>2, Constants DEF Passed, Holds, Idle
  <2> QED
    BY <1>17, <2>1, <2>2 DEF FlushNow
<1>18. CASE EraseFlash
  BY <1>1, <1>18 DEF EraseFlash
<1>19. CASE PowerUp
  BY <1>19 DEF PowerUp, Passed
<1>20. ASSUME NEW k \in Settings, NEW v \in Values, ClientSets(k, v) PROVE Settled'
  <2>1. UNCHANGED <<dirty, at, held, handler, excused>>
    BY <1>20 DEF ClientSets, histories
  <2>2. Passed
    BY <1>3, <2>1
  <2>3. \A t \in Tasks : notifying'[t] \in {0, k, notifying[t]}
    BY <1>20 DEF ClientSets, Set, TypeOK
  <2>4. k # Hours /\ Hours # 0
    BY <1>1 DEF Settings, Keys
  <2>5. \A t \in Tasks : notifying[t] # Hours => notifying'[t] # Hours
    BY <2>3, <2>4
  <2> QED
    BY <2>1, <2>2, <2>5 DEF HoursSettled
<1>21. CASE BootStep \/ UNCHANGED vars
  <2>1. UNCHANGED <<dirty, notifying, at, held, handler>> /\ excused \subseteq excused'
    BY <1>21 DEF BootStep, RestoreKey, Migrate, MigrateWrite, MigrateErase, ReadHours,
       vars, ram, histories
  <2> QED
    BY <1>2, <1>3, <2>1
<1> QED
  BY <1>4, <1>5, <1>6, <1>7, <1>8, <1>9, <1>10, <1>11, <1>12, <1>13, <1>14, <1>15, <1>16,
     <1>17, <1>18, <1>19, <1>20, <1>21
  DEF Next, MainStep, HttpdStep, ClientStep, FlushStep, PowerCut, EspRestart, Flushers, Tasks

\* A power-up starts with none of it.
LEMMA InitRestart == Init => Restart
BY Constants DEF Init, Restart, RestartPlan, FlushersQuiet, HoursStopped, HoursSettled, Passed,
   Flushers, Tasks

\* POST /api/restart loses no motor hours: what on_stop publishes is in NVS
\* when the unit restarts - unless NVS or the mutex refused it, the loop holds
\* it and is about to write it, or both tasks flushed the key at once.
THEOREM HoursSurviveRestart == Spec => []RestartKeepsHours
<1>1. IInv /\ Restart /\ [Next]_vars => Restart'
  BY PlanStep, QuietStep, StoppedStep, SettledStep DEF IInv, Restart
<1>2. IInv /\ Restart => RestartKeepsHours
  <2> SUFFICES ASSUME IInv, Restart, request = "restart", todo = <<"wait">>, notifying[Httpd] = 0,
                      Hours \notin excused, ~Holds(Main, Hours)
               PROVE  Restored(Hours) = hours
    BY DEF RestartKeepsHours, HoursKeptBy
  <2> USE DEF IInv, Restart
  <2>1. Passed
    BY DEF Passed
  <2>2. "protection" \in stopped /\ at[Httpd] = 0
    BY <2>1, PassedMeans
  <2>3. map[Hours] = hours /\ booting > Hours
    BY <2>2, Constants DEF HoursStopped, Running, Hours
  <2>4. ~Holds(Httpd, Hours)
    BY <2>2, Constants DEF Holds
  <2>5. ~dirty[Hours] /\ \A t \in Tasks : notifying[t] # Hours
    BY <2>1 DEF HoursSettled
  <2> QED
    BY <2>3, <2>4, <2>5, Constants DEF NothingForgotten, Accounted, Flushers
<1> QED
  BY <1>1, <1>2, InitRestart, Invariance, PTL DEF Spec

=============================================================================
