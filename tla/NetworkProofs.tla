---------------------------- MODULE NetworkProofs ----------------------------
(* Theorems about the network services: Wifi, for every number of retries and *)
(* of events that wait; and LiveView, for every map of keys, set of sockets    *)
(* and capacity of the lists and the queue.                                    *)
EXTENDS Wifi, LiveView, FiniteSetTheorems, TLAPS

-----------------------------------------------------------------------------
(* Wifi: types                                                               *)

Tokens     == {"started", "disconnected", "got_ip"}
DriverType == [mode : {"off", "sta", "ap", "apsta"}, sta : {"idle", "trying", "up"},
               events : Seq(Tokens)]
Modes      == {"sta", "ap", "apsta"}

-----------------------------------------------------------------------------
(* Wifi: the driver                                                          *)

\* A station that is down has said so: there is a notice among the events, later
\* than any news of an address.
DownTold(d) ==
  d.sta = "up" \/ \E i \in 1..Len(d.events) : d.events[i] = "disconnected"

LateTold(d) ==
  \A i \in 1..Len(d.events) : d.events[i] = "got_ip" =>
    d.sta = "up" \/ \E j \in (i + 1)..Len(d.events) : d.events[j] = "disconnected"

\* What every step of the driver keeps, from d to e.
Keeps(d, e) ==
  /\ e \in DriverType
  /\ DownTold(d) => DownTold(e)
  /\ LateTold(d) => LateTold(e)

LEMMA KeepsTransitive ==
  ASSUME NEW d, NEW e, NEW f, Keeps(d, e), Keeps(e, f)
  PROVE  Keeps(d, f)
BY DEF Keeps

LEMMA KeepsItself ==
  ASSUME NEW d \in DriverType
  PROVE  Keeps(d, d)
BY DEF Keeps

LEMMA PostKeeps ==
  ASSUME NEW d \in DriverType, NEW e \in {"started", "disconnected"}
  PROVE  Keeps(d, Post(d, e)) /\ Post(d, e).mode = d.mode
<1> DEFINE p == Post(d, e)
           n == Len(d.events)
<1>1. d.events \in Seq(Tokens) /\ n \in Nat /\ e \in Tokens
  BY DEF DriverType, Tokens
<1>2. p = [d EXCEPT !.events = Append(d.events, e)]
  BY DEF Post
<1>3. /\ p \in DriverType /\ p.sta = d.sta /\ p.mode = d.mode
      /\ Len(p.events) = n + 1 /\ p.events[n + 1] = e
      /\ \A i \in 1..n : p.events[i] = d.events[i]
  <2>1. /\ Append(d.events, e) \in Seq(Tokens) /\ Len(Append(d.events, e)) = n + 1
        /\ Append(d.events, e)[n + 1] = e
        /\ \A i \in 1..n : Append(d.events, e)[i] = d.events[i]
    BY <1>1
  <2>2. p \in DriverType /\ p.sta = d.sta /\ p.mode = d.mode /\ p.events = Append(d.events, e)
    BY <1>2, <2>1 DEF DriverType
  <2> QED
    BY <2>1, <2>2
<1> HIDE DEF p, n
<1>4. DownTold(d) => DownTold(p)
  BY <1>1, <1>3 DEF DownTold, n
<1>5. ASSUME LateTold(d)
      PROVE  LateTold(p)
  <2> SUFFICES ASSUME NEW i \in 1..(n + 1), p.events[i] = "got_ip", p.sta # "up"
               PROVE  \E j \in (i + 1)..(n + 1) : p.events[j] = "disconnected"
    BY <1>3 DEF LateTold
  <2>1. i \in 1..n /\ d.events[i] = "got_ip" /\ d.sta # "up"
    BY <1>1, <1>3
  <2>2. PICK j \in (i + 1)..n : d.events[j] = "disconnected"
    BY <1>5, <2>1 DEF LateTold, n
  <2>3. j \in (i + 1)..(n + 1) /\ p.events[j] = "disconnected"
    BY <1>1, <1>3, <2>1, <2>2
  <2> QED
    BY <2>3
<1> QED
  BY <1>3, <1>4, <1>5 DEF Keeps, p

LEMMA DisconnectKeeps ==
  ASSUME NEW d \in DriverType
  PROVE  Keeps(d, Disconnect(d)) /\ Disconnect(d).mode = d.mode
<1>1. CASE d.sta = "idle"
  BY <1>1, KeepsItself DEF Disconnect
<1>2. CASE d.sta # "idle"
  <2> DEFINE p == Disconnect(d)
             n == Len(d.events)
  <2>1. d.events \in Seq(Tokens) /\ n \in Nat
    BY DEF DriverType
  <2>2. p = [d EXCEPT !.sta = "idle", !.events = Append(d.events, "disconnected")]
    BY <1>2 DEF Disconnect, Post, DriverType
  <2>3. /\ p \in DriverType /\ p.mode = d.mode
        /\ Len(p.events) = n + 1 /\ p.events[n + 1] = "disconnected"
        /\ \A i \in 1..n : p.events[i] = d.events[i]
    <3>1. /\ Append(d.events, "disconnected") \in Seq(Tokens)
          /\ Len(Append(d.events, "disconnected")) = n + 1
          /\ Append(d.events, "disconnected")[n + 1] = "disconnected"
          /\ \A i \in 1..n : Append(d.events, "disconnected")[i] = d.events[i]
      BY <2>1 DEF Tokens
    <3>2. /\ p \in DriverType /\ p.mode = d.mode
          /\ p.events = Append(d.events, "disconnected")
      BY <2>2, <3>1 DEF DriverType
    <3> QED
      BY <3>1, <3>2
  <2> HIDE DEF p, n
  <2>4. DownTold(p)
    BY <2>1, <2>3 DEF DownTold
  <2>5. LateTold(p)
    BY <2>1, <2>3 DEF LateTold
  <2> QED
    BY <2>3, <2>4, <2>5 DEF Keeps, p
<1> QED
  BY <1>1, <1>2

LEMMA ConnectKeeps ==
  ASSUME NEW d \in DriverType
  PROVE  Keeps(d, Connect(d)) /\ Connect(d).mode = d.mode
<1>1. CASE Connect(d) = d
  BY <1>1, KeepsItself
<1>2. CASE d.sta = "idle" /\ Connect(d) = [d EXCEPT !.sta = "trying"]
  BY <1>2 DEF Keeps, DownTold, LateTold, DriverType
<1> QED
  BY <1>1, <1>2 DEF Connect

LEMMA ModeKeeps ==
  ASSUME NEW d \in DriverType, NEW m \in {"off", "sta", "ap", "apsta"}
  PROVE  Keeps(d, [d EXCEPT !.mode = m])
BY DEF Keeps, DownTold, LateTold, DriverType

LEMMA SetModeKeeps ==
  ASSUME NEW d \in DriverType, NEW m \in Modes
  PROVE  Keeps(d, SetMode(d, m)) /\ SetMode(d, m).mode = m
<1> DEFINE kept == IF m \in StaModes THEN d ELSE Disconnect(d)
           new  == [kept EXCEPT !.mode = m]
<1>1. Keeps(d, kept) /\ kept \in DriverType
  BY DisconnectKeeps, KeepsItself DEF Keeps
<1>2. Keeps(kept, new)
  BY <1>1, ModeKeeps DEF Modes
<1>3. Keeps(d, new) /\ new \in DriverType
  BY <1>1, <1>2, KeepsTransitive DEF Keeps
<1>4. new.mode = m
  BY <1>1 DEF DriverType
<1>5. Keeps(new, Post(new, "started")) /\ Post(new, "started").mode = m
  BY <1>3, <1>4, PostKeeps
<1>6. SetMode(d, m) \in {new, Post(new, "started")}
  BY DEF SetMode
<1> HIDE DEF new
<1>7. CASE SetMode(d, m) = new
  BY <1>3, <1>4, <1>7
<1>8. CASE SetMode(d, m) = Post(new, "started")
  BY <1>3, <1>5, <1>8, KeepsTransitive
<1> QED
  BY <1>6, <1>7, <1>8

LEMMA StoppedKeeps ==
  ASSUME NEW d \in DriverType
  PROVE  Keeps(d, Stopped(d))
<1>1. Keeps(d, Disconnect(d)) /\ Disconnect(d) \in DriverType
  BY DisconnectKeeps DEF Keeps
<1>2. Keeps(Disconnect(d), Stopped(d))
  BY <1>1, ModeKeeps DEF Stopped
<1> QED
  BY <1>1, <1>2, KeepsTransitive

\* The handler takes an event.
LEMMA RestOfEvents ==
  ASSUME driver \in DriverType, driver.events # <<>>
  PROVE  /\ Rest \in DriverType /\ Rest.mode = driver.mode /\ Rest.sta = driver.sta
         /\ LateTold(driver) => LateTold(Rest)
         /\ LateTold(driver) /\ Head(driver.events) = "got_ip" => DownTold(Rest)
         /\ DownTold(driver) /\ Head(driver.events) # "disconnected" => DownTold(Rest)
<1> DEFINE n == Len(driver.events)
           r == Rest
<1>1. driver.events \in Seq(Tokens) /\ n \in Nat \ {0}
  BY DEF DriverType
<1>2. /\ r \in DriverType /\ r.mode = driver.mode /\ r.sta = driver.sta
      /\ r.events = Tail(driver.events)
  BY <1>1 DEF Rest, DriverType
<1>3. /\ Len(r.events) = n - 1
      /\ \A i \in 1..(n - 1) : r.events[i] = driver.events[i + 1]
      /\ Head(driver.events) = driver.events[1]
  BY <1>1, <1>2
<1> HIDE DEF n, r
<1>4. ASSUME LateTold(driver)
      PROVE  LateTold(r)
  <2> SUFFICES ASSUME NEW i \in 1..(n - 1), r.events[i] = "got_ip", r.sta # "up"
               PROVE  \E j \in (i + 1)..(n - 1) : r.events[j] = "disconnected"
    BY <1>3 DEF LateTold
  <2>1. i + 1 \in 1..n /\ driver.events[i + 1] = "got_ip" /\ driver.sta # "up"
    BY <1>1, <1>2, <1>3
  <2>2. PICK k \in (i + 2)..n : driver.events[k] = "disconnected"
    BY <1>1, <1>4, <2>1 DEF LateTold, n
  <2>3. k - 1 \in (i + 1)..(n - 1) /\ r.events[k - 1] = "disconnected"
    BY <1>1, <1>3, <2>2
  <2> QED
    BY <2>3
<1>5. ASSUME LateTold(driver), Head(driver.events) = "got_ip"
      PROVE  DownTold(r)
  <2> SUFFICES ASSUME r.sta # "up"
               PROVE  \E j \in 1..(n - 1) : r.events[j] = "disconnected"
    BY <1>3 DEF DownTold
  <2>1. PICK k \in 2..n : driver.events[k] = "disconnected"
    BY <1>1, <1>2, <1>3, <1>5 DEF LateTold, n
  <2>2. k - 1 \in 1..(n - 1) /\ r.events[k - 1] = "disconnected"
    BY <1>1, <1>3, <2>1
  <2> QED
    BY <2>2
<1>6. ASSUME DownTold(driver), Head(driver.events) # "disconnected"
      PROVE  DownTold(r)
  <2> SUFFICES ASSUME r.sta # "up"
               PROVE  \E j \in 1..(n - 1) : r.events[j] = "disconnected"
    BY <1>3 DEF DownTold
  <2>1. PICK k \in 1..n : driver.events[k] = "disconnected"
    BY <1>2, <1>6 DEF DownTold, n
  <2>2. k - 1 \in 1..(n - 1) /\ r.events[k - 1] = "disconnected"
    BY <1>1, <1>3, <1>6, <2>1
  <2> QED
    BY <2>2
<1> QED
  BY <1>2, <1>4, <1>5, <1>6 DEF r

-----------------------------------------------------------------------------
(* Wifi: the invariant                                                       *)

\* A probe needs an access point; while the main loop is between a decision and its
\* flags, no other task has taken away what it decided on.
Roles ==
  /\ probing => ap_mode
  /\ loop = "probe" => ap_mode /\ ~probing
  /\ loop = "start_ap" => ~probing /\ driver.mode \in {"ap", "apsta"}
  /\ ap_mode => driver.mode \in {"ap", "apsta"}

Told ==
  /\ LateTold(driver)
  /\ connected /\ ~ap_mode => DownTold(driver)

LEMMA DriverTyped ==
  ASSUME TypeOK
  PROVE  driver \in DriverType /\ driver.mode \in Modes
BY DEF TypeOK, DriverType, Modes, Tokens

LEMMA TypedDriver ==
  ASSUME NEW d \in DriverType, d.mode \in Modes
  PROVE  d \in [mode : {"sta", "ap", "apsta"}, sta : {"idle", "trying", "up"},
                events : Seq({"started", "disconnected", "got_ip"})]
BY DEF DriverType, Modes, Tokens

LEMMA ToldKept ==
  ASSUME Told, Keeps(driver, driver'), connected' /\ ~ap_mode' => connected /\ ~ap_mode
  PROVE  Told'
BY DEF Told, Keeps

LEMMA Zero == 0 \in 0..MAX_RETRIES /\ 0 \in 0..MAX_TROUBLE
BY WifiAssumption

LEMMA TroubleType ==
  ASSUME TypeOK, Trouble \/ UNCHANGED trouble
  PROVE  trouble' \in 0..MAX_TROUBLE
BY WifiAssumption DEF TypeOK, Trouble

LEMMA OffKeeps ==
  ASSUME NEW m \in Modes
  PROVE  /\ SetMode(Off, m) \in DriverType /\ SetMode(Off, m).mode = m
         /\ LateTold(SetMode(Off, m))
<1>1. Off \in DriverType /\ LateTold(Off)
  BY DEF Off, DriverType, LateTold
<1> QED
  BY <1>1, SetModeKeeps DEF Keeps

LEMMA InitInvariant == Init => TypeOK /\ Roles /\ Told
<1> SUFFICES ASSUME Init
             PROVE  TypeOK /\ Roles /\ Told
  OBVIOUS
<1>1. /\ driver \in DriverType /\ LateTold(driver)
      /\ driver.mode = IF ssid THEN "sta" ELSE "ap"
  BY OffKeeps DEF Init, Modes
<1>2. TypeOK
  <2>1. driver \in [mode : {"sta", "ap", "apsta"}, sta : {"idle", "trying", "up"},
                    events : Seq({"started", "disconnected", "got_ip"})]
    BY <1>1, TypedDriver DEF Modes
  <2> QED
    BY <2>1, Zero DEF Init, TypeOK
<1> QED
  BY <1>1, <1>2 DEF Init, Roles, Told

\* A start of the service leaves nothing of what was.
LEMMA BootInvariant ==
  ASSUME TypeOK, Boot, Trouble
  PROVE  (TypeOK /\ Roles /\ Told)'
<1>1. /\ driver' \in DriverType /\ LateTold(driver')
      /\ driver'.mode = IF ssid THEN "sta" ELSE "ap"
  BY OffKeeps DEF Boot, Modes
<1>2. TypeOK'
  <2>1. driver' \in [mode : {"sta", "ap", "apsta"}, sta : {"idle", "trying", "up"},
                     events : Seq({"started", "disconnected", "got_ip"})]
    BY <1>1, TypedDriver DEF Modes
  <2>2. trouble' \in 0..MAX_TROUBLE
    BY TroubleType
  <2> QED
    BY <2>1, <2>2, Zero DEF Boot, TypeOK
<1> QED
  BY <1>1, <1>2 DEF Boot, Roles, Told

-----------------------------------------------------------------------------
(* Wifi: the main loop                                                       *)

LEMMA RetryInvariant ==
  ASSUME TypeOK, Roles, Told, Retry
  PROVE  (TypeOK /\ Roles /\ Told)'
<1>1. driver \in DriverType /\ driver.mode \in Modes
  BY DriverTyped
<1>2. trouble' \in 0..MAX_TROUBLE
  BY TroubleType DEF Retry, MayRunOut
<1>3. CASE retry < MAX_RETRIES
  <2>1. Keeps(driver, driver') /\ driver'.mode = driver.mode
    BY <1>1, <1>3, ConnectKeeps DEF Retry
  <2>2. TypeOK'
    BY <1>1, <1>2, <1>3, <2>1, TypedDriver, WifiAssumption DEF TypeOK, Retry, Keeps
  <2>3. Roles'
    BY <1>3, <2>1 DEF Roles, Retry
  <2> QED
    BY <2>1, <2>2, <2>3, ToldKept DEF Retry
<1>4. CASE ~(retry < MAX_RETRIES)
  <2>1. Keeps(driver, Stopped(driver)) /\ Stopped(driver) \in DriverType
    BY <1>1, StoppedKeeps DEF Keeps
  <2>2. Keeps(driver, driver') /\ driver'.mode = "ap"
    BY <1>4, <2>1, SetModeKeeps, KeepsTransitive DEF Retry, Modes
  <2>3. TypeOK'
    BY <1>2, <1>4, <2>2, TypedDriver DEF TypeOK, Retry, Keeps, Modes
  <2>4. Roles'
    BY <1>4, <2>2 DEF Roles, Retry
  <2> QED
    BY <2>2, <2>3, <2>4, ToldKept DEF Retry
<1> QED
  BY <1>3, <1>4

LEMMA FlagsInvariant ==
  ASSUME TypeOK, Roles, Told,
         ApStarted \/ DecideProbe \/ BeginProbe \/ DecideCancel \/ SaveCredentials \/ BeginScan
  PROVE  (TypeOK /\ Roles /\ Told)'
<1>1. trouble' \in 0..MAX_TROUBLE
  BY TroubleType DEF ApStarted, DecideProbe, BeginProbe, DecideCancel, SaveCredentials,
                     BeginScan, MayRunOut
<1>2. TypeOK'
  BY <1>1 DEF TypeOK, ApStarted, DecideProbe, BeginProbe, DecideCancel, SaveCredentials,
              BeginScan, flags
<1>3. Roles'
  BY DEF Roles, ApStarted, DecideProbe, BeginProbe, DecideCancel, SaveCredentials, BeginScan,
         flags
<1>4. driver' = driver /\ (connected' /\ ~ap_mode' => connected /\ ~ap_mode)
  BY DEF ApStarted, DecideProbe, BeginProbe, DecideCancel, SaveCredentials, BeginScan, flags
<1> QED
  BY <1>2, <1>3, <1>4 DEF Told

LEMMA ProbeInvariant ==
  ASSUME TypeOK, Roles, Told, ProbeMode
  PROVE  (TypeOK /\ Roles /\ Told)'
<1>1. driver \in DriverType
  BY DriverTyped
<1>2. Keeps(driver, SetMode(driver, "apsta")) /\ SetMode(driver, "apsta").mode = "apsta"
  BY <1>1, SetModeKeeps DEF Modes
<1>3. Keeps(driver, driver') /\ driver'.mode = "apsta"
  BY <1>2, ConnectKeeps, KeepsTransitive DEF ProbeMode, Keeps
<1>4. TypeOK'
  BY <1>3, TypedDriver DEF TypeOK, ProbeMode, flags, Keeps, Modes
<1>5. Roles'
  BY <1>3 DEF Roles, ProbeMode, flags
<1> QED
  BY <1>3, <1>4, <1>5, ToldKept DEF ProbeMode, flags

LEMMA CancelDriver ==
  ASSUME TypeOK, Cancel
  PROVE  Keeps(driver, driver') /\ driver'.mode = "ap"
<1>1. Keeps(driver, Disconnect(driver)) /\ Disconnect(driver) \in DriverType
  BY DriverTyped, DisconnectKeeps DEF Keeps
<1> QED
  BY <1>1, SetModeKeeps, KeepsTransitive DEF Cancel, Modes

LEMMA CancelInvariant ==
  ASSUME TypeOK, Roles, Told, CancelByLoop \/ CancelByScan
  PROVE  (TypeOK /\ Roles /\ Told)'
<1>1. Keeps(driver, driver') /\ driver'.mode = "ap" /\ probing' = FALSE
  BY CancelDriver DEF CancelByLoop, CancelByScan, Cancel
<1>2. TypeOK'
  BY <1>1, TypedDriver DEF TypeOK, CancelByLoop, CancelByScan, Keeps, Modes
<1>3. Roles'
  BY <1>1 DEF Roles, CancelByLoop, CancelByScan
<1> QED
  BY <1>1, <1>2, <1>3, ToldKept DEF CancelByLoop, CancelByScan

-----------------------------------------------------------------------------
(* Wifi: the scan and the driver                                             *)

LEMMA ScanDriver ==
  ASSUME TypeOK, ScanMode \/ ScanDisconnect \/ EndScan
  PROVE  Keeps(driver, driver') /\ (driver'.mode = driver.mode \/ driver'.mode \in {"ap", "apsta"})
<1>1. driver \in DriverType
  BY DriverTyped
<1>2. CASE driver' = driver
  BY <1>1, <1>2, KeepsItself
<1>3. CASE driver' = SetMode(driver, "ap") \/ driver' = SetMode(driver, "apsta")
  BY <1>1, <1>3, SetModeKeeps DEF Modes
<1>4. CASE driver' = Disconnect(driver)
  BY <1>1, <1>4, DisconnectKeeps
<1> QED
  BY <1>2, <1>3, <1>4 DEF ScanMode, ScanDisconnect, EndScan

LEMMA ScanInvariant ==
  ASSUME TypeOK, Roles, Told, ScanMode \/ ScanDisconnect \/ EndScan
  PROVE  (TypeOK /\ Roles /\ Told)'
<1>1. Keeps(driver, driver') /\ (driver'.mode = driver.mode \/ driver'.mode \in {"ap", "apsta"})
  BY ScanDriver
<1>2. driver' \in DriverType /\ driver'.mode \in Modes
  BY <1>1, DriverTyped DEF Keeps, Modes
<1>3. TypeOK'
  BY <1>2, TypedDriver DEF TypeOK, ScanMode, ScanDisconnect, EndScan, flags
<1>4. Roles'
  BY <1>1 DEF Roles, ScanMode, ScanDisconnect, EndScan, flags
<1> QED
  BY <1>1, <1>3, <1>4, ToldKept DEF ScanMode, ScanDisconnect, EndScan, flags

LEMMA AssociatesKeeps ==
  ASSUME TypeOK, Associates
  PROVE  Keeps(driver, driver') /\ driver'.mode = driver.mode
<1>1. driver \in DriverType /\ Append(driver.events, "got_ip") \in Seq(Tokens)
  BY DriverTyped DEF DriverType, Tokens
<1>2. driver' = [driver EXCEPT !.sta = "up", !.events = Append(driver.events, "got_ip")]
  BY <1>1 DEF Associates, Post, DriverType
<1>3. driver' \in DriverType /\ driver'.sta = "up" /\ driver'.mode = driver.mode
  BY <1>1, <1>2 DEF DriverType
<1> QED
  BY <1>3 DEF Keeps, DownTold, LateTold

LEMMA RadioInvariant ==
  ASSUME TypeOK, Roles, Told, Associates \/ AttemptFails \/ RouterChanges
  PROVE  (TypeOK /\ Roles /\ Told)'
<1>1. Keeps(driver, driver') /\ driver'.mode = driver.mode
  BY DriverTyped, AssociatesKeeps, DisconnectKeeps, KeepsItself DEF AttemptFails, RouterChanges
<1>2. trouble' \in 0..MAX_TROUBLE
  BY TroubleType DEF Associates, AttemptFails, RouterChanges
<1>3. router' \in BOOLEAN
  BY DEF TypeOK, Associates, AttemptFails, RouterChanges
<1>4. driver' \in DriverType /\ driver'.mode \in Modes
  BY <1>1, DriverTyped DEF Keeps
<1>5. UNCHANGED <<ssid, flags, loop, httpd>>
  BY DEF Associates, AttemptFails, RouterChanges
<1>6. TypeOK'
  BY <1>2, <1>3, <1>4, <1>5, TypedDriver DEF TypeOK, flags
<1>7. Roles'
  BY <1>1, <1>5 DEF Roles, flags
<1> QED
  BY <1>1, <1>5, <1>6, <1>7, ToldKept DEF flags

-----------------------------------------------------------------------------
(* Wifi: the event handler                                                   *)

LEMMA StartedInvariant ==
  ASSUME TypeOK, Roles, Told, OnStarted
  PROVE  (TypeOK /\ Roles /\ Told)'
<1>1. /\ Rest \in DriverType /\ Rest.mode = driver.mode /\ LateTold(Rest)
      /\ DownTold(driver) => DownTold(Rest)
  BY RestOfEvents, DriverTyped DEF OnStarted, Event, Told
<1>2. Keeps(Rest, driver') /\ driver'.mode = driver.mode
  BY <1>1, ConnectKeeps, KeepsItself DEF OnStarted
<1>3. driver' \in DriverType /\ driver'.mode \in Modes
  BY <1>2, DriverTyped DEF Keeps
<1>4. TypeOK'
  BY <1>3, TypedDriver DEF TypeOK, OnStarted, flags
<1>5. Roles'
  BY <1>2 DEF Roles, OnStarted, flags
<1>6. Told'
  BY <1>1, <1>2 DEF Told, Keeps, OnStarted, flags
<1> QED
  BY <1>4, <1>5, <1>6

LEMMA DisconnectedInvariant ==
  ASSUME TypeOK, Roles, Told, OnDisconnected
  PROVE  (TypeOK /\ Roles /\ Told)'
<1>1. Rest \in DriverType /\ Rest.mode = driver.mode /\ LateTold(Rest)
  BY RestOfEvents, DriverTyped DEF OnDisconnected, Event, Told
<1>2. CASE probing
  <2>1. Keeps(Rest, Disconnect(Rest)) /\ Disconnect(Rest) \in DriverType
    BY <1>1, DisconnectKeeps DEF Keeps
  <2>2. Keeps(Rest, driver') /\ driver'.mode = "ap"
    BY <1>2, <2>1, SetModeKeeps, KeepsTransitive DEF OnDisconnected, Modes
  <2>3. TypeOK'
    BY <1>2, <2>2, TypedDriver DEF TypeOK, OnDisconnected, Keeps, Modes
  <2>4. Roles'
    BY <1>2, <2>2 DEF Roles, OnDisconnected
  <2>5. Told'
    BY <1>1, <1>2, <2>2 DEF Told, Keeps, OnDisconnected, Roles
  <2> QED
    BY <2>3, <2>4, <2>5
<1>3. CASE ~probing
  <2>1. driver' = Rest /\ connected' = FALSE
    BY <1>3 DEF OnDisconnected
  <2>2. driver' \in DriverType /\ driver'.mode \in Modes
    BY <1>1, <2>1, DriverTyped
  <2>3. TypeOK'
    BY <1>3, <2>2, TypedDriver DEF TypeOK, OnDisconnected
  <2>4. Roles'
    BY <1>1, <1>3, <2>1 DEF Roles, OnDisconnected
  <2>5. Told'
    BY <1>1, <2>1 DEF Told
  <2> QED
    BY <2>3, <2>4, <2>5
<1> QED
  BY <1>2, <1>3

LEMMA GotIpInvariant ==
  ASSUME TypeOK, Roles, Told, OnGotIp
  PROVE  (TypeOK /\ Roles /\ Told)'
<1>1. Rest \in DriverType /\ Rest.mode = driver.mode /\ LateTold(Rest) /\ DownTold(Rest)
  BY RestOfEvents, DriverTyped DEF OnGotIp, Event, Told
<1>2. CASE probing
  <2>1. Keeps(Rest, driver') /\ driver'.mode = "sta"
    BY <1>1, <1>2, SetModeKeeps DEF OnGotIp, Modes
  <2>2. TypeOK'
    <3>1. driver' \in [mode : {"sta", "ap", "apsta"}, sta : {"idle", "trying", "up"},
                       events : Seq({"started", "disconnected", "got_ip"})]
      BY <2>1, TypedDriver DEF Keeps, Modes
    <3> QED
      BY <1>2, <3>1, Zero DEF TypeOK, OnGotIp
  <2>3. Roles'
    BY <1>2, <2>1 DEF Roles, OnGotIp
  <2>4. Told'
    BY <1>1, <2>1 DEF Told, Keeps
  <2> QED
    BY <2>2, <2>3, <2>4
<1>3. CASE ~probing
  <2>1. driver' = Rest
    BY <1>3 DEF OnGotIp
  <2>2. driver' \in DriverType /\ driver'.mode \in Modes
    BY <1>1, <2>1, DriverTyped
  <2>3. TypeOK'
    <3>1. driver' \in [mode : {"sta", "ap", "apsta"}, sta : {"idle", "trying", "up"},
                       events : Seq({"started", "disconnected", "got_ip"})]
      BY <2>2, TypedDriver
    <3> QED
      BY <1>3, <3>1, Zero DEF TypeOK, OnGotIp
  <2>4. Roles'
    BY <1>1, <1>3, <2>1 DEF Roles, OnGotIp
  <2>5. Told'
    BY <1>1, <2>1 DEF Told
  <2> QED
    BY <2>3, <2>4, <2>5
<1> QED
  BY <1>2, <1>3

-----------------------------------------------------------------------------

LEMMA NextInvariant ==
  TypeOK /\ Roles /\ Told /\ [Next]_vars => (TypeOK /\ Roles /\ Told)'
<1> SUFFICES ASSUME TypeOK, Roles, Told, [Next]_vars
             PROVE  (TypeOK /\ Roles /\ Told)'
  OBVIOUS
<1>1. CASE Next
  BY <1>1, RetryInvariant, FlagsInvariant, ProbeInvariant, CancelInvariant, ScanInvariant,
     RadioInvariant, StartedInvariant, DisconnectedInvariant, GotIpInvariant, BootInvariant
     DEF Next, OnUpdate, Handler, Scan, Driver, StaWatchdog, PowerCut
<1>2. CASE UNCHANGED vars
  <2>1. TypeOK' /\ Roles'
    BY <1>2 DEF TypeOK, Roles, vars, flags
  <2>2. Told'
    BY <1>2 DEF Told, vars, flags
  <2> QED
    BY <2>1, <2>2
<1> QED
  BY <1>1, <1>2

\* Every variable has its type.
THEOREM TypeCorrect == Spec => []TypeOK
<1> QED
  BY InitInvariant, NextInvariant, PTL DEF Spec

\* A service in AP mode has an access point: what on_update, start_scan and the event
\* handler do to the mode of the driver, in steps of which others may come in between,
\* never takes it away.
THEOREM ApIsServedHolds == Spec => []ApIsServed
<1>1. Roles => ApIsServed
  BY DEF Roles, ApIsServed
<1> QED
  BY <1>1, InitInvariant, NextInvariant, PTL DEF Spec

\* A station whose flag says that it is connected is, or will be told that it is not:
\* the handler of WIFI_EVENT_STA_DISCONNECTED never uses up the last notice in vain.
THEOREM ConnectedIsUpHolds == Spec => []ConnectedIsUp
<1>1. TypeOK /\ Told => ConnectedIsUp
  BY DriverTyped DEF Told, DownTold, ConnectedIsUp, DriverType
<1> QED
  BY <1>1, InitInvariant, NextInvariant, PTL DEF Spec

-----------------------------------------------------------------------------
(* LiveView: types                                                           *)

Entries == [work : {"send", "close"}, fd : Fds, frame : Frames]

LEMMA ViewConstants ==
  /\ MAX_CHANGED_KEYS \in Nat /\ MAX_WS_CLIENTS \in Nat /\ QUEUE \in Nat
  /\ MAX_WRITES \in Nat /\ MAX_CONNECTS \in Nat /\ MAX_FAULTS \in Nat
  /\ IsFiniteSet(Keys) /\ Fits \subseteq Keys /\ IsFiniteSet(Fds)
BY LiveViewAssumption

LEMMA FrameType ==
  ASSUME NEW f \in Frames
  PROVE  /\ DOMAIN f \subseteq Keys
         /\ \A k \in DOMAIN f : f[k] \in 0..MAX_WRITES
BY DEF Frames

LEMMA NoFrameType == NoFrame \in Frames
<1>1. NoFrame \in [{} -> 0..MAX_WRITES]
  BY DEF NoFrame
<1> QED
  BY <1>1 DEF Frames

LEMMA RestrictedType ==
  ASSUME NEW m \in [Keys -> 0..MAX_WRITES], NEW S
  PROVE  Restricted(m, S) \in Frames
<1>1. Restricted(m, S) \in [Keys \cap S -> 0..MAX_WRITES]
  BY DEF Restricted
<1> QED
  BY <1>1 DEF Frames

LEMMA MergedType ==
  ASSUME NEW f \in Frames, NEW g \in Frames
  PROVE  Merged(f, g) \in Frames
<1>1. DOMAIN f \cup DOMAIN g \in SUBSET Keys
  BY FrameType
<1>2. Merged(f, g) \in [DOMAIN f \cup DOMAIN g -> 0..MAX_WRITES]
  BY FrameType DEF Merged
<1> QED
  BY <1>1, <1>2 DEF Frames

LEMMA MapType ==
  ASSUME NEW m \in [Keys -> 0..MAX_WRITES]
  PROVE  m \in Frames
BY DEF Frames

LEMMA SmallerList ==
  ASSUME NEW S \in SUBSET Fds, Cardinality(S) <= MAX_WS_CLIENTS, NEW T \in SUBSET S
  PROVE  T \in SUBSET Fds /\ Cardinality(T) <= MAX_WS_CLIENTS
<1>1. IsFiniteSet(S) /\ IsFiniteSet(T)
  BY ViewConstants, FS_Subset
<1>2. Cardinality(T) <= Cardinality(S) /\ Cardinality(T) \in Nat /\ Cardinality(S) \in Nat
  BY <1>1, FS_Subset, FS_CardinalityType
<1> QED
  BY <1>2, ViewConstants

LEMMA SetType ==
  ASSUME ViewTypeOK, NEW k \in Keys, Set(k)
  PROVE  ViewTypeOK'
<1>1. map_' \in [Keys -> 0..MAX_WRITES]
  BY ViewConstants DEF Set, ViewTypeOK
<1>2. changed_keys' \in SUBSET Keys /\ Cardinality(changed_keys') <= MAX_CHANGED_KEYS
      /\ force_full' \in BOOLEAN
  <2>1. IsFiniteSet(changed_keys) /\ Cardinality(changed_keys) \in Nat
    BY ViewConstants, FS_Subset, FS_CardinalityType DEF ViewTypeOK
  <2>2. CASE k \in changed_keys
    <3>1. changed_keys \cup {k} = changed_keys
      BY <2>2
    <3> QED
      BY <2>2, <3>1 DEF Set, Note, ViewTypeOK
  <2>3. CASE k \notin changed_keys /\ Cardinality(changed_keys) < MAX_CHANGED_KEYS
    <3>1. Cardinality(changed_keys \cup {k}) = Cardinality(changed_keys) + 1
      BY <2>1, <2>3, FS_AddElement
    <3>2. Cardinality(changed_keys \cup {k}) <= MAX_CHANGED_KEYS
      BY <2>1, <2>3, <3>1, ViewConstants
    <3> QED
      BY <2>3, <3>2 DEF Set, Note, ViewTypeOK
  <2>4. CASE ~(k \in changed_keys \/ Cardinality(changed_keys) < MAX_CHANGED_KEYS)
    BY <2>4 DEF Set, Note, ViewTypeOK
  <2> QED
    BY <2>2, <2>3, <2>4
<1> QED
  BY <1>1, <1>2 DEF Set, ViewTypeOK, bounds

LEMMA LoopType ==
  ASSUME ViewTypeOK, Broadcast \/ Snapshot \/ Heartbeat \/ Sent
  PROVE  ViewTypeOK'
<1>1. CASE Broadcast
  <2>1. Changed \in Frames
    BY RestrictedType DEF Changed, ViewTypeOK
  <2>2. sender' \in [at : {"idle", "collected", "sending"}, to : SUBSET Fds, frame : Frames]
    BY <1>1, <2>1 DEF Broadcast
  <2>3. missed' \in [Fds -> SUBSET Keys]
    BY <1>1 DEF Broadcast, ViewTypeOK
  <2>4. changed_keys' = {} /\ force_full' = FALSE /\ Cardinality({}) <= MAX_CHANGED_KEYS
    BY <1>1, FS_EmptySet, ViewConstants DEF Broadcast
  <2> QED
    BY <1>1, <2>2, <2>3, <2>4 DEF Broadcast, ViewTypeOK, bounds
<1>2. CASE Snapshot
  <2>1. client_fds' \in SUBSET Fds /\ Cardinality(client_fds') <= MAX_WS_CLIENTS
    BY <1>2, SmallerList DEF Snapshot, ForgetClosed, ViewTypeOK
  <2> QED
    BY <1>2, <2>1 DEF Snapshot, ViewTypeOK, tracking, bounds
<1>3. CASE Heartbeat
  <2>1. client_fds' \in SUBSET Fds /\ Cardinality(client_fds') <= MAX_WS_CLIENTS
    BY <1>3, SmallerList DEF Heartbeat, ForgetClosed, ViewTypeOK
  <2> QED
    BY <1>3, <2>1 DEF Heartbeat, ViewTypeOK, tracking, bounds
<1>4. CASE Sent
  BY <1>4, NoFrameType DEF Sent, Idle, ViewTypeOK, tracking, bounds
<1> QED
  BY <1>1, <1>2, <1>3, <1>4

LEMMA FaultType ==
  ASSUME ViewTypeOK, Fault \/ UNCHANGED faults
  PROVE  faults' \in 0..MAX_FAULTS
BY ViewConstants DEF ViewTypeOK, Fault

LEMMA AppendType ==
  ASSUME NEW q \in Seq(Entries), NEW e \in Entries, Len(q) < QUEUE
  PROVE  Append(q, e) \in Seq(Entries) /\ Len(Append(q, e)) <= QUEUE
BY ViewConstants

LEMMA SendType ==
  ASSUME ViewTypeOK, NEW fd \in Fds, QueueFrame(fd) \/ SkipFrame(fd) \/ DropClient(fd)
  PROVE  ViewTypeOK'
<1>1. sender' \in [at : {"idle", "collected", "sending"}, to : SUBSET Fds, frame : Frames]
  BY DEF QueueFrame, SkipFrame, DropClient, Sending, ViewTypeOK
<1>2. faults' \in 0..MAX_FAULTS
  BY FaultType DEF QueueFrame, SkipFrame, DropClient
<1>3. queue' \in Seq(Entries) /\ Len(queue') <= QUEUE
  <2>1. queue \in Seq(Entries) /\ Len(queue) <= QUEUE
    BY DEF ViewTypeOK, Entries
  <2>2. [work |-> "send", fd |-> fd, frame |-> sender.frame] \in Entries
    BY DEF ViewTypeOK, Entries
  <2> QED
    BY <2>1, <2>2, AppendType DEF QueueFrame, SkipFrame, DropClient
<1>4. missed' \in [Fds -> SUBSET Keys]
  <2>1. DOMAIN sender.frame \subseteq Keys
    BY FrameType DEF ViewTypeOK
  <2> QED
    BY <2>1 DEF QueueFrame, SkipFrame, DropClient, ViewTypeOK
<1>5. client_fds' \in SUBSET Fds /\ Cardinality(client_fds') <= MAX_WS_CLIENTS
  BY SmallerList DEF QueueFrame, SkipFrame, DropClient, ViewTypeOK
<1>6. UNCHANGED <<tracking, open, server, view, connects>>
  BY DEF QueueFrame, SkipFrame, DropClient, Sending
<1> QED
  BY <1>1, <1>2, <1>3, <1>4, <1>5, <1>6 DEF ViewTypeOK, Entries, tracking

LEMMA PingRefusedType ==
  ASSUME ViewTypeOK, NEW fd \in Fds, PingRefused(fd)
  PROVE  ViewTypeOK'
<1>1. faults' \in 0..MAX_FAULTS
  BY FaultType DEF PingRefused
<1>2. client_fds' \in SUBSET Fds /\ Cardinality(client_fds') <= MAX_WS_CLIENTS
  BY SmallerList DEF PingRefused, ViewTypeOK
<1> QED
  BY <1>1, <1>2 DEF PingRefused, ViewTypeOK, tracking

LEMMA HandshakeType ==
  ASSUME ViewTypeOK, NEW fd \in Fds, Handshake(fd)
  PROVE  ViewTypeOK'
<1> DEFINE live == client_fds \cap (open \cup {fd})
<1>1. live \in SUBSET Fds /\ Cardinality(live) <= MAX_WS_CLIENTS
  BY SmallerList DEF ViewTypeOK
<1>2. IsFiniteSet(live) /\ Cardinality(live) \in Nat
  BY <1>1, ViewConstants, FS_Subset, FS_CardinalityType
<1>3. client_fds' \in SUBSET Fds /\ Cardinality(client_fds') <= MAX_WS_CLIENTS
  <2>1. client_fds' = IF fd \in client_fds THEN client_fds
                      ELSE IF Cardinality(live) < MAX_WS_CLIENTS THEN live \cup {fd} ELSE live
    BY DEF Handshake, AddClient
  <2>2. Cardinality(live \cup {fd}) <= Cardinality(live) + 1 /\ Cardinality(live \cup {fd}) \in Nat
    <3> HIDE DEF live
    <3>1. Cardinality(live \cup {fd}) =
            IF fd \in live THEN Cardinality(live) ELSE Cardinality(live) + 1
      BY <1>2, FS_AddElement
    <3> QED
      BY <1>2, <3>1
  <2>3. CASE fd \in client_fds
    BY <2>1, <2>3 DEF ViewTypeOK
  <2>4. CASE fd \notin client_fds /\ Cardinality(live) < MAX_WS_CLIENTS
    <3> HIDE DEF live
    <3> QED
      BY <1>1, <1>2, <2>1, <2>2, <2>4, ViewConstants
  <2>5. CASE fd \notin client_fds /\ ~(Cardinality(live) < MAX_WS_CLIENTS)
    <3> HIDE DEF live
    <3> QED
      BY <1>1, <2>1, <2>5
  <2> QED
    BY <2>3, <2>4, <2>5
<1>4. server' \in [at : {"idle", "added", "serialised"}, to : SUBSET Fds, frame : Frames]
  BY NoFrameType DEF Handshake
<1>5. connects' \in 0..MAX_CONNECTS
  BY ViewConstants DEF Handshake, ViewTypeOK
<1>6. missed' \in [Fds -> SUBSET Keys] /\ open' \in SUBSET Fds
  BY DEF Handshake, ViewTypeOK
<1> QED
  BY <1>3, <1>4, <1>5, <1>6 DEF Handshake, ViewTypeOK, tracking

LEMMA FullType ==
  ASSUME ViewTypeOK, NEW fd \in Fds, SerialiseFull(fd) \/ QueueFull(fd)
  PROVE  ViewTypeOK'
<1>1. server' \in [at : {"idle", "added", "serialised"}, to : SUBSET Fds, frame : Frames]
  <2>1. map_ \in Frames
    BY MapType DEF ViewTypeOK
  <2>2. Idle \in [at : {"idle", "added", "serialised"}, to : SUBSET Fds, frame : Frames]
    BY NoFrameType DEF Idle
  <2>3. \/ server' = [server EXCEPT !.at = "serialised", !.frame = map_]
        \/ server' = [server EXCEPT !.at = "serialised"]
        \/ server' = Idle
    BY DEF SerialiseFull, QueueFull
  <2> QED
    BY <2>1, <2>2, <2>3 DEF ViewTypeOK
<1>2. faults' \in 0..MAX_FAULTS
  BY FaultType DEF SerialiseFull, QueueFull
<1>3. queue' \in Seq(Entries) /\ Len(queue') <= QUEUE
  <2>1. queue \in Seq(Entries) /\ Len(queue) <= QUEUE
    BY DEF ViewTypeOK, Entries
  <2>2. [work |-> "send", fd |-> fd, frame |-> server.frame] \in Entries
    BY DEF ViewTypeOK, Entries
  <2> QED
    BY <2>1, <2>2, AppendType DEF SerialiseFull, QueueFull
<1>4. missed' \in [Fds -> SUBSET Keys]
  <2>1. DOMAIN server.frame \subseteq Keys
    BY FrameType DEF ViewTypeOK
  <2>2. Crossed(fd) \subseteq Keys
    BY <2>1 DEF Crossed
  <2> QED
    BY <2>2 DEF SerialiseFull, QueueFull, ViewTypeOK
<1>5. UNCHANGED <<tracking, client_fds, open, sender, view, connects>>
  BY DEF SerialiseFull, QueueFull
<1> QED
  BY <1>1, <1>2, <1>3, <1>4, <1>5 DEF ViewTypeOK, Entries, tracking

LEMMA QueueHead ==
  ASSUME NEW q \in Seq(Entries), q # << >>
  PROVE  /\ Head(q) \in Entries /\ Tail(q) \in Seq(Entries)
         /\ Len(Tail(q)) = Len(q) - 1 /\ Len(q) \in Nat /\ Len(Tail(q)) \in Nat
         /\ Head(q) = q[1] /\ \A i \in 1..(Len(q) - 1) : Tail(q)[i] = q[i + 1]
OBVIOUS

LEMMA WorkType ==
  ASSUME ViewTypeOK, Deliver \/ Discard \/ DeliveryFails
  PROVE  ViewTypeOK'
<1> DEFINE w == Head(queue)
<1>1. queue \in Seq(Entries) /\ Len(queue) <= QUEUE /\ queue # << >>
  BY DEF ViewTypeOK, Entries, Deliver, Discard, DeliveryFails
<1>2. /\ w \in Entries /\ Tail(queue) \in Seq(Entries)
      /\ Len(Tail(queue)) = Len(queue) - 1 /\ Len(queue) \in Nat /\ Len(Tail(queue)) \in Nat
  BY <1>1, QueueHead
<1>3. w.fd \in Fds /\ w.frame \in Frames
  BY <1>2 DEF Entries
<1>4. Tail(queue) \in Seq(Entries) /\ Len(Tail(queue)) < QUEUE
  BY <1>1, <1>2, ViewConstants
<1>5. CASE Deliver
  <2>1. view' = [view EXCEPT ![w.fd] = Merged(@, w.frame)] /\ queue' = Tail(queue)
    BY <1>5 DEF Deliver
  <2>2. view' \in [Fds -> Frames]
    BY <1>3, <2>1, MergedType DEF ViewTypeOK
  <2>3. queue' \in Seq(Entries) /\ Len(queue') <= QUEUE
    BY <1>2, <1>4, <2>1, ViewConstants
  <2> QED
    BY <1>5, <2>2, <2>3 DEF Deliver, ViewTypeOK, Entries, tracking, bounds
<1>6. CASE Discard
  <2>1. client_fds' \in SUBSET Fds /\ Cardinality(client_fds') <= MAX_WS_CLIENTS
    BY <1>6, SmallerList DEF Discard, ViewTypeOK
  <2>2. queue' \in Seq(Entries) /\ Len(queue') <= QUEUE
    BY <1>2, <1>4, <1>6, ViewConstants DEF Discard
  <2> QED
    BY <1>6, <2>1, <2>2 DEF Discard, ViewTypeOK, Entries, tracking, bounds
<1>7. CASE DeliveryFails
  <2>1. client_fds' \in SUBSET Fds /\ Cardinality(client_fds') <= MAX_WS_CLIENTS
    BY <1>7, SmallerList DEF DeliveryFails, ViewTypeOK
  <2>2. [work |-> "close", fd |-> w.fd, frame |-> NoFrame] \in Entries
    BY <1>3, NoFrameType DEF Entries
  <2>3. queue' \in Seq(Entries) /\ Len(queue') <= QUEUE
    BY <1>4, <1>7, <2>2, AppendType DEF DeliveryFails
  <2>4. faults' \in 0..MAX_FAULTS
    BY <1>7, FaultType DEF DeliveryFails
  <2> QED
    BY <1>7, <2>1, <2>3, <2>4 DEF DeliveryFails, ViewTypeOK, Entries, tracking
<1> QED
  BY <1>5, <1>6, <1>7

LEMMA PingFailsType ==
  ASSUME ViewTypeOK, NEW fd \in Fds, PingFails(fd)
  PROVE  ViewTypeOK'
<1>1. client_fds' \in SUBSET Fds /\ Cardinality(client_fds') <= MAX_WS_CLIENTS
  BY SmallerList DEF PingFails, ViewTypeOK
<1>2. queue \in Seq(Entries) /\ [work |-> "close", fd |-> fd, frame |-> NoFrame] \in Entries
  BY NoFrameType DEF ViewTypeOK, Entries
<1>3. queue' \in Seq(Entries) /\ Len(queue') <= QUEUE
  BY <1>2, AppendType DEF PingFails
<1>4. faults' \in 0..MAX_FAULTS
  BY FaultType DEF PingFails
<1> QED
  BY <1>1, <1>3, <1>4 DEF PingFails, ViewTypeOK, Entries, tracking

LEMMA GoneType ==
  ASSUME ViewTypeOK, NEW fd \in Fds, Gone(fd)
  PROVE  open' \in SUBSET Fds /\ view' \in [Fds -> Frames] /\ missed' \in [Fds -> SUBSET Keys]
BY NoFrameType DEF Gone, ViewTypeOK

LEMMA CloseType ==
  ASSUME ViewTypeOK, TriggeredClose \/ \E fd \in Fds : ConnectionBreaks(fd) \/ ClientCloses(fd)
  PROVE  ViewTypeOK'
<1>1. queue \in Seq(Entries) /\ Len(queue) <= QUEUE
  BY DEF ViewTypeOK, Entries
<1>2. queue' \in Seq(Entries) /\ Len(queue') <= QUEUE
  <2>1. CASE TriggeredClose
    BY <1>1, <2>1, QueueHead, ViewConstants DEF TriggeredClose
  <2> QED
    BY <1>1, <2>1 DEF ConnectionBreaks, ClientCloses
<1>3. PICK fd \in Fds : Gone(fd) /\ client_fds' \subseteq client_fds
  <2>1. CASE TriggeredClose
    <3>1. Head(queue).fd \in Fds
      BY <1>1, <2>1, QueueHead DEF TriggeredClose, Entries
    <3> QED
      BY <2>1, <3>1 DEF TriggeredClose, SessionEnds
  <2> QED
    BY <2>1 DEF ConnectionBreaks, ClientCloses, SessionEnds
<1>4. client_fds' \in SUBSET Fds /\ Cardinality(client_fds') <= MAX_WS_CLIENTS
  BY <1>3, SmallerList DEF ViewTypeOK
<1>5. open' \in SUBSET Fds /\ view' \in [Fds -> Frames] /\ missed' \in [Fds -> SUBSET Keys]
  BY <1>3, GoneType
<1>6. UNCHANGED <<tracking, sender, server, bounds>>
  BY DEF TriggeredClose, ConnectionBreaks, ClientCloses, SessionEnds
<1> QED
  BY <1>2, <1>4, <1>5, <1>6 DEF ViewTypeOK, Entries, tracking, bounds

LEMMA NextViewType == ViewTypeOK /\ [ViewNext]_viewVars => ViewTypeOK'
<1> SUFFICES ASSUME ViewTypeOK, [ViewNext]_viewVars
             PROVE  ViewTypeOK'
  OBVIOUS
<1>1. CASE UNCHANGED viewVars
  BY <1>1 DEF viewVars, tracking, bounds, ViewTypeOK
<1>2. CASE \E k \in Keys : Set(k)
  BY <1>2, SetType
<1>3. CASE Loop
  BY <1>3, LoopType, SendType, PingRefusedType DEF Loop
<1>4. CASE Httpd
  BY <1>4, WorkType, CloseType, FullType, PingFailsType DEF Httpd
<1>5. CASE Peers
  BY <1>5, HandshakeType, CloseType DEF Peers
<1> QED
  BY <1>1, <1>2, <1>3, <1>4, <1>5 DEF ViewNext

LEMMA InitViewType == ViewInit => ViewTypeOK
<1> SUFFICES ASSUME ViewInit
             PROVE  ViewTypeOK
  OBVIOUS
<1>1. map_ \in [Keys -> 0..MAX_WRITES]
  BY ViewConstants DEF ViewInit
<1>2. changed_keys \in SUBSET Keys /\ Cardinality(changed_keys) <= MAX_CHANGED_KEYS
  BY ViewConstants DEF ViewInit
<1>3. client_fds \in SUBSET Fds /\ Cardinality(client_fds) <= MAX_WS_CLIENTS
  BY FS_EmptySet, ViewConstants DEF ViewInit
<1>4. queue \in Seq(Entries) /\ Len(queue) <= QUEUE
  BY ViewConstants DEF ViewInit
<1>5. /\ sender \in [at : {"idle", "collected", "sending"}, to : SUBSET Fds, frame : Frames]
      /\ server \in [at : {"idle", "added", "serialised"}, to : SUBSET Fds, frame : Frames]
  BY NoFrameType DEF ViewInit, Idle
<1>6. view \in [Fds -> Frames] /\ missed \in [Fds -> SUBSET Keys]
  BY NoFrameType DEF ViewInit
<1> QED
  BY <1>1, <1>2, <1>3, <1>4, <1>5, <1>6, ViewConstants DEF ViewInit, ViewTypeOK, Entries

\* LiveView keeps its types: the list of changed keys, the list of clients and the queue of
\* the web server's task stay within their capacity.
THEOREM ViewTypeCorrect == ViewSpec => []ViewTypeOK
<1>1. ViewInit => ViewTypeOK
  BY InitViewType
<1>2. ViewTypeOK /\ [ViewNext]_viewVars => ViewTypeOK'
  BY NextViewType
<1> QED
  BY <1>1, <1>2, PTL DEF ViewSpec

-----------------------------------------------------------------------------
(* LiveView: the queue. What it tells a client of a key in the end.          *)

\* The places in a queue q of the frames that carry k to the client at fd.
Places(q, fd, k) ==
  {i \in DOMAIN q : q[i].work = "send" /\ q[i].fd = fd /\ k \in DOMAIN q[i].frame}

Carries(e, fd, k) == e.work = "send" /\ e.fd = fd /\ k \in DOMAIN e.frame

\* A client that shows f learns val of k, and nothing else of k after it, from q.
Brings(q, f, fd, k, val) ==
  \/ Places(q, fd, k) = {} /\ k \in DOMAIN f /\ f[k] = val
  \/ \E i \in Places(q, fd, k) : /\ \A j \in Places(q, fd, k) : j <= i
                                 /\ q[i].frame[k] = val

LEMMA AppendPlaces ==
  ASSUME NEW q \in Seq(Entries), NEW e \in Entries, NEW fd, NEW k
  PROVE  /\ Len(q) \in Nat /\ Places(q, fd, k) \in SUBSET (1..Len(q))
         /\ Append(q, e)[Len(q) + 1] = e
         /\ \A i \in 1..Len(q) : Append(q, e)[i] = q[i]
         /\ Places(Append(q, e), fd, k) =
              Places(q, fd, k) \cup (IF Carries(e, fd, k) THEN {Len(q) + 1} ELSE {})
<1>1. /\ Len(q) \in Nat /\ DOMAIN q = 1..Len(q)
      /\ DOMAIN Append(q, e) = 1..(Len(q) + 1)
      /\ Append(q, e)[Len(q) + 1] = e
      /\ \A i \in 1..Len(q) : Append(q, e)[i] = q[i]
  OBVIOUS
<1>2. Places(q, fd, k) \in SUBSET (1..Len(q))
  BY <1>1 DEF Places
<1>3. \A i : i \in 1..(Len(q) + 1) <=> (i \in 1..Len(q) \/ i = Len(q) + 1)
  BY <1>1
<1>4. \A i : i \in Places(Append(q, e), fd, k) <=>
               i \in Places(q, fd, k) \/ (i = Len(q) + 1 /\ Carries(e, fd, k))
  BY <1>1, <1>3 DEF Places, Carries
<1> QED
  BY <1>1, <1>2, <1>4

LEMMA AppendLast ==
  ASSUME NEW q \in Seq(Entries), NEW e \in Entries, NEW f, NEW fd, NEW k, NEW val,
         Carries(e, fd, k), e.frame[k] = val
  PROVE  Brings(Append(q, e), f, fd, k, val)
<1>1. /\ Len(q) \in Nat /\ Places(q, fd, k) \in SUBSET (1..Len(q))
      /\ Append(q, e)[Len(q) + 1] = e
      /\ Places(Append(q, e), fd, k) = Places(q, fd, k) \cup {Len(q) + 1}
  BY AppendPlaces
<1>2. \A j \in Places(Append(q, e), fd, k) : j <= Len(q) + 1
  BY <1>1
<1> QED
  BY <1>1, <1>2 DEF Brings

LEMMA AppendOther ==
  ASSUME NEW q \in Seq(Entries), NEW e \in Entries, NEW f, NEW fd, NEW k, NEW val,
         ~Carries(e, fd, k), Brings(q, f, fd, k, val)
  PROVE  Brings(Append(q, e), f, fd, k, val)
<1>1. /\ Places(q, fd, k) \in SUBSET (1..Len(q))
      /\ \A i \in 1..Len(q) : Append(q, e)[i] = q[i]
  BY AppendPlaces
<1>2. Places(Append(q, e), fd, k) =
        Places(q, fd, k) \cup (IF Carries(e, fd, k) THEN {Len(q) + 1} ELSE {})
  BY AppendPlaces
<1>3. Places(Append(q, e), fd, k) = Places(q, fd, k)
  BY <1>2
<1> QED
  BY <1>1, <1>3 DEF Brings

\* What the client shows after the head of the queue is served: g, instead of f.
LEMMA TailBrings ==
  ASSUME NEW q \in Seq(Entries), q # << >>, NEW f, NEW g, NEW fd, NEW k, NEW val,
         Brings(q, f, fd, k, val),
         Carries(Head(q), fd, k) => k \in DOMAIN g /\ g[k] = Head(q).frame[k],
         ~Carries(Head(q), fd, k) /\ k \in DOMAIN f => k \in DOMAIN g /\ g[k] = f[k]
  PROVE  Brings(Tail(q), g, fd, k, val)
<1>1. /\ Len(q) \in Nat /\ Len(q) > 0 /\ DOMAIN q = 1..Len(q)
      /\ DOMAIN Tail(q) = 1..(Len(q) - 1) /\ Head(q) = q[1]
      /\ \A i \in 1..(Len(q) - 1) : Tail(q)[i] = q[i + 1]
  <2>1. DOMAIN q = 1..Len(q)
    OBVIOUS
  <2>2. Tail(q) \in Seq(Entries) => DOMAIN Tail(q) = 1..Len(Tail(q))
    OBVIOUS
  <2>3. Len(q) \in Nat /\ Len(q) - 1 \in Nat => Len(q) > 0
    OBVIOUS
  <2> QED
    BY <2>1, <2>2, <2>3, QueueHead
<1>2. /\ \A i \in Places(Tail(q), fd, k) : i \in Nat /\ i + 1 \in Places(q, fd, k)
      /\ \A i \in Places(q, fd, k) : i \in Nat /\ i >= 1
      /\ \A i \in Places(q, fd, k) : i = 1 \/ i - 1 \in Places(Tail(q), fd, k)
      /\ 1 \in Places(q, fd, k) <=> Carries(Head(q), fd, k)
  <2>1. \A i \in 1..(Len(q) - 1) : i + 1 \in 1..Len(q)
    BY <1>1
  <2>2. ASSUME NEW i \in Places(q, fd, k), i # 1
        PROVE  i - 1 \in Places(Tail(q), fd, k)
    <3>1. i \in 1..Len(q)
      BY <1>1 DEF Places
    <3>2. i - 1 \in 1..(Len(q) - 1) /\ (i - 1) + 1 = i
      BY <1>1, <2>2, <3>1
    <3>3. Tail(q)[i - 1] = q[i]
      BY <1>1, <3>2
    <3> QED
      BY <1>1, <3>2, <3>3 DEF Places
  <2>3. 1 \in 1..Len(q)
    BY <1>1
  <2>4. 1 \in Places(q, fd, k) <=> Carries(Head(q), fd, k)
    BY <1>1, <2>3 DEF Places, Carries
  <2>5. ASSUME NEW i \in Places(Tail(q), fd, k)
        PROVE  i \in Nat /\ i + 1 \in Places(q, fd, k)
    <3>1. i \in 1..(Len(q) - 1) /\ i + 1 \in 1..Len(q) /\ Tail(q)[i] = q[i + 1]
      BY <1>1, <2>1 DEF Places
    <3> QED
      BY <1>1, <3>1 DEF Places
  <2>6. \A i \in Places(q, fd, k) : i \in Nat /\ i >= 1
    BY <1>1 DEF Places
  <2> QED
    BY <2>2, <2>4, <2>5, <2>6
<1>3. CASE Places(q, fd, k) = {} /\ k \in DOMAIN f /\ f[k] = val
  <2>1. Places(Tail(q), fd, k) = {} /\ ~Carries(Head(q), fd, k)
    BY <1>2, <1>3
  <2> QED
    BY <1>3, <2>1 DEF Brings
<1>4. ASSUME NEW i \in Places(q, fd, k), \A j \in Places(q, fd, k) : j <= i,
             q[i].frame[k] = val
      PROVE  Brings(Tail(q), g, fd, k, val)
  <2>1. CASE i = 1
    <3>1. Places(Tail(q), fd, k) = {}
      <4> SUFFICES ASSUME NEW j \in Places(Tail(q), fd, k)
                   PROVE  FALSE
        OBVIOUS
      <4>1. j \in Nat /\ j + 1 <= 1 /\ j + 1 \in Places(q, fd, k)
        BY <1>2, <1>4, <2>1
      <4>2. j = 0
        BY <4>1
      <4>3. j \in 1..(Len(q) - 1)
        BY <1>1 DEF Places
      <4> QED
        BY <4>2, <4>3
    <3>2. k \in DOMAIN g /\ g[k] = val
      BY <1>1, <1>2, <1>4, <2>1
    <3> QED
      BY <3>1, <3>2 DEF Brings
  <2>2. CASE i # 1
    <3>1. i - 1 \in Places(Tail(q), fd, k) /\ i \in Nat
      BY <1>2, <2>2
    <3>2. \A j \in Places(Tail(q), fd, k) : j <= i - 1
      <4> SUFFICES ASSUME NEW j \in Places(Tail(q), fd, k)
                   PROVE  j <= i - 1
        OBVIOUS
      <4>1. j \in Nat /\ j + 1 \in Places(q, fd, k)
        BY <1>2
      <4>2. j + 1 <= i
        BY <1>4, <4>1
      <4> QED
        BY <3>1, <4>1, <4>2
    <3>3. Tail(q)[i - 1] = q[i]
      <4>1. i - 1 \in 1..(Len(q) - 1)
        BY <1>1, <3>1 DEF Places
      <4>2. Tail(q)[i - 1] = q[(i - 1) + 1] /\ (i - 1) + 1 = i
        BY <1>1, <3>1, <4>1
      <4> QED
        BY <4>2
    <3>4. Tail(q)[i - 1].frame[k] = val
      BY <1>4, <3>3
    <3> QED
      BY <3>1, <3>2, <3>4 DEF Brings
  <2> QED
    BY <2>1, <2>2
<1> QED
  BY <1>3, <1>4 DEF Brings

\* What Brings says of the queue is what Coming chooses from it.
LEMMA BringsIsComing ==
  ASSUME ViewTypeOK, NEW fd, NEW k, NEW val, Brings(queue, view[fd], fd, k, val)
  PROVE  k \in DOMAIN Coming(fd, k) /\ Coming(fd, k)[k] = val
<1>1. Carriers(fd, k) = Places(queue, fd, k)
  BY DEF Carriers, Places
<1>2. CASE Places(queue, fd, k) = {} /\ k \in DOMAIN view[fd] /\ view[fd][k] = val
  BY <1>1, <1>2 DEF Coming
<1>3. ASSUME NEW i \in Places(queue, fd, k), \A j \in Places(queue, fd, k) : j <= i,
             queue[i].frame[k] = val
      PROVE  k \in DOMAIN Coming(fd, k) /\ Coming(fd, k)[k] = val
  <2>1. queue \in Seq(Entries)
    BY DEF ViewTypeOK, Entries
  <2>2. \A j \in Places(queue, fd, k) : j \in Nat
    BY <2>1 DEF Places
  <2>3. \A j \in Places(queue, fd, k) : i >= j
    BY <1>3, <2>2
  <2>4. /\ Max(Carriers(fd, k)) \in Places(queue, fd, k)
        /\ \A j \in Places(queue, fd, k) : Max(Carriers(fd, k)) >= j
    BY <1>1, <2>3 DEF Max
  <2>5. Max(Carriers(fd, k)) = i
    BY <1>3, <2>2, <2>4
  <2>6. Coming(fd, k) = queue[i].frame
    BY <1>1, <2>5 DEF Coming
  <2>7. k \in DOMAIN queue[i].frame
    BY DEF Places
  <2> QED
    BY <1>3, <2>6, <2>7
<1> QED
  BY <1>2, <1>3 DEF Brings

-----------------------------------------------------------------------------
(* LiveView: what a served client has been told of a key, and the frames that *)
(* the two tasks hold meanwhile.                                              *)

Noted(k) == k \in changed_keys \/ force_full

\* ChangesOnTheWay for one client and key; Brings needs no largest place to exist.
IsTold(fd, k) ==
  \/ Noted(k)
  \/ Brings(queue, view[fd], fd, k, map_[k])
  \/ server.to = {fd} /\ Says(server.frame, k)
  \/ (sender.at = "collected" \/ fd \in sender.to) /\ Says(sender.frame, k)

AllTold == \A fd \in Served : \A k \in Keys \ missed[fd] : IsTold(fd, k)

\* A frame that is being sent says what the map says, unless the key was noted since.
SenderCurrent == \A k \in DOMAIN sender.frame : Noted(k) \/ Says(sender.frame, k)

\* The frame of a handshake is not ahead of the map.
ServerNotAhead == \A k \in DOMAIN server.frame : server.frame[k] <= map_[k]

\* A task that is idle holds no frame, and neither does a handshake that has just begun.
Held ==
  /\ sender.at = "idle" => sender = Idle
  /\ server.at = "idle" => server = Idle
  /\ server.at = "added" => server.frame = NoFrame

ViewInv == ViewTypeOK /\ SenderCurrent /\ ServerNotAhead /\ Held /\ AllTold

LEMMA NoFrameSays == DOMAIN NoFrame = {} /\ Idle.frame = NoFrame /\ Idle.to = {} /\ Idle.at = "idle"
BY DEF NoFrame, Idle

LEMMA ChangedSays ==
  ASSUME ViewTypeOK
  PROVE  /\ DOMAIN Changed = IF force_full THEN Fits ELSE changed_keys
         /\ \A k \in DOMAIN Changed : Changed[k] = map_[k]
BY ViewConstants DEF Changed, Restricted, ViewTypeOK

-----------------------------------------------------------------------------
(* LiveView: the frames of the two tasks                                     *)

LEMMA NextSenderCurrent ==
  ASSUME ViewTypeOK, SenderCurrent, ViewNext
  PROVE  SenderCurrent'
<1>1. ASSUME NEW k \in Keys, Set(k)
      PROVE  SenderCurrent'
  <2> SUFFICES ASSUME NEW j \in DOMAIN sender.frame
               PROVE  Noted(j)' \/ Says(sender.frame, j)'
    BY <1>1 DEF Set, SenderCurrent
  <2>1. changed_keys \subseteq changed_keys' /\ (force_full => force_full') /\ Noted(k)'
    BY <1>1 DEF Set, Note, Noted, ViewTypeOK
  <2>2. j # k => map_'[j] = map_[j]
    <3>1. j \in Keys
      BY FrameType DEF ViewTypeOK
    <3> QED
      BY <1>1, <3>1 DEF Set, ViewTypeOK
  <2>3. sender' = sender
    BY <1>1 DEF Set
  <2> QED
    BY <2>1, <2>2, <2>3 DEF SenderCurrent, Noted, Says
<1>2. CASE Broadcast
  <2>1. sender'.frame = Changed /\ map_' = map_
    BY <1>2 DEF Broadcast
  <2> QED
    BY <2>1, ChangedSays DEF SenderCurrent, Says
<1>3. CASE Sent
  <2>1. sender'.frame = NoFrame
    BY <1>3, NoFrameSays DEF Sent
  <2> QED
    BY <2>1, NoFrameSays DEF SenderCurrent
<1>4. CASE UNCHANGED <<tracking, sender.frame>>
  BY <1>4 DEF SenderCurrent, Noted, Says, tracking
<1>5. (Loop /\ ~Broadcast /\ ~Sent) \/ Httpd \/ Peers => UNCHANGED <<tracking, sender.frame>>
  <2>1. Snapshot => UNCHANGED <<tracking, sender.frame>>
    BY DEF Snapshot, ViewTypeOK
  <2>2. Heartbeat => UNCHANGED <<tracking, sender.frame>>
    BY DEF Heartbeat
  <2>3. ASSUME NEW fd \in Fds, QueueFrame(fd) \/ SkipFrame(fd) \/ DropClient(fd) \/ PingRefused(fd)
        PROVE  UNCHANGED <<tracking, sender.frame>>
    BY <2>3 DEF QueueFrame, SkipFrame, DropClient, PingRefused, Sending, ViewTypeOK
  <2>4. Httpd => UNCHANGED <<tracking, sender.frame>>
    BY DEF Httpd, Deliver, Discard, DeliveryFails, TriggeredClose, SessionEnds, SerialiseFull,
           QueueFull, PingFails
  <2>5. Peers => UNCHANGED <<tracking, sender.frame>>
    BY DEF Peers, Handshake, ConnectionBreaks, ClientCloses, SessionEnds
  <2> QED
    BY <2>1, <2>2, <2>3, <2>4, <2>5 DEF Loop
<1> QED
  BY <1>1, <1>2, <1>3, <1>4, <1>5 DEF ViewNext

LEMMA NextServerNotAhead ==
  ASSUME ViewTypeOK, ServerNotAhead, ViewNext
  PROVE  ServerNotAhead'
<1>1. ASSUME NEW k \in Keys, Set(k)
      PROVE  ServerNotAhead'
  <2> SUFFICES ASSUME NEW j \in DOMAIN server.frame
               PROVE  server.frame[j] <= map_'[j]
    BY <1>1 DEF Set, ServerNotAhead
  <2>1. j \in Keys /\ server.frame[j] \in Nat /\ map_[j] \in Nat
    BY FrameType, ViewConstants DEF ViewTypeOK
  <2>2. map_'[j] = map_[j] \/ map_'[j] = map_[j] + 1
    BY <1>1, <2>1 DEF Set, ViewTypeOK
  <2> QED
    BY <2>1, <2>2 DEF ServerNotAhead
<1>2. ASSUME map_' = map_, server'.frame = NoFrame
      PROVE  ServerNotAhead'
  BY <1>2, NoFrameSays DEF ServerNotAhead
<1>3. ASSUME map_' = map_, server'.frame = map_
      PROVE  ServerNotAhead'
  BY <1>3, ViewConstants DEF ServerNotAhead, ViewTypeOK
<1>4. CASE UNCHANGED <<map_, server.frame>>
  BY <1>4 DEF ServerNotAhead
<1>5. Loop \/ Httpd \/ Peers => /\ map_' = map_
                                /\ server'.frame \in {server.frame, NoFrame, map_}
  <2>1. Loop => UNCHANGED <<map_, server>>
    BY DEF Loop, Broadcast, Snapshot, Heartbeat, Sent, QueueFrame, SkipFrame, DropClient,
           PingRefused, Sending, tracking
  <2>2. ASSUME NEW fd \in Fds, SerialiseFull(fd)
        PROVE  map_' = map_ /\ server'.frame \in {server.frame, NoFrame, map_}
    BY <2>2, NoFrameSays DEF SerialiseFull, tracking, ViewTypeOK
  <2>3. ASSUME NEW fd \in Fds, QueueFull(fd)
        PROVE  map_' = map_ /\ server'.frame = NoFrame
    BY <2>3, NoFrameSays DEF QueueFull, tracking
  <2>4. ASSUME NEW fd \in Fds, Handshake(fd)
        PROVE  map_' = map_ /\ server'.frame = NoFrame
    BY <2>4 DEF Handshake, tracking
  <2>5. Deliver \/ Discard \/ DeliveryFails \/ TriggeredClose => UNCHANGED <<map_, server>>
    BY DEF Deliver, Discard, DeliveryFails, TriggeredClose, SessionEnds, tracking
  <2>6. ASSUME NEW fd \in Fds, PingFails(fd) \/ ConnectionBreaks(fd) \/ ClientCloses(fd)
        PROVE  UNCHANGED <<map_, server>>
    BY <2>6 DEF PingFails, ConnectionBreaks, ClientCloses, SessionEnds, tracking
  <2> QED
    BY <2>1, <2>2, <2>3, <2>4, <2>5, <2>6 DEF Httpd, Peers
<1> QED
  BY <1>1, <1>2, <1>3, <1>4, <1>5 DEF ViewNext

LEMMA NextHeldFrames ==
  ASSUME ViewTypeOK, Held, ViewNext
  PROVE  Held'
<1>1. CASE UNCHANGED <<sender, server>>
  BY <1>1 DEF Held
<1>2. CASE Broadcast
  BY <1>2 DEF Broadcast, Held
<1>3. CASE Snapshot
  BY <1>3 DEF Snapshot, Held, ViewTypeOK
<1>4. CASE Sent
  BY <1>4 DEF Sent, Held
<1>5. ASSUME NEW fd \in Fds, QueueFrame(fd) \/ SkipFrame(fd) \/ DropClient(fd)
      PROVE  Held'
  BY <1>5 DEF QueueFrame, SkipFrame, DropClient, Sending, Held, ViewTypeOK
<1>6. ASSUME NEW fd \in Fds, Handshake(fd)
      PROVE  Held'
  BY <1>6 DEF Handshake, Held
<1>7. ASSUME NEW fd \in Fds, SerialiseFull(fd)
      PROVE  Held'
  BY <1>7, NoFrameSays DEF SerialiseFull, Held, ViewTypeOK
<1>8. ASSUME NEW fd \in Fds, QueueFull(fd)
      PROVE  Held'
  BY <1>8, NoFrameSays DEF QueueFull, Held
<1>9. (\E k \in Keys : Set(k)) \/ Heartbeat \/ Deliver \/ Discard \/ DeliveryFails \/ TriggeredClose
        => UNCHANGED <<sender, server>>
  BY DEF Set, Heartbeat, Deliver, Discard, DeliveryFails, TriggeredClose, SessionEnds
<1>10. ASSUME NEW fd \in Fds,
              PingRefused(fd) \/ PingFails(fd) \/ ConnectionBreaks(fd) \/ ClientCloses(fd)
       PROVE  UNCHANGED <<sender, server>>
  BY <1>10 DEF PingRefused, PingFails, ConnectionBreaks, ClientCloses, SessionEnds
<1> QED
  BY <1>1, <1>2, <1>3, <1>4, <1>5, <1>6, <1>7, <1>8, <1>9, <1>10
     DEF ViewNext, Loop, Httpd, Peers

-----------------------------------------------------------------------------
(* LiveView: whoever is served stays told, whatever the tasks and the peers do*)

LEMMA QueueIsEntries ==
  ASSUME ViewTypeOK
  PROVE  queue \in Seq(Entries)
BY DEF ViewTypeOK, Entries

LEMMA SetTold ==
  ASSUME ViewInv, NEW k0 \in Keys, Set(k0)
  PROVE  AllTold'
<1> SUFFICES ASSUME NEW fd \in Served, NEW k \in Keys \ missed[fd]
             PROVE  IsTold(fd, k)'
  BY DEF Set, AllTold, Served
<1>1. IsTold(fd, k)
  BY DEF ViewInv, AllTold
<1>2. changed_keys \subseteq changed_keys' /\ (force_full => force_full') /\ Noted(k0)'
  BY DEF Set, Note, Noted, ViewInv, ViewTypeOK
<1>3. k # k0 => map_'[k] = map_[k]
  BY DEF Set, ViewInv, ViewTypeOK
<1>4. UNCHANGED <<queue, view, server, sender>>
  BY DEF Set
<1>5. CASE k = k0
  BY <1>2, <1>5 DEF IsTold
<1>6. CASE k # k0
  BY <1>1, <1>2, <1>3, <1>4, <1>6 DEF IsTold, Noted, Says
<1> QED
  BY <1>5, <1>6

LEMMA BroadcastTold ==
  ASSUME ViewInv, Broadcast
  PROVE  AllTold'
<1> SUFFICES ASSUME NEW fd \in Served, NEW k \in Keys \ missed'[fd]
             PROVE  IsTold(fd, k)'
  BY DEF Broadcast, AllTold, Served
<1>1. fd \in Fds /\ fd \in open
  BY DEF Served, ViewInv, ViewTypeOK
<1>2. k \notin missed[fd] /\ (force_full => k \in Fits)
  BY <1>1 DEF Broadcast, ViewInv, ViewTypeOK
<1>3. IsTold(fd, k)
  BY <1>2 DEF ViewInv, AllTold
<1>4. UNCHANGED <<map_, queue, view, server>>
  BY DEF Broadcast
<1>5. CASE Noted(k)
  <2>1. k \in DOMAIN Changed /\ Changed[k] = map_[k]
    BY <1>2, <1>5, ChangedSays DEF Noted, ViewInv
  <2>2. sender'.at = "collected" /\ sender'.frame = Changed
    BY DEF Broadcast
  <2> QED
    BY <1>4, <2>1, <2>2 DEF IsTold, Says
<1>6. CASE ~Noted(k)
  <2>1. sender.at = "idle" /\ sender.to = {}
    BY NoFrameSays DEF Broadcast, ViewInv, Held
  <2> QED
    BY <1>3, <1>4, <1>6, <2>1 DEF IsTold, Says
<1> QED
  BY <1>5, <1>6

\* A step of the main loop that leaves the queue and the map alone and keeps its frame for
\* those it was for.
LEMMA LoopTold ==
  ASSUME ViewInv, Snapshot \/ Heartbeat \/ Sent \/ \E fd \in Fds : PingRefused(fd)
  PROVE  AllTold'
<1> SUFFICES ASSUME NEW fd \in Served', NEW k \in Keys \ missed'[fd]
             PROVE  IsTold(fd, k)'
  BY DEF AllTold
<1>1. /\ UNCHANGED <<tracking, open, queue, server, view, missed>>
      /\ client_fds' \subseteq client_fds
  BY DEF Snapshot, Heartbeat, Sent, PingRefused, ForgetClosed
<1>2. IsTold(fd, k)
  <2>1. fd \in Served /\ k \in Keys \ missed[fd]
    BY <1>1 DEF Served
  <2> QED
    BY <2>1 DEF ViewInv, AllTold
<1>3. \/ sender' = sender
      \/ sender'.frame = sender.frame /\ fd \in sender'.to
      \/ sender.at # "collected" /\ sender.to = {}
  <2>1. CASE Snapshot
    BY <2>1 DEF Snapshot, ViewInv, ViewTypeOK, Served
  <2>2. CASE Sent
    BY <2>2 DEF Sent
  <2> QED
    BY <2>1, <2>2 DEF Heartbeat, PingRefused
<1>4. Brings(queue, view[fd], fd, k, map_[k]) => Brings(queue, view[fd], fd, k, map_[k])'
  BY <1>1 DEF tracking
<1> QED
  BY <1>1, <1>2, <1>3, <1>4 DEF IsTold, Noted, Says, tracking

LEMMA SendTold ==
  ASSUME ViewInv, NEW g \in Fds, QueueFrame(g) \/ SkipFrame(g) \/ DropClient(g)
  PROVE  AllTold'
<1> DEFINE e == [work |-> "send", fd |-> g, frame |-> sender.frame]
<1> SUFFICES ASSUME NEW fd \in Served', NEW k \in Keys \ missed'[fd]
             PROVE  IsTold(fd, k)'
  BY DEF AllTold
<1>1. /\ UNCHANGED <<tracking, open, server, view>>
      /\ sender.at = "sending" /\ sender' = [sender EXCEPT !.to = @ \ {g}]
      /\ client_fds' \subseteq client_fds
  BY DEF QueueFrame, SkipFrame, DropClient, Sending
<1>2. fd \in Served /\ fd \in Fds
  BY <1>1 DEF Served, ViewInv, ViewTypeOK
<1>3. /\ sender'.at = sender.at /\ sender'.frame = sender.frame
      /\ sender'.to = sender.to \ {g}
  BY <1>1 DEF ViewInv, ViewTypeOK
<1>4. queue \in Seq(Entries) /\ e \in Entries
  BY QueueIsEntries DEF ViewInv, ViewTypeOK, Entries
<1>5. queue' = queue \/ (QueueFrame(g) /\ queue' = Append(queue, e))
  BY DEF QueueFrame, SkipFrame, DropClient
<1>6. CASE QueueFrame(g) /\ fd = g /\ k \in DOMAIN sender.frame
  <2>1. Noted(k) \/ Says(sender.frame, k)
    BY <1>6 DEF ViewInv, SenderCurrent
  <2>2. CASE Noted(k)
    BY <1>1, <2>2 DEF IsTold, Noted, tracking
  <2>3. CASE Says(sender.frame, k)
    <3>1. Carries(e, fd, k) /\ e.frame[k] = map_[k]
      BY <1>6, <2>3 DEF Carries, Says
    <3>2. Brings(Append(queue, e), view[fd], fd, k, map_[k])
      BY <1>4, <3>1, AppendLast
    <3>3. queue' = Append(queue, e)
      BY <1>6 DEF QueueFrame
    <3> QED
      BY <1>1, <3>2, <3>3 DEF IsTold, tracking
  <2> QED
    BY <2>1, <2>2, <2>3
<1>7. CASE ~(QueueFrame(g) /\ fd = g /\ k \in DOMAIN sender.frame)
  <2>1. k \notin missed[fd]
    BY <1>2, <1>7 DEF QueueFrame, SkipFrame, DropClient, ViewInv, ViewTypeOK, Served
  <2>2. IsTold(fd, k)
    BY <1>2, <2>1 DEF ViewInv, AllTold
  <2>3. fd = g => k \notin DOMAIN sender.frame
    BY <1>1, <1>2, <1>7 DEF SkipFrame, DropClient, Served, ViewInv, ViewTypeOK
  <2>4. ~(QueueFrame(g) /\ Carries(e, fd, k))
    BY <1>7 DEF Carries
  <2>5. Brings(queue, view[fd], fd, k, map_[k]) => Brings(queue', view[fd], fd, k, map_[k])
    BY <1>4, <1>5, <2>4, AppendOther
  <2> QED
    BY <1>1, <1>3, <2>2, <2>3, <2>5 DEF IsTold, Noted, Says, tracking
<1> QED
  BY <1>6, <1>7

LEMMA HandshakeTold ==
  ASSUME ViewInv, NEW g \in Fds, Handshake(g)
  PROVE  AllTold'
<1> SUFFICES ASSUME NEW fd \in Served', NEW k \in Keys \ missed'[fd]
             PROVE  IsTold(fd, k)'
  BY DEF AllTold
<1>1. fd # g
  BY DEF Handshake, ViewInv, ViewTypeOK
<1>2. fd \in Served /\ k \notin missed[fd]
  BY <1>1 DEF Handshake, AddClient, Served, ViewInv, ViewTypeOK
<1>3. IsTold(fd, k)
  BY <1>2 DEF ViewInv, AllTold
<1>4. server.to # {fd}
  BY NoFrameSays DEF Handshake, ViewInv, Held
<1>5. UNCHANGED <<tracking, queue, sender, view>>
  BY DEF Handshake
<1> QED
  BY <1>3, <1>4, <1>5 DEF IsTold, Noted, Says, tracking

LEMMA SerialiseTold ==
  ASSUME ViewInv, NEW g \in Fds, SerialiseFull(g)
  PROVE  AllTold'
<1> SUFFICES ASSUME NEW fd \in Served', NEW k \in Keys \ missed'[fd]
             PROVE  IsTold(fd, k)'
  BY DEF AllTold
<1>1. /\ UNCHANGED <<tracking, client_fds, open, queue, sender, view>>
      /\ server.to = {g} /\ server.frame = NoFrame
  BY DEF SerialiseFull, ViewInv, Held
<1>2. fd \in Fds
  BY <1>1 DEF Served, ViewInv, ViewTypeOK
<1>3. CASE fd = g /\ server' = [server EXCEPT !.at = "serialised", !.frame = map_]
  <2>1. server'.to = {fd} /\ server'.frame = map_
    BY <1>1, <1>3 DEF ViewInv, ViewTypeOK
  <2> QED
    BY <1>1, <2>1 DEF IsTold, Says, tracking, ViewInv, ViewTypeOK
<1>4. CASE ~(fd = g /\ server' = [server EXCEPT !.at = "serialised", !.frame = map_])
  <2>1. k \notin missed[fd]
    BY <1>2, <1>4 DEF SerialiseFull, ViewInv, ViewTypeOK
  <2>2. IsTold(fd, k)
    BY <1>1, <2>1 DEF ViewInv, AllTold, Served
  <2>3. ~(server.to = {fd} /\ Says(server.frame, k))
    BY <1>1, NoFrameSays DEF Says
  <2> QED
    BY <1>1, <2>2, <2>3 DEF IsTold, Noted, Says, tracking
<1> QED
  BY <1>3, <1>4

LEMMA QueueFullTold ==
  ASSUME ViewInv, NEW g \in Fds, QueueFull(g)
  PROVE  AllTold'
<1> DEFINE e == [work |-> "send", fd |-> g, frame |-> server.frame]
<1> SUFFICES ASSUME NEW fd \in Served', NEW k \in Keys \ missed'[fd]
             PROVE  IsTold(fd, k)'
  BY DEF AllTold
<1>1. /\ UNCHANGED <<tracking, client_fds, open, sender, view>>
      /\ server.to = {g}
      /\ \/ queue' = Append(queue, e) /\ missed' = [missed EXCEPT ![g] = @ \cup Crossed(g)]
         \/ queue' = queue /\ missed' = [missed EXCEPT ![g] = Keys]
  BY DEF QueueFull
<1>2. fd \in Fds /\ fd \in Served
  BY <1>1 DEF Served, ViewInv, ViewTypeOK
<1>3. k \notin missed[fd] /\ IsTold(fd, k)
  <2>1. missed[fd] \subseteq missed'[fd]
    BY <1>1, <1>2 DEF ViewInv, ViewTypeOK
  <2> QED
    BY <1>2, <2>1 DEF ViewInv, AllTold
<1>4. queue \in Seq(Entries) /\ e \in Entries
  BY QueueIsEntries DEF ViewInv, ViewTypeOK, Entries
<1>5. CASE fd = g /\ k \in DOMAIN server.frame
  <2>1. queue' = Append(queue, e) /\ k \notin Crossed(fd)
    BY <1>1, <1>2, <1>5 DEF ViewInv, ViewTypeOK
  <2>2. Carries(e, fd, k) /\ e.frame[k] = server.frame[k]
    BY <1>5 DEF Carries
  <2>3. Says(server.frame, k) => Brings(queue', view[fd], fd, k, map_[k])
    BY <1>4, <2>1, <2>2, AppendLast DEF Says
  <2>4. Brings(queue, view[fd], fd, k, map_[k]) => Says(server.frame, k)
    <3> SUFFICES ASSUME Brings(queue, view[fd], fd, k, map_[k])
                 PROVE  server.frame[k] = map_[k]
      BY <1>5 DEF Says
    <3>1. k \in DOMAIN Coming(fd, k) /\ Coming(fd, k)[k] = map_[k]
      BY BringsIsComing DEF ViewInv
    <3>2. ~(map_[k] > server.frame[k])
      BY <1>5, <2>1, <3>1 DEF Crossed
    <3>3. server.frame[k] <= map_[k]
      BY <1>5 DEF ViewInv, ServerNotAhead
    <3>4. server.frame[k] \in Int /\ map_[k] \in Int
      BY <1>5, FrameType, ViewConstants DEF ViewInv, ViewTypeOK
    <3> QED
      BY <3>2, <3>3, <3>4
  <2> QED
    BY <1>1, <1>3, <2>3, <2>4 DEF IsTold, Noted, Says, tracking
<1>6. CASE ~(fd = g /\ k \in DOMAIN server.frame)
  <2>1. ~Carries(e, fd, k) /\ ~(server.to = {fd} /\ Says(server.frame, k))
    BY <1>1, <1>6 DEF Carries, Says
  <2>2. Brings(queue, view[fd], fd, k, map_[k]) => Brings(queue', view[fd], fd, k, map_[k])
    <3>1. queue' = queue \/ queue' = Append(queue, e)
      BY <1>1
    <3> HIDE DEF e
    <3>2. Brings(queue, view[fd], fd, k, map_[k])
            => Brings(Append(queue, e), view[fd], fd, k, map_[k])
      BY <1>4, <2>1, AppendOther
    <3> QED
      BY <3>1, <3>2
  <2> QED
    BY <1>1, <1>3, <2>1, <2>2 DEF IsTold, Noted, Says, tracking
<1> QED
  BY <1>5, <1>6

LEMMA WorkTold ==
  ASSUME ViewInv, Deliver \/ Discard \/ DeliveryFails
  PROVE  AllTold'
<1> DEFINE w == Head(queue)
           c == [work |-> "close", fd |-> w.fd, frame |-> NoFrame]
<1> SUFFICES ASSUME NEW fd \in Served', NEW k \in Keys \ missed'[fd]
             PROVE  IsTold(fd, k)'
  BY DEF AllTold
<1>1. /\ UNCHANGED <<tracking, open, sender, server, missed>> /\ queue # << >>
      /\ client_fds' \subseteq client_fds
      /\ queue' = Tail(queue) \/ queue' = Append(Tail(queue), c)
      /\ w.work = "send"
  BY DEF Deliver, Discard, DeliveryFails
<1>2. fd \in Served /\ k \notin missed[fd] /\ fd \in Fds
  BY <1>1 DEF Served, ViewInv, ViewTypeOK
<1>3. IsTold(fd, k)
  BY <1>2 DEF ViewInv, AllTold
<1>4. queue \in Seq(Entries) /\ Tail(queue) \in Seq(Entries) /\ w \in Entries /\ c \in Entries
  <2>1. queue \in Seq(Entries) /\ Tail(queue) \in Seq(Entries) /\ w \in Entries
    BY <1>1, QueueIsEntries, QueueHead DEF ViewInv
  <2> QED
    BY <2>1, NoFrameType DEF Entries
<1>5. ~Carries(c, fd, k)
  BY DEF Carries
<1>6. Brings(queue, view[fd], fd, k, map_[k]) => Brings(Tail(queue), view'[fd], fd, k, map_[k])
  <2> SUFFICES ASSUME Brings(queue, view[fd], fd, k, map_[k])
               PROVE  Brings(Tail(queue), view'[fd], fd, k, map_[k])
    OBVIOUS
  <2>1. CASE Deliver /\ fd = w.fd
    <3>1. view'[fd] = Merged(view[fd], w.frame)
      BY <1>2, <2>1 DEF Deliver, ViewInv, ViewTypeOK
    <3>2. /\ Carries(w, fd, k) => k \in DOMAIN view'[fd] /\ view'[fd][k] = w.frame[k]
          /\ ~Carries(w, fd, k) /\ k \in DOMAIN view[fd]
               => k \in DOMAIN view'[fd] /\ view'[fd][k] = view[fd][k]
      BY <1>1, <2>1, <3>1 DEF Merged, Carries
    <3> QED
      BY <1>1, <1>4, <3>2, TailBrings
  <2>2. CASE ~(Deliver /\ fd = w.fd)
    <3>1. fd # w.fd
      BY <2>2 DEF Discard, DeliveryFails, Served
    <3>2. view'[fd] = view[fd]
      BY <1>2, <3>1 DEF Deliver, Discard, DeliveryFails, ViewInv, ViewTypeOK
    <3>3. ~Carries(w, fd, k)
      BY <3>1 DEF Carries
    <3> QED
      BY <1>1, <1>4, <3>2, <3>3, TailBrings
  <2> QED
    BY <2>1, <2>2
<1>7. Brings(queue, view[fd], fd, k, map_[k]) => Brings(queue', view'[fd], fd, k, map_[k])
  <2> HIDE DEF c
  <2> QED
    BY <1>1, <1>4, <1>5, <1>6, AppendOther
<1> QED
  BY <1>1, <1>3, <1>7 DEF IsTold, Noted, Says, tracking

LEMMA PingFailsTold ==
  ASSUME ViewInv, NEW g \in Fds, PingFails(g)
  PROVE  AllTold'
<1> DEFINE c == [work |-> "close", fd |-> g, frame |-> NoFrame]
<1> SUFFICES ASSUME NEW fd \in Served', NEW k \in Keys \ missed'[fd]
             PROVE  IsTold(fd, k)'
  BY DEF AllTold
<1>1. /\ UNCHANGED <<tracking, open, sender, server, view, missed>>
      /\ client_fds' \subseteq client_fds /\ queue' = Append(queue, c)
  BY DEF PingFails
<1>2. IsTold(fd, k)
  <2>1. fd \in Served /\ k \in Keys \ missed[fd]
    BY <1>1 DEF Served
  <2> QED
    BY <2>1 DEF ViewInv, AllTold
<1>3. queue \in Seq(Entries) /\ c \in Entries /\ ~Carries(c, fd, k)
  BY QueueIsEntries, NoFrameType DEF ViewInv, Entries, Carries
<1>4. Brings(queue, view[fd], fd, k, map_[k]) => Brings(queue', view[fd], fd, k, map_[k])
  <2> HIDE DEF c
  <2> QED
    BY <1>1, <1>3, AppendOther
<1> QED
  BY <1>1, <1>2, <1>4 DEF IsTold, Noted, Says, tracking

LEMMA CloseTold ==
  ASSUME ViewInv, TriggeredClose \/ \E fd \in Fds : ConnectionBreaks(fd) \/ ClientCloses(fd)
  PROVE  AllTold'
<1> SUFFICES ASSUME NEW fd \in Served', NEW k \in Keys \ missed'[fd]
             PROVE  IsTold(fd, k)'
  BY DEF AllTold
<1>1. PICK g : /\ g \in Fds /\ Gone(g) /\ client_fds' \subseteq client_fds
               /\ UNCHANGED <<tracking, sender, server>>
               /\ \/ queue' = queue
                  \/ queue # << >> /\ Head(queue).work = "close" /\ queue' = Tail(queue)
  <2>1. CASE TriggeredClose
    <3>1. queue # << >> /\ Head(queue).fd \in Fds
      BY <2>1, QueueIsEntries, QueueHead DEF TriggeredClose, Entries, ViewInv
    <3> QED
      BY <2>1, <3>1 DEF TriggeredClose, SessionEnds
  <2> QED
    BY <2>1 DEF ConnectionBreaks, ClientCloses, SessionEnds
<1>2. fd # g /\ fd \in Served /\ fd \in Fds
  BY <1>1 DEF Gone, Served, ViewInv, ViewTypeOK
<1>3. k \notin missed[fd] /\ view'[fd] = view[fd]
  BY <1>1, <1>2 DEF Gone, ViewInv, ViewTypeOK
<1>4. IsTold(fd, k)
  BY <1>2, <1>3 DEF ViewInv, AllTold
<1>5. Brings(queue, view[fd], fd, k, map_[k]) => Brings(queue', view'[fd], fd, k, map_[k])
  <2>1. CASE queue' = queue
    BY <1>3, <2>1
  <2>2. CASE queue # << >> /\ Head(queue).work = "close" /\ queue' = Tail(queue)
    <3>1. queue \in Seq(Entries) /\ ~Carries(Head(queue), fd, k)
      BY <2>2, QueueIsEntries DEF ViewInv, Carries
    <3> QED
      BY <1>3, <2>2, <3>1, TailBrings
  <2> QED
    BY <1>1, <2>1, <2>2
<1> QED
  BY <1>1, <1>4, <1>5 DEF IsTold, Noted, Says, tracking

LEMMA NextViewInv == ViewInv /\ [ViewNext]_viewVars => ViewInv'
<1> SUFFICES ASSUME ViewInv, [ViewNext]_viewVars
             PROVE  ViewInv'
  OBVIOUS
<1>1. CASE UNCHANGED viewVars
  BY <1>1
     DEF viewVars, tracking, bounds, ViewInv, ViewTypeOK, SenderCurrent, ServerNotAhead, Held,
         AllTold, Served, IsTold, Noted, Says
<1>2. CASE ViewNext
  <2>1. AllTold'
    <3>1. CASE \E k \in Keys : Set(k)
      BY <3>1, SetTold
    <3>2. CASE Loop
      BY <3>2, BroadcastTold, LoopTold, SendTold DEF Loop
    <3>3. CASE Httpd
      BY <3>3, WorkTold, CloseTold, SerialiseTold, QueueFullTold, PingFailsTold DEF Httpd
    <3>4. CASE Peers
      BY <3>4, HandshakeTold, CloseTold DEF Peers
    <3> QED
      BY <1>2, <3>1, <3>2, <3>3, <3>4 DEF ViewNext
  <2>2. ViewTypeOK' /\ SenderCurrent' /\ ServerNotAhead' /\ Held'
    BY <1>2, NextViewType, NextSenderCurrent, NextServerNotAhead, NextHeldFrames DEF ViewInv
  <2> QED
    BY <2>1, <2>2 DEF ViewInv
<1> QED
  BY <1>1, <1>2

\* A browser that is served shows what SharedState holds of a key, or that value is on its way:
\* noted for the next broadcast_state, in the hands of send_to_all or send_full_state_to, or
\* last in the web server's queue; the keys it missed are the only exceptions.
THEOREM OnTheWayHolds == ViewSpec => []ChangesOnTheWay
<1>1. ViewInit => ViewInv
  <2> SUFFICES ASSUME ViewInit
               PROVE  SenderCurrent /\ ServerNotAhead /\ Held /\ AllTold
    BY InitViewType DEF ViewInv
  <2>1. sender = Idle /\ server = Idle /\ Served = {}
    BY DEF ViewInit, Served
  <2> QED
    BY <2>1, NoFrameSays DEF SenderCurrent, ServerNotAhead, Held, AllTold
<1>2. ViewInv /\ [ViewNext]_viewVars => ViewInv'
  BY NextViewInv
<1>3. ViewInv => ChangesOnTheWay
  <2> SUFFICES ASSUME ViewInv, NEW fd \in Served, NEW k \in Keys \ missed[fd]
               PROVE  \/ Noted(k) \/ Says(Coming(fd, k), k)
                      \/ server.to = {fd} /\ Says(server.frame, k)
                      \/ (sender.at = "collected" \/ fd \in sender.to) /\ Says(sender.frame, k)
    BY DEF ChangesOnTheWay, Noted
  <2>1. IsTold(fd, k)
    BY DEF ViewInv, AllTold
  <2>2. Brings(queue, view[fd], fd, k, map_[k]) => Says(Coming(fd, k), k)
    BY BringsIsComing DEF ViewInv, Says
  <2> QED
    BY <2>1, <2>2 DEF IsTold
<1> QED
  BY <1>1, <1>2, <1>3, PTL DEF ViewSpec

=============================================================================
