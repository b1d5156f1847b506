-------------------------------- MODULE Wifi --------------------------------
(***************************************************************************)
(* WiFiService (modesp_net): the station with its retries, the access      *)
(* point it falls back to, the probes that lead back to the station, and   *)
(* the scan for networks.                                                  *)
(*                                                                         *)
(* Three tasks share its flags without a lock: the main loop (on_update,   *)
(* its timers), the system's event task (the handler of the driver's       *)
(* events, one at a time in their order) and the web server's (the scan).  *)
(* A check and the step it decides are two steps where another task may    *)
(* come in between. Timers may run out at any time.                        *)
(***************************************************************************)
EXTENDS Integers, Sequences

CONSTANTS
  MAX_RETRIES, \* of the code
  MAX_EVENTS,  \* bounds of the model: events that wait when a timer runs out, and
  MAX_TROUBLE  \* changes of the network, late answers, requests and restarts together

ASSUME WifiAssumption ==
  MAX_RETRIES \in Nat \ {0} /\ MAX_EVENTS \in Nat \ {0} /\ MAX_TROUBLE \in Nat

VARIABLES
  ssid,      \* credentials are saved (ssid_ is not empty)
  ap_mode, connected, probing, retry,
  pending,   \* reconnect_pending_
  driver,    \* the driver's mode, its station and the events it has posted
  loop,      \* where the main loop is: "idle" or what it has decided to do
  httpd,     \* where the web server's task is in start_scan and get_scan_results
  router,    \* the network of the credentials can be reached
  trouble

flags == <<ap_mode, connected, probing, retry, pending>>
vars  == <<ssid, flags, driver, loop, httpd, router, trouble>>

Trouble == trouble < MAX_TROUBLE /\ trouble' = trouble + 1

-----------------------------------------------------------------------------
(* The driver                                                              *)

StaModes == {"sta", "apsta"}
Post(d, e) == [d EXCEPT !.events = Append(@, e)]

\* esp_wifi_connect fails without a station and does nothing when it is connected.
Connect(d) == IF d.mode \in StaModes /\ d.sta = "idle" THEN [d EXCEPT !.sta = "trying"] ELSE d

Disconnect(d) == IF d.sta = "idle" THEN d ELSE Post([d EXCEPT !.sta = "idle"], "disconnected")

\* Without a station there is no connection; a station that is new says so.
SetMode(d, m) ==
  LET kept == IF m \in StaModes THEN d ELSE Disconnect(d)
      new  == [kept EXCEPT !.mode = m]
  IN  IF m \in StaModes /\ d.mode \notin StaModes THEN Post(new, "started") ELSE new

Stopped(d) == [Disconnect(d) EXCEPT !.mode = "off"]

Associates ==
  /\ driver.sta = "trying" /\ router
  /\ driver' = Post([driver EXCEPT !.sta = "up"], "got_ip")
  /\ UNCHANGED <<ssid, flags, loop, httpd, router, trouble>>

AttemptFails ==
  /\ driver.sta = "trying"
  /\ IF router THEN Trouble ELSE UNCHANGED trouble
  /\ driver' = Disconnect(driver)
  /\ UNCHANGED <<ssid, flags, loop, httpd, router>>

\* The network goes or comes; a station that was connected notices.
RouterChanges ==
  /\ Trouble
  /\ router' = ~router
  /\ driver' = IF driver.sta = "up" THEN Disconnect(driver) ELSE driver
  /\ UNCHANGED <<ssid, flags, loop, httpd>>

\* A timer runs out before a network that is there has answered, or before the event
\* task was told; the event task keeps up with a few events.
MayRunOut ==
  /\ Len(driver.events) <= MAX_EVENTS
  /\ IF router /\ (driver.sta = "trying" \/ driver.events # <<>>)
     THEN Trouble ELSE UNCHANGED trouble

-----------------------------------------------------------------------------
(* The main loop                                                           *)

\* Mutant: the retries never end.
RetryForEver ==
  /\ loop = "idle" /\ pending /\ ~ap_mode /\ MayRunOut
  /\ driver' = Connect(driver)
  /\ retry' = IF retry < MAX_RETRIES THEN retry + 1 ELSE retry
  /\ UNCHANGED <<ssid, ap_mode, connected, probing, pending, loop, httpd, router>>

\* The timer of reconnect_pending_: another attempt, or the access point.
Retry ==
  /\ loop = "idle" /\ pending /\ ~ap_mode /\ MayRunOut
  /\ IF retry < MAX_RETRIES
     THEN retry' = retry + 1 /\ driver' = Connect(driver) /\ UNCHANGED <<pending, loop>>
     ELSE /\ pending' = FALSE /\ UNCHANGED retry
          /\ driver' = SetMode(Stopped(driver), "ap")
          /\ loop' = "start_ap"
  /\ UNCHANGED <<ssid, ap_mode, connected, probing, httpd, router>>

\* start_ap, once the driver is in its new mode: the flags.
ApStarted ==
  /\ loop = "start_ap" /\ loop' = "idle"
  /\ ap_mode' = TRUE /\ connected' = FALSE /\ pending' = FALSE /\ probing' = FALSE
  /\ UNCHANGED <<ssid, retry, driver, httpd, router, trouble>>

\* The timer of the probe.
DecideProbe ==
  /\ loop = "idle" /\ ap_mode /\ ~probing /\ ssid /\ MayRunOut
  /\ loop' = "probe"
  /\ UNCHANGED <<ssid, flags, driver, httpd, router>>

\* attempt_ap_sta_probe: first the flag, then the mode.
BeginProbe ==
  /\ loop = "probe" /\ loop' = "probe_mode"
  /\ probing' = TRUE
  /\ UNCHANGED <<ssid, ap_mode, connected, retry, pending, driver, httpd, router, trouble>>

\* Mutant: the start of the station is left to connect it.
ProbeModeOnly ==
  /\ loop = "probe_mode" /\ loop' = "idle"
  /\ driver' = SetMode(driver, "apsta")
  /\ UNCHANGED <<ssid, flags, httpd, router, trouble>>

ProbeMode ==
  /\ loop = "probe_mode" /\ loop' = "idle"
  /\ driver' = Connect(SetMode(driver, "apsta"))
  /\ UNCHANGED <<ssid, flags, httpd, router, trouble>>

\* The probe's fifteen seconds are over.
DecideCancel ==
  /\ loop = "idle" /\ probing /\ MayRunOut
  /\ loop' = "cancel"
  /\ UNCHANGED <<ssid, flags, driver, httpd, router>>

\* cancel_ap_sta_probe
Cancel ==
  /\ probing' = FALSE
  /\ driver' = SetMode(Disconnect(driver), "ap")

CancelByLoop ==
  /\ loop = "cancel" /\ loop' = "idle" /\ Cancel
  /\ UNCHANGED <<ssid, ap_mode, connected, retry, pending, httpd, router, trouble>>

-----------------------------------------------------------------------------
(* The event handler                                                       *)

Event(e) == driver.events # <<>> /\ Head(driver.events) = e
Rest     == [driver EXCEPT !.events = Tail(@)]

\* WIFI_EVENT_STA_START: a probe connects by itself.
OnStarted ==
  /\ Event("started")
  /\ driver' = IF probing THEN Rest ELSE Connect(Rest)
  /\ UNCHANGED <<ssid, flags, loop, httpd, router, trouble>>

\* WIFI_EVENT_STA_DISCONNECTED: the probe has failed, or the connection is lost.
OnDisconnected ==
  /\ Event("disconnected")
  /\ IF probing
     THEN /\ probing' = FALSE
          /\ driver' = SetMode(Disconnect(Rest), "ap")
          /\ UNCHANGED <<connected, pending>>
     ELSE /\ connected' = FALSE /\ pending' = (pending \/ ~ap_mode)
          /\ driver' = Rest /\ UNCHANGED probing
  /\ UNCHANGED <<ssid, ap_mode, retry, loop, httpd, router, trouble>>

\* Mutant: the access point is released, the flag says it is still there.
OnGotIpKeepsAp ==
  /\ Event("got_ip")
  /\ connected' = TRUE /\ pending' = FALSE /\ retry' = 0
  /\ probing' = FALSE
  /\ driver' = IF probing THEN SetMode(Rest, "sta") ELSE Rest
  /\ UNCHANGED <<ssid, ap_mode, loop, httpd, router, trouble>>

\* Mutant: the probe is still on when it has succeeded.
OnGotIpKeepsProbing ==
  /\ Event("got_ip")
  /\ connected' = TRUE /\ pending' = FALSE /\ retry' = 0
  /\ IF probing
     THEN ap_mode' = FALSE /\ driver' = SetMode(Rest, "sta")
     ELSE driver' = Rest /\ UNCHANGED ap_mode
  /\ UNCHANGED <<ssid, probing, loop, httpd, router, trouble>>

\* IP_EVENT_STA_GOT_IP: after a probe the access point is released.
OnGotIp ==
  /\ Event("got_ip")
  /\ connected' = TRUE /\ pending' = FALSE /\ retry' = 0
  /\ IF probing
     THEN probing' = FALSE /\ ap_mode' = FALSE /\ driver' = SetMode(Rest, "sta")
     ELSE driver' = Rest /\ UNCHANGED <<probing, ap_mode>>
  /\ UNCHANGED <<ssid, loop, httpd, router, trouble>>

-----------------------------------------------------------------------------
(* The web server's task                                                   *)

\* The credentials are saved; nothing reconnects.
SaveCredentials ==
  /\ httpd = "idle" /\ ~ssid /\ Trouble
  /\ ssid' = TRUE
  /\ UNCHANGED <<flags, driver, loop, httpd, router>>

\* start_scan looks at the probe first.
BeginScan ==
  /\ httpd = "idle" /\ Trouble
  /\ httpd' = IF probing THEN "cancel" ELSE "scan_mode"
  /\ UNCHANGED <<ssid, flags, driver, loop, router>>

CancelByScan ==
  /\ httpd = "cancel" /\ httpd' = "scan_mode" /\ Cancel
  /\ UNCHANGED <<ssid, ap_mode, connected, retry, pending, loop, router, trouble>>

\* The scan needs a station, which must not be connecting; or it is refused.
ScanMode ==
  /\ httpd = "scan_mode"
  /\ \/ httpd' = "idle" /\ UNCHANGED driver
     \/ /\ ap_mode /\ driver.mode \in {"ap", "apsta"}
        /\ httpd' = "scan_disconnect" /\ driver' = SetMode(driver, "apsta")
     \/ /\ ~(ap_mode /\ driver.mode \in {"ap", "apsta"})
        /\ httpd' = "scan_sta" /\ UNCHANGED driver
  /\ UNCHANGED <<ssid, flags, loop, router, trouble>>

ScanDisconnect ==
  /\ httpd = "scan_disconnect" /\ httpd' = "scan_ap"
  /\ driver' = Disconnect(driver)
  /\ UNCHANGED <<ssid, flags, loop, router, trouble>>

\* The scan is over or has failed; the access point is restored if there was one.
EndScan ==
  /\ httpd \in {"scan_sta", "scan_ap"} /\ httpd' = "idle"
  /\ driver' = IF httpd = "scan_ap" THEN SetMode(driver, "ap") ELSE driver
  /\ UNCHANGED <<ssid, flags, loop, router, trouble>>

-----------------------------------------------------------------------------
(* Start and restart                                                       *)

Off == [mode |-> "off", sta |-> "idle", events |-> <<>>]

\* on_init: the station with the saved credentials, or the access point.
Init ==
  /\ ssid \in BOOLEAN /\ router \in BOOLEAN
  /\ ap_mode = ~ssid /\ driver = SetMode(Off, IF ssid THEN "sta" ELSE "ap")
  /\ connected = FALSE /\ probing = FALSE /\ pending = FALSE /\ retry = 0
  /\ loop = "idle" /\ httpd = "idle" /\ trouble = 0

Boot ==
  /\ ap_mode' = ~ssid /\ driver' = SetMode(Off, IF ssid THEN "sta" ELSE "ap")
  /\ connected' = FALSE /\ probing' = FALSE /\ pending' = FALSE /\ retry' = 0
  /\ loop' = "idle" /\ httpd' = "idle"
  /\ UNCHANGED <<ssid, router>>

\* The watchdog of the station: ten minutes without connection in the end.
StaWatchdog == loop = "idle" /\ ~ap_mode /\ ~connected /\ Trouble /\ Boot

PowerCut == Trouble /\ Boot

OnUpdate == Retry \/ ApStarted \/ DecideProbe \/ BeginProbe \/ ProbeMode
            \/ DecideCancel \/ CancelByLoop \/ StaWatchdog
Handler  == OnStarted \/ OnDisconnected \/ OnGotIp
Scan     == CancelByScan \/ ScanMode \/ ScanDisconnect \/ EndScan
Driver   == Associates \/ AttemptFails

Next == OnUpdate \/ Handler \/ SaveCredentials \/ BeginScan \/ Scan \/ Driver
        \/ RouterChanges \/ PowerCut

Spec == Init /\ [][Next]_vars

\* The three tasks run, the timers run out, an attempt has a result.
FairSpec ==
  /\ Spec
  /\ WF_vars(Retry) /\ WF_vars(DecideProbe) /\ WF_vars(DecideCancel)
  /\ WF_vars(ApStarted \/ BeginProbe \/ ProbeMode \/ CancelByLoop)
  /\ WF_vars(Handler) /\ WF_vars(Scan) /\ WF_vars(Driver)

-----------------------------------------------------------------------------
(* Properties                                                              *)

TypeOK ==
  /\ ssid \in BOOLEAN /\ ap_mode \in BOOLEAN /\ connected \in BOOLEAN
  /\ probing \in BOOLEAN /\ pending \in BOOLEAN /\ router \in BOOLEAN
  /\ retry \in 0..MAX_RETRIES /\ trouble \in 0..MAX_TROUBLE
  /\ driver \in [mode : {"sta", "ap", "apsta"}, sta : {"idle", "trying", "up"},
                 events : Seq({"started", "disconnected", "got_ip"})]
  /\ loop \in {"idle", "start_ap", "probe", "probe_mode", "cancel"}
  /\ httpd \in {"idle", "cancel", "scan_mode", "scan_disconnect", "scan_ap", "scan_sta"}

\* A service in STA mode that believes to be connected is, or the event that tells it
\* otherwise waits to be handled: nothing would reconnect it, neither the retries nor
\* the watchdog. (In AP mode the flag can be stale: a probe's event does not clear it.)
ConnectedIsUp ==
  connected /\ ~ap_mode =>
    \/ driver.sta = "up"
    \/ \E i \in DOMAIN driver.events : driver.events[i] = "disconnected"

\* A service that is in AP mode has an access point, whatever a probe, a scan and the
\* event handler did at the same time: an installer can always reach the board.
ApIsServed == ap_mode => driver.mode \in {"ap", "apsta"}

Online == connected /\ ~ap_mode /\ driver.sta = "up"

\* Once the network is back for good and nothing else happens, a controller with
\* credentials is connected as a station, and stays so, whichever of its attempts,
\* probes and scans were under way.
BackOnline == <>[](router /\ ssid => Online)

\* Without a network the controller ends up with an access point.
FallsBack == []<>(~router => ap_mode /\ driver.mode \in {"ap", "apsta"})

=============================================================================
