----------------------------- MODULE CloudLink -----------------------------
(***************************************************************************)
(* The cloud services: MqttService (modesp_mqtt) and AwsIotService         *)
(* (modesp_aws), of which a build has one. Both keep a client, publish the *)
(* keys that differ from a cache of what they published, and take commands.*)
(*                                                                         *)
(* The main loop runs on_update, which starts and stops the client and     *)
(* publishes key by key; the client's own task runs the event handler with *)
(* the commands; the web server's task saves the configuration. Any task   *)
(* writes the state map. The backfill is in DataLog.                       *)
(***************************************************************************)
EXTENDS Integers, FiniteSets

CONSTANTS
  Services,   \* the builds to look at: a subset of {"mqtt", "aws"}
  AlarmKeys,  \* published keys whose name begins with "protection."
  OtherKeys,  \* the other published keys
  Untracked,  \* published keys that are set with track_change = false
  Params,     \* writable keys
  Fits,       \* those that fit the buffer of the shadow's document, whatever their values
  Tenants,    \* each gives a prefix of the topics
  None,       \* no value, no client
  MAX_WRITES, \* bounds of the model: changes of a value, and
  MAX_TROUBLE \* lost connections, calls that fail, commands and requests together

Keys == AlarmKeys \cup OtherKeys

ASSUME CloudLinkAssumption ==
  /\ Services \subseteq {"mqtt", "aws"}
  /\ AlarmKeys \cap OtherKeys = {} /\ Keys \cap Params = {}
  /\ Untracked \subseteq Keys /\ Fits \subseteq Params
  /\ IsFiniteSet(Keys \cup Params) /\ Tenants # {}
  /\ None \notin {0, 1}
  /\ {MAX_WRITES, MAX_TROUBLE} \subseteq Nat

VARIABLES
  service,   \* which of the two this build has
  value,     \* the state map
  behind,    \* version_ differs from last_version_
  cache,     \* last_payloads_
  report,    \* params_publish_requested_, or shadow_dirty_ and shadow_version_
  config,    \* enabled_, and tenant_ with the prefix it gives
  client,    \* client_: the tenant it was started with
  link,      \* the broker has a session with it
  connected, \* connected_
  reconnect, \* reconnect_requested_
  loop,      \* where the main loop is in on_update
  task,      \* where the client's task is in its handler
  httpd,     \* where the web server's task is in handle_post_mqtt
  seen,      \* the last value of a key the broker was sent under the present prefix
  reported,  \* the last value of a parameter the broker was sent
  lost,      \* history: cached keys the current topics were never sent
  missed,    \* history: keys with a change that no comparison of versions will show
  writes, trouble

state  == <<value, behind>>
asked  == <<config, reconnect>>
broker == <<seen, reported>>
past   == <<lost, missed>>
bounds == <<writes, trouble>>
vars == <<service, state, cache, report, asked, client, link, connected, loop, task, httpd,
          broker, past, bounds>>

Nothing == [k \in Keys |-> None]
Idle    == [at |-> "idle", left |-> {}, frame |-> [k \in {} |-> None]]

Mqtt == service = "mqtt"

\* Something goes wrong, or somebody meddles.
Trouble == trouble < MAX_TROUBLE /\ trouble' = trouble + 1

-----------------------------------------------------------------------------
(* The map                                                                 *)

\* Whoever goes by the version has looked at this key already, and will take note of
\* the version once it is through with the others.
Passed(k) ==
  \/ loop.at = "scan"   /\ k \in Keys \ loop.left
  \/ loop.at = "report" /\ k \in Params

\* A module, the web server or a command changes a key. The version counts the change
\* if it is tracked.
Set(k) ==
  /\ writes < MAX_WRITES /\ writes' = writes + 1
  /\ value' = [value EXCEPT ![k] = 1 - @]
  /\ IF k \in Untracked
     THEN UNCHANGED <<behind, report>>
     ELSE behind' = TRUE /\ report' = [report EXCEPT !.behind = ~Mqtt]
  /\ missed' = IF k \in Untracked \/ Passed(k) THEN missed \cup {k} ELSE missed
  /\ UNCHANGED <<service, cache, asked, client, link, connected, loop, task, httpd, broker,
                 lost, trouble>>

-----------------------------------------------------------------------------
(* on_update: the client                                                   *)

\* start_client: with the configuration of the moment; it may fail.
StartClient ==
  /\ \/ client' = config.tenant /\ UNCHANGED trouble
     \/ client' = None /\ Trouble
  /\ UNCHANGED <<link, connected>>

\* The request is cleared and the client stopped, then it is started again.
TakeRequest ==
  /\ reconnect /\ loop.at = "idle"
  /\ reconnect' = FALSE
  /\ client' = None /\ link' = FALSE /\ connected' = FALSE
  /\ loop' = [loop EXCEPT !.at = "restart"]

\* stop_client waits for the client's task.
BeginReconnect ==
  /\ Mqtt /\ task = "idle"
  /\ TakeRequest
  /\ UNCHANGED <<service, state, cache, report, config, task, httpd, broker, past, bounds>>

Restart ==
  /\ loop.at = "restart" /\ loop' = Idle
  /\ IF config.enabled THEN StartClient ELSE UNCHANGED <<client, link, connected, trouble>>
  /\ UNCHANGED <<service, state, cache, report, asked, task, httpd, broker, past,
                 writes>>

\* The deferred start, once there is a network.
DeferredStart ==
  /\ loop.at = "idle" /\ ~(Mqtt /\ reconnect)
  /\ client = None /\ config.enabled
  /\ StartClient
  /\ UNCHANGED <<service, state, cache, report, asked, loop, task, httpd, broker, past,
                 writes>>

-----------------------------------------------------------------------------
(* on_update: publishing                                                   *)

Publishing ==
  /\ connected /\ config.enabled /\ ~(Mqtt /\ reconnect) /\ loop.at = "idle"

\* publish_state, if the version has changed.
BeginScan ==
  /\ Publishing /\ behind
  /\ loop' = [Idle EXCEPT !.at = "scan", !.left = Keys]
  /\ UNCHANGED <<service, state, cache, report, asked, client, link, connected, task, httpd,
                 broker, past, bounds>>

Published(k) ==
  /\ seen' = [seen EXCEPT ![k] = value[k]]
  /\ lost' = lost \ {k}

\* One key: nothing to do if the cache has its value. The cache is updated whether or
\* not the client could send it.
ScanKey(k) ==
  /\ loop.at = "scan" /\ k \in loop.left
  /\ loop' = [loop EXCEPT !.left = @ \ {k}]
  /\ missed' = missed \ {k}
  /\ IF cache[k] = value[k]
     THEN UNCHANGED <<cache, seen, lost, trouble>>
     ELSE /\ cache' = [cache EXCEPT ![k] = value[k]]
          /\ \/ link /\ Published(k) /\ UNCHANGED trouble
             \/ /\ IF link THEN Trouble ELSE UNCHANGED trouble
                /\ lost' = lost \cup {k} /\ UNCHANGED seen
  /\ UNCHANGED <<service, state, report, asked, client, link, connected, task, httpd,
                 reported, writes>>

EndScan ==
  /\ loop.at = "scan" /\ loop.left = {}
  /\ behind' = FALSE
  /\ loop' = Idle
  /\ UNCHANGED <<service, value, cache, report, asked, client, link, connected, task, httpd,
                 broker, past, bounds>>

\* The parameters with their values. The shadow's document takes no more of them once
\* its buffer is nearly full.
Report(params) ==
  /\ loop' = [Idle EXCEPT !.at = "report", !.frame = [p \in params |-> value[p]]]
  /\ report' = IF Mqtt THEN [report EXCEPT !.due = FALSE] ELSE report
  /\ missed' = missed \ params
  /\ UNCHANGED <<service, state, cache, asked, client, link, connected, task, httpd, broker,
                 lost, bounds>>

Documents == {d \in SUBSET Params : Fits \subseteq d /\ (Mqtt => d = Params)}

\* Mutant: the shadow is only reported when a delta was applied or the link is new.
BeginReportOnDelta ==
  Publishing /\ report.due /\ \E d \in Documents : Report(d)

\* publish_params on request; publish_shadow_reported every five seconds if there is
\* anything new.
BeginReport ==
  Publishing /\ (report.due \/ report.behind) /\ \E d \in Documents : Report(d)

ReportDone == [due |-> FALSE, behind |-> FALSE]

\* The message is out; only now are the flags of the shadow cleared.
EndReport ==
  /\ loop.at = "report" /\ loop' = Idle
  /\ \/ /\ link
        /\ reported' = [p \in Params |-> IF p \in DOMAIN loop.frame
                                        THEN loop.frame[p] ELSE reported[p]]
        /\ UNCHANGED <<missed, trouble>>
     \/ /\ IF link THEN Trouble ELSE UNCHANGED trouble
        /\ missed' = missed \cup Params /\ UNCHANGED reported
  /\ report' = IF Mqtt THEN report ELSE ReportDone
  /\ UNCHANGED <<service, state, cache, asked, client, link, connected, task, httpd, seen,
                 lost, writes>>

\* Mutant: the cache is asked for the alarms too.
SendAlarmsIfNew ==
  \/ /\ link
     /\ seen' = [k \in Keys |-> IF k \in AlarmKeys /\ cache[k] # value[k]
                               THEN value[k] ELSE seen[k]]
     /\ lost' = lost \ AlarmKeys /\ UNCHANGED trouble
  \/ /\ IF link THEN Trouble ELSE UNCHANGED trouble
     /\ UNCHANGED <<seen, lost>>

\* publish_alarms_retained: every alarm key, whatever the cache says.
SendAlarms ==
  \/ /\ link
     /\ seen' = [k \in Keys |-> IF k \in AlarmKeys THEN value[k] ELSE seen[k]]
     /\ lost' = lost \ AlarmKeys /\ UNCHANGED trouble
  \/ /\ IF link THEN Trouble ELSE UNCHANGED trouble
     /\ UNCHANGED <<seen, lost>>

\* on_update every five minutes.
RepublishAlarms ==
  /\ Mqtt /\ Publishing /\ SendAlarms
  /\ UNCHANGED <<service, state, cache, report, asked, client, link, connected, loop, task,
                 httpd, reported, missed, writes>>

-----------------------------------------------------------------------------
(* The client's task                                                       *)

\* Mutant: the version is not forgotten with the cache.
ForgetCacheOnly ==
  /\ cache' = Nothing /\ UNCHANGED behind
  /\ lost' = {}
  /\ missed' = missed \cup {k \in Keys : Passed(k)}

\* The cache and last_version_ are cleared. A scan that is on its way does not go back,
\* and sets last_version_ when it ends.
ForgetCache ==
  /\ cache' = Nothing /\ behind' = TRUE
  /\ lost' = {}
  /\ missed' = missed \cup {k \in Keys : Passed(k)}

\* MQTT_EVENT_CONNECTED, first half.
OnConnected ==
  /\ client # None /\ ~link /\ ~connected /\ task = "idle"
  /\ link' = TRUE /\ connected' = TRUE
  /\ behind' = (behind \/ Mqtt)
  /\ task' = "connected"
  /\ UNCHANGED <<service, value, cache, report, asked, client, loop, httpd, broker, past, bounds>>

\* Second half: one service publishes the alarms, the other clears its cache.
AfterConnected ==
  /\ task = "connected" /\ task' = "idle"
  /\ IF Mqtt
     THEN SendAlarms /\ UNCHANGED <<behind, cache, report, missed>>
     ELSE /\ ForgetCache
          /\ report' = [due |-> TRUE, behind |-> TRUE]
          /\ UNCHANGED <<seen, trouble>>
  /\ UNCHANGED <<service, value, asked, client, link, connected, loop, httpd, reported,
                 writes>>

LinkBreaks ==
  /\ link /\ Trouble
  /\ link' = FALSE
  /\ UNCHANGED <<service, state, cache, report, asked, client, connected, loop, task, httpd,
                 broker, past, writes>>

\* MQTT_EVENT_DISCONNECTED, which comes later.
OnDisconnected ==
  /\ ~link /\ connected /\ task = "idle"
  /\ connected' = FALSE
  /\ UNCHANGED <<service, state, cache, report, asked, client, link, loop, task, httpd,
                 broker, past, bounds>>

Command ==
  link /\ connected /\ task = "idle" /\ Trouble

\* _request_full_state
RequestFullState ==
  /\ Mqtt /\ Command
  /\ ForgetCache /\ report' = [report EXCEPT !.due = TRUE]
  /\ UNCHANGED <<service, value, asked, client, link, connected, loop, task, httpd, broker,
                 writes>>

\* The topics have another prefix, under which nothing was sent (or so long ago that it
\* does not count); the cache is still that of the old one.
SetConfig(e, t) ==
  /\ config' = [enabled |-> e, tenant |-> t]
  /\ UNCHANGED missed
  /\ IF t = config.tenant
     THEN UNCHANGED <<seen, lost>>
     ELSE seen' = Nothing /\ lost' = {k \in Keys : cache[k] # None}

\* _set_tenant: the prefix first, the request to reconnect afterwards.
SetTenant(t) ==
  /\ Mqtt /\ Command /\ SetConfig(config.enabled, t)
  /\ task' = "tenant"
  /\ UNCHANGED <<service, state, cache, report, reconnect, client, link, connected, loop, httpd,
                 reported, writes>>

\* Mutant: the new prefix is used for publishing, the session is not renewed.
AfterSetTenantStays ==
  /\ task = "tenant" /\ task' = "idle"
  /\ UNCHANGED <<service, state, cache, report, asked, client, link, connected, loop, httpd,
                 broker, past, bounds>>

AfterSetTenant ==
  /\ task = "tenant" /\ task' = "idle"
  /\ reconnect' = TRUE
  /\ UNCHANGED <<service, state, cache, report, config, client, link, connected, loop, httpd,
                 broker, past, bounds>>

\* handle_shadow_delta, once it has set the keys.
ShadowDelta ==
  /\ service = "aws" /\ Command
  /\ report' = [report EXCEPT !.due = TRUE]
  /\ UNCHANGED <<service, state, cache, asked, client, link, connected, loop, task, httpd,
                 broker, past, writes>>

-----------------------------------------------------------------------------
(* The web server's task                                                   *)

\* save_config: new settings, and the prefix they give.
SaveConfig ==
  /\ Mqtt /\ httpd = "idle" /\ Trouble
  /\ \E e \in BOOLEAN, t \in Tenants : SetConfig(e, t)
  /\ httpd' = "saved"
  /\ UNCHANGED <<service, state, cache, report, reconnect, client, link, connected, loop, task,
                 reported, writes>>

\* Mutant: a reconnect is only asked for when there is something to connect to.
AfterSaveConfigIfEnabled ==
  /\ httpd = "saved" /\ httpd' = "idle"
  /\ reconnect' = config.enabled
  /\ UNCHANGED <<service, state, cache, report, config, client, link, connected, loop, task,
                 broker, past, bounds>>

\* handle_post_mqtt then asks for a reconnect.
AfterSaveConfig ==
  /\ httpd = "saved" /\ httpd' = "idle"
  /\ reconnect' = TRUE
  /\ UNCHANGED <<service, state, cache, report, config, client, link, connected, loop, task,
                 broker, past, bounds>>

\* handle_post_cloud: saved, and nothing else; a client that runs goes on.
PostCloud ==
  /\ service = "aws" /\ Trouble
  /\ \E e \in BOOLEAN : config' = [config EXCEPT !.enabled = e]
  /\ UNCHANGED <<service, state, cache, report, reconnect, client, link, connected, loop, task,
                 httpd, broker, past, writes>>

-----------------------------------------------------------------------------

Init ==
  /\ service \in Services
  /\ value = [k \in Keys \cup Params |-> 0] /\ behind = TRUE
  /\ cache = Nothing
  /\ report = [due |-> FALSE, behind |-> ~Mqtt]
  /\ \E e \in BOOLEAN : config = [enabled |-> e, tenant |-> CHOOSE t \in Tenants : TRUE]
  /\ client = None /\ link = FALSE /\ connected = FALSE /\ reconnect = FALSE
  /\ loop = Idle /\ task = "idle" /\ httpd = "idle"
  /\ seen = Nothing
  /\ reported = [p \in Params |-> None]
  /\ lost = {} /\ missed = {}
  /\ writes = 0 /\ trouble = 0

OnUpdate ==
  \/ BeginReconnect \/ Restart \/ DeferredStart
  \/ BeginScan \/ (\E k \in Keys : ScanKey(k)) \/ EndScan
  \/ BeginReport \/ EndReport \/ RepublishAlarms

Events  == OnConnected \/ AfterConnected \/ OnDisconnected \/ AfterSetTenant
Remote  == LinkBreaks \/ RequestFullState \/ ShadowDelta
           \/ \E t \in Tenants : SetTenant(t)
Request == SaveConfig \/ AfterSaveConfig \/ PostCloud

Next == (\E k \in Keys \cup Params : Set(k)) \/ OnUpdate \/ Events \/ Remote \/ Request

Spec == Init /\ [][Next]_vars

\* The tasks run for ever, the timers of on_update come round, and a client that tries
\* again and again reaches its broker.
FairSpec ==
  /\ Spec
  /\ WF_vars(OnUpdate) /\ WF_vars(Events) /\ WF_vars(AfterSaveConfig)
  /\ WF_vars(BeginReconnect) /\ WF_vars(DeferredStart) /\ WF_vars(OnConnected)
  /\ SF_vars(BeginScan) /\ SF_vars(BeginReport) /\ SF_vars(RepublishAlarms)

-----------------------------------------------------------------------------
(* Properties                                                              *)

TasksType ==
  /\ service \in Services
  /\ behind \in BOOLEAN
  /\ report \in [due : BOOLEAN, behind : BOOLEAN]
  /\ config \in [enabled : BOOLEAN, tenant : Tenants]
  /\ client \in Tenants \cup {None}
  /\ link \in BOOLEAN /\ connected \in BOOLEAN /\ reconnect \in BOOLEAN
  /\ task \in {"idle", "connected", "tenant"} /\ httpd \in {"idle", "saved"}

LoopType ==
  /\ loop \in [at : {"idle", "restart", "scan", "report"}, left : SUBSET Keys,
               frame : UNION {[d -> {0, 1}] : d \in SUBSET Params}]
  /\ loop.at = "report" => Fits \subseteq DOMAIN loop.frame

MapsType ==
  /\ value \in [Keys \cup Params -> {0, 1}]
  /\ cache \in [Keys -> {0, 1, None}]
  /\ seen \in [Keys -> {0, 1, None}]
  /\ reported \in [Params -> {0, 1, None}]
  /\ lost \subseteq Keys /\ missed \subseteq Keys \cup Params

TypeOK == TasksType /\ LoopType /\ MapsType

\* A client of the MQTT service that runs was started with the prefix of the current
\* configuration (its will and its subscription have it), or a request to start it
\* again is pending or about to be made.
ConfigInUse ==
  Mqtt /\ client # None =>
    \/ client = config.tenant
    \/ reconnect \/ task = "tenant" \/ httpd = "saved"

\* The MQTT service, once disabled, has no client in the end, unless it is enabled again.
DisabledStops ==
  []<>(Mqtt => config.enabled \/ client = None)

Up == connected /\ link /\ config.enabled

\* While values rest and the connection holds, the broker comes to have the current
\* value of every key under the current prefix. The exceptions are the keys that are
\* in the cache but were not sent (their message was refused or the link was broken
\* already, or the prefix has changed and the MQTT service keeps its cache), and those
\* with a change that shows in no version the service has yet to see: it is not
\* tracked, or came behind the back of a scan.
TelemetryCatchesUp ==
  []<>(Up => \A k \in Keys \ (lost \cup missed) : seen[k] = value[k])

\* Alarm keys of the MQTT service have no such exceptions: they need neither the cache
\* nor the version.
AlarmsCatchUp ==
  []<>(Mqtt /\ Up => \A k \in AlarmKeys : seen[k] = value[k])

\* The shadow of the AWS service comes to report the current value of the parameters
\* that fit its document, except those that changed between the document and the
\* clearing of the flags and, if the document was refused, those it had.
ShadowCatchesUp ==
  []<>(service = "aws" /\ Up => \A p \in Fits \ missed : reported[p] = value[p])

=============================================================================
