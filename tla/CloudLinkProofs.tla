--------------------------- MODULE CloudLinkProofs ---------------------------
(* Theorems about CloudLink, for any sets of keys and tenants.                *)
EXTENDS CloudLink, TLAPS

-----------------------------------------------------------------------------
(* Types                                                                      *)

Frames == UNION {[d -> {0, 1}] : d \in SUBSET Params}

LEMMA NoFrame == [k \in {} |-> None] \in Frames
<1>1. [k \in {} |-> None] \in [{} -> {0, 1}]
  OBVIOUS
<1>2. {} \in SUBSET Params
  OBVIOUS
<1> QED
  BY <1>1, <1>2 DEF Frames

LEMMA FrameType ==
  ASSUME NEW d \in SUBSET Params, NEW f \in [d -> {0, 1}]
  PROVE  f \in Frames
  BY DEF Frames

LEMMA InitType == Init => TypeOK
<1> SUFFICES ASSUME Init
             PROVE  TypeOK
  OBVIOUS
<1>1. TasksType
  <2>1. (CHOOSE t \in Tenants : TRUE) \in Tenants
    BY CloudLinkAssumption
  <2>2. (~Mqtt) \in BOOLEAN
    BY DEF Mqtt
  <2>3. report \in [due : BOOLEAN, behind : BOOLEAN]
    BY <2>2 DEF Init
  <2>4. config \in [enabled : BOOLEAN, tenant : Tenants]
    BY <2>1 DEF Init
  <2> QED
    BY <2>3, <2>4 DEF Init, TasksType
<1>2. LoopType
  BY NoFrame DEF Init, LoopType, Idle, Frames
<1>3. MapsType
  BY DEF Init, MapsType, Nothing
<1> QED
  BY <1>1, <1>2, <1>3 DEF TypeOK

LEMMA MapType ==
  ASSUME TypeOK, NEW k \in Keys \cup Params, Set(k)
  PROVE  TypeOK'
<1>1. TasksType'
  BY DEF TypeOK, TasksType, Set, Mqtt, asked
<1>2. LoopType'
  BY DEF TypeOK, LoopType, Set
<1>3. MapsType'
  BY DEF TypeOK, MapsType, Set, broker
<1> QED
  BY <1>1, <1>2, <1>3 DEF TypeOK

LEMMA ClientType ==
  ASSUME TypeOK, BeginReconnect \/ Restart \/ DeferredStart
  PROVE  TypeOK'
<1>1. CASE BeginReconnect
  <2>1. TasksType'
    BY <1>1 DEF TypeOK, TasksType, BeginReconnect, TakeRequest, state, asked
  <2>2. LoopType'
    BY <1>1 DEF TypeOK, LoopType, BeginReconnect, TakeRequest
  <2>3. MapsType'
    BY <1>1 DEF TypeOK, MapsType, BeginReconnect, state, broker, past
  <2> QED
    BY <2>1, <2>2, <2>3 DEF TypeOK
<1>2. CASE Restart
  <2>1. TasksType'
    BY <1>2 DEF TypeOK, TasksType, Restart, StartClient, state, asked
  <2>2. LoopType'
    BY <1>2 DEF TypeOK, LoopType, Restart, Idle
  <2>3. MapsType'
    BY <1>2 DEF TypeOK, MapsType, Restart, state, broker, past
  <2> QED
    BY <2>1, <2>2, <2>3 DEF TypeOK
<1>3. CASE DeferredStart
  <2>1. TasksType'
    BY <1>3 DEF TypeOK, TasksType, DeferredStart, StartClient, state, asked
  <2>2. LoopType'
    BY <1>3 DEF TypeOK, LoopType, DeferredStart
  <2>3. MapsType'
    BY <1>3 DEF TypeOK, MapsType, DeferredStart, state, broker, past
  <2> QED
    BY <2>1, <2>2, <2>3 DEF TypeOK
<1> QED
  BY <1>1, <1>2, <1>3

LEMMA PublishType ==
  ASSUME TypeOK, BeginScan \/ (\E k \in Keys : ScanKey(k)) \/ EndScan
           \/ BeginReport \/ EndReport \/ RepublishAlarms
  PROVE  TypeOK'
<1>1. CASE BeginScan
  <2>1. TasksType'
    BY <1>1 DEF TypeOK, TasksType, BeginScan, state, asked
  <2>2. LoopType'
    BY <1>1, NoFrame DEF TypeOK, LoopType, BeginScan, Idle, Frames
  <2>3. MapsType'
    BY <1>1 DEF TypeOK, MapsType, BeginScan, state, broker, past
  <2> QED
    BY <2>1, <2>2, <2>3 DEF TypeOK
<1>2. ASSUME NEW k \in Keys, ScanKey(k)
      PROVE  TypeOK'
  <2>1. TasksType'
    BY <1>2 DEF TypeOK, TasksType, ScanKey, state, asked
  <2>2. LoopType'
    BY <1>2 DEF TypeOK, LoopType, ScanKey
  <2>3. MapsType'
    BY <1>2 DEF TypeOK, MapsType, ScanKey, Published, state, Keys
  <2> QED
    BY <2>1, <2>2, <2>3 DEF TypeOK
<1>3. CASE EndScan
  <2>1. TasksType'
    BY <1>3 DEF TypeOK, TasksType, EndScan, asked
  <2>2. LoopType'
    BY <1>3 DEF TypeOK, LoopType, EndScan, Idle
  <2>3. MapsType'
    BY <1>3 DEF TypeOK, MapsType, EndScan, broker, past
  <2> QED
    BY <2>1, <2>2, <2>3 DEF TypeOK
<1>4. CASE BeginReport
  <2>1. TasksType'
    BY <1>4 DEF TypeOK, TasksType, BeginReport, Report, state, asked
  <2>2. LoopType'
    <3>1. PICK d \in Documents : Report(d)
      BY <1>4 DEF BeginReport
    <3>2. d \subseteq Params /\ Fits \subseteq d
      BY DEF Documents
    <3>3. [p \in d |-> value[p]] \in [d -> {0, 1}]
      BY <3>2 DEF TypeOK, MapsType
    <3>4. loop' = [at |-> "report", left |-> {}, frame |-> [p \in d |-> value[p]]]
      BY <3>1 DEF Report, Idle
    <3> DEFINE f == [p \in d |-> value[p]]
    <3>5. f \in Frames /\ DOMAIN f = d
      BY <3>2, <3>3, FrameType
    <3>6. loop'.at = "report" /\ loop'.left = {} /\ loop'.frame = f
      BY <3>4
    <3> HIDE DEF f
    <3> QED
      BY <3>2, <3>4, <3>5, <3>6 DEF LoopType, Frames
  <2>3. MapsType'
    BY <1>4 DEF TypeOK, MapsType, BeginReport, Report, state, broker
  <2> QED
    BY <2>1, <2>2, <2>3 DEF TypeOK
<1>5. CASE EndReport
  <2>1. TasksType'
    BY <1>5 DEF TypeOK, TasksType, EndReport, ReportDone, state, asked
  <2>2. LoopType'
    BY <1>5, NoFrame DEF TypeOK, LoopType, EndReport, Idle, Frames
  <2>3. MapsType'
    <3>1. PICK d \in SUBSET Params : loop.frame \in [d -> {0, 1}]
      BY <1>5 DEF TypeOK, LoopType
    <3>2. [p \in Params |-> IF p \in DOMAIN loop.frame THEN loop.frame[p] ELSE reported[p]]
            \in [Params -> {0, 1, None}]
      BY <3>1 DEF TypeOK, MapsType
    <3> QED
      BY <1>5, <3>2 DEF TypeOK, MapsType, EndReport, state
  <2> QED
    BY <2>1, <2>2, <2>3 DEF TypeOK
<1>6. CASE RepublishAlarms
  <2>1. TasksType'
    BY <1>6 DEF TypeOK, TasksType, RepublishAlarms, state, asked
  <2>2. LoopType'
    BY <1>6 DEF TypeOK, LoopType, RepublishAlarms
  <2>3. MapsType'
    BY <1>6 DEF TypeOK, MapsType, RepublishAlarms, SendAlarms, state, Keys
  <2> QED
    BY <2>1, <2>2, <2>3 DEF TypeOK
<1> QED
  BY <1>1, <1>2, <1>3, <1>4, <1>5, <1>6

LEMMA EventType ==
  ASSUME TypeOK, Events
  PROVE  TypeOK'
<1>1. CASE OnConnected
  <2>1. TasksType'
    BY <1>1 DEF TypeOK, TasksType, OnConnected, asked
  <2>2. LoopType'
    BY <1>1 DEF TypeOK, LoopType, OnConnected
  <2>3. MapsType'
    BY <1>1 DEF TypeOK, MapsType, OnConnected, broker, past
  <2> QED
    BY <2>1, <2>2, <2>3 DEF TypeOK
<1>2. CASE AfterConnected
  <2>1. TasksType'
    <3>1. CASE Mqtt
      BY <1>2, <3>1 DEF TypeOK, TasksType, AfterConnected, asked
    <3>2. CASE ~Mqtt
      <4>1. behind' = TRUE /\ report' = [due |-> TRUE, behind |-> TRUE]
        BY <1>2, <3>2 DEF AfterConnected, ForgetCache
      <4> QED
        BY <1>2, <4>1 DEF TypeOK, TasksType, AfterConnected, asked
    <3> QED
      BY <3>1, <3>2
  <2>2. LoopType'
    BY <1>2 DEF TypeOK, LoopType, AfterConnected
  <2>3. MapsType'
    BY <1>2 DEF TypeOK, MapsType, AfterConnected, SendAlarms, ForgetCache, Nothing, Keys
  <2> QED
    BY <2>1, <2>2, <2>3 DEF TypeOK
<1>3. CASE OnDisconnected
  <2>1. TasksType'
    BY <1>3 DEF TypeOK, TasksType, OnDisconnected, state, asked
  <2>2. LoopType'
    BY <1>3 DEF TypeOK, LoopType, OnDisconnected
  <2>3. MapsType'
    BY <1>3 DEF TypeOK, MapsType, OnDisconnected, state, broker, past
  <2> QED
    BY <2>1, <2>2, <2>3 DEF TypeOK
<1>4. CASE AfterSetTenant
  <2>1. TasksType'
    BY <1>4 DEF TypeOK, TasksType, AfterSetTenant, state
  <2>2. LoopType'
    BY <1>4 DEF TypeOK, LoopType, AfterSetTenant
  <2>3. MapsType'
    BY <1>4 DEF TypeOK, MapsType, AfterSetTenant, state, broker, past
  <2> QED
    BY <2>1, <2>2, <2>3 DEF TypeOK
<1> QED
  BY <1>1, <1>2, <1>3, <1>4 DEF Events

LEMMA RemoteType ==
  ASSUME TypeOK, Remote
  PROVE  TypeOK'
<1>1. CASE LinkBreaks
  <2>1. TasksType'
    BY <1>1 DEF TypeOK, TasksType, LinkBreaks, state, asked
  <2>2. LoopType'
    BY <1>1 DEF TypeOK, LoopType, LinkBreaks
  <2>3. MapsType'
    BY <1>1 DEF TypeOK, MapsType, LinkBreaks, state, broker, past
  <2> QED
    BY <2>1, <2>2, <2>3 DEF TypeOK
<1>2. CASE RequestFullState
  <2>1. TasksType'
    BY <1>2 DEF TypeOK, TasksType, RequestFullState, ForgetCache, asked
  <2>2. LoopType'
    BY <1>2 DEF TypeOK, LoopType, RequestFullState
  <2>3. MapsType'
    BY <1>2 DEF TypeOK, MapsType, RequestFullState, ForgetCache, Nothing, broker
  <2> QED
    BY <2>1, <2>2, <2>3 DEF TypeOK
<1>3. CASE ShadowDelta
  <2>1. TasksType'
    BY <1>3 DEF TypeOK, TasksType, ShadowDelta, state, asked
  <2>2. LoopType'
    BY <1>3 DEF TypeOK, LoopType, ShadowDelta
  <2>3. MapsType'
    BY <1>3 DEF TypeOK, MapsType, ShadowDelta, state, broker, past
  <2> QED
    BY <2>1, <2>2, <2>3 DEF TypeOK
<1>4. ASSUME NEW t \in Tenants, SetTenant(t)
      PROVE  TypeOK'
  <2>1. TasksType'
    BY <1>4 DEF TypeOK, TasksType, SetTenant, SetConfig, state
  <2>2. LoopType'
    BY <1>4 DEF TypeOK, LoopType, SetTenant
  <2>3. MapsType'
    BY <1>4 DEF TypeOK, MapsType, SetTenant, SetConfig, Nothing, state
  <2> QED
    BY <2>1, <2>2, <2>3 DEF TypeOK
<1> QED
  BY <1>1, <1>2, <1>3, <1>4 DEF Remote

LEMMA RequestType ==
  ASSUME TypeOK, Request
  PROVE  TypeOK'
<1>1. CASE SaveConfig
  <2>1. TasksType'
    BY <1>1 DEF TypeOK, TasksType, SaveConfig, SetConfig, state
  <2>2. LoopType'
    BY <1>1 DEF TypeOK, LoopType, SaveConfig
  <2>3. MapsType'
    BY <1>1 DEF TypeOK, MapsType, SaveConfig, SetConfig, Nothing, state
  <2> QED
    BY <2>1, <2>2, <2>3 DEF TypeOK
<1>2. CASE AfterSaveConfig
  <2>1. TasksType'
    BY <1>2 DEF TypeOK, TasksType, AfterSaveConfig, state
  <2>2. LoopType'
    BY <1>2 DEF TypeOK, LoopType, AfterSaveConfig
  <2>3. MapsType'
    BY <1>2 DEF TypeOK, MapsType, AfterSaveConfig, state, broker, past
  <2> QED
    BY <2>1, <2>2, <2>3 DEF TypeOK
<1>3. CASE PostCloud
  <2>1. TasksType'
    BY <1>3 DEF TypeOK, TasksType, PostCloud, state
  <2>2. LoopType'
    BY <1>3 DEF TypeOK, LoopType, PostCloud
  <2>3. MapsType'
    BY <1>3 DEF TypeOK, MapsType, PostCloud, state, broker, past
  <2> QED
    BY <2>1, <2>2, <2>3 DEF TypeOK
<1> QED
  BY <1>1, <1>2, <1>3 DEF Request

LEMMA NextType == TypeOK /\ [Next]_vars => TypeOK'
<1> SUFFICES ASSUME TypeOK, [Next]_vars
             PROVE  TypeOK'
  OBVIOUS
<1>1. CASE Next
  BY <1>1, MapType, ClientType, PublishType, EventType, RemoteType, RequestType
     DEF Next, OnUpdate
<1>2. CASE UNCHANGED vars
  BY <1>2 DEF TypeOK, TasksType, LoopType, MapsType, vars, state, asked, broker, past
<1> QED
  BY <1>1, <1>2

\* Every variable has its type.
THEOREM TypeCorrect == Spec => []TypeOK
<1> QED
  BY InitType, NextType, PTL DEF Spec

-----------------------------------------------------------------------------
(* The configuration in use                                                   *)

\* What can make the session of a running client stale is that the configuration changes;
\* whoever changes it (set_tenant on the client's task, handle_post_mqtt on the web
\* server's) has yet to raise the request, which is only taken by stopping the client.
THEOREM ConfigInUseHolds == Spec => []ConfigInUse
<1>1. Init => ConfigInUse
  BY DEF Init, ConfigInUse
<1>2. ConfigInUse /\ [Next]_vars => ConfigInUse'
  <2> SUFFICES ASSUME ConfigInUse, [Next]_vars
               PROVE  ConfigInUse'
    OBVIOUS
  <2>1. CASE BeginReconnect \/ Restart \/ DeferredStart
    BY <2>1 DEF ConfigInUse, Mqtt, BeginReconnect, TakeRequest, Restart, DeferredStart,
                StartClient, asked
  <2>2. CASE AfterConnected
    BY <2>2 DEF ConfigInUse, Mqtt, AfterConnected, asked
  <2>3. CASE OnConnected
    BY <2>3 DEF ConfigInUse, Mqtt, OnConnected, asked
  <2>4. CASE AfterSetTenant \/ AfterSaveConfig
    BY <2>4 DEF ConfigInUse, AfterSetTenant, AfterSaveConfig
  <2>5. CASE SaveConfig \/ \E t \in Tenants : SetTenant(t)
    BY <2>5 DEF ConfigInUse, SaveConfig, SetTenant
  <2>6. CASE PostCloud
    BY <2>6 DEF ConfigInUse, Mqtt, PostCloud
  <2>7. ASSUME UNCHANGED <<service, client, config, reconnect, task, httpd>>
        PROVE  ConfigInUse'
    BY <2>7 DEF ConfigInUse, Mqtt
  <2>8. CASE \E k \in Keys \cup Params : Set(k)
    BY <2>7, <2>8 DEF Set, asked
  <2>9. CASE BeginScan \/ (\E k \in Keys : ScanKey(k)) \/ EndScan \/ BeginReport
               \/ EndReport \/ RepublishAlarms
    BY <2>7, <2>9 DEF BeginScan, ScanKey, EndScan, BeginReport, Report, EndReport,
                      RepublishAlarms, asked
  <2>10. CASE OnDisconnected \/ LinkBreaks \/ RequestFullState \/ ShadowDelta
    BY <2>7, <2>10 DEF OnDisconnected, LinkBreaks, RequestFullState, ShadowDelta, asked
  <2>11. CASE UNCHANGED vars
    BY <2>7, <2>11 DEF vars, asked
  <2> QED
    BY <2>1, <2>2, <2>3, <2>4, <2>5, <2>6, <2>8, <2>9, <2>10, <2>11
       DEF Next, OnUpdate, Events, Remote, Request
<1> QED
  BY <1>1, <1>2, PTL DEF Spec

=============================================================================
