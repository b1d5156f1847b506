------------------------------ MODULE LiveView ------------------------------
(***************************************************************************)
(* How a browser follows the state map: SharedState's list of changed keys *)
(* (modesp_core) and WsService (modesp_net), which serialises it for every *)
(* connected browser.                                                      *)
(*                                                                         *)
(* Two tasks meet here. The main loop collects what has changed and queues *)
(* one frame per client (broadcast_state, send_to_all) and pings them from *)
(* time to time. The web server's task accepts connections, queues the     *)
(* whole state for a new one (ws_handler, send_full_state_to), and sends   *)
(* what is in the queue (async_send_cb). Any task writes the map. A value  *)
(* is the number of its write, so a later value is a larger one.           *)
(***************************************************************************)
EXTENDS Integers, Sequences, FiniteSets, FiniteSetsExt

CONSTANTS
  Keys,             \* the keys of the map
  Fits,             \* those that fit in the 4096 bytes of a broadcast of the whole map
  Fds,              \* the sockets of the web server
  MAX_CHANGED_KEYS, \* 32
  MAX_WS_CLIENTS,   \* 3
  QUEUE,            \* how much work the web server queues
  MAX_WRITES,       \* bounds of the model: writes of a key,
  MAX_CONNECTS,     \* handshakes,
  MAX_FAULTS        \* and calls that fail: no heap, no mutex, a dead peer

ASSUME LiveViewAssumption ==
  /\ IsFiniteSet(Keys) /\ Fits \subseteq Keys
  /\ IsFiniteSet(Fds)
  /\ {MAX_CHANGED_KEYS, MAX_WS_CLIENTS, QUEUE, MAX_WRITES, MAX_CONNECTS, MAX_FAULTS} \subseteq Nat

VARIABLES
  map_,          \* the state map
  changed_keys,  \* the keys to broadcast
  force_full,    \* changed_keys overflowed: broadcast the whole map
  client_fds,    \* the clients frames are sent to
  open,          \* the sockets with a WebSocket session
  queue,         \* the work queued for the web server's task
  sender,        \* where the main loop is in on_update
  server,        \* where the web server's task is in a handshake
  view,          \* what the browser at each socket shows
  missed,        \* history: keys of a client that a frame should have carried and did not
  connects, faults

tracking == <<map_, changed_keys, force_full>>
bounds   == <<connects, faults>>
viewVars == <<tracking, client_fds, open, queue, sender, server, view, missed, bounds>>

NoFrame == [k \in {} |-> 0]   \* no key; also what a browser shows first
Idle    == [at |-> "idle", to |-> {}, frame |-> NoFrame]

Restricted(f, S) == [k \in DOMAIN f \cap S |-> f[k]]

\* The browser merges a frame into what it shows.
Merged(shown, frame) ==
  [k \in DOMAIN shown \cup DOMAIN frame |->
     IF k \in DOMAIN frame THEN frame[k] ELSE shown[k]]

Fault == faults < MAX_FAULTS /\ faults' = faults + 1

-----------------------------------------------------------------------------
(* SharedState                                                             *)

\* Mutant: a key that finds the list full is forgotten.
NoteOverflowIgnored(k) ==
  /\ changed_keys' = IF Cardinality(changed_keys) < MAX_CHANGED_KEYS
                     THEN changed_keys \cup {k} ELSE changed_keys
  /\ UNCHANGED force_full

\* The list has no duplicates; when it is full the next broadcast takes all.
Note(k) ==
  IF k \in changed_keys \/ Cardinality(changed_keys) < MAX_CHANGED_KEYS
  THEN changed_keys' = changed_keys \cup {k} /\ UNCHANGED force_full
  ELSE force_full' = TRUE /\ UNCHANGED changed_keys

\* set of a new value, by any task. One that times out changes nothing. (With
\* track_change = false, as the counters of seconds are set, a key is not noted and
\* no frame is promised for it: such keys are left out.)
Set(k) ==
  /\ map_[k] < MAX_WRITES
  /\ map_' = [map_ EXCEPT ![k] = @ + 1]
  /\ Note(k)
  /\ UNCHANGED <<client_fds, open, queue, sender, server, view, missed, bounds>>

HasChanges == changed_keys # {} \/ force_full

\* Mutant: an overflow is noted, and only the list is sent.
ChangedListOnly == Restricted(map_, changed_keys)

\* What for_each_changed_and_clear hands to the serialiser, and what fits.
Changed == IF force_full THEN Restricted(map_, Fits) ELSE Restricted(map_, changed_keys)

-----------------------------------------------------------------------------
(* The main loop: WsService::on_update                                     *)

\* broadcast_state: serialise and clear under one lock.
Broadcast ==
  /\ sender.at = "idle" /\ HasChanges
  /\ sender' = [at |-> "collected", to |-> {}, frame |-> Changed]
  /\ changed_keys' = {} /\ force_full' = FALSE
  /\ missed' = [fd \in Fds |-> missed[fd] \cup (IF force_full /\ fd \in open THEN Keys \ Fits ELSE {})]
  /\ UNCHANGED <<map_, client_fds, open, queue, server, view, bounds>>

\* Mutant: closed sockets stay in the list.
ForgetClosedNever == client_fds' = client_fds

ForgetClosed == client_fds' = client_fds \cap open

\* send_to_all: who is to get the frame.
Snapshot ==
  /\ sender.at = "collected"
  /\ ForgetClosed
  /\ sender' = [sender EXCEPT !.at = "sending", !.to = client_fds']
  /\ UNCHANGED <<tracking, open, queue, server, view, missed, bounds>>

\* cleanup_dead_clients and send_ping_to_all. A ping carries no key: one that is
\* queued and sent changes nothing and is not kept in the queue here.
Heartbeat ==
  /\ sender.at = "idle"
  /\ ForgetClosed
  /\ UNCHANGED <<tracking, open, queue, sender, server, view, missed, bounds>>

\* One round of the loop of send_to_all.
Sending(fd) ==
  /\ sender.at = "sending" /\ fd \in sender.to
  /\ sender' = [sender EXCEPT !.to = @ \ {fd}]
  /\ UNCHANGED <<tracking, open, server, view, connects>>

QueueFrame(fd) ==
  /\ Sending(fd) /\ Len(queue) < QUEUE
  /\ queue' = Append(queue, [work |-> "send", fd |-> fd, frame |-> sender.frame])
  /\ missed' = [missed EXCEPT ![fd] = @ \ DOMAIN sender.frame]
  /\ UNCHANGED <<client_fds, faults>>

\* Too little heap: the frame is not sent, and not kept either.
SkipFrame(fd) ==
  /\ Sending(fd) /\ Fault
  /\ missed' = [missed EXCEPT ![fd] = IF fd \in open THEN @ \cup DOMAIN sender.frame ELSE {}]
  /\ UNCHANGED <<client_fds, queue>>

\* No memory for the frame, or the queue is full: the client is removed from the
\* list. Its session stays open.
DropClient(fd) ==
  /\ Sending(fd)
  /\ IF Len(queue) = QUEUE THEN UNCHANGED faults ELSE Fault
  /\ client_fds' = client_fds \ {fd}
  /\ UNCHANGED <<queue, missed>>

\* The same happens to a client whose ping cannot be queued.
PingRefused(fd) ==
  /\ sender.at = "idle" /\ fd \in client_fds
  /\ IF Len(queue) = QUEUE THEN UNCHANGED faults ELSE Fault
  /\ client_fds' = client_fds \ {fd}
  /\ UNCHANGED <<tracking, open, queue, sender, server, view, missed, connects>>

Sent ==
  /\ sender.at = "sending" /\ sender.to = {}
  /\ sender' = Idle
  /\ UNCHANGED <<tracking, client_fds, open, queue, server, view, missed, bounds>>

-----------------------------------------------------------------------------
(* The web server's task: handshakes                                       *)

\* add_client: the sweep for closed sockets comes first; with the list full the
\* client is not added, but its session stays open.
AddClient(fd) ==
  LET live == client_fds \cap (open \cup {fd})
  IN  client_fds' = IF fd \in client_fds THEN client_fds
                    ELSE IF Cardinality(live) < MAX_WS_CLIENTS THEN live \cup {fd}
                    ELSE live

Handshake(fd) ==
  /\ server.at = "idle" /\ fd \notin open
  /\ connects < MAX_CONNECTS /\ connects' = connects + 1
  /\ open' = open \cup {fd}
  /\ AddClient(fd)
  /\ server' = [at |-> "added", to |-> {fd}, frame |-> NoFrame]
  /\ missed' = [missed EXCEPT ![fd] = Keys]
  /\ UNCHANGED <<tracking, queue, sender, view, faults>>

\* send_full_state_to: the whole map, under its lock.
SerialiseFull(fd) ==
  /\ server.at = "added" /\ server.to = {fd}
  /\ \/ /\ server' = [server EXCEPT !.at = "serialised", !.frame = map_]
        /\ missed' = [missed EXCEPT ![fd] = {}]
        /\ UNCHANGED faults
     \/ \* the mutex times out: an empty object
        /\ Fault
        /\ server' = [server EXCEPT !.at = "serialised"]
        /\ UNCHANGED missed
     \/ \* too little heap, or no memory: nothing at all
        /\ Fault
        /\ server' = Idle
        /\ UNCHANGED missed
  /\ UNCHANGED <<tracking, client_fds, open, queue, sender, view, connects>>

\* The places in the queue of the frames that carry a key to a client.
Carriers(fd, k) ==
  {i \in DOMAIN queue :
     queue[i].work = "send" /\ queue[i].fd = fd /\ k \in DOMAIN queue[i].frame}

\* What tells a client the last of a key: the last frame that carries it, or else
\* what the client shows already.
Coming(fd, k) ==
  IF Carriers(fd, k) = {} THEN view[fd] ELSE queue[Max(Carriers(fd, k))].frame

\* The keys of which a newer value is on its way to the client already.
Crossed(fd) ==
  {k \in DOMAIN server.frame :
     k \in DOMAIN Coming(fd, k) /\ Coming(fd, k)[k] > server.frame[k]}

QueueFull(fd) ==
  /\ server.at = "serialised" /\ server.to = {fd}
  /\ server' = Idle
  /\ \/ /\ Len(queue) < QUEUE
        /\ queue' = Append(queue, [work |-> "send", fd |-> fd, frame |-> server.frame])
        /\ missed' = [missed EXCEPT ![fd] = @ \cup Crossed(fd)]
        /\ UNCHANGED faults
     \/ /\ IF Len(queue) = QUEUE THEN UNCHANGED faults ELSE Fault
        /\ missed' = [missed EXCEPT ![fd] = Keys]
        /\ UNCHANGED queue
  /\ UNCHANGED <<tracking, client_fds, open, sender, view, connects>>

-----------------------------------------------------------------------------
(* The web server's task: its queue and its sessions                       *)

\* async_send_cb for a socket that is in the list and has a session.
Deliver ==
  /\ server.at = "idle" /\ queue # << >>
  /\ LET w == Head(queue)
     IN  /\ w.work = "send" /\ w.fd \in client_fds \cap open
         /\ view' = [view EXCEPT ![w.fd] = Merged(@, w.frame)]
  /\ queue' = Tail(queue)
  /\ UNCHANGED <<tracking, client_fds, open, sender, server, missed, bounds>>

\* async_send_cb for one that is not in the list, or has no session any more.
Discard ==
  /\ server.at = "idle" /\ queue # << >>
  /\ LET w == Head(queue)
     IN  /\ w.work = "send" /\ w.fd \notin client_fds \cap open
         /\ client_fds' = client_fds \ {w.fd}
  /\ queue' = Tail(queue)
  /\ UNCHANGED <<tracking, open, sender, server, view, missed, bounds>>

\* The peer is gone: the send fails, and the session is to be closed.
DeliveryFails ==
  /\ server.at = "idle" /\ queue # << >> /\ Fault
  /\ LET w == Head(queue)
     IN  /\ w.work = "send" /\ w.fd \in client_fds \cap open
         /\ client_fds' = client_fds \ {w.fd}
         /\ queue' = Append(Tail(queue), [work |-> "close", fd |-> w.fd, frame |-> NoFrame])
  /\ UNCHANGED <<tracking, open, sender, server, view, missed, connects>>

\* The same for a ping; it was queued and is not any more.
PingFails(fd) ==
  /\ server.at = "idle" /\ fd \in client_fds \cap open /\ Fault
  /\ Len(queue) < QUEUE
  /\ client_fds' = client_fds \ {fd}
  /\ queue' = Append(queue, [work |-> "close", fd |-> fd, frame |-> NoFrame])
  /\ UNCHANGED <<tracking, open, sender, server, view, missed, connects>>

Gone(fd) ==
  /\ open' = open \ {fd}
  /\ view' = [view EXCEPT ![fd] = NoFrame]
  /\ missed' = [missed EXCEPT ![fd] = {}]

\* A session ends. on_session_close sweeps the list while the server may still
\* count this socket among its sessions.
SessionEnds(fd) ==
  /\ Gone(fd)
  /\ \E counted \in {{}, {fd}} : client_fds' = client_fds \cap (open' \cup counted)
  /\ UNCHANGED <<tracking, sender, server, bounds>>

\* httpd_sess_trigger_close reaches the head of the queue.
TriggeredClose ==
  /\ server.at = "idle" /\ queue # << >> /\ Head(queue).work = "close"
  /\ SessionEnds(Head(queue).fd)
  /\ queue' = Tail(queue)

\* The connection breaks, or the server purges its oldest session.
ConnectionBreaks(fd) ==
  /\ server.at = "idle" /\ fd \in open
  /\ SessionEnds(fd)
  /\ UNCHANGED queue

\* A CLOSE frame, or one that cannot be received: ws_handler removes the client.
ClientCloses(fd) ==
  /\ server.at = "idle" /\ fd \in open
  /\ client_fds' = client_fds \ {fd}
  /\ Gone(fd)
  /\ UNCHANGED <<tracking, queue, sender, server, bounds>>

-----------------------------------------------------------------------------

\* The modules' on_init has set every key before the server runs.
ViewInit ==
  /\ map_ = [k \in Keys |-> 0]
  /\ changed_keys \in {S \in SUBSET Keys : Cardinality(S) = MAX_CHANGED_KEYS}
  /\ force_full = TRUE
  /\ client_fds = {} /\ open = {} /\ queue = << >>
  /\ sender = Idle /\ server = Idle
  /\ view = [fd \in Fds |-> NoFrame]
  /\ missed = [fd \in Fds |-> {}]
  /\ connects = 0 /\ faults = 0

Loop  == Broadcast \/ Snapshot \/ Heartbeat \/ Sent
         \/ \E fd \in Fds : QueueFrame(fd) \/ SkipFrame(fd) \/ DropClient(fd) \/ PingRefused(fd)
Httpd == Deliver \/ Discard \/ DeliveryFails \/ TriggeredClose
         \/ \E fd \in Fds : SerialiseFull(fd) \/ QueueFull(fd) \/ PingFails(fd)
Peers == \E fd \in Fds : Handshake(fd) \/ ConnectionBreaks(fd) \/ ClientCloses(fd)

ViewNext == (\E k \in Keys : Set(k)) \/ Loop \/ Httpd \/ Peers

ViewSpec == ViewInit /\ [][ViewNext]_viewVars

\* Both tasks run for ever, on_update broadcasts every 1.5 s and pings every 20 s.
FairViewSpec ==
  /\ ViewSpec
  /\ WF_viewVars(Loop) /\ SF_viewVars(Broadcast) /\ SF_viewVars(Heartbeat)
  /\ WF_viewVars(Httpd)

-----------------------------------------------------------------------------
(* Properties                                                              *)

Frames == UNION {[S -> 0..MAX_WRITES] : S \in SUBSET Keys}

\* The types; the lists of changed keys, of clients and of work stay within their
\* capacity.
ViewTypeOK ==
  /\ map_ \in [Keys -> 0..MAX_WRITES]
  /\ changed_keys \in SUBSET Keys /\ Cardinality(changed_keys) <= MAX_CHANGED_KEYS
  /\ force_full \in BOOLEAN
  /\ client_fds \in SUBSET Fds /\ Cardinality(client_fds) <= MAX_WS_CLIENTS
  /\ open \in SUBSET Fds
  /\ queue \in Seq([work : {"send", "close"}, fd : Fds, frame : Frames])
  /\ Len(queue) <= QUEUE
  /\ sender \in [at : {"idle", "collected", "sending"}, to : SUBSET Fds, frame : Frames]
  /\ server \in [at : {"idle", "added", "serialised"}, to : SUBSET Fds, frame : Frames]
  /\ view \in [Fds -> Frames] /\ missed \in [Fds -> SUBSET Keys]
  /\ connects \in 0..MAX_CONNECTS /\ faults \in 0..MAX_FAULTS

Served == client_fds \cap open

\* What a frame in somebody's hands says of a key is what the map says.
Says(frame, k) == k \in DOMAIN frame /\ frame[k] = map_[k]

\* A client that is served shows the value of a key, or that value is on its way:
\* the last queued frame with the key has it, or a task holds it in a frame that is
\* yet to be queued for this client, or the key is still to be broadcast. The
\* exceptions are the keys of a frame that was skipped, cut to the buffer, or
\* overtaken by a newer one during the handshake (missed).
ChangesOnTheWay ==
  \A fd \in Served : \A k \in Keys \ missed[fd] :
     \/ k \in changed_keys \/ force_full
     \/ Says(Coming(fd, k), k)
     \/ server.to = {fd} /\ Says(server.frame, k)
     \/ (sender.at = "collected" \/ fd \in sender.to) /\ Says(sender.frame, k)

\* Whenever nobody writes for a while, the browsers that are served show the map,
\* but for the keys they missed.
BrowsersCatchUp ==
  []<>(\A fd \in Served : \A k \in Keys \ missed[fd] : Says(view[fd], k))

\* A slot of a browser that is gone becomes free again, or the socket is in use
\* again, without anybody connecting to notice.
SlotsAreFreed ==
  \A fd \in Fds : (fd \in client_fds \ open) ~> (fd \notin client_fds \ open)

=============================================================================
