---------------------------- MODULE UnicastClient ----------------------------
(* unicast_client.c: a gateway that discovers headsets, starts their streams    *)
(* through the host's CAP procedures (one at a time), and stops and restarts    *)
(* them.  Callbacks run in the Bluetooth receive thread, the starts in a work   *)
(* item that a queue of device indexes feeds.                                  *)
EXTENDS Naturals, Sequences, FiniteSets, FiniteSetsExt, SequencesExt

CONSTANTS Conns,            \* connection objects of the host
          MAX_CONN,         \* CONFIG_BT_MAX_CONN: length of unicast_servers
          ISO_MAX_CHAN,     \* CONFIG_BT_ISO_MAX_CHAN: length of cap_start_q and temp_cap
          Endpoints,        \* directions in which each headset has endpoints
          PrefPd,           \* preferred presentation delay of each headset
          NoConn,
          MaxLinks, MaxFaults, MaxUniPresses \* bounds: connections, failing calls, starts and stops
ASSUME UniAssumption == /\ MAX_CONN \in Nat /\ ISO_MAX_CHAN \in Nat /\ NoConn \notin Conns
                        /\ Endpoints \in [Conns -> SUBSET {"sink", "source"}]
                        /\ PrefPd \in [Conns -> Nat]

Slots == 1 .. MAX_CONN
Dirs == {"sink", "source"}
Streams == Slots \X Dirs

VARIABLES servers,          \* unicast_servers: a record per slot
          temp_cap,         \* connections that own a slot of the temporary capabilities
          cap_start_q, cap_start_work,
          group,            \* directions of the unicast group; empty until it is created
          playing_state,
          preset_pd,        \* the delay in the preset that all sink streams point to
          link,             \* host: "off", "on", or "lost" until the application has handled it
          discovering,      \* host: what is being discovered on each connection
          ep_state,         \* host: state of each stream's endpoint
          cap,              \* host: the CAP procedure under way
          told,             \* the last of STREAMING and NOT_STREAMING that was published
          links, faults, presses
clientVars == <<servers, temp_cap, cap_start_q, cap_start_work, group, playing_state, preset_pd>>
aseVars == <<link, discovering, ep_state, cap>>
uniBounds == <<links, faults, presses>>
uniVars == <<clientVars, aseVars, told, uniBounds>>

VacantSlots == [conn |-> NoConn, eps |-> {}, waiting |-> {}, qos_reconfigure |-> FALSE, pd |-> 0]
NoProc == [op |-> "none", streams |-> {}]

UniInit ==
  /\ servers = [i \in Slots |-> VacantSlots] /\ temp_cap = {} /\ cap_start_q = <<>>
  /\ cap_start_work = FALSE /\ group = {} /\ playing_state = TRUE /\ preset_pd = 0
  /\ link = [c \in Conns |-> "off"] /\ discovering = [c \in Conns |-> "none"]
  /\ ep_state = [s \in Streams |-> "idle"]
  /\ cap = NoProc /\ told = "NOT_STREAMING"
  /\ links = 0 /\ faults = 0 /\ presses = 0

Succeeds(ok) == (ok \/ faults < MaxFaults) /\ faults' = faults + (IF ok THEN 0 ELSE 1)
Presses == presses < MaxUniPresses /\ presses' = presses + 1
-----------------------------------------------------------------------------
\* device_index_get() and device_index_vacant_get(): the first slot that fits.
HeadsetSlots(c) == {i \in Slots : servers[i].conn = c}
DeviceIndex(c) == Min(HeadsetSlots(c))

Streaming(state) == {s \in Streams : state[s] = "streaming"}
QosConfigured(i) == ep_state[<<i, "sink">>] \in {"qos", "streaming"}
StreamsOf(i) == {<<i, d>> : d \in servers[i].eps}

\* device_index_vacant_get(): -EALREADY or -ENOSPC otherwise.
\* Mutant: a headset that has a slot gets another.
AcceptsAgain(c) == HeadsetSlots(NoConn) # {}
Accepts(c) == HeadsetSlots(c) = {} /\ HeadsetSlots(NoConn) # {}

\* A put on cap_start_q and the submission of the work item, which may be pending.
PutStart(i) == /\ cap_start_q' = IF Len(cap_start_q) < ISO_MAX_CHAN
                                 THEN Append(cap_start_q, i) ELSE cap_start_q
               /\ cap_start_work' = (cap_start_work \/ Len(cap_start_q) < ISO_MAX_CHAN)
-----------------------------------------------------------------------------
(* A headset connects; the application asks for its endpoints with              *)
(* unicast_client_discover().  A call of the host that fails leaves the slot    *)
(* taken.                                                                      *)
HeadsetConnects(c) == /\ link[c] = "off" /\ links < MaxLinks /\ links' = links + 1
                      /\ link' = [link EXCEPT ![c] = "on"]
                      /\ UNCHANGED <<clientVars, discovering, ep_state, cap, told, faults, presses>>

\* ok: the CAP discovery starts; asked: so does that of the first direction.
Discover(c, dirs, ok, asked) ==
  /\ link[c] = "on" /\ discovering[c] = "none" /\ dirs # {}
  /\ Accepts(c)
  /\ Succeeds(ok /\ asked) /\ (ok \/ asked)
  /\ LET i == DeviceIndex(NoConn)
     IN servers' = [servers EXCEPT ![i].conn = c,
                                   ![i].waiting = IF ok THEN @ \cup dirs ELSE @]
  /\ discovering' = [discovering EXCEPT ![c] = IF ~ok \/ ~asked THEN "none"
                                               ELSE IF "sink" \in dirs THEN "sink" ELSE "source"]
  /\ UNCHANGED <<temp_cap, cap_start_q, cap_start_work, group, playing_state, preset_pd, link,
                 ep_state, cap, told, links, presses>>

\* pac_record_cb() takes a slot of temp_cap, endpoint_cb() keeps the first endpoint.
Records(c) ==
  /\ discovering[c] \in Endpoints[c] /\ c \notin temp_cap
  /\ temp_cap' = IF Cardinality(temp_cap) < ISO_MAX_CHAN THEN temp_cap \cup {c} ELSE temp_cap
  /\ servers' = IF HeadsetSlots(c) = {} THEN servers
                ELSE [servers EXCEPT ![DeviceIndex(c)].eps = @ \cup {discovering[c]}]
  /\ temp_cap' # temp_cap \/ servers' # servers
  /\ UNCHANGED <<cap_start_q, cap_start_work, group, playing_state, preset_pd, aseVars, told,
                 uniBounds>>

(* discover_cb(): a direction that is not there is no error; valid says that the *)
(* capabilities fit a preset.  An error leaves the slot of temp_cap taken, and    *)
(* fails either the discovery or the request for the second direction.           *)
Discovered(c, ok, valid, asked) ==
  LET d == discovering[c]
      i == DeviceIndex(c)
      noRoom == c \notin temp_cap /\ Cardinality(temp_cap) = ISO_MAX_CHAN
      left == servers[i].waiting \ {d}
      next == d = "sink" /\ "source" \in left
  IN
  /\ d # "none" /\ (d \in Endpoints[c] => c \in temp_cap \/ noRoom)
  /\ valid => d \in Endpoints[c] /\ ok \* no capabilities, none valid
  /\ asked \/ (ok /\ ~noRoom /\ HeadsetSlots(c) # {} /\ next)
  /\ Succeeds(ok /\ asked)
  /\ IF HeadsetSlots(c) = {} \/ ~ok \/ noRoom
     THEN /\ discovering' = [discovering EXCEPT ![c] = "none"]
          /\ UNCHANGED <<servers, temp_cap, cap_start_q, cap_start_work>>
     ELSE /\ servers' = [servers EXCEPT ![i].waiting = left,
                                        ![i].eps = IF valid THEN @ ELSE @ \ {d}]
          /\ temp_cap' = temp_cap \ {c}
          /\ discovering' = [discovering EXCEPT ![c] = IF next /\ asked THEN "source" ELSE "none"]
          /\ IF next \/ ~playing_state THEN UNCHANGED <<cap_start_q, cap_start_work>> ELSE PutStart(i)
  /\ UNCHANGED <<group, playing_state, preset_pd, link, ep_state, cap, told, links, presses>>
-----------------------------------------------------------------------------
\* bt_cap_initiator_unicast_audio_start(): -EBUSY during a procedure; a stream must be
\* idle, in the group, and its headset connected.
HostStarts(streams, ok) ==
  LET fits == /\ cap.op = "none"
              /\ \A s \in streams : /\ s[2] \in group' /\ ep_state[s] = "idle"
                                    /\ link[servers[s[1]].conn] = "on"
  IN /\ Succeeds(ok) /\ (ok \/ fits)
     /\ cap' = IF fits /\ ok THEN [op |-> "start", streams |-> streams] ELSE cap

\* -EBUSY: the index that was taken goes to the back of the queue.
\* Mutant: it was looked at (k_msgq_peek()) and not taken.
PutBackAgain(i) == Append(cap_start_q, i)
PutBack(i) == Append(Tail(cap_start_q), i)

(* cap_start_worker(): one index for each run.  The group is shaped after the    *)
(* first device that is started; a start that meets a CAP procedure is put back. *)
CapStartWorker(ok) ==
  /\ cap_start_work
  /\ IF cap_start_q = <<>> \/ servers[Head(cap_start_q)].eps = {}
     THEN /\ cap_start_q' = IF cap_start_q = <<>> THEN <<>> ELSE Tail(cap_start_q)
          /\ ok /\ UNCHANGED <<group, cap, faults>>
     ELSE LET i == Head(cap_start_q)
              streams == StreamsOf(i)
          IN /\ group' = IF group = {} THEN servers[i].eps ELSE group
             /\ cap_start_q' = IF cap.op # "none" THEN PutBack(i)
                               ELSE Tail(cap_start_q)
             /\ HostStarts(streams, ok)
  /\ cap_start_work' = FALSE
  /\ UNCHANGED <<servers, temp_cap, playing_state, preset_pd, link, discovering, ep_state, 
                 told, links, presses>>
-----------------------------------------------------------------------------
(* The host configures a stream: stream_configured_cb().  device_pres_delay_find *)
(* () takes the largest preferred minimum of the device and of those that are    *)
(* configured already (the default search); its result for a device without a    *)
(* sink, whose endpoint it reads all the same, is not used.                      *)
PresDelay(i) == Max({PrefPd[servers[j].conn] : j \in {i} \cup {k \in Slots : QosConfigured(k)}})

\* update_cap_sink_stream_qos() for every other headset: which of them are to be stopped and
\* configured again.  A sink that does not stream gets the delay at once, and with it
\* everybody, since all share preset.qos; bt_cap_initiator_unicast_audio_stop() for one
\* that streams is -EBUSY, as a start is under way.
Reconfigured(i, pd) ==
  LET others  == {j \in Slots \ {i} : servers[j].conn # NoConn /\ ep_state[<<j, "sink">>] # "idle"}
      playing(j, d) == playing_state /\ ep_state[<<j, d>>] = "streaming"
      reset   == {j \in others : ~playing(j, "sink")}
      differs == {j \in others : pd # preset_pd /\ \A k \in reset : j <= k}
  IN {j \in differs : \E d \in Dirs : playing(j, d)}

Configured(s) ==
  LET i == s[1]
      pd == PresDelay(i)
      restart == ep_state'[<<i, "sink">>] = "configured" /\ "source" \notin servers[i].waiting
  IN
  /\ cap.op = "start" /\ s \in cap.streams /\ ep_state[s] = "idle"
  /\ ep_state' = [ep_state EXCEPT ![s] = "configured"]
  /\ IF restart
     THEN /\ preset_pd' = pd
          /\ servers' = [j \in Slots |-> IF j \notin Reconfigured(i, pd) THEN servers[j]
                                         ELSE [servers[j] EXCEPT !.qos_reconfigure = TRUE, !.pd = pd]]
     ELSE UNCHANGED <<preset_pd, servers>>
  /\ UNCHANGED <<temp_cap, cap_start_q, cap_start_work, group, playing_state, link, discovering,
                 cap, told, uniBounds>>

\* The QoS is sent with the delay of the preset, then stream_qos_set_cb().
QosSet(s) ==
  LET i == s[1]
  IN /\ cap.op = "start" /\ s \in cap.streams /\ ep_state[s] = "configured"
     /\ \A t \in cap.streams : ep_state[t] # "idle"
     /\ ep_state' = [ep_state EXCEPT ![s] = "qos"]
     /\ IF servers[i].qos_reconfigure
        THEN /\ preset_pd' = servers[i].pd
             /\ servers' = [servers EXCEPT ![i].qos_reconfigure = FALSE]
        ELSE UNCHANGED <<preset_pd, servers>>
     /\ UNCHANGED <<temp_cap, cap_start_q, cap_start_work, group, playing_state, link, discovering,
                    cap, told, uniBounds>>

\* unicast_start_complete_cb(): a start that is pending gets its turn.
\* Mutant: a pending start stays in the queue.
LeavePending == UNCHANGED cap_start_work
StartPending == cap_start_work' = (cap_start_work \/ cap_start_q # <<>>)

\* stream_started_cb(), and unicast_start_complete_cb() with the last one.
Started(s) ==
  /\ cap.op = "start" /\ s \in cap.streams /\ ep_state[s] = "qos"
  /\ \A t \in cap.streams : ep_state[t] \in {"qos", "streaming"}
  /\ ep_state' = [ep_state EXCEPT ![s] = "streaming"] /\ told' = "STREAMING"
  /\ IF \A t \in cap.streams : ep_state'[t] = "streaming"
     THEN cap' = NoProc /\ StartPending
     ELSE UNCHANGED <<cap, cap_start_work>>
  /\ UNCHANGED <<servers, temp_cap, cap_start_q, group, playing_state, preset_pd, link, discovering,
                 uniBounds>>

\* stream_stopped_cb() and stream_released_cb(): tell when nothing streams any more.
\* Mutant: streams that are configured count as well.
SilencedWhenIdle == told' = IF \A s \in Streams : ep_state'[s] = "idle" THEN "NOT_STREAMING" ELSE told
Silenced == told' = IF Streaming(ep_state') = {} THEN "NOT_STREAMING" ELSE told

\* The n-th slot of a set, as the loops over unicast_servers meet them.
NthSlot(S, n) == CHOOSE i \in S : Cardinality({j \in S : j < i}) = n - 1

\* A stream of the stop procedure ends; unicast_stop_complete_cb() with the last one.
Stopped(s) ==
  LET again == {i \in Slots : servers[i].qos_reconfigure /\ playing_state}
      room == ISO_MAX_CHAN - Len(cap_start_q)
      queued == [n \in 1 .. Min({room, Cardinality(again)}) |-> NthSlot(again, n)]
  IN /\ cap.op = "stop" /\ s \in cap.streams
     /\ ep_state' = [ep_state EXCEPT ![s] = "idle"] /\ Silenced
     /\ cap' = IF cap.streams = {s} THEN NoProc ELSE [cap EXCEPT !.streams = @ \ {s}]
     /\ IF cap' = NoProc
        THEN cap_start_q' = cap_start_q \o queued /\ cap_start_work' = (cap_start_work \/ again # {})
        ELSE UNCHANGED <<cap_start_q, cap_start_work>>
     /\ UNCHANGED <<servers, temp_cap, group, playing_state, preset_pd, link, discovering, 
                    uniBounds>>
-----------------------------------------------------------------------------
(* unicast_client_start(): every idle endpoint; a device without a sink is       *)
(* skipped.  unicast_client_stop() publishes before it looks.                    *)
StartAll(ok) ==
  LET streams == {s \in Streams : /\ s[2] \in servers[s[1]].eps /\ "sink" \in servers[s[1]].eps
                                  /\ ep_state[s] = "idle"}
  IN /\ Presses /\ streams # {} \* otherwise -EIO
     /\ UNCHANGED group /\ HostStarts(streams, ok)
     /\ playing_state' = (playing_state \/ cap' # cap)
     /\ UNCHANGED <<servers, temp_cap, cap_start_q, cap_start_work, preset_pd, link,
                    discovering, ep_state, told, links>>

StopAll(ok) ==
  LET streams == {s \in Streaming(ep_state) : s[2] \in servers[s[1]].eps}
      stops == streams # {} /\ cap.op = "none" /\ ok
  IN /\ Presses /\ Succeeds(ok) /\ (ok \/ (streams # {} /\ cap.op = "none"))
     /\ told' = "NOT_STREAMING"
     /\ cap' = IF stops THEN [op |-> "stop", streams |-> streams] ELSE cap
     /\ playing_state' = (playing_state /\ ~stops)
     /\ UNCHANGED <<servers, temp_cap, cap_start_q, cap_start_work, group, preset_pd, link,
                    discovering, ep_state, links>>

(* A link is lost: the host ends its streams and takes them out of the procedure *)
(* (which completes if it was about them alone); the application then calls      *)
(* unicast_client_conn_disconnected(), which keeps the flags of the slot.         *)
Lost(c) ==
  LET gone == {s \in Streams : servers[s[1]].conn = c}
      rest == cap.streams \ gone
  IN /\ link[c] = "on"
     /\ link' = [link EXCEPT ![c] = "lost"] /\ discovering' = [discovering EXCEPT ![c] = "none"]
     /\ ep_state' = [s \in Streams |-> IF s \in gone THEN "idle" ELSE ep_state[s]]
     /\ IF \E s \in gone : ep_state[s] = "streaming" THEN Silenced ELSE UNCHANGED told
     /\ IF \/ rest = {}
           \/ cap.op = "start" /\ \A t \in rest : ep_state[t] = "streaming"
        THEN cap' = NoProc /\ IF cap.op = "start" THEN StartPending ELSE UNCHANGED cap_start_work
        ELSE cap' = [cap EXCEPT !.streams = rest] /\ UNCHANGED cap_start_work
     /\ UNCHANGED <<servers, temp_cap, cap_start_q, group, playing_state, preset_pd, 
                    uniBounds>>
LostHandled(c) ==
  /\ link[c] = "lost" /\ link' = [link EXCEPT ![c] = "off"]
  /\ servers' = [i \in Slots |-> IF servers[i].conn # c THEN servers[i]
                                 ELSE [servers[i] EXCEPT !.conn = NoConn, !.eps = {}]]
  /\ UNCHANGED <<temp_cap, cap_start_q, cap_start_work, group, playing_state, preset_pd, discovering,
                 ep_state, cap, told, uniBounds>>
-----------------------------------------------------------------------------
HostStep == \/ \E c \in Conns : Records(c)
            \/ \E c \in Conns, valid \in BOOLEAN : Discovered(c, TRUE, valid, TRUE)
            \/ \E s \in Streams : Configured(s) \/ QosSet(s) \/ Started(s) \/ Stopped(s)
UniNext ==
  \/ \E c \in Conns : HeadsetConnects(c) \/ Lost(c) \/ LostHandled(c)
  \/ \E c \in Conns, dirs \in SUBSET Dirs, ok, asked \in BOOLEAN : Discover(c, dirs, ok, asked)
  \/ HostStep \/ \E c \in Conns, ok, valid \in BOOLEAN :
       (ok \/ ~valid) /\ \E asked \in BOOLEAN \ {ok} : Discovered(c, ok, valid, asked)
  \/ \E ok \in BOOLEAN : CapStartWorker(ok) \/ StartAll(ok) \/ StopAll(ok)
UniFairness == /\ WF_uniVars(HostStep) /\ WF_uniVars(CapStartWorker(TRUE))
               /\ \A c \in Conns : WF_uniVars(LostHandled(c))
UniSpec == UniInit /\ [][UniNext]_uniVars /\ UniFairness
-----------------------------------------------------------------------------
UniTypeOK ==
  /\ servers \in [Slots -> [conn : Conns \cup {NoConn}, eps : SUBSET Dirs, waiting : SUBSET Dirs,
                            qos_reconfigure : BOOLEAN, pd : Nat]]
  /\ temp_cap \subseteq Conns /\ cap_start_q \in Seq(Slots) /\ Len(cap_start_q) <= ISO_MAX_CHAN
  /\ cap_start_work \in BOOLEAN /\ group \subseteq Dirs /\ playing_state \in BOOLEAN
  /\ preset_pd \in Nat /\ ep_state \in [Streams -> {"idle", "configured", "qos", "streaming"}]
  /\ told \in {"STREAMING", "NOT_STREAMING"}
  /\ cap \in [op : {"none", "start", "stop"}, streams : SUBSET Streams]
  /\ link \in [Conns -> {"off", "on", "lost"}]
  /\ discovering \in [Conns -> Dirs \cup {"none"}]

\* A connection owns one slot at most, and what streams belongs to a headset that is
\* still connected: a slot is never freed, or given away, under a running stream.
OneSlotEach == /\ \A c \in Conns : Cardinality(HeadsetSlots(c)) <= 1
               /\ \A s \in Streaming(ep_state) : servers[s[1]].conn # NoConn

\* The application is never left believing that audio streams when it does not: the
\* last stream that ends, in whatever way, is told.
ToldWhenSilent == told = "STREAMING" => Streaming(ep_state) # {}

\* One work item serves the queue of pending starts, and CAP procedures exclude each
\* other: however discoveries and procedures overlap, a headset that waits in the queue
\* ends up streaming, unless it disconnects, a call fails, the user starts or stops, or the queue holds
\* a device that the host refuses (no run follows the one that takes it).
Startable(j) == /\ servers[j].eps # {} /\ (group = {} \/ servers[j].eps \subseteq group)
                /\ link[servers[j].conn] = "on" /\ \A s \in StreamsOf(j) : ep_state[s] = "idle"
Waits(i) == i \in ToSet(cap_start_q) /\ (cap_start_work \/ cap.op = "start")
StartsAll ==
  \A i \in Slots : Waits(i) ~> \/ \E s \in Streaming(ep_state) : s[1] = i
                               \/ servers[i].conn = NoConn \/ presses > 0 \/ faults > 0
                               \/ \E j \in ToSet(cap_start_q) : ~Startable(j)

\* Headsets have one slot each, are started from it, and are not believed to stream
\* when they do not.
HeadsetsAreStarted == [](OneSlotEach /\ ToldWhenSilent) /\ StartsAll
=============================================================================
