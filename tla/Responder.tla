----------------------------- MODULE Responder -----------------------------
(***************************************************************************)
(* PeerDiscoveryResponder: a thread of the program calls start and stop,   *)
(* one thread answers discovery datagrams and one serves throughput        *)
(* probes, each polling running_ between select calls of at most 100 ms.   *)
(* Around them are seekers, which send datagrams, and probe clients, which *)
(* connect, read as slowly as they like, and go.                           *)
(***************************************************************************)
EXTENDS PortLayout, Sequences, FiniteSets

CONSTANTS
    Configs,        \* the options a responder may be built with
    Seekers,        \* hosts that send a datagram to the discovery port
    Clients,        \* hosts that probe
    MaxProbes,      \* kMaximumConcurrentProbeClients
    ProbeWindow     \* the probe window of one second, in ticks

ASSUME ResponderAssumption == MaxProbes \in Nat \ {0} /\ ProbeWindow \in Nat \ {0}

\* The widths of the options: two uint16_t and a uint32_t.
ASSUME ConfigsAssumption ==
    Configs \subseteq [ transfer_port : 0 .. MaxPort, probe_port : 0 .. MaxPort,
                        parallel_streams : 0 .. WordSize - 1 ]

VARIABLES
    options,        \* options_
    owner,          \* where the thread that calls start and stop is
    running,        \* running_
    selected_probe_port,
    udp, tcp,       \* the two listeners: "closed", "local" to start(), "thread"
    dthread,        \* discovery_thread_: "none", "check", "select", "done"
    pthread,        \* probe_thread_: also "accept", "expire", "send"
    asked,          \* asked[k]: seeker k's datagram
    inbox,          \* the order in which datagrams wait at the discovery port
    queue,          \* probe connections that wait for accept
    client,         \* client[c]: client c's connection; idle again once it is closed
    age,            \* age[c]: ticks since it was accepted
    room,           \* the clients with room in their socket buffers
    gone,           \* the clients that closed their end
    ready,          \* what select returned: is anything ready,
    writable        \* and which clients are

ownVars   == <<options, owner, running, selected_probe_port>>
netVars   == <<asked, inbox, room, gone>>
probeVars == <<queue, client, age, ready, writable>>
vars == <<options, owner, running, selected_probe_port, udp, tcp, dthread, pthread, asked, inbox, queue,
          client, age, room, gone, ready, writable>>

Active == { c \in Clients : client[c] = "active" }

Init ==
    /\ options \in Configs
    /\ owner = "idle" /\ running = FALSE /\ selected_probe_port = NoPort
    /\ udp = "closed" /\ tcp = "closed"
    /\ dthread = "none" /\ pthread = "none"
    /\ asked = [k \in Seekers |-> "none"]
    /\ inbox = <<>> /\ queue = <<>>
    /\ client = [c \in Clients |-> "idle"]
    /\ age = [c \in Clients |-> 0]
    /\ room = {} /\ gone = {}
    /\ ready = FALSE /\ writable = {}

-----------------------------------------------------------------------------
(***************************************************************************)
(* start and stop.                                                         *)
(***************************************************************************)
\* A listener closes: the kernel resets the connections that it holds.
ResetQueue ==
    /\ queue' = <<>>
    /\ client' = [c \in Clients |->
                    IF \E i \in 1 .. Len(queue) : queue[i] = c THEN "idle" ELSE client[c]]
    /\ UNCHANGED <<age, ready, writable>>

\* The discovery socket closes: datagrams that nobody read are lost.
LoseDatagrams ==
    /\ inbox' = <<>>
    /\ asked' = [k \in Seekers |-> IF asked[k] \in {"request", "junk"} THEN "none" ELSE asked[k]]

\* running_.exchange(true): start does nothing if it was true.
Start ==
    /\ owner = "idle" /\ ~running
    /\ running' = TRUE /\ owner' = "validate"
    /\ UNCHANGED <<options, selected_probe_port, udp, tcp, dthread, pthread, netVars, probeVars>>

OptionsOk ==
    /\ options.transfer_port # 0 /\ options.probe_port # 0 /\ options.parallel_streams # 0
    /\ PortsAccepted(options.transfer_port, options.parallel_streams)

\* The options are checked and the probe port chosen.
Validate ==
    /\ owner = "validate"
    /\ LET chosen == SelectedProbePort(options.probe_port, options.transfer_port,
                                       options.parallel_streams) IN
       IF OptionsOk /\ chosen # NoPort
         THEN selected_probe_port' = chosen /\ owner' = "udp"
         ELSE UNCHANGED selected_probe_port /\ owner' = "stop"
    /\ UNCHANGED <<options, running, udp, tcp, dthread, pthread, netVars, probeVars>>

\* Each later step of start may throw; what is local to start() is closed
\* before the handler calls stop.
MakeUdp ==
    /\ owner = "udp"
    /\ \/ udp' = "local" /\ owner' = "tcp"
       \/ UNCHANGED udp /\ owner' = "stop"
    /\ UNCHANGED <<options, running, selected_probe_port, tcp, dthread, pthread, netVars, probeVars>>

MakeProbe ==
    /\ owner = "tcp"
    /\ \/ tcp' = "local" /\ owner' = "spawn_discovery" /\ UNCHANGED <<udp, asked, inbox>>
       \/ udp' = "closed" /\ LoseDatagrams /\ owner' = "stop" /\ UNCHANGED tcp
    /\ UNCHANGED <<options, running, selected_probe_port, dthread, pthread, room, gone, probeVars>>

SpawnDiscovery ==
    /\ owner = "spawn_discovery"
    /\ \/ /\ udp' = "thread" /\ dthread' = "check" /\ owner' = "spawn_probe"
          /\ UNCHANGED <<tcp, asked, inbox, probeVars>>
       \/ /\ udp' = "closed" /\ tcp' = "closed" /\ LoseDatagrams /\ ResetQueue
          /\ owner' = "stop" /\ UNCHANGED dthread
    /\ UNCHANGED <<options, running, selected_probe_port, pthread, room, gone>>

\* Mutant: a start that fails here leaves what it started.
SpawnProbe_NoCleanup ==
    /\ owner = "spawn_probe"
    /\ \/ /\ tcp' = "thread" /\ pthread' = "check"
          /\ UNCHANGED probeVars
       \/ /\ tcp' = "closed" /\ ResetQueue
          /\ UNCHANGED pthread
    /\ owner' = "idle"
    /\ UNCHANGED <<options, running, selected_probe_port, udp, dthread, netVars>>

SpawnProbe ==
    /\ owner = "spawn_probe"
    /\ \/ /\ tcp' = "thread" /\ pthread' = "check" /\ owner' = "idle"
          /\ UNCHANGED probeVars
       \/ /\ tcp' = "closed" /\ ResetQueue
          /\ owner' = "stop" /\ UNCHANGED pthread
    /\ UNCHANGED <<options, running, selected_probe_port, udp, dthread, netVars>>

\* stop, from the program, the destructor or start's handler.
CallStop ==
    /\ owner = "idle"
    /\ owner' = "stop"
    /\ UNCHANGED <<options, running, selected_probe_port, udp, tcp, dthread, pthread, netVars, probeVars>>

Stop ==
    /\ owner = "stop"
    /\ running' = FALSE /\ owner' = "join_discovery"
    /\ UNCHANGED <<options, selected_probe_port, udp, tcp, dthread, pthread, netVars, probeVars>>

JoinDiscovery ==
    /\ owner = "join_discovery" /\ dthread \in {"none", "done"}
    /\ dthread' = "none" /\ owner' = "join_probe"
    /\ UNCHANGED <<options, running, selected_probe_port, udp, tcp, pthread, netVars, probeVars>>

\* Mutant: the probe thread is detached instead of joined.
JoinProbe_Detached ==
    /\ owner = "join_probe"
    /\ owner' = "idle"
    /\ UNCHANGED <<options, running, selected_probe_port, udp, tcp, dthread, pthread, netVars, probeVars>>

JoinProbe ==
    /\ owner = "join_probe" /\ pthread \in {"none", "done"}
    /\ pthread' = "none" /\ owner' = "idle"
    /\ UNCHANGED <<options, running, selected_probe_port, udp, tcp, dthread, netVars, probeVars>>

-----------------------------------------------------------------------------
(***************************************************************************)
(* serve_discovery.                                                        *)
(***************************************************************************)
DiscoveryCheck ==
    /\ dthread = "check"
    /\ IF running THEN dthread' = "select" /\ UNCHANGED <<udp, asked, inbox>>
                  ELSE dthread' = "done" /\ udp' = "closed" /\ LoseDatagrams
    /\ UNCHANGED <<ownVars, tcp, pthread, room, gone, probeVars>>

\* The first datagram is read and, if it is a request, answered.
Answer ==
    /\ inbox' = Tail(inbox)
    /\ asked' = [asked EXCEPT ![Head(inbox)] = IF @ = "request" THEN "answered" ELSE "none"]

\* Mutant: a datagram that is no request ends the thread.
DiscoverySelect_EndsOnJunk ==
    /\ dthread = "select"
    /\ IF inbox = <<>> THEN dthread' = "check" /\ UNCHANGED <<asked, inbox>>
       ELSE dthread' = (IF asked[Head(inbox)] = "junk" THEN "done" ELSE "check") /\ Answer
    /\ UNCHANGED <<ownVars, udp, tcp, pthread, room, gone, probeVars>>

\* The select times out or there is a datagram.
DiscoverySelect ==
    /\ dthread = "select"
    /\ dthread' = "check"
    /\ IF inbox = <<>> THEN UNCHANGED <<asked, inbox>> ELSE Answer
    /\ UNCHANGED <<ownVars, udp, tcp, pthread, room, gone, probeVars>>

-----------------------------------------------------------------------------
(***************************************************************************)
(* serve_probes.                                                           *)
(***************************************************************************)
\* When the loop ends the listener and the active clients are closed.
ProbeCheck ==
    /\ pthread = "check"
    /\ IF running
         THEN pthread' = "select" /\ UNCHANGED <<tcp, probeVars>>
         ELSE /\ pthread' = "done" /\ tcp' = "closed"
              /\ queue' = <<>>
              /\ client' = [c \in Clients |->
                              IF client[c] \in {"queued", "active"} THEN "idle" ELSE client[c]]
              /\ UNCHANGED <<age, ready, writable>>
    /\ UNCHANGED <<ownVars, udp, dthread, netVars>>

\* A client is writable when its buffer has room or its end is closed.
ProbeSelect ==
    /\ pthread = "select"
    /\ writable' = Active \cap (room \cup gone)
    /\ ready' = (queue # <<>> \/ writable' # {})
    /\ pthread' = IF queue # <<>> THEN "accept" ELSE "expire"
    /\ UNCHANGED <<ownVars, udp, tcp, dthread, netVars, queue, client, age>>

\* Mutants: the bound is tested too late; the loop does not look at running_.
Full_OffByOne     == Cardinality(Active) > MaxProbes
MayAccept_Forever == queue # <<>>

Full      == Cardinality(Active) >= MaxProbes
MayAccept == running /\ queue # <<>>

\* One accept: over the bound the connection is closed at once, otherwise
\* its window begins.  The loop ends when nobody waits or on stop.
ProbeAccept ==
    /\ pthread = "accept"
    /\ IF MayAccept
         THEN LET c == Head(queue) IN
              /\ queue' = Tail(queue)
              /\ client' = [client EXCEPT ![c] = IF Full THEN "idle" ELSE "active"]
              /\ age' = [age EXCEPT ![c] = 0]
              /\ UNCHANGED pthread
         ELSE pthread' = "expire" /\ UNCHANGED <<queue, client, age>>
    /\ UNCHANGED <<ownVars, udp, tcp, dthread, netVars, ready, writable>>

\* Mutant: the window never ends.
Expired_Never(c) == FALSE
Expired(c)       == age[c] >= ProbeWindow

ProbeExpire ==
    /\ pthread = "expire"
    /\ client' = [c \in Clients |-> IF c \in Active /\ Expired(c) THEN "idle" ELSE client[c]]
    /\ pthread' = IF ready THEN "send" ELSE "check"
    /\ UNCHANGED <<ownVars, udp, tcp, dthread, netVars, queue, age, ready, writable>>

\* Mutant: the sockets are blocking, and a send waits for room.
SendReturns_Blocks(targets) == \A c \in Active : c \in room \cup gone
SendReturns(targets)        == targets \subseteq Active

\* send_probe_bytes for each client that was writable: an error removes the
\* client, success or EWOULDBLOCK keeps it.  Any of the buffers may be full
\* afterwards.
ProbeSend ==
    /\ pthread = "send"
    /\ LET targets == writable \cap Active IN
       /\ SendReturns(targets)
       /\ client' = [c \in Clients |-> IF c \in targets \cap gone THEN "idle" ELSE client[c]]
       /\ \E full \in SUBSET (targets \cap room) : room' = room \ full
    /\ pthread' = "check"
    /\ UNCHANGED <<ownVars, udp, tcp, dthread, asked, inbox, gone, queue, age, ready, writable>>

-----------------------------------------------------------------------------
(***************************************************************************)
(* The hosts around.                                                       *)
(***************************************************************************)
Ask(k) ==
    /\ asked[k] \notin {"request", "junk"} /\ udp # "closed"
    /\ asked' \in { [asked EXCEPT ![k] = m] : m \in {"request", "junk"} }
    /\ inbox' = Append(inbox, k)
    /\ UNCHANGED <<ownVars, udp, tcp, dthread, pthread, room, gone, probeVars>>

\* listen() was called with a backlog that does not fill up.
Probe(c) ==
    /\ client[c] \notin {"queued", "active"} /\ tcp # "closed"
    /\ queue' = Append(queue, c)
    /\ client' = [client EXCEPT ![c] = "queued"]
    /\ age' = [age EXCEPT ![c] = 0]
    /\ room' = room \cup {c} /\ gone' = gone \ {c}
    /\ UNCHANGED <<ownVars, udp, tcp, dthread, pthread, asked, inbox, ready, writable>>

Read(c) ==
    /\ client[c] = "active" /\ c \notin room
    /\ room' = room \cup {c}
    /\ UNCHANGED <<ownVars, udp, tcp, dthread, pthread, asked, inbox, gone, probeVars>>

Leave(c) ==
    /\ client[c] \in {"queued", "active"} /\ c \notin gone
    /\ gone' = gone \cup {c}
    /\ UNCHANGED <<ownVars, udp, tcp, dthread, pthread, asked, inbox, room, probeVars>>

Tick ==
    /\ \E c \in Active : age[c] < ProbeWindow
    /\ age' = [c \in Clients |-> IF c \in Active /\ age[c] < ProbeWindow THEN age[c] + 1 ELSE age[c]]
    /\ UNCHANGED <<ownVars, udp, tcp, dthread, pthread, netVars, queue, client, ready, writable>>

-----------------------------------------------------------------------------
OwnerStep == \/ Validate \/ MakeUdp \/ MakeProbe \/ SpawnDiscovery \/ SpawnProbe
             \/ Stop \/ JoinDiscovery \/ JoinProbe
DiscoveryStep == DiscoveryCheck \/ DiscoverySelect
ProbeStep == ProbeCheck \/ ProbeSelect \/ ProbeAccept \/ ProbeExpire \/ ProbeSend

Next ==
    \/ Start \/ CallStop \/ OwnerStep \/ DiscoveryStep \/ ProbeStep \/ Tick
    \/ \E k \in Seekers : Ask(k)
    \/ \E c \in Clients : Probe(c) \/ Read(c) \/ Leave(c)

Spec == Init /\ [][Next]_vars

\* Threads run and time passes.  Nobody promises to call start or stop, to
\* ask, to probe, to read or to close.
Fairness ==
    /\ WF_vars(OwnerStep) /\ WF_vars(DiscoveryStep) /\ WF_vars(ProbeStep) /\ WF_vars(Tick)

FairSpec == Spec /\ Fairness

-----------------------------------------------------------------------------
Owners == {"idle", "validate", "udp", "tcp", "spawn_discovery", "spawn_probe", "stop",
           "join_discovery", "join_probe"}

\* The variables have their types.
TypeOK ==
    /\ options \in Configs /\ owner \in Owners /\ running \in BOOLEAN
    /\ selected_probe_port \in 0 .. MaxPort
    /\ {udp, tcp} \subseteq {"closed", "local", "thread"}
    /\ dthread \in {"none", "check", "select", "done"}
    /\ pthread \in {"none", "check", "select", "accept", "expire", "send", "done"}
    /\ asked \in [Seekers -> {"none", "request", "junk", "answered"}]
    /\ inbox \in Seq(Seekers) /\ queue \in Seq(Clients)
    /\ client \in [Clients -> {"idle", "queued", "active"}]
    /\ age \in [Clients -> 0 .. ProbeWindow]
    /\ room \subseteq Clients /\ gone \subseteq Clients
    /\ ready \in BOOLEAN /\ writable \subseteq Clients

\* Between calls, running_ tells the truth.  While it is set, so that another
\* start() returns at once, both listeners are open and both threads serve;
\* while it is not, after stop() or after a start() that threw at any of its
\* steps, no listener, thread or connection is left.
RunningTellsTruth ==
    owner = "idle" =>
        IF running
          THEN /\ udp = "thread" /\ tcp = "thread"
               /\ dthread \notin {"none", "done"} /\ pthread \notin {"none", "done"}
          ELSE /\ udp = "closed" /\ tcp = "closed"
               /\ dthread = "none" /\ pthread = "none"
               /\ queue = <<>> /\ Active = {}

\* A std::thread is never assigned while it is joinable, which would end the
\* program: start only spawns threads when none is left from before.
SpawnsOnlyFreshThreads ==
    /\ owner = "spawn_discovery" => dthread = "none"
    /\ owner \in {"spawn_discovery", "spawn_probe"} => pthread = "none"

\* At most kMaximumConcurrentProbeClients probes are served at a time, and a
\* connection either waits for accept or has been taken from the queue.
ProbesBounded ==
    /\ Cardinality(Active) <= MaxProbes
    /\ \A c \in Clients : client[c] = "queued" <=> \E i \in 1 .. Len(queue) : queue[i] = c

\* stop returns, whatever the clients do and however many keep connecting.
StopReturns == owner = "stop" ~> owner = "idle"

\* A discovery request that has arrived is answered unless the responder is
\* stopped, whatever other datagrams arrive before it and however busy the
\* probe is.
RequestAnswered ==
    \A k \in Seekers : asked[k] = "request" ~> asked[k] = "answered" \/ ~running

\* A waiting probe is accepted, refused or reset even when the clients that
\* are being served have stopped reading.
StalledClientBlocksNobody ==
    \A c \in Clients : client[c] = "queued" ~> client[c] # "queued"

\* A client that neither reads nor closes loses its place when its window
\* ends, provided that new connections do not keep the accept loop busy for
\* ever.
StalledClientIsReleased ==
    []<>(pthread # "accept") =>
        \A c \in Clients : client[c] = "active" ~> client[c] # "active"
=============================================================================
