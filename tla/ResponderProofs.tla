-------------------------- MODULE ResponderProofs --------------------------
(***************************************************************************)
(* Proofs about Responder for every set of options, any number of seekers  *)
(* and clients, any bound on the probes and any probe window.              *)
(***************************************************************************)
EXTENDS Responder, FiniteSetTheorems, SequenceTheorems, TLAPS

(***************************************************************************)
(* The inductive invariant, in parts.                                      *)
(***************************************************************************)
Live(t) == t \notin {"none", "done"}

\* Where start and stop are tells what running_ is and which threads there
\* are; a listener belongs to its thread, or to start() before that.
ThreadInv ==
    /\ owner \in {"validate", "udp", "tcp", "spawn_discovery", "spawn_probe"} => running
    /\ owner \in {"join_discovery", "join_probe"} => ~running
    /\ udp = IF Live(dthread) THEN "thread"
             ELSE IF owner \in {"tcp", "spawn_discovery"} THEN "local" ELSE "closed"
    /\ tcp = IF Live(pthread) THEN "thread"
             ELSE IF owner \in {"spawn_discovery", "spawn_probe"} THEN "local" ELSE "closed"
    /\ owner \in {"validate", "udp", "tcp", "spawn_discovery", "join_probe"} => dthread = "none"
    /\ owner \in {"validate", "udp", "tcp", "spawn_discovery", "spawn_probe"} => pthread = "none"
    /\ owner = "spawn_probe" => Live(dthread)
    /\ owner = "idle" => /\ running <=> Live(dthread)
                         /\ running <=> Live(pthread)
                         /\ dthread # "done" /\ pthread # "done"

InQueue(q, c) == \E i \in 1 .. Len(q) : q[i] = c
Distinct(q)   == \A i, j \in 1 .. Len(q) : i # j => q[i] # q[j]

\* A client waits once, and exactly those that wait are marked so; a closed
\* listener holds nobody.
QueueInv ==
    /\ Distinct(queue)
    /\ \A c \in Clients : client[c] = "queued" <=> InQueue(queue, c)
    /\ tcp = "closed" => queue = <<>>

\* Only a live probe thread has clients, and no more than it may.
ActiveInv ==
    /\ ~Live(pthread) => Active = {}
    /\ IsFiniteSet(Active) /\ Cardinality(Active) <= MaxProbes

IInv == TypeOK /\ ThreadInv /\ QueueInv /\ ActiveInv

-----------------------------------------------------------------------------
(***************************************************************************)
(* Queues without repetition.                                              *)
(***************************************************************************)
LEMMA AppendQueue ==
  ASSUME NEW S, NEW q \in Seq(S), NEW e \in S, Distinct(q), ~InQueue(q, e)
  PROVE  /\ Append(q, e) \in Seq(S)
         /\ Distinct(Append(q, e))
         /\ \A c : InQueue(Append(q, e), c) <=> InQueue(q, c) \/ c = e
  <1>. DEFINE r == Append(q, e)
  <1>1. /\ r \in Seq(S) /\ Len(r) = Len(q) + 1 /\ Len(q) \in Nat
        /\ \A i \in 1 .. Len(q) : r[i] = q[i]
        /\ r[Len(q) + 1] = e
    BY AppendProperties, LenProperties
  <1>. HIDE DEF r
  <1>2. \A i \in 1 .. Len(r) : i \in 1 .. Len(q) \/ i = Len(q) + 1
    BY <1>1
  <1>3. Distinct(r)
    BY <1>1, <1>2 DEF Distinct, InQueue
  <1>4. \A c : InQueue(r, c) <=> InQueue(q, c) \/ c = e
    <2>1. Len(q) + 1 \in 1 .. Len(r) /\ \A i \in 1 .. Len(q) : i \in 1 .. Len(r)
      BY <1>1
    <2>. QED
      BY <1>1, <1>2, <2>1 DEF InQueue
  <1>. QED
    BY <1>1, <1>3, <1>4 DEF r

LEMMA TailQueue ==
  ASSUME NEW S, NEW q \in Seq(S), q # <<>>, Distinct(q)
  PROVE  /\ Head(q) \in S /\ Tail(q) \in Seq(S) /\ InQueue(q, Head(q))
         /\ Distinct(Tail(q))
         /\ \A c : InQueue(Tail(q), c) <=> InQueue(q, c) /\ c # Head(q)
  <1>. DEFINE r == Tail(q)
  <1>1. /\ Head(q) \in S /\ r \in Seq(S) /\ Len(r) = Len(q) - 1
        /\ \A i \in 1 .. Len(r) : r[i] = q[i + 1]
        /\ Head(q) = q[1] /\ Len(q) \in Nat \ {0}
    BY HeadTailProperties, LenProperties, EmptySeq
  <1>. HIDE DEF r
  <1>2. \A i \in 1 .. Len(r) : i + 1 \in 1 .. Len(q)
    BY <1>1
  <1>3. 1 \in 1 .. Len(q)
    BY <1>1
  <1>4. InQueue(q, Head(q))
    BY <1>1, <1>3 DEF InQueue
  <1>5. Distinct(r)
    <2>. SUFFICES ASSUME NEW i \in 1 .. Len(r), NEW j \in 1 .. Len(r), i # j
                  PROVE  r[i] # r[j]
      BY DEF Distinct
    <2>1. i + 1 # j + 1
      OBVIOUS
    <2>. QED
      BY <1>1, <1>2, <2>1 DEF Distinct
  <1>6. ASSUME NEW c PROVE InQueue(r, c) <=> InQueue(q, c) /\ c # Head(q)
    <2>1. ASSUME InQueue(r, c) PROVE InQueue(q, c) /\ c # Head(q)
      <3>1. PICK i \in 1 .. Len(r) : r[i] = c
        BY <2>1 DEF InQueue
      <3>2. q[i + 1] = c /\ i + 1 \in 1 .. Len(q) /\ i + 1 # 1
        BY <1>1, <1>2, <3>1
      <3>. QED
        BY <1>1, <1>3, <3>2 DEF InQueue, Distinct
    <2>2. ASSUME InQueue(q, c), c # Head(q) PROVE InQueue(r, c)
      <3>1. PICK i \in 1 .. Len(q) : q[i] = c
        BY <2>2 DEF InQueue
      <3>2. i # 1
        BY <1>1, <2>2, <3>1
      <3>3. i - 1 \in 1 .. Len(r) /\ (i - 1) + 1 = i
        BY <1>1, <3>2
      <3>4. r[i - 1] = c
        BY <1>1, <3>1, <3>3
      <3>. QED
        BY <3>3, <3>4 DEF InQueue
    <2>. QED
      BY <2>1, <2>2
  <1>. QED
    BY <1>1, <1>4, <1>5, <1>6 DEF r

LEMMA EmptyQueue == <<>> \in Seq(Clients) /\ Distinct(<<>>) /\ \A c : ~InQueue(<<>>, c)
  BY DEF Distinct, InQueue

-----------------------------------------------------------------------------
LEMMA InitInv == Init => IInv
  <1>. SUFFICES ASSUME Init PROVE IInv
    OBVIOUS
  <1>1. TypeOK
    <2>1. NoPort \in 0 .. MaxPort /\ 0 \in 0 .. ProbeWindow
      BY MaxPortAssumption, ResponderAssumption DEF NoPort
    <2>2. /\ inbox \in Seq(Seekers) /\ queue \in Seq(Clients)
          /\ asked \in [Seekers -> {"none", "request", "junk", "answered"}]
          /\ client \in [Clients -> {"idle", "queued", "active"}]
          /\ age \in [Clients -> 0 .. ProbeWindow]
      BY <2>1 DEF Init
    <2>. QED
      BY <2>1, <2>2 DEF Init, TypeOK, Owners
  <1>2. ThreadInv
    BY DEF Init, ThreadInv, Live
  <1>3. QueueInv
    BY EmptyQueue DEF Init, QueueInv
  <1>4. ActiveInv
    <2>1. Active = {}
      BY DEF Init, Active
    <2>. QED
      BY <2>1, FS_EmptySet, ResponderAssumption DEF ActiveInv
  <1>. QED
    BY <1>1, <1>2, <1>3, <1>4 DEF IInv

\* Steps that remove clients, from the probes or from a queue that closes.
LEMMA FewerActive ==
  ASSUME ActiveInv, Active' \subseteq Active
  PROVE  IsFiniteSet(Active)' /\ (Cardinality(Active) <= MaxProbes)'
  <1>1. /\ IsFiniteSet(Active') /\ Cardinality(Active') <= Cardinality(Active)
        /\ Cardinality(Active) \in Nat /\ Cardinality(Active') \in Nat
    BY FS_Subset, FS_CardinalityType DEF ActiveInv
  <1>. QED
    BY <1>1, ResponderAssumption DEF ActiveInv

\* A listener that closes leaves nobody in its queue and touches no probe.
LEMMA ResetStep ==
  ASSUME IInv, ResetQueue
  PROVE  /\ queue' \in Seq(Clients) /\ client' \in [Clients -> {"idle", "queued", "active"}]
         /\ Distinct(queue)' /\ queue' = <<>> /\ Active' = Active
         /\ \A c \in Clients : client'[c] = "queued" <=> InQueue(queue', c)
  <1>1. /\ queue' = <<>>
        /\ client' = [c \in Clients |-> IF InQueue(queue, c) THEN "idle" ELSE client[c]]
    BY DEF ResetQueue, InQueue
  <1>2. \A c \in Clients : client[c] = "queued" <=> InQueue(queue, c)
    BY DEF IInv, QueueInv
  <1>3. client \in [Clients -> {"idle", "queued", "active"}]
    BY DEF IInv, TypeOK
  <1>4. client' \in [Clients -> {"idle", "queued", "active"}]
    BY <1>1, <1>3
  <1>5. \A c \in Clients : client'[c] # "queued" /\ (client'[c] = "active" <=> client[c] = "active")
    BY <1>1, <1>2, <1>3
  <1>. QED
    BY <1>1, <1>4, <1>5, EmptyQueue DEF Active

\* Losing datagrams keeps the types.
LEMMA LoseType ==
  ASSUME TypeOK, LoseDatagrams
  PROVE  /\ inbox' \in Seq(Seekers)
         /\ asked' \in [Seekers -> {"none", "request", "junk", "answered"}]
  BY DEF TypeOK, LoseDatagrams

(***************************************************************************)
(* The thread that calls start and stop.                                   *)
(***************************************************************************)
LEMMA OwnerSteps ==
  ASSUME IInv, Start \/ CallStop \/ OwnerStep
  PROVE  IInv'
  <1>. USE DEF IInv
  <1>1. CASE Start \/ CallStop \/ Stop \/ JoinDiscovery \/ JoinProbe \/ MakeUdp
    <2>. USE <1>1 DEF Start, CallStop, Stop, JoinDiscovery, JoinProbe, MakeUdp, netVars, probeVars
    <2>1. TypeOK'
      BY DEF TypeOK, Owners
    <2>2. ThreadInv'
      BY DEF ThreadInv, Live
    <2>3. QueueInv'
      BY DEF QueueInv
    <2>4. ActiveInv'
      BY DEF ActiveInv, Active, Live
    <2>. QED
      BY <2>1, <2>2, <2>3, <2>4
  <1>2. CASE Validate
    <2>. USE <1>2 DEF Validate, netVars, probeVars
    <2>1. TypeOK'
      <3>1. selected_probe_port' \in 0 .. MaxPort
        <4>1. /\ options.transfer_port \in 0 .. MaxPort /\ options.probe_port \in 0 .. MaxPort
              /\ options.parallel_streams \in Nat
          BY ConfigsAssumption, WordSizeAssumption DEF TypeOK
        <4>2. CASE OptionsOk
          <5>1. SelectedProbePort(options.probe_port, options.transfer_port,
                                  options.parallel_streams) \in 0 .. MaxPort
            BY <4>1, <4>2, MaxPortAssumption
            DEF SelectedProbePort, LastPort, NoPort, OptionsOk, PortsAccepted
          <5>. QED
            BY <5>1 DEF TypeOK
        <4>3. CASE ~OptionsOk
          BY <4>3 DEF TypeOK
        <4>. QED
          BY <4>2, <4>3
      <3>2. owner' \in Owners
        BY DEF Owners
      <3>. QED
        BY <3>1, <3>2 DEF TypeOK
    <2>2. ThreadInv'
      BY DEF ThreadInv, Live
    <2>3. QueueInv' /\ ActiveInv'
      BY DEF QueueInv, ActiveInv, Active
    <2>. QED
      BY <2>1, <2>2, <2>3
  <1>3. CASE MakeProbe
    <2>. USE <1>3 DEF MakeProbe, probeVars
    <2>1. TypeOK'
      BY LoseType DEF TypeOK, Owners
    <2>2. ThreadInv'
      BY DEF ThreadInv, Live
    <2>3. QueueInv' /\ ActiveInv'
      BY DEF QueueInv, ActiveInv, Active
    <2>. QED
      BY <2>1, <2>2, <2>3
  <1>4. CASE SpawnDiscovery
    <2>1. CASE ResetQueue
      <3>. USE <1>4 DEF SpawnDiscovery
      <3>1. TypeOK'
        BY <2>1, ResetStep, LoseType DEF TypeOK, Owners, ResetQueue, probeVars
      <3>2. ThreadInv'
        BY <2>1 DEF ThreadInv, Live
      <3>3. QueueInv'
        BY <2>1, ResetStep DEF QueueInv
      <3>4. ActiveInv'
        BY <2>1, ResetStep DEF ActiveInv
      <3>. QED
        BY <3>1, <3>2, <3>3, <3>4
    <2>2. CASE UNCHANGED probeVars
      <3>. USE <1>4, <2>2 DEF SpawnDiscovery, probeVars
      <3>1. TypeOK'
        BY LoseType DEF TypeOK, Owners
      <3>2. ThreadInv'
        BY DEF ThreadInv, Live
      <3>3. QueueInv'
        BY DEF QueueInv, ResetQueue
      <3>4. ActiveInv'
        BY DEF ActiveInv, Active
      <3>. QED
        BY <3>1, <3>2, <3>3, <3>4
    <2>. QED
      BY <1>4, <2>1, <2>2 DEF SpawnDiscovery
  <1>5. CASE SpawnProbe
    <2>1. CASE ResetQueue /\ UNCHANGED pthread
      <3>. USE <1>5 DEF SpawnProbe, netVars
      <3>1. TypeOK'
        BY <2>1, ResetStep DEF TypeOK, Owners, ResetQueue
      <3>2. ThreadInv'
        BY <2>1 DEF ThreadInv, Live
      <3>3. QueueInv'
        BY <2>1, ResetStep DEF QueueInv
      <3>4. ActiveInv'
        BY <2>1, ResetStep DEF ActiveInv
      <3>. QED
        BY <3>1, <3>2, <3>3, <3>4
    <2>2. CASE UNCHANGED probeVars /\ tcp' = "thread" /\ pthread' = "check" /\ owner' = "idle"
      <3>. USE <1>5, <2>2 DEF SpawnProbe, probeVars, netVars
      <3>1. TypeOK'
        BY DEF TypeOK, Owners
      <3>2. ThreadInv'
        BY DEF ThreadInv, Live
      <3>3. QueueInv'
        BY DEF QueueInv
      <3>4. ActiveInv'
        BY DEF ActiveInv, Active, Live
      <3>. QED
        BY <3>1, <3>2, <3>3, <3>4
    <2>. QED
      BY <1>5, <2>1, <2>2 DEF SpawnProbe
  <1>. QED
    BY <1>1, <1>2, <1>3, <1>4, <1>5 DEF OwnerStep

(***************************************************************************)
(* serve_discovery.                                                        *)
(***************************************************************************)
LEMMA DiscoverySteps ==
  ASSUME IInv, DiscoveryStep
  PROVE  IInv'
  <1>. USE DEF IInv
  <1>1. CASE DiscoveryCheck
    <2>. USE <1>1 DEF DiscoveryCheck, ownVars, probeVars
    <2>1. TypeOK'
      BY LoseType DEF TypeOK
    <2>2. ThreadInv'
      BY DEF ThreadInv, Live
    <2>3. QueueInv' /\ ActiveInv'
      BY DEF QueueInv, ActiveInv, Active
    <2>. QED
      BY <2>1, <2>2, <2>3
  <1>2. CASE DiscoverySelect
    <2>. USE <1>2 DEF DiscoverySelect, ownVars, probeVars
    <2>1. inbox' \in Seq(Seekers) /\ asked' \in [Seekers -> {"none", "request", "junk", "answered"}]
      <3>1. CASE inbox = <<>>
        BY <3>1 DEF TypeOK
      <3>2. CASE inbox # <<>>
        <4>1. inbox \in Seq(Seekers) /\ Head(inbox) \in Seekers /\ Tail(inbox) \in Seq(Seekers)
          BY <3>2, HeadTailProperties DEF TypeOK
        <4>. QED
          BY <3>2, <4>1 DEF Answer, TypeOK
      <3>. QED
        BY <3>1, <3>2
    <2>2. TypeOK'
      BY <2>1 DEF TypeOK
    <2>3. ThreadInv'
      BY DEF ThreadInv, Live
    <2>4. QueueInv' /\ ActiveInv'
      BY DEF QueueInv, ActiveInv, Active
    <2>. QED
      BY <2>2, <2>3, <2>4
  <1>. QED
    BY <1>1, <1>2 DEF DiscoveryStep

(***************************************************************************)
(* serve_probes.                                                           *)
(***************************************************************************)
\* The types and places of the threads, for a step of the probe thread that
\* goes on with its loop.
LEMMA ProbeGoes ==
  ASSUME IInv, UNCHANGED <<ownVars, udp, tcp, dthread>>, Live(pthread),
         pthread' \in {"check", "select", "accept", "expire", "send"}
  PROVE  ThreadInv' /\ Live(pthread)'
  BY DEF IInv, ThreadInv, Live, ownVars

\* Clients may lose their place, and none gets one.
LEMMA ProbeDrops ==
  ASSUME IInv, NEW S \in SUBSET Active, queue' = queue, tcp' = tcp,
         client' = [c \in Clients |-> IF c \in S THEN "idle" ELSE client[c]],
         Live(pthread)'
  PROVE  /\ client' \in [Clients -> {"idle", "queued", "active"}]
         /\ QueueInv' /\ ActiveInv'
  <1>1. client \in [Clients -> {"idle", "queued", "active"}]
    BY DEF IInv, TypeOK
  <1>2. \A c \in Clients : client'[c] = client[c] \/ (client'[c] = "idle" /\ client[c] = "active")
    BY DEF Active
  <1>3. client' \in [Clients -> {"idle", "queued", "active"}]
    BY <1>1
  <1>4. Active' \subseteq Active
    BY <1>2 DEF Active
  <1>5. QueueInv'
    BY <1>2 DEF IInv, QueueInv
  <1>6. ActiveInv'
    BY <1>4, FewerActive DEF IInv, ActiveInv
  <1>. QED
    BY <1>3, <1>5, <1>6

LEMMA ProbeSteps ==
  ASSUME IInv, ProbeStep
  PROVE  IInv'
  <1>1. CASE ProbeCheck /\ running
    <2>. USE <1>1 DEF IInv, ProbeCheck, ownVars, netVars, probeVars
    <2>1. TypeOK'
      BY DEF TypeOK
    <2>2. ThreadInv'
      BY DEF ThreadInv, Live
    <2>3. QueueInv' /\ ActiveInv'
      BY DEF QueueInv, ActiveInv, Active, Live
    <2>. QED
      BY <2>1, <2>2, <2>3
  <1>2. CASE ProbeCheck /\ ~running
    <2>1. /\ client \in [Clients -> {"idle", "queued", "active"}] /\ queue' = <<>>
          /\ client' = [c \in Clients |->
                          IF client[c] \in {"queued", "active"} THEN "idle" ELSE client[c]]
      BY <1>2 DEF ProbeCheck, IInv, TypeOK
    <2>2. /\ client' \in [Clients -> {"idle", "queued", "active"}]
          /\ \A c \in Clients : client'[c] = "idle"
      BY <2>1
    <2>3. Active' = {} /\ \A c \in Clients : client'[c] # "queued"
      BY <2>2 DEF Active
    <2>4. TypeOK'
      BY <1>2, <2>1, <2>2, EmptyQueue DEF IInv, TypeOK, ProbeCheck, ownVars, netVars
    <2>5. ThreadInv'
      BY <1>2 DEF IInv, ThreadInv, Live, ProbeCheck, ownVars
    <2>6. QueueInv'
      BY <2>1, <2>3, EmptyQueue DEF QueueInv
    <2>7. ActiveInv'
      BY <2>3, FewerActive DEF IInv, ActiveInv
    <2>. QED
      BY <2>4, <2>5, <2>6, <2>7 DEF IInv
  <1>3. CASE ProbeSelect
    <2>. USE <1>3 DEF IInv, ProbeSelect, ownVars, netVars
    <2>1. TypeOK'
      BY DEF TypeOK, Active
    <2>2. ThreadInv'
      BY DEF ThreadInv, Live
    <2>3. QueueInv' /\ ActiveInv'
      BY DEF QueueInv, ActiveInv, Active, Live
    <2>. QED
      BY <2>1, <2>2, <2>3
  <1>4. CASE ProbeAccept /\ ~MayAccept
    <2>. USE <1>4 DEF IInv, ProbeAccept, ownVars, netVars
    <2>1. TypeOK'
      BY DEF TypeOK
    <2>2. ThreadInv'
      BY DEF ThreadInv, Live
    <2>3. QueueInv' /\ ActiveInv'
      BY DEF QueueInv, ActiveInv, Active, Live
    <2>. QED
      BY <2>1, <2>2, <2>3
  <1>5. CASE ProbeAccept /\ MayAccept
    <2>. DEFINE c == Head(queue)
    <2>1. /\ queue \in Seq(Clients) /\ queue # <<>> /\ Distinct(queue)
          /\ client \in [Clients -> {"idle", "queued", "active"}]
          /\ age \in [Clients -> 0 .. ProbeWindow]
      BY <1>5 DEF IInv, TypeOK, QueueInv, MayAccept
    <2>2. /\ c \in Clients /\ Tail(queue) \in Seq(Clients) /\ InQueue(queue, c)
          /\ Distinct(Tail(queue))
          /\ \A d : InQueue(Tail(queue), d) <=> InQueue(queue, d) /\ d # c
      BY <2>1, TailQueue
    <2>3. /\ queue' = Tail(queue) /\ age' = [age EXCEPT ![c] = 0] /\ pthread' = pthread
          /\ client' = [client EXCEPT ![c] = IF Full THEN "idle" ELSE "active"]
          /\ UNCHANGED <<ownVars, udp, tcp, dthread, netVars, ready, writable>>
      BY <1>5 DEF ProbeAccept
    <2>. HIDE DEF c
    <2>4. /\ client' \in [Clients -> {"idle", "queued", "active"}]
          /\ client'[c] = IF Full THEN "idle" ELSE "active"
          /\ \A d \in Clients : d # c => client'[d] = client[d]
      BY <2>1, <2>2, <2>3
    <2>5. age' \in [Clients -> 0 .. ProbeWindow]
      <3>1. 0 \in 0 .. ProbeWindow
        BY ResponderAssumption
      <3>. QED
        BY <2>1, <2>2, <2>3, <3>1
    <2>6. TypeOK'
      BY <2>2, <2>3, <2>4, <2>5 DEF IInv, TypeOK, ownVars, netVars
    <2>7. ThreadInv'
      BY <2>3 DEF IInv, ThreadInv, Live, ownVars
    <2>8. QueueInv'
      <3>1. \A d \in Clients : client'[d] = "queued" <=> InQueue(queue', d)
        BY <2>2, <2>3, <2>4 DEF IInv, QueueInv
      <3>2. tcp' = "closed" => queue' = <<>>
        BY <2>1, <2>3 DEF IInv, QueueInv
      <3>. QED
        BY <2>2, <2>3, <3>1, <3>2 DEF QueueInv
    <2>9. ActiveInv'
      <3>1. Live(pthread)'
        BY <1>5, <2>3 DEF ProbeAccept, Live
      <3>2. CASE Full
        <4>1. Active' \subseteq Active
          BY <2>4, <3>2 DEF Active
        <4>. QED
          BY <3>1, <4>1, FewerActive DEF IInv, ActiveInv
      <3>3. CASE ~Full
        <4>1. Active' = Active \cup {c}
          BY <2>2, <2>4, <3>3 DEF Active
        <4>2. IsFiniteSet(Active) /\ Cardinality(Active) \in Nat /\ Cardinality(Active) < MaxProbes
          BY <3>3, FS_CardinalityType, ResponderAssumption DEF IInv, ActiveInv, Full
        <4>3. /\ IsFiniteSet(Active \cup {c})
              /\ Cardinality(Active \cup {c}) \in {Cardinality(Active), Cardinality(Active) + 1}
          BY <4>2, FS_AddElement
        <4>. QED
          BY <3>1, <4>1, <4>2, <4>3, ResponderAssumption DEF ActiveInv
      <3>. QED
        BY <3>2, <3>3
    <2>. QED
      BY <2>6, <2>7, <2>8, <2>9 DEF IInv
  <1>6. CASE ProbeExpire
    <2>. DEFINE S == { c \in Active : Expired(c) }
    <2>1. client' = [c \in Clients |-> IF c \in S THEN "idle" ELSE client[c]]
      BY <1>6 DEF ProbeExpire
    <2>2. ThreadInv' /\ Live(pthread)'
      BY <1>6, ProbeGoes DEF ProbeExpire, Live
    <2>3. S \in SUBSET Active /\ queue' = queue /\ tcp' = tcp
      BY <1>6 DEF ProbeExpire
    <2>. HIDE DEF S
    <2>4. client' \in [Clients -> {"idle", "queued", "active"}] /\ QueueInv' /\ ActiveInv'
      BY <2>1, <2>2, <2>3, ProbeDrops
    <2>5. TypeOK'
      BY <1>6, <2>4 DEF IInv, TypeOK, ProbeExpire, ownVars, netVars
    <2>. QED
      BY <2>2, <2>4, <2>5 DEF IInv
  <1>7. CASE ProbeSend
    <2>. DEFINE S == (writable \cap Active) \cap gone
    <2>1. client' = [c \in Clients |-> IF c \in S THEN "idle" ELSE client[c]]
      BY <1>7 DEF ProbeSend
    <2>2. ThreadInv' /\ Live(pthread)'
      BY <1>7, ProbeGoes DEF ProbeSend, Live
    <2>3. S \in SUBSET Active /\ queue' = queue /\ tcp' = tcp
      BY <1>7 DEF ProbeSend
    <2>. HIDE DEF S
    <2>4. client' \in [Clients -> {"idle", "queued", "active"}] /\ QueueInv' /\ ActiveInv'
      BY <2>1, <2>2, <2>3, ProbeDrops
    <2>5. room' \subseteq Clients
      BY <1>7 DEF IInv, TypeOK, ProbeSend
    <2>6. TypeOK'
      BY <1>7, <2>4, <2>5 DEF IInv, TypeOK, ProbeSend, ownVars
    <2>. QED
      BY <2>2, <2>4, <2>6 DEF IInv
  <1>. QED
    BY <1>1, <1>2, <1>3, <1>4, <1>5, <1>6, <1>7 DEF ProbeStep

(***************************************************************************)
(* The hosts around.                                                       *)
(***************************************************************************)
LEMMA HostSteps ==
  ASSUME IInv, \/ Tick \/ \E k \in Seekers : Ask(k)
               \/ \E c \in Clients : Probe(c) \/ Read(c) \/ Leave(c)
  PROVE  IInv'
  <1>1. CASE Tick
    <2>. USE <1>1 DEF IInv, Tick, ownVars, netVars
    <2>1. age' \in [Clients -> 0 .. ProbeWindow]
      BY ResponderAssumption DEF TypeOK
    <2>2. TypeOK'
      BY <2>1 DEF TypeOK
    <2>3. ThreadInv' /\ QueueInv' /\ ActiveInv'
      BY DEF ThreadInv, QueueInv, ActiveInv, Active
    <2>. QED
      BY <2>2, <2>3
  <1>2. ASSUME NEW k \in Seekers, Ask(k) PROVE IInv'
    <2>. USE <1>2 DEF IInv, Ask, ownVars, probeVars
    <2>1. inbox' \in Seq(Seekers) /\ asked' \in [Seekers -> {"none", "request", "junk", "answered"}]
      <3>1. PICK m \in {"request", "junk"} : asked' = [asked EXCEPT ![k] = m]
        OBVIOUS
      <3>2. asked \in [Seekers -> {"none", "request", "junk", "answered"}] /\ inbox \in Seq(Seekers)
        BY DEF TypeOK
      <3>3. Append(inbox, k) \in Seq(Seekers)
        BY <3>2, AppendProperties
      <3>. QED
        BY <3>1, <3>2, <3>3
    <2>2. TypeOK'
      BY <2>1 DEF TypeOK
    <2>3. ThreadInv' /\ QueueInv' /\ ActiveInv'
      BY DEF ThreadInv, QueueInv, ActiveInv, Active
    <2>. QED
      BY <2>2, <2>3
  <1>3. ASSUME NEW c \in Clients, Read(c) \/ Leave(c) PROVE IInv'
    <2>1. TypeOK'
      BY <1>3 DEF IInv, TypeOK, Read, Leave, ownVars, probeVars
    <2>2. UNCHANGED <<ownVars, udp, tcp, dthread, pthread, queue, client>>
      BY <1>3 DEF Read, Leave, probeVars
    <2>3. ThreadInv' /\ QueueInv' /\ ActiveInv'
      BY <2>2 DEF IInv, ThreadInv, QueueInv, ActiveInv, Active, ownVars
    <2>. QED
      BY <2>1, <2>3 DEF IInv
  <1>4. ASSUME NEW c \in Clients, Probe(c) PROVE IInv'
    <2>1. /\ client[c] \notin {"queued", "active"} /\ tcp # "closed"
          /\ queue' = Append(queue, c) /\ client' = [client EXCEPT ![c] = "queued"]
          /\ age' = [age EXCEPT ![c] = 0] /\ room' = room \cup {c} /\ gone' = gone \ {c}
          /\ UNCHANGED <<ownVars, udp, tcp, dthread, pthread, asked, inbox, ready, writable>>
      BY <1>4 DEF Probe
    <2>2. queue \in Seq(Clients) /\ Distinct(queue) /\ ~InQueue(queue, c)
      BY <2>1 DEF IInv, TypeOK, QueueInv
    <2>3. /\ queue' \in Seq(Clients) /\ Distinct(queue')
          /\ \A d : InQueue(queue', d) <=> InQueue(queue, d) \/ d = c
      BY <2>1, <2>2, AppendQueue
    <2>4. /\ client' \in [Clients -> {"idle", "queued", "active"}] /\ client'[c] = "queued"
          /\ \A d \in Clients : d # c => client'[d] = client[d]
      BY <2>1 DEF IInv, TypeOK
    <2>5. TypeOK'
      <3>1. age' \in [Clients -> 0 .. ProbeWindow]
        BY <2>1, ResponderAssumption DEF IInv, TypeOK
      <3>. QED
        BY <2>1, <2>3, <2>4, <3>1 DEF IInv, TypeOK, ownVars
    <2>6. ThreadInv'
      BY <2>1 DEF IInv, ThreadInv, ownVars
    <2>7. QueueInv'
      BY <2>1, <2>3, <2>4 DEF IInv, QueueInv
    <2>8. ActiveInv'
      <3>1. Active' = Active
        BY <2>1, <2>4 DEF Active
      <3>. QED
        BY <2>1, <3>1 DEF IInv, ActiveInv
    <2>. QED
      BY <2>5, <2>6, <2>7, <2>8 DEF IInv
  <1>. QED
    BY <1>1, <1>2, <1>3, <1>4

-----------------------------------------------------------------------------
LEMMA StepInv == IInv /\ [Next]_vars => IInv'
  <1>. SUFFICES ASSUME IInv, [Next]_vars PROVE IInv'
    OBVIOUS
  <1>1. CASE UNCHANGED vars
    BY <1>1 DEF vars, IInv, TypeOK, ThreadInv, QueueInv, ActiveInv, Active
  <1>2. CASE Next
    BY <1>2, OwnerSteps, DiscoverySteps, ProbeSteps, HostSteps DEF Next
  <1>. QED
    BY <1>1, <1>2

\* The strengthened invariant holds in every state of every behaviour.
LEMMA Invariance == Spec => []IInv
  BY InitInv, StepInv, PTL DEF Spec

(***************************************************************************)
(* The theorems.                                                           *)
(***************************************************************************)
\* The variables of the responder keep their types.
THEOREM TypeCorrect == Spec => []TypeOK
  BY Invariance, PTL DEF IInv

\* Between calls, running_ says whether the listeners are open and the
\* threads serve; a responder that does not run has left nothing behind.
THEOREM RunningTruth == Spec => []RunningTellsTruth
  <1>1. IInv => RunningTellsTruth
    <2>. SUFFICES ASSUME IInv PROVE RunningTellsTruth
      OBVIOUS
    <2>1. CASE owner = "idle" /\ running
      BY <2>1 DEF IInv, ThreadInv, Live, RunningTellsTruth
    <2>2. CASE owner = "idle" /\ ~running
      BY <2>2 DEF IInv, ThreadInv, QueueInv, ActiveInv, Live, RunningTellsTruth
    <2>. QED
      BY <2>1, <2>2 DEF RunningTellsTruth
  <1>. QED
    BY <1>1, Invariance, PTL

\* start never assigns to a std::thread that is still joinable.
THEOREM FreshThreads == Spec => []SpawnsOnlyFreshThreads
  <1>1. IInv => SpawnsOnlyFreshThreads
    BY DEF IInv, ThreadInv, SpawnsOnlyFreshThreads
  <1>. QED
    BY <1>1, Invariance, PTL

\* No more than kMaximumConcurrentProbeClients are served at a time, whatever
\* the number of clients, and none is lost between the queue and the accept.
THEOREM BoundedProbes == Spec => []ProbesBounded
  <1>1. IInv => ProbesBounded
    BY DEF IInv, QueueInv, ActiveInv, InQueue, ProbesBounded
  <1>. QED
    BY <1>1, Invariance, PTL
=============================================================================
