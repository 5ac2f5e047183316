-------------------------- MODULE RendezvousProofs --------------------------
(***************************************************************************)
(* Proofs about Rendezvous for any number of senders and restarts of the   *)
(* receiver, and every choice of ports and streams its user may make.      *)
(***************************************************************************)
EXTENDS Rendezvous, LayoutProofs, WellFoundedInduction, SequenceTheorems

(***************************************************************************)
(* The inductive invariant, in parts.                                      *)
(***************************************************************************)
Conns == [from : Senders, as : Streams \cup {ForProbe}]
Ads   == [start : Nat, port : Nat, parallel : Nat, probe : Nat]

TypeInv ==
    /\ receiver \in {"off", "run"} /\ starts \in Nat /\ settings \in Settings
    /\ thread \in [Streams -> {"none", "listen", "busy", "ended"}]
    /\ queue \in [Streams -> Seq(Conns)]
    /\ peer \in [Streams -> Conns \cup {NoPeer}]
    /\ pc \in [Senders -> {"start", "found", "selected", "ok", "error"}]
    /\ ad \in [Senders -> Ads]
    /\ stream \in [Senders -> [Streams -> {"none", "open", "closed", "refused"}]]

\* A running receiver has a probe port.  An advertisement is of an earlier
\* start or says what the receiver would say now.
AdInv ==
    /\ receiver = "run" => starts > 0 /\ Probing # NoPort
    /\ \A a \in Senders : ad[a].start <= starts
    /\ \A a \in Senders : Fresh(a) => ad[a] = Advertised

\* A sender that has no advertisement yet has no connections either, so that
\* none of them becomes fresh by its discovery.
EarlyAt(s) ==
    /\ peer[s] # NoPeer => pc[peer[s].from] # "start"
    /\ \A i \in 1 .. Len(queue[s]) : pc[queue[s][i].from] # "start"
    /\ \A a \in Senders : pc[a] = "start" => stream[a][s] = "none"

\* Fresh connections wait where they should, or were taken from there, and a
\* thread that has not accepted has no peer that it could lose.
PlaceAt(s) ==
    /\ thread[s] \in {"none", "listen"} => peer[s] = NoPeer
    /\ peer[s] # NoPeer /\ Fresh(peer[s].from) => peer[s].as = s
    /\ \A i \in 1 .. Len(queue[s]) : Fresh(queue[s][i].from) => queue[s][i].as = s

Waits(a, s) == \E i \in 1 .. Len(queue[s]) : queue[s][i] = Conn(a, s)

OpenAt(s) ==
    \A a \in Senders : Fresh(a) /\ stream[a][s] \in {"open", "closed"} =>
        thread[s] = "ended" \/ peer[s] = Conn(a, s) \/ Waits(a, s)

IInv == TypeInv /\ AdInv /\ \A s \in Streams : EarlyAt(s) /\ PlaceAt(s) /\ OpenAt(s)

-----------------------------------------------------------------------------
(***************************************************************************)
(* Numbers and ports of streams.                                           *)
(***************************************************************************)
\* A set of natural numbers with an upper bound has a largest element.
LEMMA LargestNat ==
  ASSUME NEW S, S \subseteq Nat, S # {}, NEW n \in Nat, \A x \in S : x <= n
  PROVE  \E m \in S : \A x \in S : m >= x
  <1>. DEFINE R == { p \in Nat \X Nat : p[1] < p[2] }
              D == { n - x : x \in S }
  <1>1. IsWellFoundedOn(R, Nat)
    BY NatLessThanWellFounded DEF OpToRel
  <1>2. D \subseteq Nat /\ D # {}
    <2>1. \A x \in S : n - x \in Nat
      OBVIOUS
    <2>2. PICK x \in S : TRUE
      OBVIOUS
    <2>3. n - x \in D
      OBVIOUS
    <2>. QED
      BY <2>1, <2>3
  <1>3. PICK d \in D : \A e \in D : <<e, d>> \notin R
    <2>. HIDE DEF R, D
    <2>. QED
      BY <1>1, <1>2, WFMin
  <1>4. \A e \in D : ~(e < d)
    BY <1>2, <1>3
  <1>5. PICK m \in S : d = n - m
    BY <1>3
  <1>6. \A x \in S : n - x \in D
    OBVIOUS
  <1>7. \A x \in S : ~(n - x < n - m)
    BY <1>4, <1>5, <1>6
  <1>. QED
    BY <1>5, <1>7

LEMMA StreamsAreNat ==
  ASSUME Settings # {}
  PROVE  Streams \subseteq Nat
  <1>. DEFINE S == { c.parallel : c \in Settings }
  <1>1. S # {} /\ S \subseteq Nat /\ \A x \in S : x <= MaxPort
    BY SettingsAssumption, MaxPortAssumption DEF PortsAccepted, LastPort
  <1>2. \E m \in S : \A x \in S : m >= x
    BY <1>1, MaxPortAssumption, LargestNat
  <1>3. Max(S) \in S
    BY <1>2 DEF Max
  <1>. QED
    BY <1>1, <1>3 DEF Streams

\* Two streams of a receiver have two ports, and its probe has a third.
LEMMA PortsApart ==
  ASSUME settings \in Settings, NEW s \in Used, Probing # NoPort
  PROVE  /\ \A t \in Used : StreamPort(settings.port, t) = StreamPort(settings.port, s) => t = s
         /\ Probing # StreamPort(settings.port, s)
         /\ Probing \in Nat
  <1>1. /\ settings.port \in 1 .. MaxPort /\ settings.parallel \in Nat \ {0}
        /\ PortsAccepted(settings.port, settings.parallel)
    BY SettingsAssumption
  <1>2. \A t \in Used : StreamPort(settings.port, t) = settings.port + t
    <2>. SUFFICES ASSUME NEW t \in Used
                  PROVE  (settings.port + t) % (MaxPort + 1) = settings.port + t
      BY DEF StreamPort
    <2>1. settings.port + t \in 0 .. MaxPort
      BY <1>1, MaxPortAssumption DEF Used, PortsAccepted, LastPort
    <2>. QED
      BY <2>1, MaxPortAssumption
  <1>3. Probing \in 1 .. MaxPort /\ \A t \in 0 .. settings.parallel - 1 : Probing # StreamPort(settings.port, t)
    BY <1>1, ProbePortAssumption, ProbePortClear DEF Probing
  <1>. QED
    BY <1>1, <1>2, <1>3 DEF Used

\* The connections in a queue after one was added, and after one was taken.
LEMMA AppendFacts ==
  ASSUME NEW S, NEW q \in Seq(S), NEW e \in S
  PROVE  /\ Append(q, e) \in Seq(S)
         /\ \A i \in 1 .. Len(q) : i \in 1 .. Len(Append(q, e)) /\ Append(q, e)[i] = q[i]
         /\ \A i \in 1 .. Len(Append(q, e)) :
              \/ Append(q, e)[i] = e
              \/ i \in 1 .. Len(q) /\ Append(q, e)[i] = q[i]
         /\ Len(q) + 1 \in 1 .. Len(Append(q, e)) /\ Append(q, e)[Len(q) + 1] = e
  <1>. DEFINE r == Append(q, e)
  <1>1. /\ r \in Seq(S) /\ Len(r) = Len(q) + 1 /\ Len(q) \in Nat
        /\ \A i \in 1 .. Len(q) : r[i] = q[i]
        /\ r[Len(q) + 1] = e
    BY AppendProperties, LenProperties
  <1>. HIDE DEF r
  <1>2. \A i \in 1 .. Len(r) : i \in 1 .. Len(q) \/ i = Len(q) + 1
    BY <1>1
  <1>3. Len(q) + 1 \in 1 .. Len(r) /\ \A i \in 1 .. Len(q) : i \in 1 .. Len(r)
    BY <1>1
  <1>. QED
    BY <1>1, <1>2, <1>3 DEF r

LEMMA TailFacts ==
  ASSUME NEW S, NEW q \in Seq(S), q # <<>>
  PROVE  /\ Head(q) \in S /\ Tail(q) \in Seq(S)
         /\ 1 \in 1 .. Len(q) /\ Head(q) = q[1]
         /\ \A i \in 1 .. Len(Tail(q)) : i + 1 \in 1 .. Len(q) /\ Tail(q)[i] = q[i + 1]
         /\ \A i \in 1 .. Len(q) :
              \/ q[i] = Head(q)
              \/ i - 1 \in 1 .. Len(Tail(q)) /\ Tail(q)[i - 1] = q[i]
  <1>. DEFINE r == Tail(q)
  <1>1. /\ Head(q) \in S /\ r \in Seq(S) /\ Len(r) = Len(q) - 1
        /\ \A i \in 1 .. Len(r) : r[i] = q[i + 1]
        /\ Head(q) = q[1] /\ Len(q) \in Nat \ {0}
    BY HeadTailProperties, LenProperties, EmptySeq
  <1>. HIDE DEF r
  <1>2. \A i \in 1 .. Len(r) : i + 1 \in 1 .. Len(q)
    BY <1>1
  <1>3. \A i \in 1 .. Len(q) : i = 1 \/ (i - 1 \in 1 .. Len(r) /\ (i - 1) + 1 = i)
    BY <1>1
  <1>4. ASSUME NEW i \in 1 .. Len(q), i # 1 PROVE i - 1 \in 1 .. Len(r) /\ r[i - 1] = q[i]
    BY <1>1, <1>3, <1>4
  <1>5. 1 \in 1 .. Len(q)
    BY <1>1
  <1>. QED
    BY <1>1, <1>2, <1>4, <1>5 DEF r

LEMMA EmptyQueues == <<>> \in Seq(Conns) /\ [s \in Streams |-> <<>>] \in [Streams -> Seq(Conns)]
  BY EmptySeq

-----------------------------------------------------------------------------
LEMMA InitInv == Init => IInv
  <1>. SUFFICES ASSUME Init PROVE IInv
    OBVIOUS
  <1>1. /\ thread = [s \in Streams |-> "none"] /\ queue = [s \in Streams |-> <<>>]
        /\ peer = [s \in Streams |-> NoPeer] /\ stream = [a \in Senders |-> [s \in Streams |-> "none"]]
    BY DEF Init, Idle
  <1>2. NoAd \in Ads
    BY DEF NoAd, Ads
  <1>3. TypeInv
    BY <1>1, <1>2, EmptyQueues DEF Init, TypeInv
  <1>4. AdInv
    <2>1. \A a \in Senders : ad[a].start = 0
      BY DEF Init, NoAd
    <2>. QED
      BY <2>1 DEF Init, AdInv, Fresh
  <1>5. \A s \in Streams : EarlyAt(s) /\ PlaceAt(s) /\ OpenAt(s)
    <2>1. \A s \in Streams : peer[s] = NoPeer /\ queue[s] = <<>>
      BY <1>1
    <2>2. \A a \in Senders, s \in Streams : stream[a][s] = "none"
      BY <1>1
    <2>. QED
      BY <2>1, <2>2 DEF EarlyAt, PlaceAt, OpenAt
  <1>. QED
    BY <1>3, <1>4, <1>5 DEF IInv

(***************************************************************************)
(* The receiver.                                                           *)
(***************************************************************************)
\* No advertisement is of a start that has just begun.
LEMMA StartStep ==
  ASSUME IInv, NEW c \in Settings, StartReceiver(c)
  PROVE  IInv'
  <1>1. /\ settings' = c /\ starts' = starts + 1 /\ starts \in Nat
        /\ thread' = [s \in Streams |-> "none"] /\ queue' = [s \in Streams |-> <<>>]
        /\ peer' = [s \in Streams |-> NoPeer] /\ UNCHANGED <<pc, ad, stream>>
    BY DEF StartReceiver, Idle, sendVars, IInv, TypeInv
  <1>2. TypeInv'
    <2>1. receiver' \in {"off", "run"} /\ starts' \in Nat /\ settings' \in Settings
      BY <1>1 DEF StartReceiver
    <2>2. /\ thread' \in [Streams -> {"none", "listen", "busy", "ended"}]
          /\ queue' \in [Streams -> Seq(Conns)] /\ peer' \in [Streams -> Conns \cup {NoPeer}]
      BY <1>1, EmptyQueues
    <2>. QED
      BY <1>1, <2>1, <2>2 DEF IInv, TypeInv
  <1>3. \A a \in Senders : ad[a].start \in Nat /\ ad[a].start <= starts
    BY DEF IInv, TypeInv, AdInv, Ads
  <1>4. \A a \in Senders : ~Fresh(a)'
    BY <1>1, <1>3 DEF Fresh
  <1>5. AdInv'
    <2>1. receiver' = "run" => starts' > 0 /\ Probing' # NoPort
      BY <1>1 DEF StartReceiver, Probing, SelectedProbePort, LastPort
    <2>2. NoPort' = NoPort
      BY DEF NoPort
    <2>3. \A a \in Senders : ad'[a].start <= starts'
      BY <1>1, <1>3
    <2>. QED
      BY <1>4, <2>1, <2>2, <2>3 DEF AdInv
  <1>6. ASSUME NEW s \in Streams PROVE EarlyAt(s)' /\ PlaceAt(s)' /\ OpenAt(s)'
    <2>1. peer'[s] = NoPeer /\ queue'[s] = <<>> /\ EarlyAt(s)
      BY <1>1 DEF IInv
    <2>. QED
      BY <1>1, <1>4, <2>1 DEF EarlyAt, PlaceAt, OpenAt
  <1>. QED
    BY <1>2, <1>5, <1>6 DEF IInv

LEMMA StopStep ==
  ASSUME IInv, Return \/ KillReceiver
  PROVE  IInv'
  <1>1. /\ receiver' = "off" /\ UNCHANGED <<starts, settings, pc, ad, stream>>
        /\ thread' = [s \in Streams |-> "ended"]
        /\ \/ UNCHANGED <<queue, peer>>
           \/ queue' = [s \in Streams |-> <<>>] /\ peer' = [s \in Streams |-> NoPeer]
    BY DEF Return, KillReceiver, Idle, sendVars
  <1>2. TypeInv'
    BY <1>1, EmptyQueues DEF IInv, TypeInv
  <1>3. \A a \in Senders : ~Fresh(a)'
    BY <1>1 DEF Fresh
  <1>4. AdInv'
    BY <1>1, <1>3 DEF IInv, AdInv
  <1>5. ASSUME NEW s \in Streams PROVE EarlyAt(s)' /\ PlaceAt(s)' /\ OpenAt(s)'
    <2>1. /\ EarlyAt(s) /\ PlaceAt(s)
          /\ queue'[s] = queue[s] \/ queue'[s] = <<>>
          /\ peer'[s] = peer[s] \/ peer'[s] = NoPeer
          /\ thread'[s] = "ended"
      BY <1>1 DEF IInv
    <2>2. EarlyAt(s)'
      BY <1>1, <2>1 DEF EarlyAt
    <2>3. PlaceAt(s)'
      BY <1>1, <2>1 DEF PlaceAt, Fresh
    <2>. QED
      BY <1>3, <2>2, <2>3 DEF OpenAt
  <1>. QED
    BY <1>2, <1>4, <1>5 DEF IInv

\* A step of thread s leaves the other threads' state alone.
LEMMA ThreadStep ==
  ASSUME IInv, NEW s \in Streams,
         Listen(s) \/ Accept(s) \/ EndThread(s) \/ FailThread(s)
  PROVE  IInv'
  <1>1. /\ UNCHANGED <<receiver, starts, settings, pc, ad, stream>>
        /\ thread' \in [Streams -> {"none", "listen", "busy", "ended"}]
        /\ \A t \in Streams : t # s =>
             thread'[t] = thread[t] /\ queue'[t] = queue[t] /\ peer'[t] = peer[t]
    BY DEF Listen, Accept, EndThread, FailThread, ThreadEnds, sendVars, IInv, TypeInv
  <1>2. queue[s] \in Seq(Conns) /\ peer[s] \in Conns \cup {NoPeer}
    BY DEF IInv, TypeInv
  <1>3. AdInv'
    BY <1>1 DEF IInv, AdInv, Fresh, Advertised, Probing
  <1>4. ASSUME NEW t \in Streams, t # s PROVE EarlyAt(t)' /\ PlaceAt(t)' /\ OpenAt(t)'
    <2>1. EarlyAt(t) /\ PlaceAt(t) /\ OpenAt(t)
      BY DEF IInv
    <2>2. thread'[t] = thread[t] /\ queue'[t] = queue[t] /\ peer'[t] = peer[t]
      BY <1>1, <1>4
    <2>. QED
      BY <1>1, <2>1, <2>2 DEF EarlyAt, PlaceAt, OpenAt, Waits, Fresh
  <1>5. EarlyAt(s) /\ PlaceAt(s) /\ OpenAt(s)
    BY DEF IInv
  <1>6. CASE Listen(s)
    <2>1. thread[s] = "none" /\ thread'[s] = "listen" /\ UNCHANGED <<queue, peer>>
      BY <1>6 DEF Listen, IInv, TypeInv
    <2>2. EarlyAt(s)' /\ PlaceAt(s)' /\ OpenAt(s)'
      BY <1>1, <1>5, <2>1 DEF EarlyAt, PlaceAt, OpenAt, Waits, Fresh
    <2>3. TypeInv'
      BY <1>1, <2>1 DEF IInv, TypeInv
    <2>. QED
      BY <1>3, <1>4, <2>2, <2>3 DEF IInv
  <1>7. CASE EndThread(s) \/ FailThread(s)
    <2>1. /\ thread'[s] = "ended" /\ queue' = [queue EXCEPT ![s] = <<>>]
          /\ peer' = [peer EXCEPT ![s] = NoPeer]
      BY <1>7 DEF EndThread, FailThread, ThreadEnds, IInv, TypeInv
    <2>2. /\ queue'[s] = <<>> /\ peer'[s] = NoPeer
          /\ queue' \in [Streams -> Seq(Conns)] /\ peer' \in [Streams -> Conns \cup {NoPeer}]
      BY <2>1, EmptyQueues DEF IInv, TypeInv
    <2>3. EarlyAt(s)' /\ PlaceAt(s)' /\ OpenAt(s)'
      BY <1>1, <1>5, <2>1, <2>2 DEF EarlyAt, PlaceAt, OpenAt, Fresh
    <2>4. TypeInv'
      BY <1>1, <2>2 DEF IInv, TypeInv
    <2>. QED
      BY <1>3, <1>4, <2>3, <2>4 DEF IInv
  <1>8. CASE Accept(s)
    <2>1. /\ thread[s] = "listen" /\ thread'[s] = "busy" /\ queue[s] # <<>>
          /\ peer' = [peer EXCEPT ![s] = Head(queue[s])]
          /\ queue' = [queue EXCEPT ![s] = Tail(queue[s])]
      BY <1>8 DEF Accept, IInv, TypeInv
    <2>2. /\ Head(queue[s]) \in Conns /\ Tail(queue[s]) \in Seq(Conns)
          /\ 1 \in 1 .. Len(queue[s]) /\ Head(queue[s]) = queue[s][1]
          /\ \A i \in 1 .. Len(Tail(queue[s])) :
               i + 1 \in 1 .. Len(queue[s]) /\ Tail(queue[s])[i] = queue[s][i + 1]
          /\ \A i \in 1 .. Len(queue[s]) :
               \/ queue[s][i] = Head(queue[s])
               \/ i - 1 \in 1 .. Len(Tail(queue[s])) /\ Tail(queue[s])[i - 1] = queue[s][i]
      BY <1>2, <2>1, TailFacts
    <2>3. peer'[s] = Head(queue[s]) /\ queue'[s] = Tail(queue[s])
      BY <2>1 DEF IInv, TypeInv
    <2>4. peer' \in [Streams -> Conns \cup {NoPeer}] /\ queue' \in [Streams -> Seq(Conns)]
      BY <2>1, <2>2 DEF IInv, TypeInv
    <2>5. TypeInv'
      BY <1>1, <2>4 DEF IInv, TypeInv
    <2>6. \A a : Fresh(a)' <=> Fresh(a)
      BY <1>1 DEF Fresh
    <2>7. EarlyAt(s)'
      <3>1. pc[peer'[s].from] # "start"
        BY <1>5, <2>2, <2>3 DEF EarlyAt
      <3>2. ASSUME NEW i \in 1 .. Len(queue'[s]) PROVE pc[queue'[s][i].from] # "start"
        <4>1. i + 1 \in 1 .. Len(queue[s]) /\ queue'[s][i] = queue[s][i + 1]
          BY <2>2, <2>3, <3>2
        <4>. QED
          BY <1>5, <4>1 DEF EarlyAt
      <3>. QED
        BY <1>1, <1>5, <3>1, <3>2 DEF EarlyAt
    <2>8. PlaceAt(s)'
      <3>1. peer'[s] # NoPeer /\ Fresh(peer'[s].from) => peer'[s].as = s
        BY <1>5, <2>2, <2>3 DEF PlaceAt
      <3>2. \A i \in 1 .. Len(queue'[s]) : Fresh(queue'[s][i].from) => queue'[s][i].as = s
        <4>. SUFFICES ASSUME NEW i \in 1 .. Len(queue'[s]), Fresh(queue'[s][i].from)
                      PROVE  queue'[s][i].as = s
          OBVIOUS
        <4>1. i + 1 \in 1 .. Len(queue[s]) /\ queue'[s][i] = queue[s][i + 1]
          BY <2>2, <2>3
        <4>. QED
          BY <1>5, <4>1 DEF PlaceAt
      <3>3. Fresh(peer[s].from)' <=> Fresh(peer'[s].from)
        BY <1>1 DEF Fresh
      <3>4. \A i : Fresh(queue[s][i].from)' <=> Fresh(queue'[s][i].from)
        BY <1>1 DEF Fresh
      <3>. QED
        BY <2>1, <3>1, <3>2, <3>3, <3>4 DEF PlaceAt
    <2>9. OpenAt(s)'
      <3>. SUFFICES ASSUME NEW a \in Senders, Fresh(a), stream[a][s] \in {"open", "closed"}
                    PROVE  peer'[s] = Conn(a, s) \/ Waits(a, s)'
        BY <1>1, <2>6 DEF OpenAt, Conn
      <3>1. peer[s] # Conn(a, s)
        <4>1. s # ForProbe
          BY StreamsAreNat DEF ForProbe, IInv, TypeInv
        <4>. QED
          BY <1>5, <2>1, <4>1 DEF PlaceAt, NoPeer, Conn
      <3>2. PICK i \in 1 .. Len(queue[s]) : queue[s][i] = Conn(a, s)
        BY <1>5, <2>1, <3>1 DEF OpenAt, Waits
      <3>. QED
        BY <2>2, <2>3, <3>2 DEF Waits, Conn
    <2>. QED
      BY <1>3, <1>4, <2>5, <2>7, <2>8, <2>9 DEF IInv
  <1>. QED
    BY <1>6, <1>7, <1>8

(***************************************************************************)
(* The senders.                                                            *)
(***************************************************************************)
\* Discovery makes a sender fresh that has no connections.
LEMMA DiscoverStep ==
  ASSUME IInv, NEW a \in Senders, Discover(a)
  PROVE  IInv'
  <1>1. /\ pc[a] = "start" /\ pc'[a] # "start"
        /\ pc' \in [Senders -> {"start", "found", "selected", "ok", "error"}]
        /\ \A b \in Senders : b # a => pc'[b] = pc[b]
        /\ UNCHANGED <<receiver, starts, settings, thread, queue, peer, stream>>
    BY DEF Discover, recvVars, IInv, TypeInv
  <1>2. /\ ad' = ad \/ (receiver = "run" /\ ad' = [ad EXCEPT ![a] = Advertised])
        /\ \A b \in Senders : b # a => ad'[b] = ad[b]
    BY DEF Discover, IInv, TypeInv
  <1>3. Advertised' = Advertised
    BY <1>1 DEF Advertised, Probing
  <1>4. receiver = "run" => Advertised \in Ads /\ Advertised.start = starts
    <2>. SUFFICES ASSUME receiver = "run" PROVE Advertised \in Ads /\ Advertised.start = starts
      OBVIOUS
    <2>1. settings \in Settings /\ Probing # NoPort /\ starts \in Nat
      BY DEF IInv, TypeInv, AdInv
    <2>2. settings.port \in Nat /\ settings.parallel \in Nat \ {0}
      BY <2>1, SettingsAssumption
    <2>3. 0 \in Used
      BY <2>2 DEF Used
    <2>4. Probing \in Nat
      BY <2>1, <2>3, PortsApart
    <2>. QED
      BY <2>1, <2>2, <2>4 DEF Advertised, Ads
  <1>5. ad' \in [Senders -> Ads]
    BY <1>2, <1>4 DEF IInv, TypeInv
  <1>6. TypeInv'
    BY <1>1, <1>5 DEF IInv, TypeInv
  <1>7. AdInv'
    <2>1. ASSUME NEW b \in Senders
          PROVE  ad'[b].start <= starts /\ (Fresh(b)' => ad'[b] = Advertised)
      <3>1. CASE ad'[b] = ad[b]
        BY <1>1, <3>1 DEF IInv, AdInv, Fresh
      <3>2. CASE ad'[b] # ad[b]
        <4>1. receiver = "run" /\ ad'[b] = Advertised
          BY <1>2, <3>2 DEF IInv, TypeInv
        <4>. QED
          BY <1>4, <4>1 DEF IInv, TypeInv
      <3>. QED
        BY <3>1, <3>2
    <2>2. Probing' = Probing /\ NoPort' = NoPort
      BY <1>1 DEF Probing, NoPort
    <2>. QED
      BY <1>1, <1>3, <2>1, <2>2 DEF IInv, AdInv
  <1>8. ASSUME NEW s \in Streams PROVE EarlyAt(s)' /\ PlaceAt(s)' /\ OpenAt(s)'
    <2>1. EarlyAt(s) /\ PlaceAt(s) /\ OpenAt(s) /\ queue[s] \in Seq(Conns)
          /\ peer[s] \in Conns \cup {NoPeer}
      BY DEF IInv, TypeInv
    <2>2. \A i \in 1 .. Len(queue[s]) : queue[s][i].from \in Senders /\ queue[s][i].from # a
      <3>1. \A i \in 1 .. Len(queue[s]) : queue[s][i] \in Conns
        BY <2>1
      <3>2. \A x \in Conns : x.from \in Senders
        BY DEF Conns
      <3>. QED
        BY <1>1, <2>1, <3>1, <3>2 DEF EarlyAt
    <2>3. peer[s] # NoPeer => peer[s].from \in Senders /\ peer[s].from # a
      BY <1>1, <2>1 DEF EarlyAt, Conns
    <2>4. EarlyAt(s)'
      <3>1. \A b \in Senders : pc[b] # "start" => pc'[b] # "start"
        BY <1>1
      <3>2. peer[s] # NoPeer => pc'[peer[s].from] # "start"
        BY <2>1, <2>3, <3>1 DEF EarlyAt
      <3>3. \A i \in 1 .. Len(queue[s]) : pc'[queue[s][i].from] # "start"
        BY <2>1, <2>2, <3>1 DEF EarlyAt
      <3>4. \A b \in Senders : pc'[b] = "start" => stream[b][s] = "none"
        BY <2>1, <3>1 DEF EarlyAt
      <3>. QED
        BY <1>1, <3>2, <3>3, <3>4 DEF EarlyAt
    <2>5. \A b \in Senders : b # a => (receiver' = "run" /\ ad'[b].start = starts' <=> Fresh(b))
      BY <1>1, <1>2 DEF Fresh
    <2>6. PlaceAt(s)'
      <3>1. peer'[s] # NoPeer /\ Fresh(peer[s].from)' => peer'[s].as = s
        BY <1>1, <2>1, <2>3, <2>5 DEF PlaceAt, Fresh
      <3>2. \A i \in 1 .. Len(queue'[s]) : Fresh(queue[s][i].from)' => queue'[s][i].as = s
        BY <1>1, <2>1, <2>2, <2>5 DEF PlaceAt, Fresh
      <3>. QED
        BY <1>1, <2>1, <3>1, <3>2 DEF PlaceAt
    <2>7. OpenAt(s)'
      <3>1. stream[a][s] = "none"
        BY <1>1, <2>1 DEF EarlyAt
      <3>. QED
        BY <1>1, <2>1, <2>5, <3>1 DEF OpenAt, Waits, Fresh, Conn
    <2>. QED
      BY <2>4, <2>6, <2>7
  <1>. QED
    BY <1>6, <1>7, <1>8 DEF IInv

\* A fresh sender's probe finds no stream's listener.
LEMMA FreshProbe ==
  ASSUME IInv, NEW a \in Senders, Fresh(a)
  PROVE  Behind(ad[a].probe) = {}
  <1>1. ad[a].probe = Probing /\ Probing # NoPort /\ settings \in Settings
    BY DEF IInv, AdInv, TypeInv, Fresh, Advertised
  <1>. QED
    BY <1>1, PortsApart DEF Behind

\* A fresh sender's stream s finds thread s, no other, and not the probe.
LEMMA FreshStream ==
  ASSUME IInv, NEW a \in Senders, Fresh(a), NEW s \in Streams, s < ad[a].parallel
  PROVE  /\ Behind(StreamPort(ad[a].port, s)) \subseteq {s}
         /\ ~ProbeBehind(StreamPort(ad[a].port, s))
  <1>1. /\ ad[a].port = settings.port /\ ad[a].parallel = settings.parallel
        /\ Probing # NoPort /\ settings \in Settings
    BY DEF IInv, AdInv, TypeInv, Fresh, Advertised
  <1>2. s \in Used
    <2>1. s \in Nat /\ settings.parallel \in Nat
      BY <1>1, StreamsAreNat, SettingsAssumption
    <2>. QED
      BY <1>1, <2>1 DEF Used
  <1>. QED
    BY <1>1, <1>2, PortsApart DEF Behind, ProbeBehind

\* A connection of a is added to some queues: to none but its own if a is
\* fresh.
LEMMA QueueStep ==
  ASSUME IInv, NEW a \in Senders, NEW n \in Streams \cup {ForProbe}, NEW T \in SUBSET Streams,
         pc[a] # "start", pc'[a] # "start",
         \A b \in Senders : b # a => pc'[b] = pc[b],
         pc' \in [Senders -> {"start", "found", "selected", "ok", "error"}],
         \A t \in T : Fresh(a) => t = n,
         UNCHANGED <<receiver, starts, settings, thread, peer, ad>>,
         queue' = [t \in Streams |-> IF t \in T THEN Append(queue[t], Conn(a, n)) ELSE queue[t]]
  PROVE  /\ queue' \in [Streams -> Seq(Conns)] /\ AdInv'
         /\ \A t \in Streams : PlaceAt(t)'
         /\ \A t \in Streams, b \in Senders : Waits(b, t) => Waits(b, t)'
         /\ \A t \in T : t = n => Waits(a, t)'
         /\ \A t \in Streams :
              /\ peer'[t] # NoPeer => pc'[peer'[t].from] # "start"
              /\ \A i \in 1 .. Len(queue'[t]) : pc'[queue'[t][i].from] # "start"
  <1>. DEFINE e == Conn(a, n)
  <1>1. e \in Conns /\ e.from = a /\ e.as = n
    BY DEF Conn, Conns
  <1>2. \A t \in Streams : queue[t] \in Seq(Conns) /\ PlaceAt(t) /\ EarlyAt(t)
                           /\ peer[t] \in Conns \cup {NoPeer}
    BY DEF IInv, TypeInv
  <1>3. AdInv'
    BY DEF IInv, AdInv, Fresh, Advertised, Probing
  <1>. HIDE DEF e
  <1>4. \A t \in Streams : queue'[t] = IF t \in T THEN Append(queue[t], e) ELSE queue[t]
    BY DEF e
  <1>5. ASSUME NEW t \in Streams
        PROVE  /\ queue'[t] \in Seq(Conns)
               /\ \A i \in 1 .. Len(queue[t]) : i \in 1 .. Len(queue'[t]) /\ queue'[t][i] = queue[t][i]
               /\ \A i \in 1 .. Len(queue'[t]) :
                    \/ queue'[t][i] = e /\ t \in T
                    \/ i \in 1 .. Len(queue[t]) /\ queue'[t][i] = queue[t][i]
               /\ t \in T => \E i \in 1 .. Len(queue'[t]) : queue'[t][i] = e
    <2>1. CASE t \notin T
      BY <1>2, <1>4, <2>1
    <2>2. CASE t \in T
      <3>1. queue'[t] = Append(queue[t], e) /\ queue[t] \in Seq(Conns)
        BY <1>2, <1>4, <2>2
      <3>. QED
        BY <1>1, <2>2, <3>1, AppendFacts
    <2>. QED
      BY <2>1, <2>2
  <1>6. queue' \in [Streams -> Seq(Conns)]
    BY <1>5
  <1>7. ASSUME NEW t \in Streams PROVE PlaceAt(t)'
    <2>1. ASSUME NEW i \in 1 .. Len(queue'[t]), Fresh(queue'[t][i].from) PROVE queue'[t][i].as = t
      BY <1>1, <1>2, <1>5, <2>1 DEF PlaceAt
    <2>2. \A i : Fresh(queue[t][i].from)' <=> Fresh(queue'[t][i].from)
      BY DEF Fresh
    <2>3. Fresh(peer[t].from)' <=> Fresh(peer[t].from)
      BY DEF Fresh
    <2>. QED
      BY <1>2, <2>1, <2>2, <2>3 DEF PlaceAt
  <1>8. ASSUME NEW t \in Streams, NEW b \in Senders, Waits(b, t) PROVE Waits(b, t)'
    BY <1>5, <1>8 DEF Waits, Conn
  <1>9. ASSUME NEW t \in T, t = n PROVE Waits(a, t)'
    BY <1>5, <1>9 DEF Waits, Conn, e
  <1>10. ASSUME NEW t \in Streams
         PROVE  /\ peer'[t] # NoPeer => pc'[peer'[t].from] # "start"
                /\ \A i \in 1 .. Len(queue'[t]) : pc'[queue'[t][i].from] # "start"
    <2>1. \A b \in Senders : pc[b] # "start" => pc'[b] # "start"
      OBVIOUS
    <2>2. peer'[t] # NoPeer => pc'[peer'[t].from] # "start"
      BY <1>2, <2>1 DEF EarlyAt, Conns
    <2>3. ASSUME NEW i \in 1 .. Len(queue'[t]) PROVE pc'[queue'[t][i].from] # "start"
      <3>1. CASE queue'[t][i] = e
        BY <1>1, <3>1
      <3>2. CASE i \in 1 .. Len(queue[t]) /\ queue'[t][i] = queue[t][i]
        <4>1. queue[t][i] \in Conns
          BY <1>2, <3>2
        <4>2. queue[t][i].from \in Senders
          BY <4>1 DEF Conns
        <4>. QED
          BY <1>2, <2>1, <3>2, <4>2 DEF EarlyAt
      <3>. QED
        BY <1>5, <3>1, <3>2
    <2>. QED
      BY <2>2, <2>3
  <1>. QED
    BY <1>3, <1>6, <1>7, <1>8, <1>9, <1>10

LEMMA ConnectProbeStep ==
  ASSUME IInv, NEW a \in Senders, ConnectProbe(a)
  PROVE  IInv'
  <1>1. /\ pc[a] # "start" /\ pc'[a] # "start"
        /\ \A b \in Senders : b # a => pc'[b] = pc[b]
        /\ pc' \in [Senders -> {"start", "found", "selected", "ok", "error"}]
        /\ UNCHANGED <<receiver, starts, settings, thread, peer, ad, stream>>
    BY DEF ConnectProbe, IInv, TypeInv
  <1>2. \E T \in SUBSET Streams :
          /\ \A t \in T : Fresh(a) => t = ForProbe
          /\ queue' = [t \in Streams |-> IF t \in T THEN Append(queue[t], Conn(a, ForProbe)) ELSE queue[t]]
    <2>1. queue \in [Streams -> Seq(Conns)]
      BY DEF IInv, TypeInv
    <2>2. CASE queue' = queue
      <3>1. queue' = [t \in Streams |-> IF t \in {} THEN Append(queue[t], Conn(a, ForProbe)) ELSE queue[t]]
        BY <2>1, <2>2
      <3>2. {} \in SUBSET Streams /\ \A t \in {} : Fresh(a) => t = ForProbe
        OBVIOUS
      <3>. QED
        BY <3>1, <3>2
    <2>3. CASE queue' # queue
      <3>1. PICK s \in Behind(ad[a].probe) : queue' = [queue EXCEPT ![s] = Append(@, Conn(a, ForProbe))]
        BY <2>3 DEF ConnectProbe
      <3>2. ~Fresh(a)
        BY <3>1, FreshProbe
      <3>3. queue' = [t \in Streams |-> IF t \in Streams \cap {s}
                                          THEN Append(queue[t], Conn(a, ForProbe)) ELSE queue[t]]
        BY <2>1, <3>1
      <3>. QED
        BY <3>2, <3>3
    <2>. QED
      BY <2>2, <2>3
  <1>3. /\ queue' \in [Streams -> Seq(Conns)] /\ AdInv'
        /\ \A t \in Streams : PlaceAt(t)'
        /\ \A t \in Streams, b \in Senders : Waits(b, t) => Waits(b, t)'
        /\ \A t \in Streams :
             /\ peer'[t] # NoPeer => pc'[peer'[t].from] # "start"
             /\ \A i \in 1 .. Len(queue'[t]) : pc'[queue'[t][i].from] # "start"
    <2>1. PICK T \in SUBSET Streams :
            /\ \A t \in T : Fresh(a) => t = ForProbe
            /\ queue' = [t \in Streams |-> IF t \in T THEN Append(queue[t], Conn(a, ForProbe)) ELSE queue[t]]
      BY <1>2
    <2>2. ForProbe \in Streams \cup {ForProbe}
      OBVIOUS
    <2>. QED
      BY <1>1, <2>1, <2>2, QueueStep
  <1>4. TypeInv'
    BY <1>1, <1>3 DEF IInv, TypeInv
  <1>5. ASSUME NEW t \in Streams PROVE EarlyAt(t)'
    <2>1. \A b \in Senders : pc'[b] = "start" => stream'[b][t] = "none"
      BY <1>1 DEF IInv, EarlyAt
    <2>. QED
      BY <1>3, <2>1 DEF EarlyAt
  <1>6. ASSUME NEW t \in Streams PROVE OpenAt(t)'
    BY <1>1, <1>3 DEF IInv, OpenAt, Fresh, Conn
  <1>. QED
    BY <1>3, <1>4, <1>5, <1>6 DEF IInv

LEMMA ConnectStreamStep ==
  ASSUME IInv, NEW a \in Senders, NEW s \in Streams, ConnectStream(a, s)
  PROVE  IInv'
  <1>. DEFINE p == StreamPort(ad[a].port, s)
              T == Behind(p) \cap Streams
              result == IF Behind(p) # {} \/ ProbeBehind(p) THEN "open" ELSE "refused"
  <1>1. /\ pc[a] = "selected" /\ s < ad[a].parallel
        /\ UNCHANGED <<receiver, starts, settings, thread, peer, pc, ad>>
        /\ stream' = [stream EXCEPT ![a][s] = result]
        /\ queue' = [t \in Streams |-> IF t \in Behind(p) THEN Append(queue[t], Conn(a, s)) ELSE queue[t]]
    BY DEF ConnectStream
  <1>2. Fresh(a) => Behind(p) \subseteq {s} /\ ~ProbeBehind(p)
    BY <1>1, FreshStream
  <1>3. Fresh(a) /\ result = "open" => s \in T
    BY <1>2
  <1>4. result \in {"open", "refused"}
    OBVIOUS
  <1>5. /\ T \in SUBSET Streams /\ \A t \in T : Fresh(a) => t = s
        /\ queue' = [t \in Streams |-> IF t \in T THEN Append(queue[t], Conn(a, s)) ELSE queue[t]]
    BY <1>1, <1>2
  <1>. HIDE DEF p, T, result
  <1>6. /\ queue' \in [Streams -> Seq(Conns)] /\ AdInv'
        /\ \A t \in Streams : PlaceAt(t)'
        /\ \A t \in Streams, b \in Senders : Waits(b, t) => Waits(b, t)'
        /\ \A t \in T : t = s => Waits(a, t)'
        /\ \A t \in Streams :
             /\ peer'[t] # NoPeer => pc'[peer'[t].from] # "start"
             /\ \A i \in 1 .. Len(queue'[t]) : pc'[queue'[t][i].from] # "start"
    <2>1. pc \in [Senders -> {"start", "found", "selected", "ok", "error"}]
      BY DEF IInv, TypeInv
    <2>. QED
      BY <1>1, <1>5, <2>1, QueueStep
  <1>7. /\ stream' \in [Senders -> [Streams -> {"none", "open", "closed", "refused"}]]
        /\ stream'[a][s] = result
        /\ \A b \in Senders, t \in Streams : b # a \/ t # s => stream'[b][t] = stream[b][t]
    BY <1>1, <1>4 DEF IInv, TypeInv
  <1>8. TypeInv'
    BY <1>1, <1>6, <1>7 DEF IInv, TypeInv
  <1>9. ASSUME NEW t \in Streams PROVE EarlyAt(t)'
    <2>1. \A b \in Senders : pc'[b] = "start" => stream'[b][t] = "none"
      BY <1>1, <1>7 DEF IInv, EarlyAt
    <2>. QED
      BY <1>6, <2>1 DEF EarlyAt
  <1>10. ASSUME NEW t \in Streams PROVE OpenAt(t)'
    <2>1. ASSUME NEW b \in Senders, Fresh(b), stream'[b][t] \in {"open", "closed"}
          PROVE  thread[t] = "ended" \/ peer[t] = Conn(b, t) \/ Waits(b, t)'
      <3>1. CASE b = a /\ t = s
        BY <1>3, <1>4, <1>6, <1>7, <2>1, <3>1
      <3>2. CASE b # a \/ t # s
        BY <1>6, <1>7, <2>1, <3>2 DEF IInv, OpenAt
      <3>. QED
        BY <3>1, <3>2
    <2>2. \A b : Fresh(b)' <=> Fresh(b)
      BY <1>1 DEF Fresh
    <2>. QED
      BY <1>1, <2>1, <2>2 DEF OpenAt, Conn
  <1>. QED
    BY <1>6, <1>8, <1>9, <1>10 DEF IInv

\* A connection stays where it is when the sender has closed it.
LEMMA CloseStreamStep ==
  ASSUME IInv, NEW a \in Senders, NEW s \in Streams, CloseStream(a, s)
  PROVE  IInv'
  <1>1. /\ UNCHANGED <<receiver, starts, settings, thread, queue, peer, pc, ad>>
        /\ stream[a][s] = "open" /\ stream' = [stream EXCEPT ![a][s] = "closed"]
    BY DEF CloseStream, recvVars
  <1>2. /\ stream' \in [Senders -> [Streams -> {"none", "open", "closed", "refused"}]]
        /\ \A b \in Senders, t \in Streams :
             \/ stream'[b][t] = stream[b][t]
             \/ stream[b][t] = "open" /\ stream'[b][t] = "closed"
    BY <1>1 DEF IInv, TypeInv
  <1>3. TypeInv'
    BY <1>1, <1>2 DEF IInv, TypeInv
  <1>4. AdInv'
    BY <1>1 DEF IInv, AdInv, Fresh, Advertised, Probing
  <1>5. ASSUME NEW t \in Streams PROVE EarlyAt(t)' /\ PlaceAt(t)' /\ OpenAt(t)'
    <2>1. EarlyAt(t) /\ PlaceAt(t) /\ OpenAt(t)
      BY DEF IInv
    <2>2. EarlyAt(t)'
      BY <1>1, <1>2, <2>1 DEF EarlyAt
    <2>3. PlaceAt(t)'
      BY <1>1, <2>1 DEF PlaceAt, Fresh
    <2>4. OpenAt(t)'
      BY <1>1, <1>2, <2>1 DEF OpenAt, Waits, Conn, Fresh
    <2>. QED
      BY <2>2, <2>3, <2>4
  <1>. QED
    BY <1>3, <1>4, <1>5 DEF IInv

LEMMA EndSendStep ==
  ASSUME IInv, NEW a \in Senders, EndSend(a)
  PROVE  IInv'
  <1>1. /\ pc[a] # "start" /\ pc'[a] # "start"
        /\ \A b \in Senders : b # a => pc'[b] = pc[b]
        /\ pc' \in [Senders -> {"start", "found", "selected", "ok", "error"}]
        /\ UNCHANGED <<receiver, starts, settings, thread, peer, ad, stream, queue>>
    BY DEF EndSend, recvVars, IInv, TypeInv
  <1>2. queue' = [t \in Streams |-> IF t \in {} THEN Append(queue[t], Conn(a, ForProbe)) ELSE queue[t]]
    BY <1>1 DEF IInv, TypeInv
  <1>3. /\ queue' \in [Streams -> Seq(Conns)] /\ AdInv'
        /\ \A t \in Streams : PlaceAt(t)'
        /\ \A t \in Streams :
             /\ peer'[t] # NoPeer => pc'[peer'[t].from] # "start"
             /\ \A i \in 1 .. Len(queue'[t]) : pc'[queue'[t][i].from] # "start"
    <2>1. /\ ForProbe \in Streams \cup {ForProbe} /\ {} \in SUBSET Streams
          /\ \A t \in {} : Fresh(a) => t = ForProbe
      OBVIOUS
    <2>. QED
      BY <1>1, <1>2, <2>1, QueueStep
  <1>4. TypeInv'
    BY <1>1, <1>3 DEF IInv, TypeInv
  <1>5. ASSUME NEW t \in Streams PROVE EarlyAt(t)'
    <2>1. \A b \in Senders : pc'[b] = "start" => stream'[b][t] = "none"
      BY <1>1 DEF IInv, EarlyAt
    <2>. QED
      BY <1>3, <2>1 DEF EarlyAt
  <1>6. ASSUME NEW t \in Streams PROVE OpenAt(t)'
    BY <1>1 DEF IInv, OpenAt, Fresh, Conn, Waits
  <1>. QED
    BY <1>3, <1>4, <1>5, <1>6 DEF IInv

-----------------------------------------------------------------------------
LEMMA StepInv == IInv /\ [Next]_vars => IInv'
  <1>. SUFFICES ASSUME IInv, [Next]_vars PROVE IInv'
    OBVIOUS
  <1>1. CASE LoseLink \/ UNCHANGED vars
    BY <1>1 DEF LoseLink, recvVars, sendVars, vars, IInv, TypeInv, AdInv, EarlyAt, PlaceAt, OpenAt, Waits, Conn, Fresh,
                Advertised, Probing
  <1>2. CASE \E c \in Settings : StartReceiver(c)
    BY <1>2, StartStep
  <1>3. CASE ReceiverStep \/ KillReceiver \/ \E s \in Streams : FailThread(s)
    BY <1>3, StopStep, ThreadStep DEF ReceiverStep
  <1>4. CASE \E a \in Senders : SenderStep(a)
    BY <1>4, DiscoverStep, ConnectProbeStep, ConnectStreamStep, CloseStreamStep, EndSendStep
       DEF SenderStep
  <1>. QED
    BY <1>1, <1>2, <1>3, <1>4 DEF Next

\* The strengthened invariant holds in every state of every behaviour.
LEMMA Invariance == Spec => []IInv
  BY InitInv, StepInv, PTL DEF Spec

\* As long as the receiver is not started anew, a probe never ends up at a
\* stream's listener, stream s of a sender reaches thread s, and no stream
\* reaches the probe: for every port, number of streams and order of steps.
THEOREM FreshArrive == Spec => []FreshConnectionsArrive
  <1>1. IInv => FreshConnectionsArrive
    BY DEF IInv, PlaceAt, OpenAt, Waits, FreshConnectionsArrive
  <1>. QED
    BY <1>1, Invariance, PTL
=============================================================================
