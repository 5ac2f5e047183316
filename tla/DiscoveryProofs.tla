-------------------------- MODULE DiscoveryProofs --------------------------
(***************************************************************************)
(* Proofs about Discovery for every set of interfaces and datagrams, any   *)
(* number of arrivals in any order, every payload and every measured rate. *)
(***************************************************************************)
EXTENDS Discovery, LayoutProofs, SequenceTheorems

-----------------------------------------------------------------------------
\* There are finitely many targets, and each is a pair of addresses.
LEMMA TargetsFinite == IsFiniteSet(Targets) /\ Targets \subseteq Nat \X Nat
  <1>. DEFINE f == [i \in Interfaces |-> <<i.addr, i.broadcast>>]
              g == [i \in Interfaces |-> <<i.addr, LimitedBroadcast>>]
              A == { f[i] : i \in Interfaces }
              B == { g[i] : i \in Interfaces }
              L == { <<Loopback, Loopback>> }
  <1>1. IsFiniteSet(A)
    <2>1. f \in Surjection(Interfaces, A)
      BY DEF Surjection
    <2>. HIDE DEF f, A
    <2>. QED
      BY <2>1, FS_Surjection, AddressAssumption
  <1>2. IsFiniteSet(B)
    <2>1. g \in Surjection(Interfaces, B)
      BY DEF Surjection
    <2>. HIDE DEF g, B
    <2>. QED
      BY <2>1, FS_Surjection, AddressAssumption
  <1>3. IsFiniteSet(L)
    BY FS_Singleton
  <1>4. IsFiniteSet(A \cup B)
    <2>. HIDE DEF A, B
    <2>. QED
      BY <1>1, <1>2, FS_Union
  <1>5. IsFiniteSet((A \cup B) \cup L)
    <2>. HIDE DEF A, B, L
    <2>. QED
      BY <1>3, <1>4, FS_Union
  <1>6. Targets \subseteq (A \cup B) \cup L
    BY DEF Targets, TargetsOf
  <1>7. IsFiniteSet(Targets)
    <2>. HIDE DEF A, B, L
    <2>. QED
      BY <1>5, <1>6, FS_Subset
  <1>8. A \subseteq Nat \X Nat /\ B \subseteq Nat \X Nat /\ L \subseteq Nat \X Nat
    BY AddressAssumption DEF Loopback, LimitedBroadcast
  <1>9. Targets \subseteq Nat \X Nat
    <2>. HIDE DEF A, B, L
    <2>. QED
      BY <1>6, <1>8
  <1>. QED
    BY <1>7, <1>9

\* TargetOrder is a sequence of targets.
LEMMA TargetsOrdered ==
    TargetOrder \in Seq(Targets) /\ Len(TargetOrder) = Cardinality(Targets)
  <1>. DEFINE R == { p \in Targets \X Targets : TargetBefore(p[1], p[2]) }
              n == Cardinality(Targets)
  <1>1. Total(R, Targets)
    <2>1. \A s, t \in Targets : <<s, t>> \in R <=> TargetBefore(s, t)
      OBVIOUS
    <2>2. \A s \in Targets : s[1] \in Nat /\ s[2] \in Nat /\ s = <<s[1], s[2]>>
      BY TargetsFinite
    <2>. HIDE DEF R
    <2>3. \A s \in Targets : ~TargetBefore(s, s)
      BY <2>2 DEF TargetBefore
    <2>4. \A s, t \in Targets : s # t => TargetBefore(s, t) \/ TargetBefore(t, s)
      <3>. TAKE s, t \in Targets
      <3>1. s[1] = t[1] /\ s[2] = t[2] => s = t
        BY <2>2
      <3>. QED
        BY <2>2, <3>1 DEF TargetBefore
    <2>5. \A s, t, u \in Targets : TargetBefore(s, t) /\ TargetBefore(t, u) => TargetBefore(s, u)
      BY <2>2 DEF TargetBefore
    <2>. QED
      BY <2>1, <2>3, <2>4, <2>5 DEF Total
  <1>2. \A t \in Targets : { u \in Targets : TargetBefore(u, t) } = Below(R, Targets, t)
    BY DEF Below
  <1>3. \A i \in 1 .. n : \E t \in Targets :
          Cardinality({ u \in Targets : TargetBefore(u, t) }) = i - 1
    <2>. HIDE DEF R
    <2>1. \A i \in 1 .. n : \E t \in Targets : Cardinality(Below(R, Targets, t)) = i - 1
      BY <1>1, TargetsFinite, EveryRank
    <2>. QED
      BY <1>2, <2>1
  <1>4. TargetOrder = [i \in 1 .. n |->
          CHOOSE t \in Targets : Cardinality({ u \in Targets : TargetBefore(u, t) }) = i - 1]
    BY DEF TargetOrder, Ordered
  <1>5. \A i \in 1 .. n : TargetOrder[i] \in Targets
    BY <1>3, <1>4
  <1>6. TargetOrder \in [1 .. n -> Targets]
    BY <1>4, <1>5
  <1>7. n \in Nat
    BY TargetsFinite, FS_CardinalityType
  <1>. HIDE DEF n
  <1>8. TargetOrder \in Seq(Targets) /\ Len(TargetOrder) = n
    BY <1>6, <1>7
  <1>. QED
    BY <1>8 DEF n

-----------------------------------------------------------------------------
(***************************************************************************)
(* The inductive invariant, in parts.                                      *)
(***************************************************************************)
\* The candidates that are settled: a probe of each has ended; and those for
\* which one was started.
Settled == IF current = 0 THEN 0 ELSE current - 1
Tried   == IF probe = "idle" THEN Settled ELSE current

\* A list of candidates has the endpoints that were heard, each once.
Answers(c) ==
    /\ \A n \in 1 .. Len(c) : Parses(c[n]) /\ Key(c[n]) \in Heard
    /\ \A m, n \in 1 .. Len(c) : m # n => Key(c[m]) # Key(c[n])
    /\ \A e \in Heard : \E n \in 1 .. Len(c) : Key(c[n]) = e

\* Nothing is decided before the ranking, and no result is set before the end.
PhaseInv ==
    /\ phase \in {"open", "collect", "rank"} => candidates = <<>> /\ current = 0
    /\ phase \in {"probe", "done"} => Answers(candidates)
    /\ phase = "probe" => current # 0 /\ candidates # <<>>
    /\ phase # "done" => result = Pending
    /\ phase = "done" => probe = "idle"

\* The candidates are probed in order, and what became of each that is
\* settled is recorded in one place.
ProbeInv ==
    /\ probe # "idle" => current \in 1 .. Len(candidates)
    /\ Len(attempts) = Tried
    /\ \A n \in 1 .. Len(attempts) : attempts[n] = Key(candidates[n])
    /\ \A n \in 1 .. Settled : \/ Key(candidates[n]) \in failures
                               \/ \E m \in successful : m.peer = candidates[n]
    /\ \A e \in failures : \E n \in 1 .. Settled : Key(candidates[n]) = e
    /\ \A m \in successful : \E n \in 1 .. Settled : m.peer = candidates[n]
    /\ \A m, n \in successful : m.peer = n.peer => m = n
    /\ IsFiniteSet(successful)

\* What a result says of the probes.
ResultInv ==
    /\ result.is = "none_discovered" => candidates = <<>>
    /\ result.is = "all_failed" =>
         successful = {} /\ candidates # <<>> /\ Settled = Len(candidates)
    /\ result.is = "peer" =>
         /\ Settled = Len(candidates)
         /\ \E m \in successful :
              /\ m.peer = result.peer /\ m.rate = result.rate
              /\ \A n \in successful \ {m} : Ahead(m, n)
         /\ caller = "run_send" =>
              PortsAccepted(result.peer.transfer_port, result.peer.parallel_streams)

IInv == TypeOK /\ PhaseInv /\ ProbeInv /\ ResultInv

-----------------------------------------------------------------------------
\* deduplicate_candidates keeps one reply for each endpoint in the valid
\* replies, whatever the replies are and in which order they came.
LEMMA Deduplicated ==
  ASSUME NEW ds \in Seq(Datagrams)
  PROVE  LET c == deduplicate_candidates(ds) IN
         /\ c \in Seq(Datagrams)
         /\ \A n \in 1 .. Len(c) :
              \E i \in 1 .. Len(ds) : Parses(ds[i]) /\ c[n] = ds[i]
         /\ \A m, n \in 1 .. Len(c) : m # n => Key(c[m]) # Key(c[n])
         /\ \A i \in 1 .. Len(ds) : Parses(ds[i]) =>
              \E n \in 1 .. Len(c) : Key(c[n]) = Key(ds[i])
  <1>. DEFINE I == { i \in 1 .. Len(ds) : Parses(ds[i]) /\ ~Repeated(ds, i) }
              c == deduplicate_candidates(ds)
              k == Cardinality(I)
  <1>1. c = Pick(ds, I) /\ I \in SUBSET (1 .. Len(ds))
    BY DEF deduplicate_candidates
  <1>2. \A i \in I : i \in 1 .. Len(ds) /\ Parses(ds[i])
    OBVIOUS
  <1>3. \A i, j \in I : j < i => Key(ds[j]) # Key(ds[i])
    BY DEF Repeated
  <1>4. ASSUME NEW i \in 1 .. Len(ds), Parses(ds[i])
        PROVE  \E j \in I : Key(ds[j]) = Key(ds[i])
    <2>. DEFINE W == { j \in 1 .. Len(ds) : Parses(ds[j]) /\ Key(ds[j]) = Key(ds[i]) }
    <2>1. W \subseteq Nat /\ W # {}
      BY <1>4
    <2>2. PICK j \in W : \A w \in W : j <= w
      <3>. HIDE DEF W
      <3>. QED
        BY <2>1, LeastNat
    <2>3. ~Repeated(ds, j)
      BY <2>2 DEF Repeated
    <2>. QED
      BY <2>2, <2>3
  <1>. HIDE DEF I, c
  <1>5. /\ Pick(ds, I) \in Seq(Datagrams) /\ Cardinality(I) \in Nat
        /\ Len(Pick(ds, I)) = Cardinality(I)
        /\ \E f \in [1 .. Cardinality(I) -> I] :
             /\ \A n \in 1 .. Cardinality(I) : Pick(ds, I)[n] = ds[f[n]]
             /\ \A m, n \in 1 .. Cardinality(I) : m < n => f[m] < f[n]
             /\ \A i \in I : \E n \in 1 .. Cardinality(I) : f[n] = i
    <2>. HIDE DEF k
    <2>. QED
      BY <1>1, Picked
  <1>6. c \in Seq(Datagrams) /\ k \in Nat /\ Len(c) = k
    BY <1>1, <1>5
  <1>7. PICK f \in [1 .. k -> I] :
           /\ \A n \in 1 .. k : c[n] = ds[f[n]]
           /\ \A m, n \in 1 .. k : m < n => f[m] < f[n]
           /\ \A i \in I : \E n \in 1 .. k : f[n] = i
    BY <1>1, <1>5
  <1>. HIDE DEF k
  <1>8. \A n \in 1 .. k : \E i \in 1 .. Len(ds) : Parses(ds[i]) /\ c[n] = ds[i]
    BY <1>2, <1>7
  <1>9. \A m, n \in 1 .. k : m # n => Key(c[m]) # Key(c[n])
    <2>. SUFFICES ASSUME NEW m \in 1 .. k, NEW n \in 1 .. k, m # n
                  PROVE  Key(c[m]) # Key(c[n])
      OBVIOUS
    <2>1. m < n \/ n < m
      BY <1>6
    <2>2. f[m] \in I /\ f[n] \in I /\ (f[m] < f[n] \/ f[n] < f[m])
      BY <1>7, <2>1
    <2>. QED
      BY <1>3, <1>7, <2>2
  <1>10. \A i \in 1 .. Len(ds) : Parses(ds[i]) => \E n \in 1 .. k : Key(c[n]) = Key(ds[i])
    BY <1>4, <1>7
  <1>. QED
    BY <1>6, <1>8, <1>9, <1>10 DEF c

\* The ranking's list of candidates answers to what was heard.
LEMMA RankedAnswers ==
  ASSUME replies \in Seq(Datagrams)
  PROVE  /\ deduplicate_candidates(replies) \in Seq(Datagrams)
         /\ Answers(deduplicate_candidates(replies))
  <1>. DEFINE c == deduplicate_candidates(replies)
  <1>1. /\ c \in Seq(Datagrams)
        /\ \A n \in 1 .. Len(c) :
             \E i \in 1 .. Len(replies) : Parses(replies[i]) /\ c[n] = replies[i]
        /\ \A m, n \in 1 .. Len(c) : m # n => Key(c[m]) # Key(c[n])
        /\ \A i \in 1 .. Len(replies) : Parses(replies[i]) =>
             \E n \in 1 .. Len(c) : Key(c[n]) = Key(replies[i])
    BY Deduplicated
  <1>. HIDE DEF c
  <1>2. \A n \in 1 .. Len(c) : Parses(c[n]) /\ Key(c[n]) \in Heard
    BY <1>1 DEF Heard, Key
  <1>3. \A e \in Heard : \E n \in 1 .. Len(c) : Key(c[n]) = e
    <2>. SUFFICES ASSUME NEW e \in Heard PROVE \E n \in 1 .. Len(c) : Key(c[n]) = e
      OBVIOUS
    <2>1. PICK i \in 1 .. Len(replies) : Parses(replies[i]) /\ e = Key(replies[i])
      BY DEF Heard, Key
    <2>. QED
      BY <1>1, <2>1
  <1>. QED
    BY <1>1, <1>2, <1>3 DEF Answers, c

-----------------------------------------------------------------------------
\* Of the probes that succeeded one is ahead of the others: the choice that
\* select_fastest_peer makes is determined.
LEMMA FastestAhead ==
  ASSUME TypeOK, Answers(candidates), ProbeInv, successful # {}
  PROVE  /\ Fastest(successful) \in successful
         /\ \A n \in successful \ {Fastest(successful)} : Ahead(Fastest(successful), n)
  <1>. DEFINE R == { p \in successful \X successful : Ahead(p[1], p[2]) }
  <1>1. \A m, n \in successful : <<m, n>> \in R <=> Ahead(m, n)
    OBVIOUS
  <1>2. Settled <= Len(candidates) /\ Settled \in Nat
    BY DEF TypeOK, Settled
  <1>3. \A m \in successful : /\ m.rate \in Nat
                              /\ m.peer.host \in Nat
                              /\ m.peer.transfer_port \in Nat
                              /\ m.peer.probe_port \in Nat
    <2>. SUFFICES ASSUME NEW m \in successful
                  PROVE  /\ m.rate \in Nat /\ m.peer.host \in Nat
                         /\ m.peer.transfer_port \in Nat /\ m.peer.probe_port \in Nat
      OBVIOUS
    <2>1. m.rate \in Nat /\ m.peer \in Datagrams
      BY DiscoveryAssumption DEF TypeOK
    <2>2. PICK n \in 1 .. Settled : m.peer = candidates[n]
      BY DEF ProbeInv
    <2>3. Parses(m.peer)
      BY <1>2, <2>2 DEF Answers, TypeOK
    <2>. QED
      BY <2>1, <2>3, AddressAssumption, MaxPortAssumption DEF Parses
  <1>4. \A m, n \in successful : m # n => Key(m.peer) # Key(n.peer)
    <2>. SUFFICES ASSUME NEW m \in successful, NEW n \in successful, m # n
                  PROVE  Key(m.peer) # Key(n.peer)
      OBVIOUS
    <2>1. PICK i \in 1 .. Settled : m.peer = candidates[i]
      BY DEF ProbeInv
    <2>2. PICK j \in 1 .. Settled : n.peer = candidates[j]
      BY DEF ProbeInv
    <2>3. i # j
      BY <2>1, <2>2 DEF ProbeInv
    <2>4. i \in 1 .. Len(candidates) /\ j \in 1 .. Len(candidates)
      BY <1>2 DEF TypeOK
    <2>. QED
      BY <2>1, <2>2, <2>3, <2>4 DEF Answers
  <1>5. \A m \in successful : ~Ahead(m, m)
    BY <1>3 DEF Ahead, Faster, source_address_precedes
  <1>6. \A m, n \in successful : m # n => Ahead(m, n) \/ Ahead(n, m)
    BY <1>3, <1>4 DEF Ahead, Faster, source_address_precedes, Key
  <1>7. \A l, m, n \in successful : Ahead(l, m) /\ Ahead(m, n) => Ahead(l, n)
    BY <1>3 DEF Ahead, Faster, source_address_precedes
  <1>8. Total(R, successful)
    <2>. HIDE DEF R
    <2>. QED
      BY <1>1, <1>5, <1>6, <1>7 DEF Total
  <1>9. \E m \in successful : \A n \in successful \ {m} : <<m, n>> \in R
    <2>1. IsFiniteSet(successful)
      BY DEF ProbeInv
    <2>. HIDE DEF R
    <2>. QED
      BY <1>8, <2>1, First
  <1>10. \E m \in successful : \A n \in successful \ {m} : Ahead(m, n)
    <2>. HIDE DEF R
    <2>. QED
      BY <1>1, <1>9
  <1>. QED
    BY <1>10 DEF Fastest

-----------------------------------------------------------------------------
(***************************************************************************)
(* Every step preserves the invariant.                                     *)
(***************************************************************************)
LEMMA InvInit == Init => IInv
  <1>. SUFFICES ASSUME Init PROVE IInv
    OBVIOUS
  <1>1. TypeOK
    BY DiscoveryAssumption, EmptySeq DEF Init, TypeOK, Results, Callers
  <1>2. PhaseInv
    BY DEF Init, PhaseInv
  <1>3. ProbeInv
    BY FS_EmptySet DEF Init, ProbeInv, Settled, Tried
  <1>4. ResultInv
    BY DEF Init, ResultInv, Pending
  <1>. QED
    BY <1>1, <1>2, <1>3, <1>4 DEF IInv

\* The steps until the deadline touch nothing but sockets and replies.
LEMMA NetworkStep ==
  ASSUME IInv, phase \in {"open", "collect"}, phase' \in {"collect", "rank"},
         sockets' \in Seq(Targets), arrived' \in [Targets -> Seq(Datagrams)],
         replies' \in Seq(Datagrams),
         UNCHANGED <<caller, candidates, probeVars, result>>
  PROVE  IInv'
  <1>1. TypeOK'
    BY DEF IInv, TypeOK, probeVars
  <1>2. PhaseInv'
    BY DEF IInv, PhaseInv, probeVars
  <1>3. ProbeInv'
    BY DEF IInv, ProbeInv, Settled, Tried, probeVars
  <1>4. result' = Pending
    BY DEF IInv, PhaseInv
  <1>5. ResultInv'
    BY <1>4 DEF ResultInv, Pending
  <1>. QED
    BY <1>1, <1>2, <1>3, <1>5 DEF IInv

LEMMA InvOpen == IInv /\ OpenSockets => IInv'
  <1>. SUFFICES ASSUME IInv, OpenSockets PROVE IInv'
    OBVIOUS
  <1>1. PICK usable \in SUBSET Targets :
          /\ sockets' = Pick(TargetOrder,
                             { n \in 1 .. Cardinality(Targets) : TargetOrder[n] \in usable })
          /\ phase' = IF usable = {} THEN "rank" ELSE "collect"
    BY DEF OpenSockets
  <1>. DEFINE I == { n \in 1 .. Cardinality(Targets) : TargetOrder[n] \in usable }
  <1>2. TargetOrder \in Seq(Targets) /\ I \in SUBSET (1 .. Len(TargetOrder))
    BY TargetsOrdered
  <1>3. sockets' = Pick(TargetOrder, I)
    BY <1>1
  <1>4. sockets' \in Seq(Targets)
    <2>. HIDE DEF I
    <2>. QED
      BY <1>2, <1>3, Picked
  <1>5. /\ phase = "open" /\ phase' \in {"collect", "rank"}
        /\ arrived' \in [Targets -> Seq(Datagrams)] /\ replies' \in Seq(Datagrams)
        /\ UNCHANGED <<caller, candidates, probeVars, result>>
    BY <1>1 DEF OpenSockets, IInv, TypeOK
  <1>. QED
    BY <1>4, <1>5, NetworkStep

LEMMA InvArrive ==
  ASSUME IInv, NEW t \in Targets, NEW d \in Datagrams, Arrive(t, d)
  PROVE  IInv'
  <1>1. arrived' \in [Targets -> Seq(Datagrams)]
    <2>1. arrived \in [Targets -> Seq(Datagrams)] /\ Append(arrived[t], d) \in Seq(Datagrams)
      BY DEF IInv, TypeOK
    <2>2. arrived' = [arrived EXCEPT ![t] = Append(arrived[t], d)]
      BY DEF Arrive
    <2>. QED
      BY <2>1, <2>2
  <1>2. /\ phase = "collect" /\ phase' = "collect"
        /\ sockets' \in Seq(Targets) /\ replies' \in Seq(Datagrams)
        /\ UNCHANGED <<caller, candidates, probeVars, result>>
    BY DEF Arrive, IInv, TypeOK
  <1>. QED
    BY <1>1, <1>2, NetworkStep

LEMMA InvCollect == IInv /\ Collect => IInv'
  <1>. SUFFICES ASSUME IInv, Collect PROVE IInv'
    OBVIOUS
  <1>. DEFINE ready == { n \in 1 .. Len(sockets) : arrived[sockets[n]] # <<>> }
              read  == { n \in ready : Head(arrived[sockets[n]]).form # "oversized" }
              from  == Pick(sockets, read)
              k     == Cardinality(read)
              more  == [n \in 1 .. k |-> Head(arrived[from[n]])]
  <1>1. /\ sockets \in Seq(Targets) /\ arrived \in [Targets -> Seq(Datagrams)]
        /\ replies \in Seq(Datagrams)
    BY DEF IInv, TypeOK
  <1>2. /\ phase = "collect" /\ phase' = phase /\ sockets' = sockets
        /\ replies' = replies \o more
        /\ arrived' = [t \in Targets |-> IF arrived[t] # <<>> THEN Tail(arrived[t]) ELSE <<>>]
        /\ UNCHANGED <<caller, candidates, probeVars, result>>
    BY DEF Collect
  <1>3. read \in SUBSET (1 .. Len(sockets)) /\ \A i \in read : arrived[sockets[i]] # <<>>
    OBVIOUS
  <1>. HIDE DEF ready, read
  <1>4. k \in Nat /\ \A n \in 1 .. k : from[n] \in Targets /\ arrived[from[n]] # <<>>
    <2>1. /\ k \in Nat
          /\ \A n \in 1 .. k : \E i \in read : from[n] = sockets[i]
      BY <1>1, <1>3, PickedFrom
    <2>. HIDE DEF from, k
    <2>2. ASSUME NEW n \in 1 .. k PROVE from[n] \in Targets /\ arrived[from[n]] # <<>>
      <3>1. PICK i \in read : from[n] = sockets[i]
        BY <2>1
      <3>. QED
        BY <1>1, <1>3, <3>1
    <2>. QED
      BY <2>1, <2>2
  <1>. HIDE DEF from, k
  <1>5. \A n \in 1 .. k : Head(arrived[from[n]]) \in Datagrams
    BY <1>1, <1>4
  <1>6. more \in Seq(Datagrams)
    BY <1>4, <1>5
  <1>. HIDE DEF more
  <1>7. replies' \in Seq(Datagrams)
    BY <1>1, <1>2, <1>6
  <1>8. arrived' \in [Targets -> Seq(Datagrams)]
    <2>1. \A t \in Targets : arrived[t] # <<>> => Tail(arrived[t]) \in Seq(Datagrams)
      BY <1>1
    <2>. QED
      BY <1>1, <1>2, <2>1
  <1>. QED
    BY <1>1, <1>2, <1>7, <1>8, NetworkStep

LEMMA InvDeadline == IInv /\ Deadline => IInv'
  <1>. SUFFICES ASSUME IInv, Deadline PROVE IInv'
    OBVIOUS
  <1>1. /\ phase = "collect" /\ phase' = "rank" /\ sockets' \in Seq(Targets)
        /\ arrived' \in [Targets -> Seq(Datagrams)] /\ replies' \in Seq(Datagrams)
        /\ UNCHANGED <<caller, candidates, probeVars, result>>
    BY DEF Deadline, netVars, IInv, TypeOK
  <1>. QED
    BY <1>1, NetworkStep

LEMMA InvRank == IInv /\ Rank => IInv'
  <1>. SUFFICES ASSUME IInv, Rank PROVE IInv'
    OBVIOUS
  <1>. DEFINE found == deduplicate_candidates(replies)
  <1>1. found \in Seq(Datagrams) /\ Answers(found)
    BY RankedAnswers DEF IInv, TypeOK
  <1>2. /\ phase = "rank" /\ candidates' = found
        /\ \/ /\ found = <<>> /\ phase' = "done" /\ result' = [is |-> "none_discovered"]
              /\ current' = current
           \/ /\ found # <<>> /\ phase' = "done" /\ result' = [is |-> "peers"]
              /\ current' = current
           \/ /\ found # <<>> /\ phase' = "probe" /\ current' = 1 /\ result' = result
        /\ UNCHANGED <<caller, sockets, arrived, replies, probe, received, attempts, failures,
                       successful>>
    BY DEF Rank, Return, netVars
  <1>. HIDE DEF found
  <1>3. current = 0 /\ candidates = <<>> /\ result = Pending /\ probe = "idle"
    BY <1>2 DEF IInv, PhaseInv, ProbeInv, TypeOK
  <1>4. Len(found) \in Nat
    BY <1>1
  <1>5. TypeOK'
    BY <1>1, <1>2, <1>3, <1>4 DEF IInv, TypeOK, Results
  <1>6. Answers(candidates)'
    BY <1>1, <1>2 DEF Answers, Heard
  <1>7. PhaseInv'
    BY <1>2, <1>3, <1>6 DEF PhaseInv
  <1>8. ProbeInv'
    BY <1>2, <1>3 DEF IInv, ProbeInv, Settled, Tried
  <1>9. ResultInv'
    BY <1>2, <1>3 DEF ResultInv, Pending
  <1>. QED
    BY <1>5, <1>7, <1>8, <1>9 DEF IInv

\* What the parts say of a list that does not change is not changed.
LEMMA AnswersStep ==
  ASSUME Answers(candidates), UNCHANGED <<netVars, candidates>>
  PROVE  Answers(candidates)'
  BY DEF Answers, Heard, netVars

LEMMA InvStart == IInv /\ ProbeStart => IInv'
  <1>. SUFFICES ASSUME IInv, ProbeStart PROVE IInv'
    OBVIOUS
  <1>1. /\ phase = "probe" /\ probe = "idle" /\ current <= Len(candidates)
        /\ probe' = "connecting" /\ received' = 0
        /\ attempts' = Append(attempts, Key(candidates[current]))
        /\ UNCHANGED <<caller, phase, netVars, candidates, current, failures, successful, result>>
    BY DEF ProbeStart, Probing, Peer
  <1>2. /\ candidates \in Seq(Datagrams) /\ current \in 1 .. Len(candidates)
        /\ attempts \in Seq(Endpoints) /\ Answers(candidates) /\ result = Pending
    BY <1>1 DEF IInv, TypeOK, PhaseInv
  <1>3. Key(candidates[current]) \in Endpoints
    <2>1. candidates[current] \in Datagrams /\ Parses(candidates[current])
      BY <1>2 DEF Answers
    <2>. QED
      BY <2>1 DEF Endpoints
  <1>4. TypeOK'
    <2>1. attempts' \in Seq(Endpoints)
      BY <1>1, <1>2, <1>3
    <2>. QED
      BY <1>1, <2>1, DiscoveryAssumption DEF IInv, TypeOK, netVars
  <1>5. PhaseInv'
    BY <1>1, <1>2, AnswersStep DEF IInv, PhaseInv
  <1>6. ProbeInv'
    <2>1. Len(attempts) = current - 1 /\ \A n \in 1 .. Len(attempts) : attempts[n] = Key(candidates[n])
      BY <1>1, <1>2 DEF IInv, ProbeInv, Tried, Settled
    <2>2. Len(attempts') = current /\ \A n \in 1 .. current : attempts'[n] = Key(candidates[n])
      BY <1>1, <1>2, <1>3, <2>1
    <2>. QED
      BY <1>1, <1>2, <2>2 DEF IInv, ProbeInv, Tried, Settled
  <1>7. ResultInv'
    BY <1>1, <1>2 DEF ResultInv, Pending
  <1>. QED
    BY <1>4, <1>5, <1>6, <1>7 DEF IInv

\* A probe that goes on settles nothing.
LEMMA InvGoesOn == IInv /\ (ProbeConnect \/ ProbeRead) => IInv'
  <1>. SUFFICES ASSUME IInv, ProbeConnect \/ ProbeRead PROVE IInv'
    OBVIOUS
  <1>1. /\ phase = "probe" /\ probe # "idle" /\ probe' = "reading"
        /\ received' = received \/ (received < Payload /\ received' = received + 1)
        /\ UNCHANGED <<caller, phase, netVars, candidates, current, attempts, failures, successful,
                       result>>
    BY DEF ProbeConnect, ProbeRead, Probing
  <1>2. TypeOK'
    <2>1. received' \in 0 .. Payload
      BY <1>1, DiscoveryAssumption DEF IInv, TypeOK
    <2>. QED
      BY <1>1, <2>1 DEF IInv, TypeOK, netVars
  <1>3. PhaseInv'
    BY <1>1, AnswersStep DEF IInv, PhaseInv
  <1>4. ProbeInv'
    BY <1>1 DEF IInv, ProbeInv, Tried, Settled
  <1>5. ResultInv'
    BY <1>1 DEF IInv, PhaseInv, ResultInv, Pending
  <1>. QED
    BY <1>2, <1>3, <1>4, <1>5 DEF IInv

\* A probe that ends is recorded as a failure or as one success.
LEMMA InvSettle ==
  ASSUME IInv, phase = "probe", probe # "idle", Succeeds \/ Fails, NextCandidate,
         UNCHANGED <<caller, phase, netVars, candidates, received, attempts, result>>
  PROVE  IInv'
  <1>. DEFINE peer == candidates[current]
  <1>1. /\ candidates \in Seq(Datagrams) /\ current \in 1 .. Len(candidates)
        /\ Answers(candidates) /\ result = Pending /\ peer \in Datagrams
    BY DEF IInv, TypeOK, PhaseInv, ProbeInv
  <1>2. Key(peer) \in Endpoints
    <2>1. Parses(peer)
      BY <1>1 DEF Answers
    <2>. QED
      BY <1>1, <2>1 DEF Endpoints
  <1>3. current' = current + 1 /\ probe' = "idle"
    BY DEF NextCandidate
  <1>4. /\ Settled = current - 1 /\ Settled' = current /\ Tried = current /\ Tried' = current
        /\ \A n \in 1 .. current : n \in 1 .. Settled \/ n = current
    BY <1>1, <1>3 DEF Settled, Tried
  <1>5. \/ /\ failures' = failures \cup {Key(peer)} /\ successful' = successful
        \/ /\ failures' = failures
           /\ \E rate \in Rates : successful' = successful \cup {[peer |-> peer, rate |-> rate]}
    BY DEF Succeeds, Fails, Peer
  <1>6. \A m \in successful : m.peer # peer
    <2>. SUFFICES ASSUME NEW m \in successful, m.peer = peer PROVE FALSE
      OBVIOUS
    <2>1. PICK n \in 1 .. Settled : m.peer = candidates[n]
      BY DEF IInv, ProbeInv
    <2>2. n \in 1 .. Len(candidates) /\ n # current
      BY <1>1, <1>4, <2>1
    <2>. QED
      BY <1>1, <2>1, <2>2 DEF Answers
  <1>7. TypeOK'
    <2>1. /\ failures' \subseteq Endpoints
          /\ successful' \subseteq [peer : Datagrams, rate : Rates]
      BY <1>1, <1>2, <1>5 DEF IInv, TypeOK
    <2>2. current' \in 0 .. Len(candidates) + 1
      BY <1>1, <1>3
    <2>. QED
      BY <1>3, <2>1, <2>2 DEF IInv, TypeOK, netVars
  <1>8. PhaseInv'
    <2>1. current' # 0
      BY <1>1, <1>3
    <2>. QED
      BY <1>1, <1>3, <2>1, AnswersStep DEF IInv, PhaseInv
  <1>9. ProbeInv'
    <2>1. Len(attempts') = Tried' /\ \A n \in 1 .. Len(attempts') : attempts'[n] = Key(candidates'[n])
      BY <1>4 DEF IInv, ProbeInv
    <2>2. \A n \in 1 .. Settled' : \/ Key(candidates'[n]) \in failures'
                                   \/ \E m \in successful' : m.peer = candidates'[n]
      <3>. SUFFICES ASSUME NEW n \in 1 .. current
                    PROVE  \/ Key(candidates[n]) \in failures'
                           \/ \E m \in successful' : m.peer = candidates[n]
        BY <1>4
      <3>1. CASE n = current
        <4>1. [peer |-> peer, rate |-> 0].peer = peer /\ \A r \in Rates : [peer |-> peer, rate |-> r].peer = peer
          OBVIOUS
        <4>. QED
          BY <1>5, <3>1, <4>1
      <3>2. CASE n \in 1 .. Settled
        BY <1>5, <3>2 DEF IInv, ProbeInv
      <3>. QED
        BY <1>4, <3>1, <3>2
    <2>3. \A e \in failures' : \E n \in 1 .. Settled' : Key(candidates'[n]) = e
      <3>. SUFFICES ASSUME NEW e \in failures' PROVE \E n \in 1 .. current : Key(candidates[n]) = e
        BY <1>4
      <3>1. CASE e = Key(peer)
        BY <1>1, <3>1
      <3>2. CASE e \in failures
        <4>1. PICK n \in 1 .. Settled : Key(candidates[n]) = e
          BY <3>2 DEF IInv, ProbeInv
        <4>. QED
          BY <1>1, <1>4, <4>1
      <3>. QED
        BY <1>5, <3>1, <3>2
    <2>4. \A m \in successful' : m \in successful \/ m.peer = peer
      BY <1>5
    <2>5. \A m \in successful' : \E n \in 1 .. Settled' : m.peer = candidates'[n]
      <3>. SUFFICES ASSUME NEW m \in successful' PROVE \E n \in 1 .. current : m.peer = candidates[n]
        BY <1>4
      <3>1. CASE m.peer = peer
        BY <1>1, <3>1
      <3>2. CASE m \in successful
        <4>1. PICK n \in 1 .. Settled : m.peer = candidates[n]
          BY <3>2 DEF IInv, ProbeInv
        <4>. QED
          BY <1>1, <1>4, <4>1
      <3>. QED
        BY <2>4, <3>1, <3>2
    <2>6. \A m, n \in successful' : m.peer = n.peer => m = n
      <3>1. \A m, n \in successful : m.peer = n.peer => m = n
        BY DEF IInv, ProbeInv
      <3>. HIDE DEF peer
      <3>2. \A m, n \in successful' : m \notin successful /\ n \notin successful => m = n
        BY <1>5
      <3>. QED
        BY <1>6, <2>4, <3>1, <3>2
    <2>7. IsFiniteSet(successful')
      <3>1. IsFiniteSet(successful)
        BY DEF IInv, ProbeInv
      <3>2. ASSUME NEW x PROVE IsFiniteSet(successful \cup {x})
        BY <3>1, FS_AddElement
      <3>. QED
        BY <1>5, <3>1, <3>2
    <2>. QED
      BY <1>3, <2>1, <2>2, <2>3, <2>5, <2>6, <2>7 DEF ProbeInv
  <1>10. ResultInv'
    BY <1>1 DEF ResultInv, Pending
  <1>. QED
    BY <1>7, <1>8, <1>9, <1>10 DEF IInv

LEMMA InvEnds == IInv /\ (ProbeWhole \/ ProbeEof \/ ProbeError \/ ProbeTimeout) => IInv'
  <1>. SUFFICES ASSUME IInv, ProbeWhole \/ ProbeEof \/ ProbeError \/ ProbeTimeout PROVE IInv'
    OBVIOUS
  <1>1. /\ phase = "probe" /\ probe # "idle" /\ (Succeeds \/ Fails) /\ NextCandidate
        /\ UNCHANGED <<caller, phase, netVars, candidates, received, attempts, result>>
    BY DEF ProbeWhole, ProbeEof, ProbeError, ProbeTimeout, Probing
  <1>. QED
    BY <1>1, InvSettle

LEMMA InvFinish == IInv /\ Finish => IInv'
  <1>. SUFFICES ASSUME IInv, Finish PROVE IInv'
    OBVIOUS
  <1>. DEFINE best == Fastest(successful)
  <1>1. /\ phase = "probe" /\ phase' = "done" /\ current > Len(candidates)
        /\ result' = IF successful = {} THEN [is |-> "all_failed"] ELSE Delivered(best)
        /\ UNCHANGED <<caller, netVars, candidates, probeVars>>
    BY DEF Finish, Return
  <1>2. /\ candidates \in Seq(Datagrams) /\ current = Len(candidates) + 1
        /\ Answers(candidates) /\ probe = "idle" /\ Settled = Len(candidates)
        /\ successful \subseteq [peer : Datagrams, rate : Rates]
    BY <1>1 DEF IInv, TypeOK, PhaseInv, ProbeInv, Settled
  <1>3. successful # {} =>
          best \in successful /\ \A n \in successful \ {best} : Ahead(best, n)
    BY <1>2, FastestAhead DEF IInv
  <1>. HIDE DEF best
  <1>4. \/ successful = {} /\ result' = [is |-> "all_failed"]
        \/ successful # {} /\ result' = [is |-> "ports_exceed"]
        \/ /\ successful # {} /\ result' = [is |-> "peer", peer |-> best.peer, rate |-> best.rate]
           /\ caller = "run_send" =>
                PortsAccepted(best.peer.transfer_port, best.peer.parallel_streams)
    BY <1>1 DEF Delivered
  <1>5. TypeOK'
    <2>1. result' \in Results
      <3>1. successful # {} => best.peer \in Datagrams /\ best.rate \in Rates
        BY <1>2, <1>3
      <3>. QED
        BY <1>4, <3>1 DEF Results
    <2>. QED
      BY <1>1, <2>1 DEF IInv, TypeOK, netVars, probeVars
  <1>6. PhaseInv'
    BY <1>1, <1>2, AnswersStep DEF PhaseInv, probeVars
  <1>7. ProbeInv'
    BY <1>1 DEF IInv, ProbeInv, Settled, Tried, probeVars
  <1>8. ResultInv'
    <2>1. Settled' = Len(candidates') /\ successful' = successful /\ candidates' = candidates
          /\ caller' = caller
      BY <1>1, <1>2 DEF Settled, probeVars
    <2>2. CASE successful = {} /\ result' = [is |-> "all_failed"]
      <3>1. candidates # <<>>
        BY <1>1 DEF IInv, PhaseInv
      <3>. QED
        BY <2>1, <2>2, <3>1 DEF ResultInv
    <2>3. CASE result' = [is |-> "ports_exceed"]
      BY <2>3 DEF ResultInv
    <2>4. CASE /\ successful # {} /\ result' = [is |-> "peer", peer |-> best.peer, rate |-> best.rate]
               /\ caller = "run_send" =>
                    PortsAccepted(best.peer.transfer_port, best.peer.parallel_streams)
      <3>1. /\ result'.is = "peer" /\ result'.peer = best.peer /\ result'.rate = best.rate
        BY <2>4
      <3>. QED
        BY <1>3, <2>1, <2>4, <3>1 DEF ResultInv, Ahead, Faster, source_address_precedes
    <2>. QED
      BY <1>4, <2>2, <2>3, <2>4
  <1>. QED
    BY <1>5, <1>6, <1>7, <1>8 DEF IInv

-----------------------------------------------------------------------------
(***************************************************************************)
(* The theorems.                                                           *)
(***************************************************************************)
\* The invariant is one.
LEMMA Inductive == Spec => []IInv
  <1>1. IInv /\ [Next]_vars => IInv'
    <2>. SUFFICES ASSUME IInv, [Next]_vars PROVE IInv'
      OBVIOUS
    <2>1. CASE Step
      BY <2>1, InvOpen, InvRank, InvStart, InvEnds, InvFinish DEF Step
    <2>2. CASE Collect
      BY <2>2, InvCollect
    <2>3. CASE Deadline
      BY <2>3, InvDeadline
    <2>4. CASE ProbeConnect \/ ProbeRead
      BY <2>4, InvGoesOn
    <2>5. CASE ProbeEof \/ ProbeError \/ ProbeTimeout
      BY <2>5, InvEnds
    <2>6. CASE \E t \in Targets, d \in Datagrams : Arrive(t, d)
      BY <2>6, InvArrive
    <2>7. CASE UNCHANGED vars
      <3>1. TypeOK' /\ ResultInv'
        BY <2>7 DEF vars, IInv, TypeOK, ResultInv, Settled
      <3>2. PhaseInv'
        BY <2>7, AnswersStep DEF vars, netVars, IInv, PhaseInv
      <3>3. ProbeInv'
        BY <2>7 DEF vars, IInv, ProbeInv, Settled, Tried
      <3>. QED
        BY <3>1, <3>2, <3>3 DEF IInv
    <2>. QED
      BY <2>1, <2>2, <2>3, <2>4, <2>5, <2>6, <2>7 DEF Next
  <1>. QED
    BY <1>1, InvInit, PTL DEF Spec

\* The variables have their types: what discover, rank_candidates and
\* probe_tcp_receive keep is well formed whatever datagrams arrive.
THEOREM TypeCorrect == Spec => []TypeOK
  <1>1. IInv => TypeOK
    BY DEF IInv
  <1>. QED
    BY <1>1, Inductive, PTL

\* When the call is over, every endpoint in a valid reply was a candidate,
\* and every candidate is settled if a peer was returned or all had failed.
LEMMA OverWhen ==
  ASSUME IInv, result.is \in {"none_discovered", "all_failed", "peer"}
  PROVE  /\ Answers(candidates) /\ candidates \in Seq(Datagrams)
         /\ \A e \in Heard : \E n \in 1 .. Len(candidates) : Key(candidates[n]) = e
  <1>1. phase = "done"
    BY DEF IInv, PhaseInv, Pending
  <1>. QED
    BY <1>1 DEF IInv, PhaseInv, TypeOK, Answers

\* rank_candidates throws "no Hyperlink peer discovered" only when it read no
\* valid reply, and "all Hyperlink peer probes failed" only when every endpoint
\* in the valid replies, and there is one, was probed and failed.
THEOREM ErrorsTrue == Spec => []ErrorsTellApart
  <1>1. ASSUME IInv, result.is = "none_discovered" PROVE Heard = {}
    <2>1. candidates = <<>>
      BY <1>1 DEF IInv, ResultInv
    <2>. QED
      BY <1>1, <2>1, OverWhen
  <1>2. ASSUME IInv, result.is = "all_failed" PROVE Heard # {} /\ failures = Heard
    <2>1. successful = {} /\ candidates # <<>> /\ Settled = Len(candidates)
      BY <1>2 DEF IInv, ResultInv
    <2>2. /\ Answers(candidates) /\ candidates \in Seq(Datagrams)
          /\ \A e \in Heard : \E n \in 1 .. Len(candidates) : Key(candidates[n]) = e
      BY <1>2, OverWhen
    <2>3. Heard \subseteq failures
      BY <1>2, <2>1, <2>2 DEF IInv, ProbeInv
    <2>4. failures \subseteq Heard
      <3>. SUFFICES ASSUME NEW e \in failures PROVE e \in Heard
        OBVIOUS
      <3>1. PICK n \in 1 .. Settled : Key(candidates[n]) = e
        BY <1>2 DEF IInv, ProbeInv
      <3>. QED
        BY <2>1, <2>2, <3>1 DEF Answers
    <2>5. Heard # {}
      <3>1. 1 \in 1 .. Len(candidates)
        BY <2>1, <2>2
      <3>. QED
        BY <2>2, <3>1 DEF Answers
    <2>. QED
      BY <2>3, <2>4, <2>5
  <1>3. IInv => ErrorsTellApart
    BY <1>1, <1>2 DEF ErrorsTellApart
  <1>. QED
    BY <1>3, Inductive, PTL

\* No endpoint is probed twice, however many copies of its advertisement
\* arrive on however many targets.
THEOREM EachProbedOnce == Spec => []ProbedOnce
  <1>1. ASSUME IInv PROVE ProbedOnce
    <2>. SUFFICES ASSUME NEW i \in 1 .. Len(attempts), NEW j \in 1 .. Len(attempts), i # j
                  PROVE  attempts[i] # attempts[j]
      BY DEF ProbedOnce
    <2>1. attempts[i] = Key(candidates[i]) /\ attempts[j] = Key(candidates[j])
      BY <1>1 DEF IInv, ProbeInv
    <2>2. Len(attempts) \in Nat /\ Len(attempts) <= Len(candidates) /\ Len(candidates) \in Nat
      BY <1>1 DEF IInv, ProbeInv, TypeOK, Tried, Settled
    <2>3. Answers(candidates)
      <3>1. candidates # <<>>
        BY <2>2
      <3>. QED
        BY <1>1, <3>1 DEF IInv, PhaseInv, TypeOK
    <2>. QED
      BY <2>1, <2>2, <2>3 DEF Answers
  <1>. QED
    BY <1>1, Inductive, PTL

\* The peer that select_fastest returns was heard, and it is ahead of every
\* other endpoint that was heard and whose probe did not fail, in the order of
\* select_fastest_peer: by rate, then by address and ports.
THEOREM FastestSelected == Spec => []SelectedIsFastest
  <1>1. ASSUME IInv, result.is = "peer"
        PROVE  /\ EndpointOf(result) \in Heard
               /\ \A e \in Heard \ ({EndpointOf(result)} \cup failures) :
                    \E m \in successful :
                      /\ EndpointOf(m) = e
                      /\ \/ result.rate > m.rate
                         \/ result.rate = m.rate /\ source_address_precedes(result.peer, m.peer)
    <2>1. PICK b \in successful : /\ b.peer = result.peer /\ b.rate = result.rate
                                  /\ \A n \in successful \ {b} : Ahead(b, n)
      BY <1>1 DEF IInv, ResultInv
    <2>2. Settled = Len(candidates)
      BY <1>1 DEF IInv, ResultInv
    <2>3. /\ Answers(candidates) /\ candidates \in Seq(Datagrams)
          /\ \A e \in Heard : \E n \in 1 .. Len(candidates) : Key(candidates[n]) = e
      BY <1>1, OverWhen
    <2>4. \A m : EndpointOf(m) = Key(m.peer)
      BY DEF EndpointOf, Key
    <2>5. EndpointOf(result) \in Heard
      <3>1. PICK n \in 1 .. Settled : b.peer = candidates[n]
        BY <1>1, <2>1 DEF IInv, ProbeInv
      <3>. QED
        BY <2>1, <2>2, <2>3, <2>4, <3>1 DEF Answers
    <2>6. ASSUME NEW e \in Heard \ ({EndpointOf(result)} \cup failures)
          PROVE  \E m \in successful :
                   /\ EndpointOf(m) = e
                   /\ \/ result.rate > m.rate
                      \/ result.rate = m.rate /\ source_address_precedes(result.peer, m.peer)
      <3>1. PICK n \in 1 .. Len(candidates) : Key(candidates[n]) = e
        BY <2>3
      <3>2. PICK m \in successful : m.peer = candidates[n]
        BY <1>1, <2>2, <3>1 DEF IInv, ProbeInv
      <3>3. EndpointOf(m) = e /\ m # b
        BY <2>1, <2>4, <3>1, <3>2
      <3>4. Ahead(b, m)
        BY <2>1, <3>3
      <3>. QED
        BY <2>1, <3>3, <3>4 DEF Ahead, Faster, source_address_precedes
    <2>. QED
      BY <2>5, <2>6
  <1>2. IInv => SelectedIsFastest
    BY <1>1 DEF SelectedIsFastest
  <1>. QED
    BY <1>2, Inductive, PTL

\* run_send connects its streams to the ports after the advertised one: none
\* is changed by endpoint_for_stream's narrowing.
THEOREM StreamsInRange == Spec => []StreamsFollowPort
  <1>1. ASSUME IInv, result.is = "peer", caller = "run_send",
               NEW s \in 0 .. result.peer.parallel_streams - 1
        PROVE  StreamPort(result.peer.transfer_port, s) = result.peer.transfer_port + s
    <2>. DEFINE port == result.peer.transfer_port
                streams == result.peer.parallel_streams
    <2>1. PortsAccepted(port, streams)
      BY <1>1 DEF IInv, ResultInv
    <2>2. Parses(result.peer)
      <3>1. PICK b \in successful : b.peer = result.peer
        BY <1>1 DEF IInv, ResultInv
      <3>2. PICK n \in 1 .. Settled : b.peer = candidates[n]
        BY <1>1, <3>1 DEF IInv, ProbeInv
      <3>3. Answers(candidates) /\ Settled = Len(candidates)
        BY <1>1, OverWhen DEF IInv, ResultInv
      <3>. QED
        BY <3>1, <3>2, <3>3 DEF Answers
    <2>3. port \in 1 .. MaxPort /\ streams \in Nat
      BY <2>2, WordSizeAssumption DEF Parses
    <2>4. s \in 0 .. streams - 1
      OBVIOUS
    <2>. HIDE DEF port, streams
    <2>5. port + s \in 0 .. MaxPort
      BY <2>1, <2>3, <2>4, MaxPortAssumption DEF PortsAccepted, LastPort
    <2>6. (port + s) % (MaxPort + 1) = port + s
      BY <2>5, MaxPortAssumption
    <2>. QED
      BY <2>6 DEF StreamPort, port
  <1>2. IInv => StreamsFollowPort
    BY <1>1 DEF StreamsFollowPort
  <1>. QED
    BY <1>2, Inductive, PTL
=============================================================================
