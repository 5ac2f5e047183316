----------------------------- MODULE Discovery -----------------------------
(***************************************************************************)
(* One call that looks for a receiver: PeerDiscovery::discover,            *)
(* select_fastest or connect_fastest, or run_send with --auto.  Requests   *)
(* go out on one socket per target, datagrams are collected until the      *)
(* deadline, the endpoints they advertise are probed one after the other,  *)
(* and the fastest is taken.                                               *)
(*                                                                         *)
(* The network may lose, repeat, delay and reorder replies, and anybody    *)
(* may send anything to the sockets: a datagram is any member of           *)
(* Datagrams.  Addresses are numbers: this host's in the order of their    *)
(* texts, by which the targets are sorted, those of peers in the order of  *)
(* parse_ipv4's octets.                                                    *)
(***************************************************************************)
EXTENDS PortLayout, Ordering, FiniteSetsExt

CONSTANTS
    Interfaces,     \* [addr, broadcast, up]: this host's IPv4 interfaces
    Datagrams,      \* [host, form, transfer_port, probe_port, parallel_streams]
    Rates,          \* throughputs that a probe may measure
    Payload,        \* probe_payload_bytes, in reads
    MaxArrivals     \* datagrams that arrive during one call

ASSUME DiscoveryAssumption ==
    Payload \in Nat \ {0} /\ MaxArrivals \in Nat /\ Rates \subseteq Nat \ {0}

ASSUME AddressAssumption ==
    /\ IsFiniteSet(Interfaces)
    /\ \A i \in Interfaces : i.addr \in Nat /\ i.broadcast \in Nat
    /\ \A d \in Datagrams : d.host \in Nat

NoAddress == 0                  \* an address that formats as the empty string
Loopback  == 127
LimitedBroadcast == 255

VARIABLES
    caller,         \* which function was called
    phase,          \* "open", "collect", "rank", "probe", "done"
    sockets,        \* targets whose request was sent, in order
    arrived,        \* arrived[t]: datagrams that wait on target t's socket
    replies,        \* the datagrams that were read
    candidates,     \* the peers to probe, in order
    current,        \* the probe in progress: its place in candidates,
    probe,          \* where it is,
    received,       \* and how much it has read
    attempts,       \* endpoints in the order they were probed
    failures,       \* endpoints whose probe failed
    successful,     \* [endpoint, rate] of those that did not
    result          \* what the call returned or threw

netVars   == <<sockets, arrived, replies>>
probeVars == <<current, probe, received, attempts, failures, successful>>
vars == <<caller, phase, sockets, arrived, replies, candidates, current, probe, received, attempts,
          failures, successful, result>>

Callers == {"discover", "select_fastest", "connect_fastest", "run_send"}
Pending == [is |-> "pending"]

-----------------------------------------------------------------------------
\* add_target refuses an empty address.
TargetsOf(i) == { <<i.addr, d>> : d \in {i.broadcast, LimitedBroadcast} \ {NoAddress} }

\* enumerate_discovery_targets, duplicates removed: two targets for each
\* interface that is up, and loopback in any case.
Targets == (UNION { TargetsOf(i) : i \in { j \in Interfaces : j.up /\ j.addr # NoAddress } })
             \cup { <<Loopback, Loopback>> }

TargetBefore(s, t) == s[1] < t[1] \/ (s[1] = t[1] /\ s[2] < t[2])
TargetOrder == Ordered(Targets, TargetBefore)

\* parse_peer_advertisement: an advertisement in form, with two ports and a
\* number of streams in range.
Parses(d) ==
    /\ d.form = "advert"
    /\ d.transfer_port \in 1 .. MaxPort /\ d.probe_port \in 1 .. MaxPort
    /\ d.parallel_streams \in 1 .. WordSize - 1

\* deduplicate_candidates keeps the first of the valid replies with a key.
Key(d) == <<d.host, d.transfer_port, d.probe_port>>

\* Mutants: every reply is a candidate; a host is one candidate.
Repeated_Never(ds, i) == FALSE
Repeated_SameHost(ds, i) == \E j \in 1 .. i - 1 : Parses(ds[j]) /\ ds[j].host = ds[i].host

Repeated(ds, i) == \E j \in 1 .. i - 1 : Parses(ds[j]) /\ Key(ds[j]) = Key(ds[i])
deduplicate_candidates(ds) ==
    Pick(ds, { i \in 1 .. Len(ds) : Parses(ds[i]) /\ ~Repeated(ds, i) })

\* source_address_precedes: address, then transfer port, then probe port.
source_address_precedes(d, e) ==
    \/ d.host < e.host
    \/ d.host = e.host /\ d.transfer_port < e.transfer_port
    \/ d.host = e.host /\ d.transfer_port = e.transfer_port /\ d.probe_port < e.probe_port

\* Mutant: the slowest comes first.
Faster_Inverted(m, n) == m.rate < n.rate
Faster(m, n) == m.rate > n.rate

\* select_fastest_peer: the front of the sorted candidates.
Ahead(m, n) == Faster(m, n) \/ (m.rate = n.rate /\ source_address_precedes(m.peer, n.peer))
Fastest(measured) == CHOOSE m \in measured : \A n \in measured \ {m} : Ahead(m, n)

-----------------------------------------------------------------------------
Init ==
    /\ caller \in Callers
    /\ phase = "open"
    /\ sockets = <<>> /\ arrived = [t \in Targets |-> <<>>]
    /\ replies = <<>> /\ candidates = <<>>
    /\ current = 0 /\ probe = "idle" /\ received = 0
    /\ attempts = <<>> /\ failures = {} /\ successful = {}
    /\ result = Pending

Return(r) == phase' = "done" /\ result' = r

\* One socket per target; a target whose socket, bind or sendto fails is
\* skipped.  With no socket left the loop of receives is not entered.
OpenSockets ==
    /\ phase = "open"
    /\ \E usable \in SUBSET Targets :
         /\ sockets' = Pick(TargetOrder, { n \in 1 .. Cardinality(Targets) : TargetOrder[n] \in usable })
         /\ phase' = IF usable = {} THEN "rank" ELSE "collect"
    /\ UNCHANGED <<caller, arrived, replies, candidates, probeVars, result>>

Arrivals == Len(replies) + FoldSet(LAMBDA t, n : n + Len(arrived[t]), 0, Targets)

\* A datagram reaches one of the sockets.
Arrive(t, d) ==
    /\ phase = "collect" /\ Arrivals < MaxArrivals
    /\ \E n \in 1 .. Len(sockets) : sockets[n] = t
    /\ arrived' = [arrived EXCEPT ![t] = Append(@, d)]
    /\ UNCHANGED <<caller, phase, sockets, replies, candidates, probeVars, result>>

\* select finds sockets with data, and one datagram is read from each, in
\* order; those above the size limit are dropped.
Collect ==
    LET ready == { n \in 1 .. Len(sockets) : arrived[sockets[n]] # <<>> }
        read  == { n \in ready : Head(arrived[sockets[n]]).form # "oversized" }
        from  == Pick(sockets, read)
    IN
    /\ phase = "collect" /\ ready # {}
    /\ replies' = replies \o [n \in 1 .. Cardinality(read) |-> Head(arrived[from[n]])]
    /\ arrived' = [t \in Targets |-> IF arrived[t] # <<>> THEN Tail(arrived[t]) ELSE <<>>]
    /\ UNCHANGED <<caller, phase, sockets, candidates, probeVars, result>>

\* The deadline passes, or select fails, whatever is still waiting.
Deadline ==
    /\ phase = "collect"
    /\ phase' = "rank"
    /\ UNCHANGED <<caller, netVars, candidates, probeVars, result>>

\* rank_candidates up to its loop; discover returns the candidates instead.
Rank ==
    LET found == deduplicate_candidates(replies) IN
    /\ phase = "rank"
    /\ candidates' = found
    /\ \/ found = <<>> /\ Return([is |-> "none_discovered"]) /\ UNCHANGED current
       \/ found # <<>> /\ caller = "discover" /\ Return([is |-> "peers"]) /\ UNCHANGED current
       \/ found # <<>> /\ caller # "discover" /\ phase' = "probe" /\ current' = 1
          /\ UNCHANGED result
    /\ UNCHANGED <<caller, netVars, probe, received, attempts, failures, successful>>

-----------------------------------------------------------------------------
(***************************************************************************)
(* probe_tcp_receive, for each candidate in turn.                          *)
(***************************************************************************)
Peer == candidates[current]

Probing(state) == phase = "probe" /\ current <= Len(candidates) /\ probe = state

ProbeStart ==
    /\ Probing("idle")
    /\ probe' = "connecting" /\ received' = 0
    /\ attempts' = Append(attempts, Key(Peer))
    /\ UNCHANGED <<caller, phase, netVars, candidates, current, failures, successful, result>>

ProbeConnect ==
    /\ Probing("connecting")
    /\ probe' = "reading"
    /\ UNCHANGED <<caller, phase, netVars, candidates, current, received, attempts, failures,
                   successful, result>>

\* Mutant: the last read is not cut to what is left of the payload.
ProbeRead_Beyond ==
    /\ Probing("reading") /\ received <= Payload
    /\ received' = received + 1
    /\ UNCHANGED <<caller, phase, netVars, candidates, current, probe, attempts, failures,
                   successful, result>>

ProbeRead ==
    /\ Probing("reading") /\ received < Payload
    /\ received' = received + 1
    /\ UNCHANGED <<caller, phase, netVars, candidates, current, probe, attempts, failures,
                   successful, result>>

NextCandidate == current' = current + 1 /\ probe' = "idle"

Succeeds ==
    /\ \E rate \in Rates : successful' = successful \cup { [peer |-> Peer, rate |-> rate] }
    /\ UNCHANGED failures
Fails == failures' = failures \cup {Key(Peer)} /\ UNCHANGED successful

ProbeWhole ==
    /\ Probing("reading") /\ received = Payload
    /\ Succeeds /\ NextCandidate
    /\ UNCHANGED <<caller, phase, netVars, candidates, received, attempts, result>>

\* The responder closes: what was read until then counts, if anything was.
ProbeEof ==
    /\ Probing("reading") /\ received < Payload
    /\ (IF received > 0 THEN Succeeds ELSE Fails) /\ NextCandidate
    /\ UNCHANGED <<caller, phase, netVars, candidates, received, attempts, result>>

ProbeError ==
    /\ Probing("connecting") \/ (Probing("reading") /\ received < Payload)
    /\ Fails /\ NextCandidate
    /\ UNCHANGED <<caller, phase, netVars, candidates, received, attempts, result>>

\* Mutant: only the connection has a deadline.
ProbeTimeout_ConnectOnly ==
    /\ Probing("connecting")
    /\ Fails /\ NextCandidate
    /\ UNCHANGED <<caller, phase, netVars, candidates, received, attempts, result>>

\* wait_for_socket throws at the deadline, also when some of the payload was
\* read.
ProbeTimeout ==
    /\ Probing("connecting") \/ (Probing("reading") /\ received < Payload)
    /\ Fails /\ NextCandidate
    /\ UNCHANGED <<caller, phase, netVars, candidates, received, attempts, result>>

-----------------------------------------------------------------------------
\* run_send refuses a peer whose streams do not fit above its port; the
\* others return the peer, connect_fastest as a transport for its endpoint.
\* The mutant does not check the range.
Delivered_Unchecked(m) == [is |-> "peer", peer |-> m.peer, rate |-> m.rate]
Delivered(m) ==
    IF caller = "run_send" /\ ~PortsAccepted(m.peer.transfer_port, m.peer.parallel_streams)
      THEN [is |-> "ports_exceed"]
      ELSE [is |-> "peer", peer |-> m.peer, rate |-> m.rate]

Finish ==
    /\ phase = "probe" /\ current > Len(candidates)
    /\ Return(IF successful = {} THEN [is |-> "all_failed"] ELSE Delivered(Fastest(successful)))
    /\ UNCHANGED <<caller, netVars, candidates, probeVars>>

Step == OpenSockets \/ Rank \/ ProbeStart \/ ProbeWhole \/ Finish

Next ==
    \/ Step \/ Collect \/ Deadline
    \/ ProbeConnect \/ ProbeRead \/ ProbeEof \/ ProbeError \/ ProbeTimeout
    \/ \E t \in Targets, d \in Datagrams : Arrive(t, d)

Spec == Init /\ [][Next]_vars

\* The thread runs and both deadlines come; nobody promises to answer.
FairSpec == Spec /\ WF_vars(Step) /\ WF_vars(Deadline) /\ WF_vars(ProbeTimeout)

-----------------------------------------------------------------------------
Endpoints == { Key(d) : d \in { e \in Datagrams : Parses(e) } }
Results == {Pending, [is |-> "none_discovered"], [is |-> "peers"], [is |-> "all_failed"],
            [is |-> "ports_exceed"]}
             \cup [is : {"peer"}, peer : Datagrams, rate : Rates]

\* The variables have their types.
TypeOK ==
    /\ caller \in Callers /\ phase \in {"open", "collect", "rank", "probe", "done"}
    /\ sockets \in Seq(Targets) /\ arrived \in [Targets -> Seq(Datagrams)]
    /\ replies \in Seq(Datagrams) /\ candidates \in Seq(Datagrams)
    /\ current \in 0 .. Len(candidates) + 1
    /\ probe \in {"idle", "connecting", "reading"} /\ received \in 0 .. Payload
    /\ attempts \in Seq(Endpoints) /\ failures \subseteq Endpoints
    /\ successful \subseteq [peer : Datagrams, rate : Rates]
    /\ result \in Results

\* What the call heard: the endpoints in valid replies that it read.
Heard == { <<replies[i].host, replies[i].transfer_port, replies[i].probe_port>> :
             i \in { j \in 1 .. Len(replies) : Parses(replies[j]) } }

EndpointOf(m) == <<m.peer.host, m.peer.transfer_port, m.peer.probe_port>>

\* The peer that select_fastest returns was heard, and every other endpoint
\* that was heard, in whichever order and however often, was probed and
\* either failed or was slower, or as fast with a later address, transfer
\* port or probe port.
SelectedIsFastest ==
    result.is = "peer" =>
        /\ EndpointOf(result) \in Heard
        /\ \A e \in Heard \ ({EndpointOf(result)} \cup failures) :
             \E m \in successful :
               /\ EndpointOf(m) = e
               /\ \/ result.rate > m.rate
                  \/ result.rate = m.rate /\ source_address_precedes(result.peer, m.peer)

\* "no Hyperlink peer discovered" means that no valid reply was read, and
\* "all Hyperlink peer probes failed" that there was one and that each
\* endpoint in them was probed and failed.
ErrorsTellApart ==
    /\ result.is = "none_discovered" => Heard = {}
    /\ result.is = "all_failed" => Heard # {} /\ failures = Heard

\* No endpoint is probed twice, although most receivers answer on several
\* targets.
ProbedOnce ==
    \A i, j \in 1 .. Len(attempts) : i # j => attempts[i] # attempts[j]

\* The ports that run_send connects to are the ones after the advertised
\* port: the narrowing to 16 bits changes none of them, whatever number of
\* streams the datagram says.
StreamsFollowPort ==
    result.is = "peer" /\ caller = "run_send" =>
        \A s \in 0 .. result.peer.parallel_streams - 1 :
            StreamPort(result.peer.transfer_port, s) = result.peer.transfer_port + s

\* The call returns or throws, whatever arrives, when peers accept a probe
\* and then say nothing, too.
CallReturns == <>(phase = "done")
=============================================================================
