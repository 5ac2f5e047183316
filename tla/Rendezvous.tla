----------------------------- MODULE Rendezvous -----------------------------
(***************************************************************************)
(* How "send --auto" and "receive" find each other, which takes the        *)
(* responder, the discovery and the transfer together.  run_receive starts *)
(* the responder first, then the listeners of its streams, and advertises  *)
(* until it returns; its user may stop it and start it again with other    *)
(* ports and another number of streams.  A sender takes the ports and the  *)
(* number from an advertisement, probes the receiver and connects its      *)
(* streams: by numbers that may be out of date by then.                    *)
(*                                                                         *)
(* What goes over a connection is left to Responder and FileTransfer: here *)
(* a sender's thread comes to its end sooner or later once its connection  *)
(* is served, as FileTransfer has it, and a receiver's thread when the     *)
(* connection it serves was closed.  It waits in a recv without a timeout  *)
(* until then, for ever when the link is lost.                             *)
(***************************************************************************)
EXTENDS PortLayout, Sequences, FiniteSetsExt

CONSTANTS
    Senders,
    Settings,   \* the receiver's [port, parallel], as its user may choose them
    ProbePort,  \* the default of PeerDiscoveryResponderOptions::probe_port
    MaxStarts   \* bound on how often the receiver is started

Streams == 0 .. Max({ c.parallel : c \in Settings }) - 1

ASSUME SettingsAssumption ==
    \A c \in Settings : c.port \in 1 .. MaxPort /\ c.parallel \in Nat \ {0}
                        /\ PortsAccepted(c.port, c.parallel)

ASSUME ProbePortAssumption == ProbePort \in 1 .. MaxPort

VARIABLES
    receiver,   \* "off" or "run": the receiver's main thread
    starts,     \* how often it was started
    settings,   \* its --port and --parallel
    thread,     \* thread[s]: "none", "listen", "busy", "ended"
    queue,      \* queue[s]: connections that wait for accept
    peer,       \* peer[s]: the connection that thread s accepted
    pc,         \* pc[a]: where sender a is
    ad,         \* ad[a]: the advertisement it acts on
    stream,     \* stream[a][s]: its connection s: "none", "open", "closed", "refused"
    linkUp      \* the hosts reach each other

recvVars == <<receiver, starts, settings, thread, queue, peer>>
sendVars == <<pc, ad, stream>>
vars == <<receiver, starts, settings, thread, queue, peer, pc, ad, stream, linkUp>>

NoAd      == [start |-> 0, port |-> 0, parallel |-> 0, probe |-> 0]
ForProbe  == -1     \* a probe connection, among the numbers of streams
NoPeer    == [from |-> "nobody", as |-> ForProbe]
Conn(a, s) == [from |-> a, as |-> s]

Idle(f) == [s \in Streams |-> f]

Init ==
    /\ receiver = "off" /\ starts = 0 /\ settings \in Settings
    /\ thread = Idle("none") /\ queue = Idle(<<>>) /\ peer = Idle(NoPeer)
    /\ pc = [a \in Senders |-> "start"]
    /\ ad = [a \in Senders |-> NoAd]
    /\ stream = [a \in Senders |-> Idle("none")]
    /\ linkUp = TRUE

Used == 0 .. settings.parallel - 1

-----------------------------------------------------------------------------
(***************************************************************************)
(* run_receive.                                                            *)
(***************************************************************************)
Probing == SelectedProbePort(ProbePort, settings.port, settings.parallel)

\* The responder is started; if that fails the program ends.
StartReceiver(c) ==
    /\ receiver = "off" /\ starts < MaxStarts
    /\ settings' = c /\ starts' = starts + 1
    /\ receiver' = IF SelectedProbePort(ProbePort, c.port, c.parallel) = NoPort THEN "off" ELSE "run"
    /\ thread' = Idle("none") /\ queue' = Idle(<<>>) /\ peer' = Idle(NoPeer)
    /\ UNCHANGED <<sendVars, linkUp>>

\* The threads open their listeners one by one, while the responder is
\* answering already.
Listen(s) ==
    /\ receiver = "run" /\ s \in Used /\ thread[s] = "none"
    /\ thread' = [thread EXCEPT ![s] = "listen"]
    /\ UNCHANGED <<receiver, starts, settings, queue, peer, sendVars, linkUp>>

\* Whoever connected first.
Accept(s) ==
    /\ thread[s] = "listen" /\ queue[s] # <<>>
    /\ thread' = [thread EXCEPT ![s] = "busy"]
    /\ peer' = [peer EXCEPT ![s] = Head(queue[s])]
    /\ queue' = [queue EXCEPT ![s] = Tail(@)]
    /\ UNCHANGED <<receiver, starts, settings, sendVars, linkUp>>

\* The sender's end of a connection is closed; a probe that ended up at a
\* stream's listener is given up.
Closed(c) == c.as # ForProbe => stream[c.from][c.as] = "closed"

\* The others in the queue are reset.
ThreadEnds(s) ==
    /\ thread' = [thread EXCEPT ![s] = "ended"]
    /\ queue' = [queue EXCEPT ![s] = <<>>]
    /\ peer' = [peer EXCEPT ![s] = NoPeer]
    /\ UNCHANGED <<receiver, starts, settings, sendVars, linkUp>>

\* recv returns the end of the connection, after a part of a file or after
\* nothing.
EndThread(s) ==
    /\ thread[s] = "busy" /\ linkUp /\ Closed(peer[s])
    /\ ThreadEnds(s)

\* The thread fails: its port is taken, what it receives does not fit, the
\* disk is full.  The others are not told.
FailThread(s) ==
    /\ receiver = "run" /\ s \in Used /\ thread[s] # "ended"
    /\ ThreadEnds(s)

\* The threads are joined, the responder is stopped by its destructor.
Return ==
    /\ receiver = "run" /\ \A s \in Used : thread[s] = "ended"
    /\ receiver' = "off" /\ thread' = Idle("ended")
    /\ UNCHANGED <<starts, settings, queue, peer, sendVars, linkUp>>

\* The user stops the program.
KillReceiver ==
    /\ receiver = "run"
    /\ receiver' = "off" /\ thread' = Idle("ended") /\ queue' = Idle(<<>>) /\ peer' = Idle(NoPeer)
    /\ UNCHANGED <<starts, settings, sendVars, linkUp>>

-----------------------------------------------------------------------------
(***************************************************************************)
(* run_send --auto.                                                        *)
(***************************************************************************)
\* Mutant: the number of streams stays what the command line said.
Advertised_OneStream ==
    [start |-> starts, port |-> settings.port, parallel |-> 1, probe |-> Probing]

\* The advertisement; effective_options takes port and parallel from it.
Advertised ==
    [start |-> starts, port |-> settings.port, parallel |-> settings.parallel, probe |-> Probing]

Discover(a) ==
    /\ pc[a] = "start"
    /\ \/ /\ receiver = "run" /\ linkUp
          /\ ad' = [ad EXCEPT ![a] = Advertised]
          /\ pc' = [pc EXCEPT ![a] = "found"]
       \/ pc' = [pc EXCEPT ![a] = "error"] /\ UNCHANGED ad
    /\ UNCHANGED <<recvVars, stream, linkUp>>

\* The threads whose listener a connection to a port gets to.
Behind(p) == { s \in Used : /\ receiver = "run" /\ linkUp /\ thread[s] \in {"listen", "busy"}
                            /\ StreamPort(settings.port, s) = p }

ProbeBehind(p) == receiver = "run" /\ linkUp /\ Probing = p

\* probe_tcp_receive connects to the advertised port.  If that is not, or no
\* more, the responder's probe, the connection is refused, or waits at a
\* stream's listener for bytes that will not come.
ConnectProbe(a) ==
    /\ pc[a] = "found"
    /\ \/ ProbeBehind(ad[a].probe) /\ pc' = [pc EXCEPT ![a] = "selected"] /\ UNCHANGED queue
       \/ /\ \E s \in Behind(ad[a].probe) :
               queue' = [queue EXCEPT ![s] = Append(@, Conn(a, ForProbe))]
          /\ pc' = [pc EXCEPT ![a] = "error"]
       \/ pc' = [pc EXCEPT ![a] = "error"] /\ UNCHANGED queue
    /\ UNCHANGED <<receiver, starts, settings, thread, peer, ad, stream, linkUp>>

\* A stream connects to what is at its port now: a listener of the receiver
\* or its probe, if it does not find the port closed.
ConnectStream(a, s) ==
    /\ pc[a] = "selected" /\ s < ad[a].parallel /\ stream[a][s] = "none"
    /\ LET p == StreamPort(ad[a].port, s)
           result == IF Behind(p) # {} \/ ProbeBehind(p) THEN "open" ELSE "refused" IN
       /\ stream' = [stream EXCEPT ![a][s] = result]
       /\ queue' = [t \in Streams |-> IF t \in Behind(p) THEN Append(queue[t], Conn(a, s)) ELSE queue[t]]
    /\ UNCHANGED <<receiver, starts, settings, thread, peer, pc, ad, linkUp>>

\* The thread of a stream ends and closes its connection: it has sent its
\* part, which may be on its way yet, or failed.
CloseStream(a, s) ==
    /\ stream[a][s] = "open"
    /\ stream' = [stream EXCEPT ![a][s] = "closed"]
    /\ UNCHANGED <<recvVars, pc, ad, linkUp>>

\* The threads are joined.  Success needs all connections, but no word from
\* the receiver; an error may come before they are made, and the user may stop
\* the program, which closes those it has.
EndSend(a) ==
    /\ pc[a] = "selected"
    /\ \/ /\ \A s \in Streams : stream[a][s] # "open"
          /\ pc' = [pc EXCEPT ![a] = "error"]
       \/ /\ \A s \in 0 .. ad[a].parallel - 1 : stream[a][s] = "closed"
          /\ pc' = [pc EXCEPT ![a] = "ok"]
    /\ UNCHANGED <<recvVars, ad, stream, linkUp>>

\* From here on nothing gets from one host to the other, and neither is told.
LoseLink ==
    /\ linkUp /\ linkUp' = FALSE
    /\ UNCHANGED <<recvVars, sendVars>>

-----------------------------------------------------------------------------
ReceiverStep == Return \/ \E s \in Streams : Listen(s) \/ Accept(s) \/ EndThread(s)

SenderStep(a) ==
    \/ Discover(a) \/ ConnectProbe(a) \/ EndSend(a)
    \/ \E s \in Streams : ConnectStream(a, s) \/ CloseStream(a, s)

Next ==
    \/ ReceiverStep \/ KillReceiver \/ LoseLink
    \/ \E c \in Settings : StartReceiver(c)
    \/ \E s \in Streams : FailThread(s)
    \/ \E a \in Senders : SenderStep(a)

Spec == Init /\ [][Next]_vars

\* A thread of the receiver reads what is sent on connection s of sender a.
Served(a, s) == receiver = "run" /\ \E t \in Used : thread[t] = "busy" /\ peer[t] = Conn(a, s)

\* The threads go on, the receiver's and those of a sender that are served
\* while the link is up.  Nobody has to send or to stop a program, a sender
\* whose connection waits in a queue may be kept there, and what may fail
\* need not.
FairSpec ==
    /\ Spec
    /\ WF_vars(Return)
    /\ \A s \in Streams : WF_vars(Listen(s)) /\ WF_vars(Accept(s)) /\ WF_vars(EndThread(s))
    /\ \A a \in Senders, s \in Streams :
         WF_vars(linkUp /\ Served(a, s) /\ CloseStream(a, s))
-----------------------------------------------------------------------------
\* The advertisement a sender acts on is the running receiver's own.
Fresh(a) == receiver = "run" /\ ad[a].start = starts

\* As long as the receiver is not started anew, every connection goes where
\* it is meant to: no probe is taken for a stream, whose thread would end
\* without an error when it closes; stream s is taken by thread s or waits for
\* it; and no stream is taken for a probe.
FreshConnectionsArrive ==
    /\ \A s \in Streams :
         peer[s] # NoPeer /\ Fresh(peer[s].from) => peer[s].as = s
    /\ \A a \in Senders, s \in Streams :
         Fresh(a) /\ stream[a][s] \in {"open", "closed"} =>
             \/ thread[s] = "ended"
             \/ peer[s] = Conn(a, s)
             \/ \E i \in 1 .. Len(queue[s]) : queue[s][i] = Conn(a, s)

\* A receiver does not wait for ever for a stream that will not come once a
\* sender that found it by its advertisement has succeeded: number and ports
\* of the streams agree, and every thread gets a connection, this sender's
\* or one that was there before it, be it a probe that went astray.  Without
\* a link the receiver is not told and may wait for ever.
AutoSendLetsReceiverReturn ==
    \A a \in Senders, n \in 1 .. MaxStarts :
        pc[a] = "ok" /\ ad[a].start = n /\ starts = n /\ receiver = "run"
            ~> receiver = "off" \/ starts # n \/ ~linkUp
=============================================================================
