------------------------------ MODULE Session ------------------------------
(***************************************************************************)
(* Session objects and the transport each of them owns, a TcpTransport or  *)
(* a LibusbTransport, as a program uses them: made, connected, moved,      *)
(* closed and destroyed in any order, by threads that work on different    *)
(* sessions.                                                               *)
(*                                                                         *)
(* A slot is a place for a Session object: a variable of the program.  All *)
(* server transports are given the same port, which is where they can get  *)
(* in each other's way.  File descriptors are reused, lowest first, so     *)
(* that a descriptor that is closed twice may be somebody else's by then.  *)
(***************************************************************************)
EXTENDS Integers, FiniteSets

CONSTANTS
    Slots,          \* places for Session objects
    Transports,     \* transport objects that can be made
    MaxFds,         \* descriptors the process may have open
    Null            \* a unique_ptr that owns nothing

ASSUME SessionAssumption == MaxFds \in Nat \ {0} /\ Null \notin Transports

Fds  == 1 .. MaxFds
NoFd == 0           \* kInvalidSocket

VARIABLES
    alive,          \* the slots that hold a constructed object
    transport_,     \* transport_[i]: what slot i owns
    connected_,     \* connected_[i]
    mode_,          \* mode_[t]: "Client", "Server", "Usb", or "unmade"
    data_socket_,   \* data_socket_[t]
    listen_socket_, \* listen_socket_[t]
    accepting,      \* the slots whose thread is inside accept
    open,           \* descriptors that are open, in the kernel
    bound,          \* those of them that listen on the port
    contexts,       \* transports whose libusb context is initialised
    outcome         \* what the last call of send, receive or connect did

session == <<alive, transport_, connected_>>
sockets == <<data_socket_, listen_socket_, open, bound>>
vars    == <<alive, transport_, connected_, mode_, data_socket_, listen_socket_, accepting,
             open, bound, contexts, outcome>>

Init ==
    /\ alive = {}
    /\ transport_ = [i \in Slots |-> Null]
    /\ connected_ = [i \in Slots |-> FALSE]
    /\ mode_ = [t \in Transports |-> "unmade"]
    /\ data_socket_ = [t \in Transports |-> NoFd]
    /\ listen_socket_ = [t \in Transports |-> NoFd]
    /\ accepting = {}
    /\ open = {} /\ bound = {} /\ contexts = {}
    /\ outcome = "ok"

-----------------------------------------------------------------------------
\* A thread is free to use slot i: the object exists, no other call on it is
\* in progress and the process has not crashed.
Usable(i) == i \in alive /\ i \notin accepting /\ outcome # "crash"
Empty(i)  == i \notin alive /\ outcome # "crash"

\* The kernel hands out the lowest free descriptor.
FreeFds == Fds \ open
NewFd   == CHOOSE f \in FreeFds : \A g \in FreeFds : f <= g

Closed(fds)   == /\ open' = open \ fds
                 /\ bound' = bound \ fds
\* SocketHandle::operator=: the handle's old socket is closed, after the new
\* one was made.  Mutants: the old one is forgotten; the temporary keeps the
\* new one and closes it.
Replaced_Leaks(old, new)      == open' = open \cup {new}
Replaced_NoExchange(old, new) == open' = open \ {old, new}
Replaced(old, new)       == open' = (open \ {old}) \cup {new}

\* close and the destructors reset both handles of a transport.
Handles(t) == IF t = Null THEN {} ELSE {data_socket_[t], listen_socket_[t]}

Reset(t) ==
    /\ Closed(Handles(t))
    /\ data_socket_' = [u \in Transports |-> IF u = t THEN NoFd ELSE data_socket_[u]]
    /\ listen_socket_' = [u \in Transports |-> IF u = t THEN NoFd ELSE listen_socket_[u]]

\* A transport is destroyed; close() does not end a libusb context, this does.
Destroyed(t) == Reset(t) /\ contexts' = contexts \ {t}

-----------------------------------------------------------------------------
\* make_tcp_client_transport, make_tcp_server_transport or
\* make_libusb_transport, and the Session constructor around it.
Make(i, t, m) ==
    /\ Empty(i) /\ mode_[t] = "unmade"
    /\ mode_' = [mode_ EXCEPT ![t] = m]
    /\ alive' = alive \cup {i}
    /\ transport_' = [transport_ EXCEPT ![i] = t]
    /\ connected_' = [connected_ EXCEPT ![i] = FALSE]
    /\ contexts' = IF m = "Usb" THEN contexts \cup {t} ELSE contexts
    /\ UNCHANGED <<sockets, accepting, outcome>>

\* libusb_init fails, or the library was built without libusb: the factory
\* throws and there is no object.
MakeFail(i) ==
    /\ Empty(i)
    /\ outcome' = "error"
    /\ UNCHANGED <<session, sockets, mode_, accepting, contexts>>

\* TcpTransport::connect in client mode, then connected_ = true.
ConnectClient(i) ==
    LET t == transport_[i] IN
    /\ Usable(i) /\ t # Null /\ mode_[t] = "Client" /\ FreeFds # {}
    /\ Replaced(data_socket_[t], NewFd)
    /\ data_socket_' = [data_socket_ EXCEPT ![t] = NewFd]
    /\ connected_' = [connected_ EXCEPT ![i] = TRUE]
    /\ outcome' = "ok"
    /\ UNCHANGED <<alive, transport_, mode_, listen_socket_, bound, accepting, contexts>>

\* negotiate, connect_socket or listen_socket throws, and connect of a
\* LibusbTransport always does: nothing was assigned.
ConnectFail(i) ==
    /\ Usable(i) /\ transport_[i] # Null
    /\ outcome' = "error"
    /\ UNCHANGED <<session, sockets, mode_, accepting, contexts>>

\* Server mode: listen_socket_ is assigned, then the thread blocks in accept.
\* A second listener on the port is refused by bind.
Listen(i) ==
    LET t == transport_[i] IN
    /\ Usable(i) /\ t # Null /\ mode_[t] = "Server" /\ FreeFds # {}
    /\ bound = {}
    /\ Replaced(listen_socket_[t], NewFd)
    /\ bound' = bound \cup {NewFd}
    /\ listen_socket_' = [listen_socket_ EXCEPT ![t] = NewFd]
    /\ accepting' = accepting \cup {i}
    /\ UNCHANGED <<session, mode_, data_socket_, contexts, outcome>>

Accept(i) ==
    LET t == transport_[i] IN
    /\ i \in accepting /\ outcome # "crash" /\ FreeFds # {}
    /\ Replaced(data_socket_[t], NewFd)
    /\ data_socket_' = [data_socket_ EXCEPT ![t] = NewFd]
    /\ connected_' = [connected_ EXCEPT ![i] = TRUE]
    /\ accepting' = accepting \ {i}
    /\ outcome' = "ok"
    /\ UNCHANGED <<alive, transport_, mode_, listen_socket_, bound, contexts>>

\* "accept failed": the listener stays open in listen_socket_.
AcceptFail(i) ==
    /\ i \in accepting /\ outcome # "crash"
    /\ accepting' = accepting \ {i}
    /\ outcome' = "error"
    /\ UNCHANGED <<session, sockets, mode_, contexts>>

\* send, receive and receive_into.  Both layers refuse when they are not
\* connected; a session that believes it is but has no transport calls
\* through a null pointer.
Transfer(i) ==
    /\ Usable(i)
    /\ \/ ~connected_[i] /\ outcome' = "not_connected"
       \/ connected_[i] /\ transport_[i] = Null /\ outcome' = "crash"
       \/ /\ connected_[i] /\ transport_[i] # Null
          /\ IF data_socket_[transport_[i]] = NoFd
               THEN outcome' = "not_connected"
               ELSE outcome' \in {"ok", "error"}
    /\ UNCHANGED <<session, sockets, mode_, accepting, contexts>>

\* Session::close does nothing for a session that is not connected.
MustClose(i) == transport_[i] # Null /\ connected_[i]

Close(i) ==
    /\ Usable(i)
    /\ IF MustClose(i)
         THEN /\ Reset(transport_[i])
              /\ connected_' = [connected_ EXCEPT ![i] = FALSE]
         ELSE UNCHANGED <<sockets, connected_>>
    /\ UNCHANGED <<alive, transport_, mode_, accepting, contexts, outcome>>

\* Session(Session&&) = default: transport_ moves, connected_ is copied.
MoveConstruct(i, j) ==
    /\ Usable(i) /\ Empty(j)
    /\ alive' = alive \cup {j}
    /\ transport_' = [transport_ EXCEPT ![j] = transport_[i], ![i] = Null]
    /\ connected_' = [connected_ EXCEPT ![j] = connected_[i]]
    /\ UNCHANGED <<sockets, mode_, accepting, contexts, outcome>>

\* Mutant: the target keeps its own flag.
MoveAssign_KeepsFlag(i, j) ==
    /\ Usable(i) /\ Usable(j) /\ i # j
    /\ Destroyed(transport_[j])
    /\ transport_' = [transport_ EXCEPT ![j] = transport_[i], ![i] = Null]
    /\ connected_' = [connected_ EXCEPT ![j] = FALSE, ![i] = FALSE]
    /\ UNCHANGED <<alive, mode_, accepting, outcome>>

\* operator=(Session&&): the target closes; its old transport, connected or
\* not, is destroyed, which closes both its sockets.
MoveAssign(i, j) ==
    /\ Usable(i) /\ Usable(j) /\ i # j
    /\ Destroyed(transport_[j])
    /\ transport_' = [transport_ EXCEPT ![j] = transport_[i], ![i] = Null]
    /\ connected_' = [connected_ EXCEPT ![j] = connected_[i], ![i] = FALSE]
    /\ UNCHANGED <<alive, mode_, accepting, outcome>>

\* ~Session closes, then the transport goes and its handles with it.
Destroy(i) ==
    /\ Usable(i)
    /\ alive' = alive \ {i}
    /\ Destroyed(transport_[i])
    /\ transport_' = [transport_ EXCEPT ![i] = Null]
    /\ connected_' = [connected_ EXCEPT ![i] = FALSE]
    /\ UNCHANGED <<mode_, accepting, outcome>>

Next ==
    \/ \E i \in Slots :
        \/ \E t \in Transports, m \in {"Client", "Server", "Usb"} : Make(i, t, m)
        \/ MakeFail(i) \/ ConnectClient(i) \/ ConnectFail(i) \/ Listen(i) \/ Accept(i) \/ AcceptFail(i)
        \/ Transfer(i) \/ Close(i) \/ Destroy(i)
    \/ \E i, j \in Slots : MoveConstruct(i, j) \/ MoveAssign(i, j)

Spec == Init /\ [][Next]_vars

-----------------------------------------------------------------------------
\* The variables have their types.
TypeOK ==
    /\ alive \subseteq Slots /\ accepting \subseteq alive
    /\ transport_ \in [Slots -> Transports \cup {Null}]
    /\ connected_ \in [Slots -> BOOLEAN]
    /\ mode_ \in [Transports -> {"unmade", "Client", "Server", "Usb"}]
    /\ data_socket_ \in [Transports -> Fds \cup {NoFd}]
    /\ listen_socket_ \in [Transports -> Fds \cup {NoFd}]
    /\ open \subseteq Fds /\ bound \subseteq open /\ contexts \subseteq Transports
    /\ outcome \in {"ok", "error", "not_connected", "crash"}

Owned == { transport_[i] : i \in alive } \ {Null}

\* No descriptor leaks and none is closed twice: the open descriptors are
\* exactly the valid handles of transports that a session owns, every such
\* handle has a descriptor of its own, no two sessions own a transport, and
\* a libusb context lives as long as a session has its transport.
SocketsOwned ==
    /\ open = (UNION { {data_socket_[t], listen_socket_[t]} : t \in Owned }) \ {NoFd}
    /\ \A t \in Owned : data_socket_[t] # NoFd => data_socket_[t] # listen_socket_[t]
    /\ \A t, u \in Owned : t # u =>
         {data_socket_[t], listen_socket_[t]} \cap {data_socket_[u], listen_socket_[u]} \subseteq {NoFd}
    /\ \A i, j \in alive : i # j /\ transport_[i] # Null => transport_[i] # transport_[j]
    /\ contexts = { t \in Owned : mode_[t] = "Usb" }

\* A session says that it is connected exactly while its transport has a
\* data socket, through failed and repeated connects, closes and moves.
ConnectedMeansSocket ==
    \A i \in alive : transport_[i] # Null =>
        (connected_[i] <=> data_socket_[transport_[i]] # NoFd)
=============================================================================
