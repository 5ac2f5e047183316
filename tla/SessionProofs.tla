--------------------------- MODULE SessionProofs ---------------------------
(***************************************************************************)
(* Proofs about Session for any number of session objects, transports and  *)
(* descriptors.                                                            *)
(***************************************************************************)
EXTENDS Session, WellFoundedInduction, TLAPS

(***************************************************************************)
(* The inductive invariant, in parts.                                      *)
(***************************************************************************)
\* The open descriptors are the handles of the transports, each transport's
\* handles are its own, and no data socket is a listener of the port.
HandleInv ==
    /\ \A f \in Fds : f \in open <=>
         \E t \in Transports : data_socket_[t] = f \/ listen_socket_[t] = f
    /\ \A t \in Transports : data_socket_[t] # NoFd => data_socket_[t] # listen_socket_[t]
    /\ \A t, u \in Transports : t # u /\ data_socket_[t] # NoFd =>
         data_socket_[t] # data_socket_[u] /\ data_socket_[t] # listen_socket_[u]
    /\ \A t, u \in Transports : t # u /\ listen_socket_[t] # NoFd =>
         listen_socket_[t] # listen_socket_[u]
    /\ \A t \in Transports : data_socket_[t] \notin bound

\* A transport is owned by one object, which is alive; while a thread waits in
\* accept its session keeps the transport; a transport is made before it is
\* owned, and one that nobody owns has no socket.
OwnerInv ==
    /\ \A i, j \in Slots : i # j /\ transport_[i] # Null => transport_[i] # transport_[j]
    /\ \A i \in Slots : transport_[i] # Null => i \in alive /\ mode_[transport_[i]] # "unmade"
    /\ \A i \in accepting : transport_[i] # Null
    /\ \A t \in Transports : (\A i \in Slots : transport_[i] # t) =>
         data_socket_[t] = NoFd /\ listen_socket_[t] = NoFd

\* The libusb contexts are those of owned USB transports.
ContextInv ==
    \A t \in Transports : t \in contexts <=>
        mode_[t] = "Usb" /\ \E i \in Slots : transport_[i] = t

IInv == TypeOK /\ HandleInv /\ OwnerInv /\ ContextInv /\ ConnectedMeansSocket

-----------------------------------------------------------------------------
\* Every set of natural numbers but the empty one has a least element.
LEMMA LeastNat ==
  ASSUME NEW S, S \subseteq Nat, S # {}
  PROVE  \E m \in S : \A n \in S : m <= n
  <1>. DEFINE R == { p \in Nat \X Nat : p[1] < p[2] }
  <1>1. IsWellFoundedOn(R, Nat)
    BY NatLessThanWellFounded DEF OpToRel
  <1>2. PICK m \in S : \A n \in S : <<n, m>> \notin R
    <2>. HIDE DEF R
    <2>. QED
      BY <1>1, WFMin
  <1>3. \A n \in S : ~(n < m)
    BY <1>2
  <1>. QED
    BY <1>3

\* The kernel's new descriptor is a valid one that was not open.
LEMMA NewFdFree ==
  ASSUME FreeFds # {}
  PROVE  NewFd \in Fds /\ NewFd \notin open /\ NewFd # NoFd
  <1>1. FreeFds \subseteq Nat
    BY SessionAssumption DEF FreeFds, Fds
  <1>2. \E f \in FreeFds : \A g \in FreeFds : f <= g
    BY <1>1, LeastNat
  <1>3. NewFd \in FreeFds
    BY <1>2 DEF NewFd
  <1>. QED
    BY <1>3, SessionAssumption DEF FreeFds, Fds, NoFd

-----------------------------------------------------------------------------
\* The initial state: nothing is owned.
LEMMA InitInv == Init => IInv
  BY SessionAssumption
     DEF Init, IInv, TypeOK, HandleInv, OwnerInv, ContextInv, ConnectedMeansSocket, Fds, NoFd

\* A constructed session: its transport was never owned and has no sockets.
LEMMA MakeStep ==
  ASSUME IInv, NEW i \in Slots, NEW t \in Transports,
         NEW m \in {"Client", "Server", "Usb"}, Make(i, t, m)
  PROVE  IInv'
  <1>1. t # Null /\ \A j \in Slots : transport_[j] # t
    BY SessionAssumption DEF Make, IInv, OwnerInv
  <1>2. /\ transport_'[i] = t /\ mode_'[t] = m /\ connected_'[i] = FALSE
        /\ \A j \in Slots \ {i} : transport_'[j] = transport_[j] /\ connected_'[j] = connected_[j]
        /\ \A u \in Transports \ {t} : mode_'[u] = mode_[u]
    BY DEF Make, IInv, TypeOK
  <1>3. transport_[i] = Null
    BY DEF Make, Empty, IInv, OwnerInv
  <1>4. TypeOK'
    BY DEF Make, sockets, IInv, TypeOK
  <1>5. HandleInv'
    BY DEF Make, sockets, IInv, HandleInv
  <1>6. OwnerInv'
    <2>1. \A j, k \in Slots : j # k /\ transport_'[j] # Null => transport_'[j] # transport_'[k]
      BY <1>1, <1>2 DEF IInv, OwnerInv
    <2>2. \A j \in Slots : transport_'[j] # Null => j \in alive' /\ mode_'[transport_'[j]] # "unmade"
      BY <1>1, <1>2 DEF Make, IInv, OwnerInv, TypeOK
    <2>3. \A j \in accepting' : transport_'[j] # Null
      BY <1>1, <1>2 DEF Make, IInv, OwnerInv, TypeOK
    <2>4. \A u \in Transports : (\A j \in Slots : transport_'[j] # u) =>
            data_socket_'[u] = NoFd /\ listen_socket_'[u] = NoFd
      BY <1>2, <1>3, SessionAssumption DEF Make, sockets, IInv, OwnerInv
    <2>. QED
      BY <2>1, <2>2, <2>3, <2>4 DEF OwnerInv
  <1>7. ContextInv'
    <2>. SUFFICES ASSUME NEW u \in Transports
                  PROVE  u \in contexts' <=> mode_'[u] = "Usb" /\ \E j \in Slots : transport_'[j] = u
      BY DEF ContextInv
    <2>1. CASE u = t
      BY <2>1, <1>1, <1>2 DEF Make, IInv, ContextInv
    <2>2. CASE u # t
      <3>1. (\E j \in Slots : transport_'[j] = u) <=> (\E j \in Slots : transport_[j] = u)
        BY <2>2, <1>2, <1>3, SessionAssumption
      <3>. QED
        BY <2>2, <3>1, <1>2 DEF Make, IInv, ContextInv
    <2>. QED
      BY <2>1, <2>2
  <1>8. ConnectedMeansSocket'
    BY <1>1, <1>2 DEF Make, sockets, IInv, TypeOK, OwnerInv, ConnectedMeansSocket
  <1>. QED
    BY <1>4, <1>5, <1>6, <1>7, <1>8 DEF IInv

\* Steps that only say how a call ended.
LEMMA OutcomeStep ==
  ASSUME IInv, UNCHANGED <<session, sockets, mode_, accepting, contexts>>,
         outcome' \in {"ok", "error", "not_connected", "crash"}
  PROVE  IInv'
  BY DEF IInv, TypeOK, HandleInv, OwnerInv, ContextInv, ConnectedMeansSocket, session, sockets

\* A transport that a session owns gets a new data socket, and the old one is
\* closed: the end of connect on either side.
LEMMA DataStep ==
  ASSUME IInv, NEW i \in Slots, i \in alive, transport_[i] # Null, FreeFds # {},
         Replaced(data_socket_[transport_[i]], NewFd),
         data_socket_' = [data_socket_ EXCEPT ![transport_[i]] = NewFd],
         connected_' = [connected_ EXCEPT ![i] = TRUE],
         accepting' \subseteq accepting,
         outcome' = "ok",
         UNCHANGED <<alive, transport_, mode_, listen_socket_, bound, contexts>>
  PROVE  IInv'
  <1>. DEFINE t == transport_[i]
  <1>1. t \in Transports
    BY DEF IInv, TypeOK
  <1>2. NewFd \in Fds /\ NewFd \notin open /\ NewFd # NoFd
    BY NewFdFree
  <1>3. open' = (open \ {data_socket_[t]}) \cup {NewFd}
    BY DEF Replaced
  <1>4. data_socket_'[t] = NewFd /\ \A u \in Transports \ {t} : data_socket_'[u] = data_socket_[u]
    BY <1>1 DEF IInv, TypeOK
  <1>5. \A u \in Transports : data_socket_[u] # NewFd /\ listen_socket_[u] # NewFd
    BY <1>2 DEF IInv, HandleInv
  <1>. HIDE DEF t
  <1>6. TypeOK'
    BY <1>1, <1>2, <1>3 DEF IInv, TypeOK, HandleInv
  <1>7. HandleInv'
    <2>1. \A f \in Fds : f \in open' <=>
            \E u \in Transports : data_socket_'[u] = f \/ listen_socket_[u] = f
      BY <1>1, <1>2, <1>3, <1>4, <1>5 DEF IInv, HandleInv, TypeOK, NoFd, Fds
    <2>2. \A u \in Transports : data_socket_'[u] # NoFd => data_socket_'[u] # listen_socket_[u]
      BY <1>4, <1>5 DEF IInv, HandleInv
    <2>3. \A u, v \in Transports : u # v /\ data_socket_'[u] # NoFd =>
            data_socket_'[u] # data_socket_'[v] /\ data_socket_'[u] # listen_socket_[v]
      BY <1>4, <1>5 DEF IInv, HandleInv
    <2>4. \A u \in Transports : data_socket_'[u] \notin bound
      BY <1>2, <1>4 DEF IInv, HandleInv, TypeOK
    <2>. QED
      BY <2>1, <2>2, <2>3, <2>4 DEF IInv, HandleInv
  <1>8. OwnerInv'
    BY <1>4 DEF IInv, OwnerInv, t
  <1>9. ContextInv'
    BY DEF IInv, ContextInv
  <1>10. ConnectedMeansSocket'
    <2>. SUFFICES ASSUME NEW j \in alive, transport_[j] # Null
                  PROVE  connected_'[j] <=> data_socket_'[transport_[j]] # NoFd
      BY DEF ConnectedMeansSocket
    <2>1. CASE j = i
      BY <2>1, <1>2, <1>4 DEF IInv, TypeOK, t
    <2>2. CASE j # i
      <3>1. transport_[j] \in Transports \ {t}
        BY <2>2 DEF IInv, TypeOK, OwnerInv, t
      <3>. QED
        BY <2>2, <3>1, <1>4 DEF IInv, TypeOK, ConnectedMeansSocket
    <2>. QED
      BY <2>1, <2>2
  <1>. QED
    BY <1>6, <1>7, <1>8, <1>9, <1>10 DEF IInv

\* A server's new listener replaces an older one, if any.
LEMMA ListenStep ==
  ASSUME IInv, NEW i \in Slots, Listen(i)
  PROVE  IInv'
  <1>. DEFINE t == transport_[i]
  <1>0. Usable(i) /\ t # Null /\ FreeFds # {} /\ bound = {}
    BY DEF Listen
  <1>1. t \in Transports
    BY <1>0 DEF IInv, TypeOK
  <1>2. NewFd \in Fds /\ NewFd \notin open /\ NewFd # NoFd
    BY <1>0, NewFdFree
  <1>3. open' = (open \ {listen_socket_[t]}) \cup {NewFd} /\ bound' = {NewFd}
    BY <1>0 DEF Listen, Replaced
  <1>4. listen_socket_'[t] = NewFd /\ \A u \in Transports \ {t} : listen_socket_'[u] = listen_socket_[u]
    BY <1>1 DEF Listen, IInv, TypeOK
  <1>5. \A u \in Transports : data_socket_[u] # NewFd /\ listen_socket_[u] # NewFd
    BY <1>2 DEF IInv, HandleInv
  <1>6. UNCHANGED <<alive, transport_, connected_, mode_, data_socket_, contexts, outcome>>
    BY DEF Listen, session
  <1>7. accepting' = accepting \cup {i} /\ i \in alive
    BY <1>0 DEF Listen, Usable
  <1>8. listen_socket_' \in [Transports -> Fds \cup {NoFd}]
    BY <1>1, <1>2 DEF Listen, IInv, TypeOK
  <1>. HIDE DEF t
  <1>9. TypeOK'
    BY <1>2, <1>3, <1>6, <1>7, <1>8 DEF IInv, TypeOK
  <1>10. HandleInv'
    <2>1. \A f \in Fds : f \in open' <=>
            \E u \in Transports : data_socket_[u] = f \/ listen_socket_'[u] = f
      BY <1>1, <1>2, <1>3, <1>4, <1>5 DEF IInv, HandleInv, TypeOK, NoFd, Fds
    <2>2. \A u \in Transports : data_socket_[u] # NoFd => data_socket_[u] # listen_socket_'[u]
      BY <1>4, <1>5 DEF IInv, HandleInv
    <2>3. \A u, v \in Transports : u # v /\ data_socket_[u] # NoFd =>
            data_socket_[u] # data_socket_[v] /\ data_socket_[u] # listen_socket_'[v]
      BY <1>4, <1>5 DEF IInv, HandleInv
    <2>4. \A u, v \in Transports : u # v /\ listen_socket_'[u] # NoFd =>
            listen_socket_'[u] # listen_socket_'[v]
      BY <1>4, <1>5 DEF IInv, HandleInv
    <2>5. \A u \in Transports : data_socket_[u] \notin bound'
      BY <1>3, <1>5
    <2>. QED
      BY <2>1, <2>2, <2>3, <2>4, <2>5, <1>6 DEF HandleInv
  <1>11. OwnerInv'
    BY <1>0, <1>4, <1>6, <1>7 DEF IInv, OwnerInv, t
  <1>12. ContextInv' /\ ConnectedMeansSocket'
    BY <1>6 DEF IInv, ContextInv, ConnectedMeansSocket
  <1>. QED
    BY <1>9, <1>10, <1>11, <1>12 DEF IInv

\* What Reset does to the handles of a transport that a session owned.
LEMMA ResetHandles ==
  ASSUME IInv, NEW t \in Transports \cup {Null}, Reset(t)
  PROVE  /\ HandleInv'
         /\ open' \subseteq Fds /\ bound' \subseteq open'
         /\ data_socket_' \in [Transports -> Fds \cup {NoFd}]
         /\ listen_socket_' \in [Transports -> Fds \cup {NoFd}]
         /\ \A u \in Transports \ {t} : /\ data_socket_'[u] = data_socket_[u]
                                       /\ listen_socket_'[u] = listen_socket_[u]
         /\ t \in Transports => data_socket_'[t] = NoFd /\ listen_socket_'[t] = NoFd
  <1>1. /\ data_socket_' = [u \in Transports |-> IF u = t THEN NoFd ELSE data_socket_[u]]
        /\ listen_socket_' = [u \in Transports |-> IF u = t THEN NoFd ELSE listen_socket_[u]]
        /\ open' = open \ Handles(t) /\ bound' = bound \ Handles(t)
    BY DEF Reset, Closed
  <1>2. \A u \in Transports : u # t =>
          data_socket_'[u] = data_socket_[u] /\ listen_socket_'[u] = listen_socket_[u]
    BY <1>1
  <1>3. t \in Transports => data_socket_'[t] = NoFd /\ listen_socket_'[t] = NoFd
    BY <1>1
  <1>4. /\ data_socket_' \in [Transports -> Fds \cup {NoFd}]
        /\ listen_socket_' \in [Transports -> Fds \cup {NoFd}]
    BY <1>1 DEF IInv, TypeOK
  <1>5. open' \subseteq Fds /\ bound' \subseteq open'
    BY <1>1 DEF IInv, TypeOK
  <1>6. HandleInv'
    <2>1. NoFd \notin Fds
      BY SessionAssumption DEF NoFd, Fds
    <2>2. \A f \in Fds : f \in Handles(t) <=>
            t \in Transports /\ (data_socket_[t] = f \/ listen_socket_[t] = f)
      BY SessionAssumption DEF Handles
    <2>3. \A f \in Fds : f \in open' <=>
            \E u \in Transports : data_socket_'[u] = f \/ listen_socket_'[u] = f
      <3>. SUFFICES ASSUME NEW f \in Fds
                    PROVE  f \in open' <=>
                             \E u \in Transports : data_socket_'[u] = f \/ listen_socket_'[u] = f
        OBVIOUS
      <3>1. f \in open' <=> f \in open /\ f \notin Handles(t)
        BY <1>1
      <3>2. f \in open <=> \E u \in Transports : data_socket_[u] = f \/ listen_socket_[u] = f
        BY DEF IInv, HandleInv
      <3>3. \A u \in Transports : u # t /\ (data_socket_[u] = f \/ listen_socket_[u] = f)
              => f \notin Handles(t)
        BY <2>1, <2>2 DEF IInv, HandleInv
      <3>4. f # NoFd
        BY <2>1
      <3>. QED
        BY <1>2, <1>3, <2>2, <3>1, <3>2, <3>3, <3>4
    <2>4. \A u \in Transports : data_socket_'[u] # NoFd => data_socket_'[u] # listen_socket_'[u]
      BY <1>2, <1>3 DEF IInv, HandleInv
    <2>5. \A u, v \in Transports : u # v /\ data_socket_'[u] # NoFd =>
            data_socket_'[u] # data_socket_'[v] /\ data_socket_'[u] # listen_socket_'[v]
      BY <1>2, <1>3 DEF IInv, HandleInv
    <2>6. \A u, v \in Transports : u # v /\ listen_socket_'[u] # NoFd =>
            listen_socket_'[u] # listen_socket_'[v]
      BY <1>2, <1>3 DEF IInv, HandleInv
    <2>7. \A u \in Transports : data_socket_'[u] \notin bound'
      BY <1>1, <1>2, <1>3, <2>1 DEF IInv, HandleInv, TypeOK
    <2>. QED
      BY <2>3, <2>4, <2>5, <2>6, <2>7 DEF HandleInv
  <1>. QED
    BY <1>2, <1>3, <1>4, <1>5, <1>6

\* close of a session that has a transport, or of one that need not close.
LEMMA CloseStep ==
  ASSUME IInv, NEW i \in Slots, Close(i)
  PROVE  IInv'
  <1>1. CASE MustClose(i)
    <2>. DEFINE t == transport_[i]
    <2>1. t \in Transports /\ i \in alive
      BY <1>1 DEF MustClose, Close, Usable, IInv, TypeOK
    <2>2. Reset(t) /\ connected_' = [connected_ EXCEPT ![i] = FALSE]
      BY <1>1 DEF Close
    <2>3. UNCHANGED <<alive, transport_, mode_, accepting, contexts, outcome>>
      BY DEF Close
    <2>4. /\ HandleInv' /\ open' \subseteq Fds /\ bound' \subseteq open'
          /\ data_socket_' \in [Transports -> Fds \cup {NoFd}]
          /\ listen_socket_' \in [Transports -> Fds \cup {NoFd}]
          /\ \A u \in Transports \ {t} : /\ data_socket_'[u] = data_socket_[u]
                                        /\ listen_socket_'[u] = listen_socket_[u]
          /\ data_socket_'[t] = NoFd /\ listen_socket_'[t] = NoFd
      BY <2>1, <2>2, ResetHandles
    <2>. HIDE DEF t
    <2>5. TypeOK'
      BY <2>2, <2>3, <2>4 DEF IInv, TypeOK
    <2>6. OwnerInv'
      BY <2>3, <2>4 DEF IInv, OwnerInv
    <2>7. ContextInv'
      BY <2>3 DEF IInv, ContextInv
    <2>8. ConnectedMeansSocket'
      <3>. SUFFICES ASSUME NEW j \in alive, transport_[j] # Null
                    PROVE  connected_'[j] <=> data_socket_'[transport_[j]] # NoFd
        BY <2>3 DEF ConnectedMeansSocket
      <3>1. CASE j = i
        BY <3>1, <2>2, <2>4 DEF IInv, TypeOK, t
      <3>2. CASE j # i
        <4>1. transport_[j] \in Transports \ {t}
          BY <3>2 DEF IInv, TypeOK, OwnerInv, t
        <4>. QED
          BY <3>2, <4>1, <2>2, <2>4 DEF IInv, TypeOK, ConnectedMeansSocket
      <3>. QED
        BY <3>1, <3>2
    <2>. QED
      BY <2>4, <2>5, <2>6, <2>7, <2>8 DEF IInv
  <1>2. CASE ~MustClose(i)
    <2>1. UNCHANGED <<session, sockets, mode_, accepting, contexts>> /\ outcome' = outcome
      BY <1>2 DEF Close, session
    <2>. QED
      BY <2>1, OutcomeStep DEF IInv, TypeOK
  <1>. QED
    BY <1>1, <1>2

\* The transport goes to an object that did not exist.
LEMMA MoveConstructStep ==
  ASSUME IInv, NEW i \in Slots, NEW j \in Slots, MoveConstruct(i, j)
  PROVE  IInv'
  <1>1. i # j /\ i \in alive /\ i \notin accepting /\ j \notin alive /\ transport_[j] = Null
    BY DEF MoveConstruct, Usable, Empty, IInv, OwnerInv
  <1>2. /\ transport_'[j] = transport_[i] /\ transport_'[i] = Null
        /\ \A k \in Slots \ {i, j} : transport_'[k] = transport_[k]
        /\ transport_' \in [Slots -> Transports \cup {Null}]
    BY <1>1 DEF MoveConstruct, IInv, TypeOK
  <1>3. /\ connected_'[j] = connected_[i]
        /\ \A k \in Slots \ {j} : connected_'[k] = connected_[k]
        /\ connected_' \in [Slots -> BOOLEAN]
    BY <1>1 DEF MoveConstruct, IInv, TypeOK
  <1>4. /\ alive' = alive \cup {j}
        /\ UNCHANGED <<sockets, mode_, accepting, contexts, outcome>>
    BY DEF MoveConstruct
  <1>5. \A t \in Transports : (\E k \in Slots : transport_'[k] = t) <=> (\E k \in Slots : transport_[k] = t)
    BY <1>1, <1>2, SessionAssumption
  <1>6. TypeOK'
    BY <1>2, <1>3, <1>4 DEF IInv, TypeOK, sockets
  <1>7. HandleInv'
    BY <1>4 DEF IInv, HandleInv, sockets
  <1>8. OwnerInv'
    <2>1. \A k, l \in Slots : k # l /\ transport_'[k] # Null => transport_'[k] # transport_'[l]
      BY <1>1, <1>2 DEF IInv, OwnerInv
    <2>2. \A k \in Slots : transport_'[k] # Null => k \in alive' /\ mode_'[transport_'[k]] # "unmade"
      BY <1>1, <1>2, <1>4 DEF IInv, OwnerInv
    <2>3. \A k \in accepting' : transport_'[k] # Null
      BY <1>1, <1>2, <1>4 DEF IInv, OwnerInv, TypeOK
    <2>4. \A t \in Transports : (\A k \in Slots : transport_'[k] # t) =>
            data_socket_'[t] = NoFd /\ listen_socket_'[t] = NoFd
      BY <1>4, <1>5 DEF IInv, OwnerInv, sockets
    <2>. QED
      BY <2>1, <2>2, <2>3, <2>4 DEF OwnerInv
  <1>9. ContextInv'
    BY <1>4, <1>5 DEF IInv, ContextInv
  <1>10. ConnectedMeansSocket'
    BY <1>1, <1>2, <1>3, <1>4 DEF IInv, TypeOK, ConnectedMeansSocket, sockets
  <1>. QED
    BY <1>6, <1>7, <1>8, <1>9, <1>10 DEF IInv

\* The target's transport is destroyed and the source's takes its place.
LEMMA MoveAssignStep ==
  ASSUME IInv, NEW i \in Slots, NEW j \in Slots, MoveAssign(i, j)
  PROVE  IInv'
  <1>. DEFINE t == transport_[j]
  <1>1. /\ i # j /\ i \in alive /\ i \notin accepting /\ j \in alive /\ j \notin accepting
        /\ t \in Transports \cup {Null}
    BY DEF MoveAssign, Usable, IInv, TypeOK
  <1>2. /\ transport_'[j] = transport_[i] /\ transport_'[i] = Null
        /\ \A k \in Slots \ {i, j} : transport_'[k] = transport_[k]
        /\ transport_' \in [Slots -> Transports \cup {Null}]
    BY <1>1 DEF MoveAssign, IInv, TypeOK
  <1>3. /\ connected_'[j] = connected_[i] /\ connected_'[i] = FALSE
        /\ \A k \in Slots \ {i, j} : connected_'[k] = connected_[k]
        /\ connected_' \in [Slots -> BOOLEAN]
    BY <1>1 DEF MoveAssign, IInv, TypeOK
  <1>4. Reset(t) /\ contexts' = contexts \ {t} /\ UNCHANGED <<alive, mode_, accepting, outcome>>
    BY DEF MoveAssign, Destroyed
  <1>5. /\ HandleInv' /\ open' \subseteq Fds /\ bound' \subseteq open'
        /\ data_socket_' \in [Transports -> Fds \cup {NoFd}]
        /\ listen_socket_' \in [Transports -> Fds \cup {NoFd}]
        /\ \A u \in Transports \ {t} : /\ data_socket_'[u] = data_socket_[u]
                                      /\ listen_socket_'[u] = listen_socket_[u]
        /\ t \in Transports => data_socket_'[t] = NoFd /\ listen_socket_'[t] = NoFd
    BY <1>1, <1>4, ResetHandles
  <1>6. \A u \in Transports : (\E k \in Slots : transport_'[k] = u) <=>
                               u # t /\ \E k \in Slots : transport_[k] = u
    BY <1>1, <1>2, SessionAssumption DEF IInv, OwnerInv
  <1>7. \A k \in Slots : transport_'[k] # Null => transport_'[k] \in Transports \ {t}
    BY <1>1, <1>2 DEF IInv, OwnerInv, TypeOK
  <1>. HIDE DEF t
  <1>8. TypeOK'
    BY <1>2, <1>3, <1>4, <1>5 DEF IInv, TypeOK
  <1>9. OwnerInv'
    <2>1. \A k, l \in Slots : k # l /\ transport_'[k] # Null => transport_'[k] # transport_'[l]
      BY <1>1, <1>2 DEF IInv, OwnerInv
    <2>2. \A k \in Slots : transport_'[k] # Null => k \in alive' /\ mode_'[transport_'[k]] # "unmade"
      BY <1>1, <1>2, <1>4 DEF IInv, OwnerInv
    <2>3. \A k \in accepting' : transport_'[k] # Null
      BY <1>1, <1>2, <1>4 DEF IInv, OwnerInv, TypeOK
    <2>4. \A u \in Transports : (\A k \in Slots : transport_'[k] # u) =>
            data_socket_'[u] = NoFd /\ listen_socket_'[u] = NoFd
      BY <1>5, <1>6 DEF IInv, OwnerInv
    <2>. QED
      BY <2>1, <2>2, <2>3, <2>4 DEF OwnerInv
  <1>10. ContextInv'
    BY <1>4, <1>6 DEF IInv, ContextInv
  <1>11. ConnectedMeansSocket'
    BY <1>1, <1>2, <1>3, <1>4, <1>5, <1>7 DEF IInv, TypeOK, ConnectedMeansSocket
  <1>. QED
    BY <1>5, <1>8, <1>9, <1>10, <1>11 DEF IInv

\* The object and its transport are gone.
LEMMA DestroyStep ==
  ASSUME IInv, NEW i \in Slots, Destroy(i)
  PROVE  IInv'
  <1>. DEFINE t == transport_[i]
  <1>1. i \in alive /\ i \notin accepting /\ t \in Transports \cup {Null}
    BY DEF Destroy, Usable, IInv, TypeOK
  <1>2. /\ transport_'[i] = Null
        /\ \A k \in Slots \ {i} : transport_'[k] = transport_[k]
        /\ transport_' \in [Slots -> Transports \cup {Null}]
    BY <1>1 DEF Destroy, IInv, TypeOK
  <1>3. /\ \A k \in Slots \ {i} : connected_'[k] = connected_[k]
        /\ connected_' \in [Slots -> BOOLEAN]
    BY <1>1 DEF Destroy, IInv, TypeOK
  <1>4. /\ Reset(t) /\ contexts' = contexts \ {t} /\ alive' = alive \ {i}
        /\ UNCHANGED <<mode_, accepting, outcome>>
    BY DEF Destroy, Destroyed
  <1>5. /\ HandleInv' /\ open' \subseteq Fds /\ bound' \subseteq open'
        /\ data_socket_' \in [Transports -> Fds \cup {NoFd}]
        /\ listen_socket_' \in [Transports -> Fds \cup {NoFd}]
        /\ \A u \in Transports \ {t} : /\ data_socket_'[u] = data_socket_[u]
                                      /\ listen_socket_'[u] = listen_socket_[u]
        /\ t \in Transports => data_socket_'[t] = NoFd /\ listen_socket_'[t] = NoFd
    BY <1>1, <1>4, ResetHandles
  <1>6. \A u \in Transports : (\E k \in Slots : transport_'[k] = u) <=>
                               u # t /\ \E k \in Slots : transport_[k] = u
    BY <1>1, <1>2, SessionAssumption DEF IInv, OwnerInv
  <1>7. \A k \in Slots : transport_'[k] # Null => transport_'[k] \in Transports \ {t}
    BY <1>1, <1>2 DEF IInv, OwnerInv, TypeOK
  <1>. HIDE DEF t
  <1>8. TypeOK'
    BY <1>1, <1>2, <1>3, <1>4, <1>5 DEF IInv, TypeOK
  <1>9. OwnerInv'
    <2>1. \A k, l \in Slots : k # l /\ transport_'[k] # Null => transport_'[k] # transport_'[l]
      BY <1>1, <1>2 DEF IInv, OwnerInv
    <2>2. \A k \in Slots : transport_'[k] # Null => k \in alive' /\ mode_'[transport_'[k]] # "unmade"
      BY <1>1, <1>2, <1>4 DEF IInv, OwnerInv
    <2>3. \A k \in accepting' : transport_'[k] # Null
      BY <1>1, <1>2, <1>4 DEF IInv, OwnerInv, TypeOK
    <2>4. \A u \in Transports : (\A k \in Slots : transport_'[k] # u) =>
            data_socket_'[u] = NoFd /\ listen_socket_'[u] = NoFd
      BY <1>5, <1>6 DEF IInv, OwnerInv
    <2>. QED
      BY <2>1, <2>2, <2>3, <2>4 DEF OwnerInv
  <1>10. ContextInv'
    BY <1>4, <1>6 DEF IInv, ContextInv
  <1>11. ConnectedMeansSocket'
    BY <1>1, <1>2, <1>3, <1>4, <1>5, <1>7 DEF IInv, TypeOK, ConnectedMeansSocket
  <1>. QED
    BY <1>5, <1>8, <1>9, <1>10, <1>11 DEF IInv

-----------------------------------------------------------------------------
\* Every step keeps the invariant.
LEMMA StepInv == IInv /\ [Next]_vars => IInv'
  <1>. SUFFICES ASSUME IInv, [Next]_vars
                PROVE  IInv'
    OBVIOUS
  <1>1. ASSUME NEW i \in Slots, NEW t \in Transports, NEW m \in {"Client", "Server", "Usb"},
               Make(i, t, m)
        PROVE  IInv'
    BY <1>1, MakeStep
  <1>2. ASSUME NEW i \in Slots, MakeFail(i) \/ ConnectFail(i)
        PROVE  IInv'
    BY <1>2, OutcomeStep DEF MakeFail, ConnectFail
  <1>3. ASSUME NEW i \in Slots, ConnectClient(i)
        PROVE  IInv'
    BY <1>3, DataStep DEF ConnectClient, Usable
  <1>4. ASSUME NEW i \in Slots, Listen(i)
        PROVE  IInv'
    BY <1>4, ListenStep
  <1>5. ASSUME NEW i \in Slots, Accept(i)
        PROVE  IInv'
    <2>1. i \in alive /\ transport_[i] # Null
      BY <1>5 DEF Accept, IInv, TypeOK, OwnerInv
    <2>. QED
      BY <1>5, <2>1, DataStep DEF Accept
  <1>6. ASSUME NEW i \in Slots, AcceptFail(i)
        PROVE  IInv'
    BY <1>6 DEF AcceptFail, IInv, TypeOK, HandleInv, OwnerInv, ContextInv, ConnectedMeansSocket,
                session, sockets
  <1>7. ASSUME NEW i \in Slots, Transfer(i)
        PROVE  IInv'
    BY <1>7, OutcomeStep DEF Transfer
  <1>8. ASSUME NEW i \in Slots, Close(i)
        PROVE  IInv'
    BY <1>8, CloseStep
  <1>9. ASSUME NEW i \in Slots, Destroy(i)
        PROVE  IInv'
    BY <1>9, DestroyStep
  <1>10. ASSUME NEW i \in Slots, NEW j \in Slots, MoveConstruct(i, j) \/ MoveAssign(i, j)
         PROVE  IInv'
    BY <1>10, MoveConstructStep, MoveAssignStep
  <1>11. CASE UNCHANGED vars
    BY <1>11, OutcomeStep DEF vars, session, sockets, IInv, TypeOK
  <1>. QED
    BY <1>1, <1>2, <1>3, <1>4, <1>5, <1>6, <1>7, <1>8, <1>9, <1>10, <1>11 DEF Next

LEMMA Invariance == Spec => []IInv
  BY InitInv, StepInv, PTL DEF Spec

\* The parts of the invariant give the ownership of descriptors.
LEMMA Ownership == IInv => SocketsOwned
  <1>. SUFFICES ASSUME IInv
                PROVE  SocketsOwned
    OBVIOUS
  <1>1. Owned = { t \in Transports : \E i \in Slots : transport_[i] = t }
    BY SessionAssumption DEF Owned, IInv, TypeOK, OwnerInv
  <1>2. \A t \in Transports \ Owned : data_socket_[t] = NoFd /\ listen_socket_[t] = NoFd
    BY <1>1 DEF IInv, OwnerInv
  <1>3. open = (UNION { {data_socket_[t], listen_socket_[t]} : t \in Owned }) \ {NoFd}
    <2>1. NoFd \notin Fds
      BY SessionAssumption DEF NoFd, Fds
    <2>2. ASSUME NEW f \in open
          PROVE  f # NoFd /\ \E t \in Owned : f \in {data_socket_[t], listen_socket_[t]}
      <3>1. f \in Fds /\ f # NoFd
        BY <2>1 DEF IInv, TypeOK
      <3>2. PICK t \in Transports : data_socket_[t] = f \/ listen_socket_[t] = f
        BY <3>1 DEF IInv, HandleInv
      <3>. QED
        BY <1>2, <3>1, <3>2
    <2>3. ASSUME NEW t \in Owned, NEW f \in {data_socket_[t], listen_socket_[t]}, f # NoFd
          PROVE  f \in open
      BY <1>1, <2>3 DEF IInv, TypeOK, HandleInv
    <2>. DEFINE U == UNION { {data_socket_[t], listen_socket_[t]} : t \in Owned }
    <2>4. \A f \in open : f \in U \ {NoFd}
      BY <2>2
    <2>5. \A f \in U : f # NoFd => f \in open
      BY <2>3
    <2>. HIDE DEF U
    <2>6. open = U \ {NoFd}
      BY <2>4, <2>5
    <2>. QED
      BY <2>6 DEF U
  <1>4. \A t \in Owned : data_socket_[t] # NoFd => data_socket_[t] # listen_socket_[t]
    BY <1>1 DEF IInv, HandleInv
  <1>5. ASSUME NEW t \in Owned, NEW u \in Owned, t # u
        PROVE  {data_socket_[t], listen_socket_[t]} \cap {data_socket_[u], listen_socket_[u]}
                 \subseteq {NoFd}
    BY <1>1, <1>5 DEF IInv, HandleInv
  <1>6. \A i, j \in alive : i # j /\ transport_[i] # Null => transport_[i] # transport_[j]
    BY DEF IInv, TypeOK, OwnerInv
  <1>7. contexts = { t \in Owned : mode_[t] = "Usb" }
    BY <1>1 DEF IInv, TypeOK, ContextInv
  <1>. QED
    BY <1>3, <1>4, <1>5, <1>6, <1>7 DEF SocketsOwned

(***************************************************************************)
(* The types of Session, TcpTransport and the kernel's descriptors are     *)
(* kept by every sequence of constructions, connects, moves, closes and    *)
(* destructions.                                                           *)
(***************************************************************************)
THEOREM TypeCorrect == Spec => []TypeOK
  BY Invariance, PTL DEF IInv

(***************************************************************************)
(* However many sessions are made, moved, reconnected, closed and          *)
(* destroyed, no SocketHandle leaks its descriptor or closes another's,    *)
(* no two sessions own a transport and no libusb context outlives its own. *)
(***************************************************************************)
THEOREM DescriptorsOwned == Spec => []SocketsOwned
  BY Invariance, Ownership, PTL

(***************************************************************************)
(* connected_ agrees with the transport's data socket for every session    *)
(* that has a transport, whatever failed before.                           *)
(***************************************************************************)
THEOREM ConnectedTellsTruth == Spec => []ConnectedMeansSocket
  BY Invariance, PTL DEF IInv
=============================================================================
