------------------------- MODULE FileTransferProofs -------------------------
(***************************************************************************)
(* Proofs about FileTransfer for every set of senders, every file size,    *)
(* every number of streams on either side, every header and name length,   *)
(* socket buffer and backlog.                                              *)
(***************************************************************************)
EXTENDS FileTransfer, LayoutProofs

(***************************************************************************)
(* The inductive invariant, in parts.                                      *)
(***************************************************************************)
Connected == {"header", "name", "lock", "create", "resize", "open", "part", "done"}

\* A thread past accept has a sender and one before it has none; a connection
\* is on a stream that both sides have.
ConnAt(s) ==
    /\ rpc[s] \in Connected => acc[s] # NoSender
    /\ rpc[s] \in {"start", "accept"} => acc[s] = NoSender
    /\ acc[s] = NoSender => got[s] = 0 /\ flushed[s] = 0
    /\ acc[s] # NoSender => s < RecvParallel /\ s < Parallel[acc[s]]
    /\ rpc[s] # "start" => s < RecvParallel

QueueAt(s) == \A i \in 1 .. Len(queue[s]) : s < Parallel[queue[s][i]]

ConnInv == \A s \in Streams : ConnAt(s) /\ QueueAt(s)

\* A sender's thread reports success only after its whole stream was sent,
\* on a port that the receiver listens on.
SendAt(a, s) ==
    /\ wire[a][s] <= StreamLen(a, s)
    /\ spc[a][s] \in {"sending", "closed"} => s < RecvParallel
    /\ spc[a][s] = "closed" => wire[a][s] = StreamLen(a, s)
    /\ smain[a] = "ok" /\ s < Parallel[a] => spc[a][s] = "closed"

SendInv == \A a \in Senders, s \in Streams : SendAt(a, s)

\* Where a thread is in its code tells where it is in its stream.
PosAt(s, a) ==
    /\ got[s] <= wire[a][s]
    /\ rpc[s] = "header" => got[s] < HeaderUnits \/ got[s] = StreamLen(a, s)
    /\ rpc[s] = "name" => got[s] >= HeaderUnits /\ got[s] < HeadLen(a)
    /\ rpc[s] \in {"lock", "create", "resize", "open"} => got[s] = HeadLen(a)
    /\ rpc[s] = "part" => got[s] >= HeadLen(a)
    /\ got[s] <= StreamLen(a, s)

\* How much of what it received is in the file.
FlushAt(s, a) ==
    /\ flushed[s] > 0 => HeadLen(a) + flushed[s] <= got[s]
    /\ diskOk /\ rpc[s] \in {"header", "done"} /\ got[s] = StreamLen(a, s)
         => flushed[s] = PartSize(a, s)

\* A thread that ended well read its stream to the end, or its connection
\* ended before it began.
DoneAt(s, a) ==
    rpc[s] = "done" => \/ got[s] = StreamLen(a, s)
                       \/ /\ RecvParallel > 1 /\ got[s] = 0
                          /\ Fin(a, s) /\ wire[a][s] = 0

PositionInv ==
    \A s \in Streams :
        acc[s] # NoSender =>
            PosAt(s, acc[s]) /\ FlushAt(s, acc[s]) /\ DoneAt(s, acc[s])

\* Thread s is past the mutex: it knows what file is being written.
Past(s) ==
    \/ rpc[s] \in {"create", "resize", "open", "part"}
    \/ flushed[s] > 0
    \/ rpc[s] \in {"header", "done"} /\ acc[s] # NoSender /\ got[s] = StreamLen(acc[s], s)

\* The mutex is held by the thread that creates or resizes the file.
MutexAt(s) ==
    /\ RecvParallel > 1 => (rpc[s] \in {"create", "resize"} <=> lock = s)
    /\ rpc[s] \in {"lock", "resize", "open"} => RecvParallel > 1

\* While it does, no thread has written or can write.
ExclusiveAt(s) ==
    rpc[s] \in {"create", "resize"} =>
        \A t \in Streams : flushed[t] = 0 /\ rpc[t] \notin {"open", "part"}

\* The threads past the mutex agree on the file.
AgreeAt(s) ==
    RecvParallel > 1 /\ Past(s) =>
        /\ initialized
        /\ file_name = Name[acc[s]]
        /\ total_size = Size[acc[s]]

\* The single path takes whole files only.
SingleAt(s) ==
    RecvParallel = 1 /\ rpc[s] \in {"create", "part", "done"} => Parallel[acc[s]] = 1

LockInv == \A s \in Streams : MutexAt(s) /\ ExclusiveAt(s) /\ AgreeAt(s) /\ SingleAt(s)

\* A byte in the file is in its place and some thread wrote it.
PlacedAt(o) ==
    out[o].tag = "byte" =>
        /\ out[o].at = o
        /\ \E s \in Streams : acc[s] # NoSender /\ acc[s] = out[o].src /\ flushed[s] > 0

\* What a thread wrote is in the file.
KeptAt(s, o) ==
    /\ acc[s] # NoSender
    /\ PartOffset(acc[s], s) <= o /\ o < PartOffset(acc[s], s) + flushed[s]
    => out[o].tag = "byte"

ContentInv == \A o \in Offsets : PlacedAt(o) /\ \A s \in Streams : KeptAt(s, o)

\* The file is no longer than it should be.
ParallelLength ==
    RecvParallel > 1 /\ initialized /\ (\A s \in Streams : rpc[s] \notin {"create", "failed"})
        => \A o \in Offsets : o >= total_size => out[o] = Void

SingleLength ==
    RecvParallel = 1 => \A s \in Streams : rpc[s] \in {"part", "done"} =>
        \A o \in Offsets : o >= Size[acc[s]] => out[o] = Void

LengthInv == ParallelLength /\ SingleLength

\* Success of the receiver means that no thread failed.
MainInv == rmain = "ok" => \A s \in 0 .. RecvParallel - 1 : rpc[s] = "done"

IInv ==
    /\ TypeOK /\ ConnInv /\ SendInv /\ PositionInv
    /\ LockInv /\ ContentInv /\ LengthInv /\ MainInv

-----------------------------------------------------------------------------
(***************************************************************************)
(* Lengths and ranges of streams.                                          *)
(***************************************************************************)
LEMMA StreamFacts ==
  ASSUME NEW a \in Senders, NEW s \in Streams
  PROVE  /\ PartOffset(a, s) \in Nat /\ PartSize(a, s) \in Nat
         /\ HeadLen(a) \in Nat /\ HeaderUnits \in Nat
         /\ HeaderUnits > 0 /\ HeaderUnits < HeadLen(a)
         /\ StreamLen(a, s) = HeadLen(a) + PartSize(a, s)
         /\ Size[a] \in 0 .. MaxBytes
         /\ Parallel[a] \in 1 .. MaxStreams
         /\ s < Parallel[a] => PartOffset(a, s) + PartSize(a, s) <= Size[a]
  <1>1. /\ Size[a] \in 0 .. MaxBytes /\ Size[a] \in Nat
        /\ Parallel[a] \in 1 .. MaxStreams /\ Parallel[a] \in Nat \ {0}
        /\ NameUnits[a] \in Nat \ {0} /\ HeaderUnits \in Nat \ {0} /\ s \in Nat
    BY SenderAssumption, BoundAssumption DEF Streams
  <1>2. PartOffset(a, s) \in Nat /\ PartSize(a, s) \in Nat
    BY <1>1, RangeType DEF PartOffset, PartSize
  <1>3. s < Parallel[a] => PartOffset(a, s) + PartSize(a, s) <= Size[a]
    <2>. SUFFICES ASSUME s < Parallel[a] PROVE PartOffset(a, s) + PartSize(a, s) <= Size[a]
      OBVIOUS
    <2>1. s \in 0 .. Parallel[a] - 1
      BY <1>1
    <2>. QED
      BY <1>1, <2>1, RangeInFile DEF PartOffset, PartSize
  <1>. QED
    BY <1>1, <1>2, <1>3 DEF HeadLen, StreamLen

\* What the receiver decodes.
LEMMA IncomingFacts ==
  ASSUME NEW s \in Streams
  PROVE  /\ Incoming(s).payload_size = PartSize(acc[s], s)
         /\ Incoming(s).offset = PartOffset(acc[s], s)
         /\ Incoming(s).total_size = Size[acc[s]]
         /\ Incoming(s).file_name = Name[acc[s]]
         /\ Incoming(s).kind = IF Parallel[acc[s]] > 1 THEN "FilePart" ELSE "File"
  BY DEF Incoming, make_header

\* The kinds of cells.
LEMMA CellFacts ==
  /\ Void \in Cells /\ Hole \in Cells /\ Old \in Cells
  /\ \A a \in Senders, o \in Offsets : Byte(a, o) \in Cells
  /\ \A a, o : Byte(a, o).tag = "byte" /\ Byte(a, o).src = a /\ Byte(a, o).at = o
  /\ Void.tag # "byte" /\ Hole.tag # "byte" /\ Old.tag # "byte"
  /\ \A x \in Cells : x.tag = "byte" => x = Byte(x.src, x.at)
  <1>1. Void \in Cells /\ Hole \in Cells /\ Old \in Cells
    BY DEF Cells
  <1>2. \A a \in Senders, o \in Offsets : Byte(a, o) \in Cells
    BY DEF Cells, Byte
  <1>3. \A a, o : Byte(a, o).tag = "byte" /\ Byte(a, o).src = a /\ Byte(a, o).at = o
    BY DEF Byte
  <1>4. Void.tag # "byte" /\ Hole.tag # "byte" /\ Old.tag # "byte"
    BY DEF Void, Hole, Old
  <1>5. ASSUME NEW x \in Cells, x.tag = "byte"
        PROVE  x = Byte(x.src, x.at)
    <2>1. x \in [tag : {"byte"}, src : Senders, at : Offsets]
      BY <1>4, <1>5 DEF Cells
    <2>. QED
      BY <2>1 DEF Byte
  <1>. QED
    BY <1>1, <1>2, <1>3, <1>4, <1>5

\* What a write does to the file: bytes of the part inside the range, holes
\* where there was nothing before it, the rest as it was.
LEMMA WrittenFacts ==
  ASSUME TypeOK, NEW s \in Streams, acc[s] \in Senders, NEW from \in Nat, NEW to \in Nat
  PROVE  /\ Written(out, s, from, to) \in [Offsets -> Cells]
         /\ \A o \in Offsets :
              LET off == PartOffset(acc[s], s)
                  new == Written(out, s, from, to)[o] IN
              /\ off + from <= o /\ o < off + to => new = Byte(acc[s], o)
              /\ ~(off + from <= o /\ o < off + to) =>
                   \/ new = out[o]
                   \/ new = Hole /\ out[o] = Void /\ from < to /\ o < off + from
  <1>. DEFINE off == PartOffset(acc[s], s)
  <1>1. off \in Nat
    BY StreamFacts
  <1>2. Incoming(s).offset = off
    BY IncomingFacts
  <1>3. \A o \in Offsets : Payload(acc[s], s, o - off) = Byte(acc[s], o)
    BY <1>1, BoundAssumption DEF Payload, Offsets
  <1>4. Written(out, s, from, to) =
          [o \in Offsets |->
            IF off + from <= o /\ o < off + to THEN Payload(acc[s], s, o - off)
            ELSE IF from < to /\ o < off + from /\ out[o] = Void THEN Hole ELSE out[o]]
    BY <1>2 DEF Written
  <1>. HIDE DEF off
  <1>5. out \in [Offsets -> Cells] /\ Hole \in Cells /\ \A o \in Offsets : Byte(acc[s], o) \in Cells
    BY CellFacts DEF TypeOK, ThreadTypeOK, OutputTypeOK
  <1>6. Written(out, s, from, to) \in [Offsets -> Cells]
    BY <1>3, <1>4, <1>5
  <1>7. ASSUME NEW o \in Offsets
        PROVE /\ off + from <= o /\ o < off + to => Written(out, s, from, to)[o] = Byte(acc[s], o)
              /\ ~(off + from <= o /\ o < off + to) =>
                   \/ Written(out, s, from, to)[o] = out[o]
                   \/ /\ Written(out, s, from, to)[o] = Hole
                      /\ out[o] = Void /\ from < to /\ o < off + from
    BY <1>3, <1>4
  <1>. QED
    BY <1>6, <1>7 DEF off

-----------------------------------------------------------------------------
(***************************************************************************)
(* Consequences of the invariant that the steps of a receiving thread use. *)
(***************************************************************************)
LEMMA AcceptedSender ==
  ASSUME TypeOK, ConnInv, NEW s \in Streams, rpc[s] \in Connected
  PROVE  acc[s] \in Senders /\ s < Parallel[acc[s]] /\ s < RecvParallel
  BY DEF TypeOK, OutputTypeOK, ConnInv, ConnAt

\* A flush moves the file forward by the units between flushed and m.
LEMMA FlushType ==
  ASSUME TypeOK, NEW s \in Streams, acc[s] \in Senders,
         NEW m \in Nat, Flush(s, m)
  PROVE  /\ flushed' \in [Streams -> Nat]
         /\ out' \in [Offsets -> Cells]
  <1>1. flushed[s] \in Nat
    BY DEF TypeOK, ThreadTypeOK, OutputTypeOK
  <1>. QED
    BY <1>1, WrittenFacts DEF Flush, TypeOK, OutputTypeOK

\* Closing the output is a flush of at most what was received.
LEMMA CloseOutputIsFlush ==
  ASSUME TypeOK, NEW s \in Streams, acc[s] \in Senders, CloseOutput(s)
  PROVE  \E m \in Nat : /\ Flush(s, m)
                        /\ flushed[s] <= m /\ HeadLen(acc[s]) + m <= got[s]
                        /\ diskOk => HeadLen(acc[s]) + m = got[s]
  <1>1. PICK m \in flushed[s] .. Received(s) : (diskOk => m = Received(s)) /\ Flush(s, m)
    BY DEF CloseOutput
  <1>2. flushed[s] \in Nat /\ got[s] \in Nat /\ HeadLen(acc[s]) \in Nat
    BY StreamFacts DEF TypeOK, ThreadTypeOK, OutputTypeOK
  <1>. QED
    BY <1>1, <1>2 DEF Received

(***************************************************************************)
(* TypeOK is preserved.                                                    *)
(***************************************************************************)
LEMMA TypeInit == Init => TypeOK
  <1>. SUFFICES ASSUME Init PROVE TypeOK
    OBVIOUS
  <1>1. ThreadTypeOK
    BY DEF Init, ThreadTypeOK, SenderMains, SenderPcs, ReceiverMains, ReceiverPcs
  <1>2. out \in [Offsets -> Cells]
    BY CellFacts DEF Init
  <1>3. 0 \in 0 .. MaxBytes
    BY BoundAssumption
  <1>4. OutputTypeOK
    BY <1>2, <1>3 DEF Init, OutputTypeOK
  <1>. QED
    BY <1>1, <1>4 DEF TypeOK

\* A send_file_range thread that only changes its place keeps the types.
LEMMA SenderGoesType ==
  ASSUME TypeOK, NEW a \in Senders, NEW s \in Streams, NEW pc \in SenderPcs,
         SenderGoes(a, s, pc),
         UNCHANGED wire, queue' \in [Streams -> Seq(Senders)]
  PROVE  TypeOK'
  BY DEF TypeOK, ThreadTypeOK, OutputTypeOK, SenderGoes, envVars, shared

\* A receive_file_part thread that only changes its place keeps the thread types.
LEMMA ReceiverGoesType ==
  ASSUME TypeOK, NEW s \in Streams, NEW pc \in ReceiverPcs, ReceiverGoes(s, pc)
  PROVE  ThreadTypeOK'
  <1>1. queue' \in [Streams -> Seq(Senders)]
    BY DEF TypeOK, ThreadTypeOK, ReceiverGoes
  <1>. QED
    BY <1>1 DEF TypeOK, ThreadTypeOK, ReceiverGoes, senderVars, envVars

\* Every step keeps the types; the facts on positions bound the counters.
LEMMA TypeStep ==
  ASSUME TypeOK, ConnInv, PositionInv, [Next]_vars
  PROVE  TypeOK'
  <1>. USE DEF TypeOK
  <1>1. ASSUME NEW a \in Senders, StartSend(a) \/ JoinSend(a) \/ KillSender(a)
        PROVE  TypeOK'
    <2>1. smain' \in [Senders -> SenderMains]
      BY <1>1 DEF ThreadTypeOK, StartSend, JoinSend, KillSender, Verdict, SenderMains
    <2>. QED
      BY <1>1, <2>1 DEF ThreadTypeOK, OutputTypeOK, StartSend, JoinSend, KillSender, envVars, shared
  <1>2. ASSUME NEW a \in Senders, NEW s \in Streams, SendThread(a, s), ~Send(a, s), ~Connect(a, s)
        PROVE  TypeOK'
    <2>1. \E pc \in SenderPcs : SenderGoes(a, s, pc) /\ UNCHANGED <<wire, queue>>
      BY <1>2 DEF SendThread, OpenInput, ConnectFail, SendFail, ReadFail, CloseSend, SenderPcs
    <2>. QED
      BY <2>1, SenderGoesType DEF ThreadTypeOK
  <1>3. ASSUME NEW a \in Senders, NEW s \in Streams, Connect(a, s)
        PROVE  TypeOK'
    <2>1. queue' \in [Streams -> Seq(Senders)]
      BY <1>3 DEF ThreadTypeOK, Connect
    <2>. QED
      BY <1>3, <2>1, SenderGoesType DEF Connect, SenderPcs
  <1>4. ASSUME NEW a \in Senders, NEW s \in Streams, Send(a, s)
        PROVE  TypeOK'
    <2>1. BufferEnd(a, s) \in Nat /\ wire[a][s] \in Nat
      BY StreamFacts DEF ThreadTypeOK, BufferEnd
    <2>2. PICK n \in 1 .. BufferEnd(a, s) - wire[a][s] : wire' = [wire EXCEPT ![a][s] = @ + n]
      BY <1>4 DEF Send
    <2>3. wire' \in [Senders -> [Streams -> Nat]]
      BY <2>1, <2>2 DEF ThreadTypeOK
    <2>. QED
      BY <1>4, <2>3 DEF ThreadTypeOK, OutputTypeOK, Send, envVars, shared
  <1>5. ASSUME NEW s \in Streams, Listen(s) \/ AcceptFail(s) \/ EofAtHeader(s) \/ EofInName(s) \/ OpenOutput(s)
        PROVE  TypeOK'
    <2>1. \E pc \in ReceiverPcs : ReceiverGoes(s, pc)
      BY <1>5 DEF Listen, AcceptFail, EofAtHeader, EofInName, OpenOutput, ReceiverPcs
    <2>2. ThreadTypeOK'
      BY <2>1, ReceiverGoesType
    <2>. QED
      BY <1>5, <2>2 DEF OutputTypeOK, Listen, AcceptFail, EofAtHeader, EofInName, OpenOutput, shared
  <1>6. ASSUME NEW s \in Streams, Accept(s)
        PROVE  TypeOK'
    <2>1. queue[s] \in Seq(Senders) /\ queue[s] # <<>>
      BY <1>6 DEF ThreadTypeOK, Accept
    <2>2. Head(queue[s]) \in Senders /\ Tail(queue[s]) \in Seq(Senders)
      BY <2>1
    <2>3. ThreadTypeOK'
      BY <1>6, <2>2 DEF ThreadTypeOK, Accept, ReceiverPcs, senderVars, envVars
    <2>4. OutputTypeOK'
      BY <1>6, <2>2 DEF OutputTypeOK, Accept, shared
    <2>. QED
      BY <2>3, <2>4
  <1>7. ASSUME NEW s \in Streams, ReceiveHeader(s)
        PROVE  TypeOK'
    <2>1. PICK n \in 1 .. HeaderUnits - got[s] :
            Receives(s, n) /\ ReceiverGoes(s, IF got[s] + n < HeaderUnits THEN "header"
                                              ELSE IF NameSizeOk(s) THEN "name" ELSE "failed")
      BY <1>7 DEF ReceiveHeader
    <2>2. n \in Nat
      BY BoundAssumption DEF OutputTypeOK
    <2>3. ThreadTypeOK'
      BY <2>1, ReceiverGoesType DEF ReceiverPcs
    <2>. QED
      BY <1>7, <2>1, <2>2, <2>3 DEF OutputTypeOK, ReceiveHeader, Receives, shared
  <1>8. ASSUME NEW s \in Streams, ReceiveName(s)
        PROVE  TypeOK'
    <2>1. PICK n \in 1 .. HeadLen(acc[s]) - got[s] :
            Receives(s, n) /\ ReceiverGoes(s, IF got[s] + n < HeadLen(acc[s]) THEN "name" ELSE AfterName(s))
      BY <1>8 DEF ReceiveName
    <2>2. acc[s] \in Senders
      BY <1>8, AcceptedSender DEF ReceiveName, Connected
    <2>3. n \in Nat
      BY <2>2, StreamFacts DEF OutputTypeOK
    <2>4. AfterName(s) \in ReceiverPcs /\ "name" \in ReceiverPcs
      BY DEF AfterName, ReceiverPcs
    <2>5. ThreadTypeOK'
      BY <2>1, <2>4, ReceiverGoesType
    <2>. QED
      BY <1>8, <2>1, <2>3, <2>5 DEF OutputTypeOK, ReceiveName, Receives, shared
  <1>9. ASSUME NEW s \in Streams, Enter(s)
        PROVE  TypeOK'
    <2>1. acc[s] \in Senders
      BY <1>9, AcceptedSender DEF Enter, Connected
    <2>2. Name[acc[s]] \in Names /\ Size[acc[s]] \in 0 .. MaxBytes
      BY <2>1, StreamFacts DEF Names
    <2>3. \E pc \in ReceiverPcs : ReceiverGoes(s, pc)
      BY <1>9 DEF Enter, ReceiverPcs
    <2>4. ThreadTypeOK'
      BY <2>3, ReceiverGoesType
    <2>5. initialized' \in BOOLEAN /\ lock' \in Streams \cup {NoStream}
      BY <1>9 DEF OutputTypeOK, Enter, shared
    <2>6. file_name' \in Names \cup {NoName} /\ total_size' \in 0 .. MaxBytes
      BY <1>9, <2>2, IncomingFacts DEF OutputTypeOK, Enter, shared
    <2>. QED
      BY <1>9, <2>4, <2>5, <2>6 DEF OutputTypeOK, Enter
  <1>10. ASSUME NEW s \in Streams, CreateOutput(s) \/ ResizeOutput(s)
         PROVE  TypeOK'
    <2>1. Truncated \in [Offsets -> Cells] /\ Resized(out, total_size) \in [Offsets -> Cells]
      BY CellFacts DEF OutputTypeOK, Truncated, Resized
    <2>2. \E pc \in ReceiverPcs : ReceiverGoes(s, pc)
      BY <1>10 DEF CreateOutput, ResizeOutput, ReceiverPcs
    <2>3. ThreadTypeOK'
      BY <2>2, ReceiverGoesType
    <2>4. out' \in [Offsets -> Cells] /\ lock' \in Streams \cup {NoStream}
      BY <1>10, <2>1 DEF OutputTypeOK, CreateOutput, ResizeOutput, Unlock
    <2>. QED
      BY <1>10, <2>3, <2>4 DEF OutputTypeOK, CreateOutput, ResizeOutput, shared
  <1>11. ASSUME NEW s \in Streams, ReceivePart(s)
         PROVE  TypeOK'
    <2>1. acc[s] \in Senders
      BY <1>11, AcceptedSender DEF ReceivePart, Connected
    <2>2. /\ PartSize(acc[s], s) \in Nat /\ HeadLen(acc[s]) \in Nat
          /\ got[s] \in Nat /\ flushed[s] \in Nat /\ got[s] >= HeadLen(acc[s])
      BY <1>11, <2>1, StreamFacts, SenderAssumption DEF OutputTypeOK, ReceivePart, PositionInv, PosAt
    <2>3. PICK n \in 1 .. Incoming(s).payload_size - Received(s) :
            /\ Receives(s, n)
            /\ \/ ReceiverGoes(s, "part") /\ Flush(s, Received(s) + n)
               \/ ReceiverGoes(s, "part") /\ UNCHANGED <<flushed, out>>
               \/ /\ ~diskOk /\ ReceiverGoes(s, "failed")
                  /\ \E m \in flushed[s] .. Received(s) + n : Flush(s, m)
      BY <1>11 DEF ReceivePart
    <2>4. n \in Nat /\ Received(s) + n \in Nat
      BY <2>2, IncomingFacts DEF Received
    <2>5. flushed' \in [Streams -> Nat] /\ out' \in [Offsets -> Cells]
      <3>1. CASE Flush(s, Received(s) + n)
        BY <2>1, <2>4, <3>1, FlushType
      <3>2. CASE UNCHANGED <<flushed, out>>
        BY <3>2 DEF OutputTypeOK
      <3>3. CASE \E m \in flushed[s] .. Received(s) + n : Flush(s, m)
        <4>1. PICK m \in flushed[s] .. Received(s) + n : Flush(s, m)
          BY <3>3
        <4>2. m \in Nat
          BY <2>2, <2>4
        <4>. QED
          BY <2>1, <4>1, <4>2, FlushType
      <3>. QED
        BY <2>3, <3>1, <3>2, <3>3
    <2>6. ThreadTypeOK'
      BY <2>3, ReceiverGoesType DEF ReceiverPcs
    <2>7. got' \in [Streams -> Nat]
      BY <2>3, <2>4 DEF OutputTypeOK, Receives
    <2>8. UNCHANGED <<acc, lock, initialized, file_name, total_size>>
      BY <1>11 DEF ReceivePart, shared
    <2>. QED
      BY <2>5, <2>6, <2>7, <2>8 DEF OutputTypeOK
  <1>12. ASSUME NEW s \in Streams, EofInPart(s) \/ ClosePart(s) \/ ReceiveError(s)
         PROVE  TypeOK'
    <2>1. acc[s] \in Senders
      BY <1>12, AcceptedSender DEF EofInPart, ClosePart, ReceiveError, Connected
    <2>2. CloseOutput(s) \/ UNCHANGED <<flushed, out>>
      BY <1>12 DEF EofInPart, ClosePart, ReceiveError
    <2>3. flushed' \in [Streams -> Nat] /\ out' \in [Offsets -> Cells]
      BY <2>1, <2>2, CloseOutputIsFlush, FlushType DEF OutputTypeOK
    <2>4. \E pc \in ReceiverPcs : ReceiverGoes(s, pc)
      BY <1>12 DEF EofInPart, ClosePart, ReceiveError, ReceiverPcs
    <2>5. ThreadTypeOK'
      BY <2>4, ReceiverGoesType
    <2>6. UNCHANGED <<acc, got, lock, initialized, file_name, total_size>>
      BY <1>12 DEF EofInPart, ClosePart, ReceiveError, shared
    <2>. QED
      BY <2>3, <2>5, <2>6 DEF OutputTypeOK
  <1>13. ASSUME JoinReceive \/ LinkFails \/ DiskFails \/ UNCHANGED vars
         PROVE  TypeOK'
    <2>1. rmain' \in ReceiverMains /\ linkUp' \in BOOLEAN /\ diskOk' \in BOOLEAN
      BY <1>13 DEF ThreadTypeOK, JoinReceive, LinkFails, DiskFails, Verdict, ReceiverMains, envVars, vars
    <2>. QED
      BY <1>13, <2>1 DEF ThreadTypeOK, OutputTypeOK, JoinReceive, LinkFails, DiskFails,
                         senderVars, envVars, shared, vars
  <1>. QED
    BY <1>1, <1>2, <1>3, <1>4, <1>5, <1>6, <1>7, <1>8, <1>9, <1>10, <1>11, <1>12, <1>13
       DEF Next, SendThread, ReceiveThread

-----------------------------------------------------------------------------
(***************************************************************************)
(* Frames: what a step leaves alone.                                       *)
(***************************************************************************)
ReceiverStep(s) == ReceiveThread(s) \/ AcceptFail(s) \/ ReceiveError(s)
SenderStep      == \E a \in Senders : \/ StartSend(a) \/ JoinSend(a) \/ KillSender(a)
                                      \/ \E s \in Streams : SendThread(a, s)

\* A step is of the senders, of one receive_file_part thread, of the join or of the
\* environment.
LEMMA StepCases ==
  ASSUME [Next]_vars
  PROVE  \/ SenderStep
         \/ \E s \in Streams : ReceiverStep(s)
         \/ JoinReceive \/ LinkFails \/ DiskFails \/ UNCHANGED vars
  BY DEF Next, SenderStep, ReceiverStep

\* A sender's step touches nothing of the receiver's.
LEMMA SenderFrame ==
  ASSUME SenderStep
  PROVE  UNCHANGED <<acc, rmain, rpc, got, flushed, lock, initialized, file_name,
                     total_size, out, linkUp, diskOk>>
  <1>1. ASSUME NEW a \in Senders, StartSend(a) \/ JoinSend(a) \/ KillSender(a)
        PROVE  UNCHANGED <<acc, rmain, rpc, got, flushed, lock, initialized, file_name,
                           total_size, out, linkUp, diskOk>>
    BY <1>1 DEF StartSend, JoinSend, KillSender, envVars, shared
  <1>2. ASSUME NEW a \in Senders, NEW s \in Streams, SendThread(a, s)
        PROVE  UNCHANGED <<acc, rmain, rpc, got, flushed, lock, initialized, file_name,
                           total_size, out, linkUp, diskOk>>
    <2>1. Send(a, s) \/ \E pc : SenderGoes(a, s, pc)
      BY <1>2 DEF SendThread, OpenInput, Connect, ConnectFail, SendFail, ReadFail, CloseSend
    <2>. QED
      BY <2>1 DEF Send, SenderGoes, envVars, shared
  <1>. QED
    BY <1>1, <1>2 DEF SenderStep

\* The steps of neither side touch nothing of either side's threads.
LEMMA OtherFrame ==
  ASSUME JoinReceive \/ LinkFails \/ DiskFails \/ UNCHANGED vars
  PROVE  UNCHANGED <<smain, spc, wire, queue, acc, rpc, got, flushed, lock, initialized, file_name,
                     total_size, out>>
  BY DEF JoinReceive, LinkFails, DiskFails, vars, senderVars, shared

\* A receiving thread touches nothing of the senders'.
LEMMA ReceiverFrame ==
  ASSUME NEW s \in Streams, ReceiverStep(s)
  PROVE  UNCHANGED <<smain, spc, wire, rmain, linkUp, diskOk>>
  BY DEF ReceiverStep, ReceiveThread, Listen, Accept, AcceptFail, ReceiveHeader, ReceiveName,
         EofAtHeader, EofInName, Enter, CreateOutput, ResizeOutput, OpenOutput, ReceivePart,
         EofInPart, ClosePart, ReceiveError, ReceiverGoes, senderVars, envVars

\* It touches nothing that belongs to another receiving thread.
LEMMA OtherStreams ==
  ASSUME TypeOK, NEW s \in Streams, ReceiverStep(s), NEW t \in Streams, t # s
  PROVE  /\ rpc'[t] = rpc[t] /\ acc'[t] = acc[t] /\ got'[t] = got[t]
         /\ flushed'[t] = flushed[t] /\ queue'[t] = queue[t]
  <1>. USE DEF TypeOK, ThreadTypeOK, OutputTypeOK
  <1>1. CASE Listen(s) \/ AcceptFail(s) \/ EofAtHeader(s) \/ EofInName(s) \/ OpenOutput(s)
             \/ Enter(s) \/ CreateOutput(s) \/ ResizeOutput(s)
    <2>1. UNCHANGED <<acc, got, flushed>> /\ \E pc : ReceiverGoes(s, pc)
      BY <1>1 DEF Listen, AcceptFail, EofAtHeader, EofInName, OpenOutput, Enter, CreateOutput,
                  ResizeOutput
    <2>. QED
      BY <2>1 DEF ReceiverGoes
  <1>2. CASE Accept(s)
    BY <1>2 DEF Accept
  <1>3. CASE ReceiveHeader(s) \/ ReceiveName(s)
    <2>1. UNCHANGED <<acc, flushed>> /\ (\E pc : ReceiverGoes(s, pc)) /\ (\E n : Receives(s, n))
      BY <1>3 DEF ReceiveHeader, ReceiveName
    <2>. QED
      BY <2>1 DEF ReceiverGoes, Receives
  <1>4. CASE ReceivePart(s)
    <2>1. /\ UNCHANGED acc
          /\ \E pc : ReceiverGoes(s, pc)
          /\ \E n : Receives(s, n)
          /\ UNCHANGED flushed \/ \E m : Flush(s, m)
      BY <1>4 DEF ReceivePart
    <2>. QED
      BY <2>1 DEF ReceiverGoes, Receives, Flush
  <1>5. CASE EofInPart(s) \/ ClosePart(s) \/ ReceiveError(s)
    <2>1. /\ UNCHANGED <<acc, got>>
          /\ \E pc : ReceiverGoes(s, pc)
          /\ UNCHANGED flushed \/ \E m : Flush(s, m)
      BY <1>5 DEF EofInPart, ClosePart, ReceiveError, CloseOutput
    <2>. QED
      BY <2>1 DEF ReceiverGoes, Flush
  <1>. QED
    BY <1>1, <1>2, <1>3, <1>4, <1>5 DEF ReceiverStep, ReceiveThread

-----------------------------------------------------------------------------
(***************************************************************************)
(* The parts of the invariant are preserved.                               *)
(***************************************************************************)
LEMMA ConnStep ==
  ASSUME TypeOK, ConnInv, [Next]_vars
  PROVE  ConnInv'
  <1>1. ASSUME SenderStep
        PROVE  ConnInv'
    <2>1. \A t \in Streams : ConnAt(t)'
      BY <1>1, SenderFrame DEF ConnInv, ConnAt
    <2>2. \A t \in Streams : QueueAt(t)'
      <3>1. CASE UNCHANGED queue
        BY <3>1 DEF ConnInv, QueueAt
      <3>2. CASE \E a \in Senders, s \in Streams : Connect(a, s)
        <4>1. PICK a \in Senders, s \in Streams : Connect(a, s)
          BY <3>2
        <4>2. /\ queue \in [Streams -> Seq(Senders)]
              /\ queue' = [queue EXCEPT ![s] = Append(queue[s], a)]
              /\ s < Parallel[a]
          BY <4>1 DEF TypeOK, ThreadTypeOK, Connect, Running
        <4>3. QueueAt(s)'
          BY <4>2 DEF ConnInv, QueueAt
        <4>4. \A t \in Streams : t # s => QueueAt(t)'
          BY <4>2 DEF ConnInv, QueueAt
        <4>. QED
          BY <4>3, <4>4
      <3>. QED
        BY <1>1, <3>1, <3>2 DEF SenderStep, SendThread, StartSend, JoinSend, KillSender, OpenInput,
           ConnectFail, Send, SendFail, ReadFail, CloseSend
    <2>. QED
      BY <2>1, <2>2 DEF ConnInv
  <1>2. ASSUME NEW s \in Streams, ReceiverStep(s)
        PROVE  ConnInv'
    <2>1. \A t \in Streams : t # s => ConnAt(t)' /\ QueueAt(t)'
      BY <1>2, OtherStreams DEF ConnInv, ConnAt, QueueAt
    <2>2. ConnAt(s) /\ QueueAt(s)
      BY DEF ConnInv
    <2>3. QueueAt(s)'
      <3>1. CASE queue'[s] = queue[s] \/ queue'[s] = <<>>
        BY <2>2, <3>1 DEF QueueAt
      <3>2. CASE Accept(s)
        <4>1. queue[s] \in Seq(Senders) /\ queue[s] # <<>> /\ queue'[s] = Tail(queue[s])
          BY <3>2 DEF TypeOK, ThreadTypeOK, Accept
        <4>. QED
          BY <2>2, <4>1 DEF QueueAt
      <3>3. Accept(s) \/ \E pc : ReceiverGoes(s, pc)
        BY <1>2 DEF ReceiverStep, ReceiveThread, Listen, AcceptFail, ReceiveHeader, ReceiveName,
           EofAtHeader, EofInName, Enter, CreateOutput, ResizeOutput, OpenOutput, ReceivePart,
           EofInPart, ClosePart, ReceiveError
      <3>4. (\E pc : ReceiverGoes(s, pc)) => queue'[s] = queue[s] \/ queue'[s] = <<>>
        BY DEF TypeOK, ThreadTypeOK, ReceiverGoes
      <3>. QED
        BY <3>1, <3>2, <3>3, <3>4
    <2>4. ASSUME queue[s] \in Seq(Senders), queue[s] # <<>>
          PROVE  queue[s][1] \in Senders /\ s < Parallel[queue[s][1]]
      <3>1. 1 \in 1 .. Len(queue[s])
        BY <2>4
      <3>. QED
        BY <2>2, <2>4, <3>1 DEF QueueAt
    <2>5. ConnAt(s)'
      <3>. USE DEF ConnAt, Connected, TypeOK, ThreadTypeOK, OutputTypeOK
      <3>1. CASE Listen(s) \/ AcceptFail(s)
        BY <2>2, <3>1 DEF Listen, AcceptFail, ReceiverGoes
      <3>2. CASE Accept(s)
        <4>1. /\ queue[s] \in Seq(Senders) /\ queue[s] # <<>> /\ acc'[s] = queue[s][1]
              /\ rpc'[s] = "header" /\ rpc[s] = "accept"
          BY <3>2 DEF Accept
        <4>2. acc'[s] \in Senders /\ s < Parallel[acc'[s]]
          BY <2>4, <4>1
        <4>. QED
          BY <2>2, <4>1, <4>2, SenderAssumption
      <3>3. CASE rpc[s] \in Connected /\ acc'[s] = acc[s] /\ rpc'[s] \notin {"start", "accept"}
        <4>1. acc[s] # NoSender /\ s < RecvParallel /\ s < Parallel[acc[s]]
          BY <2>2, <3>3
        <4>. QED
          BY <3>3, <4>1
      <3>4. CASE ReceiveHeader(s) \/ ReceiveName(s) \/ EofAtHeader(s) \/ EofInName(s) \/ Enter(s)
        BY <3>3, <3>4 DEF ReceiveHeader, ReceiveName, EofAtHeader, EofInName, Enter, AfterName, ReceiverGoes
      <3>5. CASE CreateOutput(s) \/ ResizeOutput(s) \/ OpenOutput(s)
        BY <3>3, <3>5 DEF CreateOutput, ResizeOutput, OpenOutput, ReceiverGoes
      <3>6. CASE ReceivePart(s) \/ EofInPart(s) \/ ClosePart(s) \/ ReceiveError(s)
        BY <3>3, <3>6 DEF ReceivePart, EofInPart, ClosePart, ReceiveError, ReceiverGoes
      <3>. QED
        BY <1>2, <3>1, <3>2, <3>4, <3>5, <3>6 DEF ReceiverStep, ReceiveThread
    <2>. QED
      BY <2>1, <2>3, <2>5 DEF ConnInv
  <1>3. ASSUME JoinReceive \/ LinkFails \/ DiskFails \/ UNCHANGED vars
        PROVE  ConnInv'
    BY <1>3, OtherFrame DEF ConnInv, ConnAt, QueueAt
  <1>. QED
    BY <1>1, <1>2, <1>3, StepCases

\* A send call ends no later than the stream does.
LEMMA BufferFacts ==
  ASSUME TypeOK, NEW a \in Senders, NEW s \in Streams
  PROVE  /\ wire[a][s] \in Nat
         /\ BufferEnd(a, s) \in Nat /\ StreamLen(a, s) \in Nat
         /\ BufferEnd(a, s) <= StreamLen(a, s)
  <1>1. wire[a][s] \in Nat
    BY DEF TypeOK, ThreadTypeOK
  <1>2. /\ HeaderUnits \in Nat /\ HeadLen(a) \in Nat /\ PartSize(a, s) \in Nat
        /\ HeaderUnits < HeadLen(a) /\ StreamLen(a, s) = HeadLen(a) + PartSize(a, s)
    BY StreamFacts
  <1>3. BufferEnd(a, s) \in {HeaderUnits, HeadLen(a), StreamLen(a, s)}
    BY DEF BufferEnd
  <1>. QED
    BY <1>1, <1>2, <1>3

\* No step makes a send_file_range thread report more than it has sent.
LEMMA SendStep ==
  ASSUME TypeOK, SendInv, [Next]_vars
  PROVE  SendInv'
  <1>. USE DEF TypeOK, ThreadTypeOK
  <1>1. ASSUME NEW a \in Senders, StartSend(a) \/ JoinSend(a) \/ KillSender(a)
        PROVE  SendInv'
    <2>. SUFFICES ASSUME NEW b \in Senders, NEW t \in Streams PROVE SendAt(b, t)'
      BY DEF SendInv
    <2>1. SendAt(b, t)
      BY DEF SendInv
    <2>2. UNCHANGED <<spc, wire>> /\ (b # a => smain'[b] = smain[b])
      BY <1>1 DEF StartSend, JoinSend, KillSender
    <2>3. smain'[a] = "ok" /\ t < Parallel[a] => spc[a][t] = "closed"
      <3>1. CASE StartSend(a) \/ KillSender(a)
        BY <3>1 DEF StartSend, KillSender
      <3>2. CASE JoinSend(a)
        <4>1. /\ \A s \in 0 .. Parallel[a] - 1 : spc[a][s] \in SenderEnded
              /\ smain'[a] = "ok" => ~ \E s \in 0 .. Parallel[a] - 1 : spc[a][s] = "failed"
          BY <3>2 DEF JoinSend, Verdict
        <4>2. t < Parallel[a] => t \in 0 .. Parallel[a] - 1
          BY StreamFacts, BoundAssumption DEF Streams
        <4>. QED
          BY <4>1, <4>2 DEF SenderEnded
      <3>. QED
        BY <1>1, <3>1, <3>2
    <2>. QED
      BY <2>1, <2>2, <2>3 DEF SendAt
  <1>2. ASSUME NEW a \in Senders, NEW s \in Streams, SendThread(a, s)
        PROVE  SendInv'
    <2>. SUFFICES ASSUME NEW b \in Senders, NEW t \in Streams PROVE SendAt(b, t)'
      BY DEF SendInv
    <2>1. SendAt(b, t) /\ SendAt(a, s)
      BY DEF SendInv
    <2>2. smain[a] = "run" /\ UNCHANGED smain
      BY <1>2 DEF SendThread, OpenInput, Connect, ConnectFail, Send, SendFail, ReadFail, CloseSend,
                  Running, SenderGoes
    <2>3. CASE b # a \/ t # s
      <3>1. Send(a, s) \/ (UNCHANGED wire /\ \E pc : SenderGoes(a, s, pc))
        BY <1>2 DEF SendThread, OpenInput, Connect, ConnectFail, SendFail, ReadFail, CloseSend
      <3>2. spc'[b][t] = spc[b][t] /\ wire'[b][t] = wire[b][t]
        BY <2>3, <3>1 DEF Send, SenderGoes
      <3>. QED
        BY <2>1, <2>2, <3>2 DEF SendAt
    <2>4. CASE b = a /\ t = s
      <3>1. CASE Send(a, s)
        <4>1. PICK n \in 1 .. BufferEnd(a, s) - wire[a][s] : wire' = [wire EXCEPT ![a][s] = wire[a][s] + n]
          BY <3>1 DEF Send
        <4>2. wire[a][s] \in Nat /\ BufferEnd(a, s) <= StreamLen(a, s) /\ StreamLen(a, s) \in Nat
          BY BufferFacts
        <4>3. wire'[a][s] <= StreamLen(a, s)
          <5>1. wire'[a][s] = wire[a][s] + n
            BY <4>1
          <5>. QED
            BY <4>1, <4>2, <5>1, BufferFacts
        <4>4. spc[a][s] = "sending" /\ UNCHANGED spc
          BY <3>1 DEF Send
        <4>. QED
          BY <2>1, <2>2, <2>4, <4>3, <4>4 DEF SendAt
      <3>2. CASE Connect(a, s)
        <4>1. spc'[a][s] = "sending" /\ UNCHANGED wire /\ s < RecvParallel
          BY <3>2 DEF Connect, SenderGoes, CanConnect, Listening
        <4>. QED
          BY <2>1, <2>2, <2>4, <4>1 DEF SendAt
      <3>3. CASE CloseSend(a, s)
        <4>1. /\ spc'[a][s] = "closed" /\ spc[a][s] = "sending"
              /\ UNCHANGED wire /\ wire[a][s] = StreamLen(a, s)
          BY <3>3 DEF CloseSend, SenderGoes
        <4>. QED
          BY <2>1, <2>2, <2>4, <4>1 DEF SendAt
      <3>4. CASE OpenInput(a, s) \/ ConnectFail(a, s) \/ SendFail(a, s) \/ ReadFail(a, s)
        <4>1. spc'[a][s] \in {"opened", "failed"} /\ UNCHANGED wire
          BY <3>4 DEF OpenInput, ConnectFail, SendFail, ReadFail, SenderGoes
        <4>. QED
          BY <2>1, <2>2, <2>4, <4>1 DEF SendAt
      <3>. QED
        BY <1>2, <3>1, <3>2, <3>3, <3>4 DEF SendThread
    <2>. QED
      BY <2>3, <2>4
  <1>3. CASE UNCHANGED <<smain, spc, wire>>
    BY <1>3 DEF SendInv, SendAt
  <1>. QED
    BY <1>1, <1>2, <1>3, StepCases, ReceiverFrame, OtherFrame DEF SenderStep

\* The receiver's verdict stays that of its joined threads.
LEMMA MainStep ==
  ASSUME TypeOK, MainInv, [Next]_vars
  PROVE  MainInv'
  <1>. USE DEF MainInv
  <1>1. CASE UNCHANGED <<rmain, rpc>>
    BY <1>1
  <1>2. CASE JoinReceive
    BY <1>2 DEF JoinReceive, Verdict, ReceiverEnded
  <1>3. ASSUME NEW s \in Streams, ReceiverStep(s)
        PROVE  MainInv'
    <2>. SUFFICES ASSUME rmain = "ok", NEW t \in 0 .. RecvParallel - 1
                  PROVE  rpc'[t] = "done"
      BY <1>3, ReceiverFrame
    <2>1. t \in Streams /\ rpc[t] = "done"
      BY BoundAssumption DEF Streams
    <2>2. rpc[s] # "done"
      <3>1. CASE Listen(s) \/ Accept(s) \/ AcceptFail(s) \/ ReceiveHeader(s) \/ ReceiveName(s)
                 \/ EofAtHeader(s) \/ EofInName(s)
        BY <3>1 DEF Listen, Accept, AcceptFail, ReceiveHeader, ReceiveName, EofAtHeader, EofInName
      <3>2. CASE Enter(s) \/ CreateOutput(s) \/ ResizeOutput(s) \/ OpenOutput(s) \/ ReceivePart(s)
                 \/ EofInPart(s) \/ ClosePart(s) \/ ReceiveError(s)
        BY <3>2 DEF Enter, CreateOutput, ResizeOutput, OpenOutput, ReceivePart, EofInPart, ClosePart,
                    ReceiveError
      <3>. QED
        BY <1>3, <3>1, <3>2 DEF ReceiverStep, ReceiveThread
    <2>. QED
      BY <1>3, <2>1, <2>2, OtherStreams
  <1>4. CASE LinkFails \/ DiskFails \/ UNCHANGED vars
    BY <1>4 DEF LinkFails, DiskFails, vars
  <1>. QED
    BY <1>1, <1>2, <1>3, <1>4, StepCases, SenderFrame

-----------------------------------------------------------------------------
(***************************************************************************)
(* Positions in the streams.                                               *)
(***************************************************************************)
\* The numbers that a connected thread computes with.
LEMMA ThreadFacts ==
  ASSUME TypeOK, NEW s \in Streams, NEW a \in Senders
  PROVE  /\ got[s] \in Nat /\ flushed[s] \in Nat /\ wire[a][s] \in Nat
         /\ HeaderUnits \in Nat /\ HeadLen(a) \in Nat /\ PartSize(a, s) \in Nat
         /\ StreamLen(a, s) = HeadLen(a) + PartSize(a, s)
         /\ 0 < HeaderUnits /\ HeaderUnits < HeadLen(a)
  <1>1. got[s] \in Nat /\ flushed[s] \in Nat /\ wire[a][s] \in Nat
    BY DEF TypeOK, ThreadTypeOK, OutputTypeOK
  <1>. QED
    BY <1>1, StreamFacts

\* Senders only add to their streams, and add nothing to a closed one.
LEMMA SenderProgress ==
  ASSUME TypeOK, SenderStep, NEW b \in Senders, NEW t \in Streams
  PROVE  /\ wire[b][t] <= wire'[b][t]
         /\ Fin(b, t) => Fin(b, t)' /\ wire'[b][t] = wire[b][t]
  <1>. USE DEF TypeOK, ThreadTypeOK
  <1>0. wire[b][t] \in Nat
    OBVIOUS
  <1>1. ASSUME NEW a \in Senders, StartSend(a) \/ JoinSend(a) \/ KillSender(a)
        PROVE  UNCHANGED <<spc, wire>> /\ (smain[b] = "killed" => smain'[b] = "killed")
    BY <1>1 DEF StartSend, JoinSend, KillSender
  <1>2. ASSUME NEW a \in Senders, NEW s \in Streams, SendThread(a, s)
        PROVE  /\ wire[b][t] <= wire'[b][t]
               /\ Fin(b, t) => Fin(b, t)' /\ wire'[b][t] = wire[b][t]
    <2>1. /\ smain[a] = "run" /\ UNCHANGED smain
          /\ spc[a][s] \in {"start", "opened", "sending"}
      BY <1>2 DEF SendThread, OpenInput, Connect, ConnectFail, Send, SendFail, ReadFail, CloseSend,
                  Running, SenderGoes
    <2>2. CASE b = a /\ t = s
      <3>1. ~Fin(b, t)
        BY <2>1, <2>2 DEF Fin, SenderEnded
      <3>2. CASE Send(a, s)
        <4>1. PICK n \in 1 .. BufferEnd(a, s) - wire[a][s] :
                wire' = [wire EXCEPT ![a][s] = wire[a][s] + n]
          BY <3>2 DEF Send
        <4>2. n \in Nat
          BY <4>1, BufferFacts
        <4>3. wire'[b][t] = wire[b][t] + n
          BY <2>2, <4>1
        <4>. QED
          BY <1>0, <3>1, <4>2, <4>3
      <3>3. CASE UNCHANGED wire
        BY <1>0, <3>1, <3>3
      <3>. QED
        BY <1>2, <3>2, <3>3 DEF SendThread, OpenInput, Connect, ConnectFail, SendFail, ReadFail, CloseSend
    <2>3. CASE b # a \/ t # s
      <3>1. Send(a, s) \/ (UNCHANGED wire /\ \E pc : SenderGoes(a, s, pc))
        BY <1>2 DEF SendThread, OpenInput, Connect, ConnectFail, SendFail, ReadFail, CloseSend
      <3>2. spc'[b][t] = spc[b][t] /\ wire'[b][t] = wire[b][t]
        BY <2>3, <3>1 DEF Send, SenderGoes
      <3>. QED
        BY <1>0, <2>1, <3>2 DEF Fin
    <2>. QED
      BY <2>2, <2>3
  <1>3. CASE \E a \in Senders : StartSend(a) \/ JoinSend(a) \/ KillSender(a)
    BY <1>0, <1>1, <1>3 DEF Fin
  <1>. QED
    BY <1>2, <1>3 DEF SenderStep

\* A thread outside the payload loop writes nothing.
LEMMA QuietStep ==
  ASSUME NEW s \in Streams, ReceiverStep(s), rpc[s] # "part"
  PROVE  UNCHANGED flushed
  BY DEF ReceiverStep, ReceiveThread, Listen, Accept, AcceptFail, ReceiveHeader, ReceiveName,
         EofAtHeader, EofInName, Enter, CreateOutput, ResizeOutput, OpenOutput, ReceivePart,
         EofInPart, ClosePart, ReceiveError

\* A thread in the payload loop gives its part of the file, up to some m that
\* it has received, to the operating system; when it leaves the loop without
\* an error it has received the part, and written it if the disk works.
LEMMA WriteStep ==
  ASSUME TypeOK, ConnInv, PositionInv, SendInv, NEW s \in Streams, ReceiverStep(s), rpc[s] = "part"
  PROVE  \E m \in Nat :
           /\ flushed' = [flushed EXCEPT ![s] = m]
           /\ out' = Written(out, s, flushed[s], m) \/ (out' = out /\ m = flushed[s])
           /\ flushed[s] <= m /\ HeadLen(acc[s]) + m <= got'[s]
           /\ acc' = acc /\ lock' = lock /\ UNCHANGED <<initialized, file_name, total_size>>
           /\ got'[s] \in Nat /\ got[s] <= got'[s] /\ got'[s] <= wire[acc[s]][s]
           /\ rpc'[s] \in {"part", "failed", "header", "done"}
           /\ rpc'[s] = "header" => RecvParallel > 1
           /\ rpc'[s] \in {"header", "done"} =>
                /\ got'[s] = StreamLen(acc[s], s)
                /\ diskOk => m = PartSize(acc[s], s)
  <1>. DEFINE a == acc[s]
  <1>1. a \in Senders /\ a # NoSender
    BY AcceptedSender, SenderAssumption DEF Connected
  <1>2. PosAt(s, a) /\ FlushAt(s, a)
    BY <1>1 DEF PositionInv
  <1>3. /\ got[s] \in Nat /\ flushed[s] \in Nat /\ wire[a][s] \in Nat
        /\ HeadLen(a) \in Nat /\ PartSize(a, s) \in Nat
        /\ StreamLen(a, s) = HeadLen(a) + PartSize(a, s)
    BY <1>1, ThreadFacts
  <1>4. /\ got[s] <= wire[a][s] /\ got[s] >= HeadLen(a)
        /\ flushed[s] > 0 => HeadLen(a) + flushed[s] <= got[s]
    BY <1>2 DEF PosAt, FlushAt
  <1>5. Incoming(s).payload_size = PartSize(a, s) /\ Received(s) = got[s] - HeadLen(a)
    BY IncomingFacts DEF Received
  <1>6. rpc \in [Streams -> ReceiverPcs] /\ flushed \in [Streams -> Nat] /\ got \in [Streams -> Nat]
    BY DEF TypeOK, ThreadTypeOK, OutputTypeOK
  <1>. HIDE DEF a
  <1>7. CASE ReceivePart(s)
    <2>1. PICK n \in 1 .. Incoming(s).payload_size - Received(s) :
            /\ Receives(s, n)
            /\ \/ ReceiverGoes(s, "part") /\ Flush(s, Received(s) + n)
               \/ ReceiverGoes(s, "part") /\ UNCHANGED <<flushed, out>>
               \/ /\ ~diskOk /\ ReceiverGoes(s, "failed")
                  /\ \E m \in flushed[s] .. Received(s) + n : Flush(s, m)
      BY <1>7 DEF ReceivePart
    <2>2. n \in Nat /\ n <= wire[a][s] - got[s] /\ got'[s] = got[s] + n
      BY <1>3, <1>5, <1>6, <2>1 DEF Receives, a
    <2>3. rpc'[s] \in {"part", "failed"}
      BY <1>6, <2>1 DEF ReceiverGoes
    <2>4. \E m \in Nat :
            /\ flushed' = [flushed EXCEPT ![s] = m]
            /\ out' = Written(out, s, flushed[s], m) \/ (out' = out /\ m = flushed[s])
            /\ flushed[s] <= m /\ HeadLen(a) + m <= got[s] + n
      <3>1. CASE Flush(s, Received(s) + n)
        <4>1. /\ Received(s) + n \in Nat /\ flushed[s] <= Received(s) + n
              /\ HeadLen(a) + (Received(s) + n) <= got[s] + n
          BY <1>3, <1>4, <1>5, <2>2
        <4>. QED
          BY <3>1, <4>1 DEF Flush
      <3>2. CASE UNCHANGED <<flushed, out>>
        <4>1. flushed' = [flushed EXCEPT ![s] = flushed[s]] /\ out' = out
          BY <1>6, <3>2
        <4>2. HeadLen(a) + flushed[s] <= got[s] + n /\ flushed[s] <= flushed[s]
          BY <1>3, <1>4, <2>2
        <4>3. flushed[s] \in Nat
          BY <1>3
        <4>. WITNESS flushed[s] \in Nat
        <4>. QED
          BY <4>1, <4>2
      <3>3. CASE \E m \in flushed[s] .. Received(s) + n : Flush(s, m)
        <4>1. PICK m \in flushed[s] .. Received(s) + n : Flush(s, m)
          BY <3>3
        <4>2. m \in Nat /\ flushed[s] <= m /\ HeadLen(a) + m <= got[s] + n
          BY <1>3, <1>5, <2>2, <4>1
        <4>. QED
          BY <4>1, <4>2 DEF Flush
      <3>. QED
        BY <2>1, <3>1, <3>2, <3>3
    <2>5. acc' = acc /\ lock' = lock /\ UNCHANGED <<initialized, file_name, total_size>>
      BY <1>7 DEF ReceivePart, shared
    <2>6. got'[s] \in Nat /\ got[s] <= got'[s] /\ got'[s] <= wire[a][s]
      BY <1>3, <2>2
    <2>. QED
      BY <2>2, <2>3, <2>4, <2>5, <2>6 DEF a
  <1>8. CASE EofInPart(s) \/ ClosePart(s) \/ ReceiveError(s)
    <2>1. CloseOutput(s)
      BY <1>8 DEF EofInPart, ClosePart, ReceiveError
    <2>2. PICK m \in Nat : /\ Flush(s, m)
                           /\ flushed[s] <= m /\ HeadLen(a) + m <= got[s]
                           /\ diskOk => HeadLen(a) + m = got[s]
      BY <1>1, <2>1, CloseOutputIsFlush DEF a
    <2>3. UNCHANGED <<acc, got, lock, initialized, file_name, total_size>>
      BY <1>8 DEF EofInPart, ClosePart, ReceiveError, shared
    <2>4. /\ rpc'[s] \in {"failed", "header", "done"}
          /\ rpc'[s] = "header" => RecvParallel > 1
          /\ rpc'[s] \in {"header", "done"} => Received(s) = PartSize(a, s)
      BY <1>5, <1>6, <1>8 DEF EofInPart, ClosePart, ReceiveError, ReceiverGoes
    <2>5. rpc'[s] \in {"header", "done"} =>
            got[s] = StreamLen(a, s) /\ (diskOk => m = PartSize(a, s))
      BY <1>3, <1>5, <2>2, <2>4
    <2>6. got'[s] = got[s] /\ got[s] \in Nat /\ got[s] <= got[s] /\ got[s] <= wire[a][s]
      BY <1>3, <1>4, <2>3
    <2>7. flushed' = [flushed EXCEPT ![s] = m] /\ out' = Written(out, s, flushed[s], m)
      BY <2>2 DEF Flush
    <2>. QED
      BY <2>2, <2>3, <2>4, <2>5, <2>6, <2>7 DEF a
  <1>. QED
    BY <1>7, <1>8 DEF ReceiverStep, ReceiveThread, Listen, Accept, AcceptFail, ReceiveHeader,
       ReceiveName, EofAtHeader, EofInName, Enter, CreateOutput, ResizeOutput, OpenOutput

\* Every step keeps a receive_file_part thread's place and its byte counts together.
LEMMA PositionStep ==
  ASSUME TypeOK, ConnInv, PositionInv, SendInv, [Next]_vars
  PROVE  PositionInv'
  <1>1. ASSUME SenderStep
        PROVE  PositionInv'
    <2>. SUFFICES ASSUME NEW t \in Streams, acc[t] # NoSender
                  PROVE  PosAt(t, acc[t])' /\ FlushAt(t, acc[t])' /\ DoneAt(t, acc[t])'
      BY <1>1, SenderFrame DEF PositionInv
    <2>1. acc[t] \in Senders
      BY DEF TypeOK, OutputTypeOK
    <2>. DEFINE a == acc[t]
    <2>2. PosAt(t, a) /\ FlushAt(t, a) /\ DoneAt(t, a)
      BY DEF PositionInv
    <2>3. /\ wire[a][t] <= wire'[a][t]
          /\ Fin(a, t) => /\ spc'[a][t] \in SenderEnded \/ smain'[a] = "killed"
                          /\ wire'[a][t] = wire[a][t]
      <3>1. PICK b \in Senders : b = a
        BY <2>1
      <3>. QED
        BY <1>1, <3>1, SenderProgress DEF Fin
    <2>4. wire[a][t] \in Nat /\ wire'[a][t] \in Nat /\ got[t] \in Nat
      BY <2>1, ThreadFacts, TypeStep DEF TypeOK, ThreadTypeOK
    <2>5. UNCHANGED <<acc, rpc, got, flushed, diskOk>>
      BY <1>1, SenderFrame
    <2>6. a' = a
      BY <2>5
    <2>. HIDE DEF a
    <2>7. PosAt(t, a)'
      BY <2>2, <2>3, <2>4, <2>5, <2>6 DEF PosAt
    <2>8. FlushAt(t, a)'
      BY <2>2, <2>5, <2>6 DEF FlushAt
    <2>9. DoneAt(t, a)'
      BY <2>2, <2>3, <2>5, <2>6 DEF DoneAt, Fin
    <2>. QED
      BY <2>7, <2>8, <2>9 DEF a
  <1>2. ASSUME NEW s \in Streams, ReceiverStep(s)
        PROVE  PositionInv'
    <2>0. UNCHANGED <<smain, spc, wire, diskOk>>
      BY <1>2, ReceiverFrame
    <2>1. ASSUME NEW t \in Streams, t # s, acc'[t] # NoSender
          PROVE  (PosAt(t, acc[t]) /\ FlushAt(t, acc[t]) /\ DoneAt(t, acc[t]))'
      <3>1. /\ rpc'[t] = rpc[t] /\ acc'[t] = acc[t] /\ got'[t] = got[t]
            /\ flushed'[t] = flushed[t]
        BY <1>2, <2>1, OtherStreams
      <3>2. PosAt(t, acc[t]) /\ FlushAt(t, acc[t]) /\ DoneAt(t, acc[t])
        BY <2>1, <3>1 DEF PositionInv
      <3>. QED
        BY <2>0, <3>1, <3>2 DEF PosAt, FlushAt, DoneAt, Fin
    <2>2. ASSUME acc'[s] # NoSender
          PROVE  (PosAt(s, acc[s]) /\ FlushAt(s, acc[s]) /\ DoneAt(s, acc[s]))'
      <3>. USE DEF TypeOK, ThreadTypeOK, OutputTypeOK
      <3>1. CASE Accept(s)
        <4>1. /\ acc'[s] \in Senders /\ rpc'[s] = "header"
              /\ got'[s] = 0 /\ flushed'[s] = 0
          <5>1. acc[s] = NoSender /\ got[s] = 0 /\ flushed[s] = 0
            BY <3>1 DEF Accept, ConnInv, ConnAt
          <5>2. UNCHANGED <<got, flushed>> /\ rpc'[s] = "header"
            BY <3>1 DEF Accept
          <5>3. acc' \in [Streams -> Senders \cup {NoSender}]
            BY TypeStep
          <5>. QED
            BY <2>2, <5>1, <5>2, <5>3
        <4>2. 0 <= wire'[acc'[s]][s]
          BY <2>0, <4>1, ThreadFacts
        <4>3. 0 < HeaderUnits /\ HeaderUnits < HeadLen(acc'[s]) /\ HeaderUnits \in Nat
              /\ HeadLen(acc'[s]) \in Nat /\ PartSize(acc'[s], s) \in Nat
              /\ StreamLen(acc'[s], s) = HeadLen(acc'[s]) + PartSize(acc'[s], s)
          BY <4>1, StreamFacts
        <4>. HIDE DEF TypeOK, ThreadTypeOK, OutputTypeOK
        <4>4. PosAt(s, acc[s])'
          BY <4>1, <4>2, <4>3 DEF PosAt
        <4>5. FlushAt(s, acc[s])'
          BY <4>1, <4>3 DEF FlushAt
        <4>6. DoneAt(s, acc[s])'
          BY <4>1 DEF DoneAt
        <4>. QED
          BY <4>4, <4>5, <4>6
      <3>2. CASE Listen(s) \/ AcceptFail(s)
        BY <2>2, <3>2 DEF Listen, AcceptFail, ConnInv, ConnAt
      <3>. SUFFICES ASSUME ~Accept(s), ~Listen(s), ~AcceptFail(s)
                    PROVE (PosAt(s, acc[s]) /\ FlushAt(s, acc[s]) /\ DoneAt(s, acc[s]))'
        BY <3>1, <3>2
      <3>3. rpc[s] \in Connected /\ acc' = acc
        BY <1>2 DEF ReceiverStep, ReceiveThread, ReceiveHeader, ReceiveName,
           EofAtHeader, EofInName, Enter, CreateOutput, ResizeOutput, OpenOutput, ReceivePart,
           EofInPart, ClosePart, ReceiveError, Connected
      <3>. DEFINE a == acc[s]
      <3>4. a \in Senders /\ a # NoSender /\ a' = a
        BY <2>2, <3>3
      <3>5. PosAt(s, a) /\ FlushAt(s, a) /\ DoneAt(s, a)
        BY <3>4 DEF PositionInv
      <3>6. /\ got[s] \in Nat /\ flushed[s] \in Nat /\ wire[a][s] \in Nat
            /\ HeaderUnits \in Nat /\ HeadLen(a) \in Nat /\ PartSize(a, s) \in Nat
            /\ StreamLen(a, s) = HeadLen(a) + PartSize(a, s)
            /\ 0 < HeaderUnits /\ HeaderUnits < HeadLen(a)
        BY <3>4, ThreadFacts
      <3>7. SUFFICES PosAt(s, a)' /\ FlushAt(s, a)' /\ DoneAt(s, a)'
        BY <3>4
      <3>8. wire' = wire /\ diskOk' = diskOk
        BY <2>0
      <3>9. rpc \in [Streams -> ReceiverPcs] /\ got \in [Streams -> Nat]
        OBVIOUS
      <3>10. wire[a][s] <= StreamLen(a, s)
        BY <3>4 DEF SendInv, SendAt
      <3>. HIDE DEF a, TypeOK, ThreadTypeOK, OutputTypeOK
      <3>11. CASE rpc[s] = "part"
        <4>1. PICK m \in Nat :
                /\ flushed' = [flushed EXCEPT ![s] = m]
                /\ flushed[s] <= m /\ HeadLen(a) + m <= got'[s]
                /\ got'[s] \in Nat /\ got[s] <= got'[s] /\ got'[s] <= wire[a][s]
                /\ rpc'[s] \in {"part", "failed", "header", "done"}
                /\ rpc'[s] \in {"header", "done"} =>
                     got'[s] = StreamLen(a, s) /\ (diskOk => m = PartSize(a, s))
          BY <1>2, <3>11, WriteStep DEF a
        <4>2. flushed'[s] = m
          BY <4>1 DEF TypeOK, OutputTypeOK
        <4>3. PosAt(s, a)'
          BY <3>4, <3>5, <3>6, <3>8, <3>10, <3>11, <4>1 DEF PosAt
        <4>4. FlushAt(s, a)'
          BY <3>4, <3>6, <3>8, <4>1, <4>2 DEF FlushAt
        <4>5. DoneAt(s, a)'
          BY <3>4, <4>1 DEF DoneAt
        <4>. QED
          BY <4>3, <4>4, <4>5
      <3>12. CASE rpc[s] # "part"
        <4>1. flushed' = flushed
          BY <1>2, <3>12, QuietStep
        <4>2. CASE ReceiveHeader(s)
          <5>1. PICK n \in 1 .. HeaderUnits - got[s] :
                  Receives(s, n) /\ ReceiverGoes(s, IF got[s] + n < HeaderUnits THEN "header"
                                                    ELSE IF NameSizeOk(s) THEN "name" ELSE "failed")
            BY <4>2 DEF ReceiveHeader
          <5>2. /\ n \in Nat /\ got[s] + n <= HeaderUnits
                /\ got'[s] = got[s] + n /\ got[s] + n <= wire[a][s] /\ n > 0
            BY <3>6, <3>9, <5>1 DEF Receives, a
          <5>3. /\ rpc'[s] = "header" => got'[s] < HeaderUnits
                /\ rpc'[s] = "name" => got'[s] = HeaderUnits
                /\ rpc'[s] \in {"header", "name", "failed"}
            <6>1. rpc'[s] = IF got[s] + n < HeaderUnits THEN "header"
                            ELSE IF NameSizeOk(s) THEN "name" ELSE "failed"
              BY <3>9, <5>1 DEF ReceiverGoes
            <6>. QED
              BY <3>6, <5>2, <6>1
          <5>4. flushed[s] = 0
            BY <3>5, <3>6, <5>2 DEF FlushAt
          <5>5. PosAt(s, a)'
            BY <3>4, <3>6, <3>8, <5>2, <5>3 DEF PosAt
          <5>6. FlushAt(s, a)' /\ DoneAt(s, a)'
            BY <3>4, <3>6, <4>1, <5>2, <5>3, <5>4 DEF FlushAt, DoneAt
          <5>. QED
            BY <5>5, <5>6
        <4>3. CASE ReceiveName(s)
          <5>1. PICK n \in 1 .. HeadLen(a) - got[s] :
                  Receives(s, n) /\ ReceiverGoes(s, IF got[s] + n < HeadLen(a) THEN "name" ELSE AfterName(s))
            BY <4>3 DEF ReceiveName, a
          <5>2. /\ n \in Nat /\ got[s] + n <= HeadLen(a) /\ got[s] >= HeaderUnits
                /\ got'[s] = got[s] + n /\ got[s] + n <= wire[a][s] /\ n > 0
            <6>1. got[s] >= HeaderUnits
              BY <3>5, <4>3 DEF PosAt, ReceiveName
            <6>. QED
              BY <3>6, <3>9, <5>1, <6>1 DEF Receives, a
          <5>3. /\ rpc'[s] = "name" => got'[s] < HeadLen(a)
                /\ rpc'[s] \in {"lock", "create"} => got'[s] = HeadLen(a)
                /\ rpc'[s] \in {"name", "lock", "create", "failed"}
            <6>1. rpc'[s] = IF got[s] + n < HeadLen(a) THEN "name" ELSE AfterName(s)
              BY <3>9, <5>1 DEF ReceiverGoes
            <6>2. AfterName(s) \in {"lock", "create", "failed"}
              BY DEF AfterName
            <6>. QED
              BY <3>6, <5>2, <6>1, <6>2
          <5>4. flushed[s] = 0
            BY <3>5, <3>6, <5>2, <5>1 DEF FlushAt
          <5>5. PosAt(s, a)'
            BY <3>4, <3>6, <3>8, <5>2, <5>3 DEF PosAt
          <5>6. FlushAt(s, a)' /\ DoneAt(s, a)'
            BY <3>4, <3>6, <4>1, <5>2, <5>3, <5>4 DEF FlushAt, DoneAt
          <5>. QED
            BY <5>5, <5>6
        <4>4. CASE EofAtHeader(s)
          <5>1. /\ got' = got /\ rpc'[s] \in {"done", "failed"} /\ rpc[s] = "header"
                /\ rpc'[s] = "done" => /\ got[s] \in {0, StreamLen(a, s)} /\ RecvParallel > 1
                                       /\ Fin(a, s) /\ got[s] = wire[a][s]
            BY <3>9, <4>4 DEF EofAtHeader, AtEof, ReceiverGoes, a
          <5>2. PosAt(s, a)' /\ FlushAt(s, a)'
            BY <3>4, <3>5, <3>8, <4>1, <5>1 DEF PosAt, FlushAt
          <5>3. Fin(a, s)' = Fin(a, s)
            BY <2>0, <3>4 DEF Fin
          <5>4. DoneAt(s, a)'
            BY <3>4, <3>8, <5>1, <5>3 DEF DoneAt
          <5>. QED
            BY <5>2, <5>4
        <4>5. CASE Enter(s) \/ CreateOutput(s) \/ ResizeOutput(s) \/ OpenOutput(s)
          <5>1. /\ got' = got
                /\ rpc[s] \in {"lock", "create", "resize", "open"}
                /\ rpc'[s] \in {"create", "resize", "open", "part", "failed"}
            BY <3>9, <4>5 DEF Enter, CreateOutput, ResizeOutput, OpenOutput, ReceiverGoes
          <5>. QED
            BY <3>4, <3>5, <3>6, <3>8, <4>1, <5>1 DEF PosAt, FlushAt, DoneAt
        <4>6. CASE EofInName(s) \/ ReceiveError(s)
          <5>1. got' = got /\ rpc'[s] = "failed"
            BY <3>9, <4>6 DEF EofInName, ReceiveError, ReceiverGoes
          <5>. QED
            BY <3>4, <3>5, <3>8, <4>1, <5>1 DEF PosAt, FlushAt, DoneAt
        <4>. QED
          BY <1>2, <3>12, <4>2, <4>3, <4>4, <4>5, <4>6
             DEF ReceiverStep, ReceiveThread, ReceivePart, EofInPart, ClosePart
      <3>. QED
        BY <3>11, <3>12
    <2>. QED
      BY <2>1, <2>2 DEF PositionInv
  <1>3. ASSUME JoinReceive \/ LinkFails \/ DiskFails \/ UNCHANGED vars
        PROVE  PositionInv'
    <2>1. UNCHANGED <<smain, spc, wire, acc, rpc, got, flushed>>
      BY <1>3, OtherFrame
    <2>2. diskOk' => diskOk
      BY <1>3 DEF JoinReceive, LinkFails, DiskFails, envVars, vars
    <2>. SUFFICES ASSUME NEW t \in Streams, acc[t] # NoSender
                  PROVE  PosAt(t, acc[t])' /\ FlushAt(t, acc[t])' /\ DoneAt(t, acc[t])'
      BY <2>1 DEF PositionInv
    <2>3. PosAt(t, acc[t]) /\ FlushAt(t, acc[t]) /\ DoneAt(t, acc[t])
      BY DEF PositionInv
    <2>. QED
      BY <2>1, <2>2, <2>3 DEF PosAt, FlushAt, DoneAt, Fin
  <1>. QED
    BY <1>1, <1>2, <1>3, StepCases

-----------------------------------------------------------------------------
(***************************************************************************)
(* The mutex.                                                              *)
(***************************************************************************)
\* The steps of a thread before it reaches the output file.
Opening(s) ==
    \/ Listen(s) \/ Accept(s) \/ AcceptFail(s) \/ ReceiveHeader(s) \/ ReceiveName(s)
    \/ EofAtHeader(s) \/ EofInName(s) \/ (ReceiveError(s) /\ rpc[s] # "part")

\* A receive_file_part step is before the lock, in the critical section or in the part.
LEMMA ReceiverCases ==
  ASSUME NEW s \in Streams, ReceiverStep(s)
  PROVE  \/ Opening(s) \/ Enter(s) \/ CreateOutput(s) \/ ResizeOutput(s) \/ OpenOutput(s)
         \/ rpc[s] = "part"
  BY DEF ReceiverStep, ReceiveThread, Opening, ReceivePart, EofInPart, ClosePart

\* What a step before the critical section leaves alone, and where it leads.
LEMMA OpeningStep ==
  ASSUME TypeOK, ConnInv, PositionInv, [Next]_vars, NEW s \in Streams, Opening(s)
  PROVE  /\ UNCHANGED <<lock, initialized, file_name, total_size, flushed, out>>
         /\ rpc[s] \in {"start", "accept", "header", "name"}
         /\ rpc'[s] \in {"accept", "header", "name", "lock", "create", "done", "failed"}
         /\ rpc'[s] \in {"lock", "done"} => RecvParallel > 1
         /\ rpc'[s] = "create" =>
              /\ RecvParallel = 1 /\ acc'[s] \in Senders
              /\ Parallel[acc'[s]] = 1 /\ flushed[s] = 0
         /\ RecvParallel > 1 /\ Past(s)' => Past(s) /\ acc'[s] = acc[s]
  <1>1. UNCHANGED <<lock, initialized, file_name, total_size, flushed, out>>
    BY DEF Opening, Listen, Accept, AcceptFail, ReceiveHeader, ReceiveName, EofAtHeader, EofInName,
           ReceiveError, shared
  <1>2. rpc[s] \in {"start", "accept", "header", "name"}
    BY DEF Opening, Listen, Accept, AcceptFail, ReceiveHeader, ReceiveName, EofAtHeader, EofInName,
           ReceiveError
  <1>3. rpc \in [Streams -> ReceiverPcs] /\ got \in [Streams -> Nat] /\ flushed[s] \in Nat
    BY DEF TypeOK, ThreadTypeOK, OutputTypeOK
  <1>4. acc'[s] # acc[s] => Accept(s)
    BY DEF Opening, Listen, AcceptFail, ReceiveHeader, ReceiveName, EofAtHeader, EofInName, ReceiveError
  <1>5. ConnAt(s) /\ ConnAt(s)'
    BY ConnStep DEF ConnInv
  <1>6. acc[s] \in Senders \cup {NoSender} /\ acc'[s] \in Senders \cup {NoSender}
    BY TypeStep DEF TypeOK, OutputTypeOK
  <1>7. CASE Listen(s) \/ AcceptFail(s) \/ EofInName(s) \/ ReceiveError(s)
    <2>1. rpc'[s] \in {"accept", "failed"}
      BY <1>3, <1>7 DEF Listen, AcceptFail, EofInName, ReceiveError, ReceiverGoes
    <2>2. Past(s)' => flushed[s] > 0
      BY <1>1, <2>1 DEF Past
    <2>3. acc'[s] = acc[s]
      BY <1>7 DEF Listen, AcceptFail, EofInName, ReceiveError
    <2>. QED
      BY <1>1, <1>2, <2>1, <2>2, <2>3 DEF Past
  <1>8. CASE Accept(s)
    <2>1. acc[s] = NoSender /\ flushed[s] = 0 /\ got[s] = 0
      BY <1>5, <1>8 DEF ConnAt, Accept
    <2>2. rpc'[s] = "header" /\ got'[s] = 0 /\ flushed'[s] = 0
      BY <1>3, <1>8, <2>1 DEF Accept
    <2>3. acc'[s] \in Senders
      BY <1>5, <1>6, <2>2 DEF ConnAt, Connected
    <2>4. StreamLen(acc'[s], s) > 0
      BY <2>3, StreamFacts
    <2>5. ~Past(s)'
      BY <2>2, <2>4 DEF Past
    <2>. QED
      BY <1>1, <1>2, <2>2, <2>5
  <1>9. CASE ReceiveHeader(s) \/ ReceiveName(s) \/ EofAtHeader(s)
    <2>. DEFINE a == acc[s]
    <2>1. a \in Senders /\ acc' = acc /\ a # NoSender
      BY <1>9, AcceptedSender, SenderAssumption
         DEF ReceiveHeader, ReceiveName, EofAtHeader, Connected
    <2>2. FlushAt(s, a) /\ PosAt(s, a)
      BY <2>1 DEF PositionInv
    <2>3. /\ got[s] \in Nat /\ flushed[s] \in Nat
          /\ HeaderUnits \in Nat /\ HeadLen(a) \in Nat /\ PartSize(a, s) \in Nat
          /\ StreamLen(a, s) = HeadLen(a) + PartSize(a, s)
          /\ 0 < HeaderUnits /\ HeaderUnits < HeadLen(a)
      BY <2>1, ThreadFacts
    <2>. HIDE DEF a
    <2>4. CASE ReceiveHeader(s)
      <3>1. PICK n \in 1 .. HeaderUnits - got[s] :
              Receives(s, n) /\ ReceiverGoes(s, IF got[s] + n < HeaderUnits THEN "header"
                                                ELSE IF NameSizeOk(s) THEN "name" ELSE "failed")
        BY <2>4 DEF ReceiveHeader
      <3>2. got'[s] = got[s] + n /\ got[s] + n <= HeaderUnits /\ n \in Nat
        BY <1>3, <2>3, <3>1 DEF Receives
      <3>3. rpc'[s] \in {"header", "name", "failed"}
        BY <1>3, <3>1 DEF ReceiverGoes
      <3>4. got'[s] # StreamLen(a, s)
        BY <2>3, <3>2
      <3>5. Past(s)' => Past(s)
        BY <1>1, <2>1, <3>3, <3>4 DEF Past, a
      <3>. QED
        BY <1>1, <1>2, <2>1, <3>3, <3>5
    <2>5. CASE ReceiveName(s)
      <3>1. PICK n \in 1 .. HeadLen(a) - got[s] :
              ReceiverGoes(s, IF got[s] + n < HeadLen(a) THEN "name" ELSE AfterName(s))
        BY <2>5 DEF ReceiveName, a
      <3>2. rpc'[s] \in {"name", AfterName(s)}
        BY <1>3, <3>1 DEF ReceiverGoes
      <3>3. AfterName(s) \in {"lock", "create", "failed"}
        BY DEF AfterName
      <3>4. AfterName(s) = "lock" => RecvParallel > 1
        BY DEF AfterName
      <3>5. AfterName(s) = "create" => RecvParallel = 1 /\ Parallel[a] = 1
        <4>1. RecvParallel \in Nat \ {0} /\ Parallel[a] \in Nat \ {0}
          BY <2>1, StreamFacts, BoundAssumption
        <4>2. AfterName(s) = "create" => ~(RecvParallel > 1) /\ Incoming(s).kind # "FilePart"
          BY DEF AfterName
        <4>3. Incoming(s).kind # "FilePart" => ~(Parallel[a] > 1)
          BY IncomingFacts DEF a
        <4>. QED
          BY <4>1, <4>2, <4>3
      <3>6. flushed[s] = 0
        <4>1. got[s] < HeadLen(a)
          BY <2>2, <2>5 DEF PosAt, ReceiveName
        <4>. QED
          BY <2>2, <2>3, <4>1 DEF FlushAt
      <3>7. RecvParallel > 1 => ~Past(s)'
        BY <1>1, <3>2, <3>3, <3>5, <3>6 DEF Past
      <3>. QED
        BY <1>1, <1>2, <2>1, <3>2, <3>3, <3>4, <3>5, <3>6, <3>7 DEF a
    <2>6. CASE EofAtHeader(s)
      <3>1. rpc'[s] \in {"done", "failed"} /\ got' = got /\ rpc[s] = "header"
        BY <1>3, <2>6 DEF EofAtHeader, ReceiverGoes
      <3>2. rpc'[s] = "done" => RecvParallel > 1
        BY <1>3, <2>6 DEF EofAtHeader, ReceiverGoes
      <3>3. Past(s)' => Past(s)
        BY <1>1, <2>1, <3>1 DEF Past
      <3>. QED
        BY <1>1, <1>2, <2>1, <3>1, <3>2, <3>3
    <2>. QED
      BY <1>9, <2>4, <2>5, <2>6
  <1>. QED
    BY <1>7, <1>8, <1>9 DEF Opening

\* With one stream there is one thread.
LEMMA Alone ==
  ASSUME TypeOK, ConnInv, RecvParallel = 1, NEW s \in Streams, NEW t \in Streams, t # s,
         rpc[s] # "start"
  PROVE  rpc[t] = "start" /\ flushed[t] = 0
  <1>1. ConnAt(s) /\ ConnAt(t) /\ s \in Nat /\ t \in Nat
    BY BoundAssumption DEF ConnInv, Streams
  <1>2. rpc[t] = "start"
    BY <1>1 DEF ConnAt
  <1>. QED
    BY <1>1, <1>2 DEF ConnAt

\* Every step keeps the mutual exclusion of shared.mutex and the agreement that
\* the first header fixes.
LEMMA LockStep ==
  ASSUME TypeOK, ConnInv, PositionInv, SendInv, LockInv, [Next]_vars
  PROVE  LockInv'
  <1>1. CASE UNCHANGED <<acc, rpc, got, flushed, lock, initialized, file_name, total_size>>
    BY <1>1 DEF LockInv, MutexAt, ExclusiveAt, AgreeAt, SingleAt, Past
  <1>2. ASSUME NEW s \in Streams, ReceiverStep(s)
        PROVE  LockInv'
    <2>1. ASSUME NEW t \in Streams, t # s
          PROVE  /\ rpc'[t] = rpc[t] /\ acc'[t] = acc[t] /\ got'[t] = got[t]
                 /\ flushed'[t] = flushed[t]
      BY <1>2, <2>1, OtherStreams
    <2>2. ASSUME NEW t \in Streams
          PROVE  MutexAt(t) /\ ExclusiveAt(t) /\ AgreeAt(t) /\ SingleAt(t)
      BY DEF LockInv
    <2>3. \A t \in Streams : flushed[t] \in Nat /\ t \in Nat /\ t # NoStream
      BY BoundAssumption DEF TypeOK, OutputTypeOK, Streams, NoStream
    <2>4. rpc \in [Streams -> ReceiverPcs] /\ flushed \in [Streams -> Nat]
      BY DEF TypeOK, ThreadTypeOK, OutputTypeOK
    <2>5. RecvParallel \in Nat \ {0}
      BY BoundAssumption
    <2>6. ASSUME NEW t \in Streams, t # s
          PROVE  Past(t)' = Past(t)
      BY <2>1, <2>6 DEF Past
    <2>7. CASE Opening(s)
      <3>1. /\ UNCHANGED <<lock, initialized, file_name, total_size, flushed>>
            /\ rpc[s] \in {"start", "accept", "header", "name"}
            /\ rpc'[s] \in {"accept", "header", "name", "lock", "create", "done", "failed"}
            /\ rpc'[s] \in {"lock", "done"} => RecvParallel > 1
            /\ rpc'[s] = "create" =>
                 RecvParallel = 1 /\ Parallel[acc'[s]] = 1 /\ flushed[s] = 0
            /\ RecvParallel > 1 /\ Past(s)' => Past(s) /\ acc'[s] = acc[s]
        BY <2>7, OpeningStep
      <3>2. \A t \in Streams : MutexAt(t)'
        BY <2>1, <2>2, <3>1 DEF MutexAt
      <3>3. rpc'[s] = "create" => \A t \in Streams : flushed[t] = 0 /\ rpc'[t] \notin {"open", "part"}
        <4>. SUFFICES ASSUME rpc'[s] = "create", NEW t \in Streams
                      PROVE  flushed[t] = 0 /\ rpc'[t] \notin {"open", "part"}
          OBVIOUS
        <4>1. CASE t = s
          BY <3>1, <4>1
        <4>2. CASE t # s
          <5>1. rpc'[s] # "start" /\ RecvParallel = 1
            BY <3>1
          <5>2. TypeOK' /\ ConnInv'
            BY TypeStep, ConnStep
          <5>3. rpc'[t] = "start" /\ flushed'[t] = 0
            <6>1. ConnAt(s)' /\ ConnAt(t)' /\ s \in Nat /\ t \in Nat
              BY <5>2, <2>3 DEF ConnInv
            <6>2. rpc'[t] = "start"
              BY <4>2, <5>1, <6>1 DEF ConnAt
            <6>. QED
              BY <6>1, <6>2 DEF ConnAt
          <5>. QED
            BY <3>1, <5>3
        <4>. QED
          BY <4>1, <4>2
      <3>4. \A t \in Streams : ExclusiveAt(t)'
        <4>1. ExclusiveAt(s)'
          BY <3>1, <3>3 DEF ExclusiveAt
        <4>2. ASSUME NEW t \in Streams, t # s
              PROVE  ExclusiveAt(t)'
          BY <2>1, <2>2, <3>1, <4>2 DEF ExclusiveAt
        <4>. QED
          BY <4>1, <4>2
      <3>5. \A t \in Streams : AgreeAt(t)'
        BY <2>1, <2>2, <2>6, <3>1 DEF AgreeAt
      <3>6. \A t \in Streams : SingleAt(t)'
        BY <2>1, <2>2, <2>5, <3>1 DEF SingleAt
      <3>. QED
        BY <3>2, <3>4, <3>5, <3>6 DEF LockInv
    <2>8. CASE Enter(s)
      <3>1. /\ rpc[s] = "lock" /\ lock = NoStream /\ RecvParallel > 1
            /\ UNCHANGED <<acc, got, flushed>>
        BY <2>2, <2>8 DEF Enter, MutexFree, MutexAt
      <3>2. \A t \in Streams : rpc[t] \notin {"create", "resize"}
        BY <2>2, <2>3, <3>1 DEF MutexAt
      <3>3. CASE ~initialized
        <4>1. /\ rpc'[s] = "create" /\ lock' = s /\ initialized'
              /\ file_name' = Name[acc[s]] /\ total_size' = Size[acc[s]]
          BY <2>4, <2>8, <3>3, IncomingFacts DEF Enter, FirstPart, ReceiverGoes
        <4>2. \A t \in Streams : ~Past(t)
          BY <2>2, <3>1, <3>3 DEF AgreeAt
        <4>3. \A t \in Streams : flushed[t] = 0 /\ rpc[t] \notin {"open", "part"}
          BY <2>3, <4>2 DEF Past
        <4>4. \A t \in Streams : MutexAt(t)'
          BY <2>1, <2>2, <3>1, <3>2, <4>1 DEF MutexAt
        <4>5. \A t \in Streams : ExclusiveAt(t)'
          BY <2>1, <3>1, <3>2, <4>1, <4>3 DEF ExclusiveAt
        <4>6. \A t \in Streams : AgreeAt(t)'
          BY <2>6, <3>1, <4>1, <4>2 DEF AgreeAt
        <4>7. \A t \in Streams : SingleAt(t)'
          BY <2>5, <3>1 DEF SingleAt
        <4>. QED
          BY <4>4, <4>5, <4>6, <4>7 DEF LockInv
      <3>4. CASE initialized
        <4>1. /\ UNCHANGED <<lock, initialized, file_name, total_size>>
              /\ rpc'[s] \in {"open", "failed"}
              /\ rpc'[s] = "open" => file_name = Name[acc[s]] /\ total_size = Size[acc[s]]
          BY <2>4, <2>8, <3>4, IncomingFacts DEF Enter, FirstPart, SameFile, ReceiverGoes, shared
        <4>2. \A t \in Streams : MutexAt(t)'
          BY <2>1, <2>2, <3>1, <3>2, <4>1 DEF MutexAt
        <4>3. \A t \in Streams : ExclusiveAt(t)'
          BY <2>1, <3>2, <4>1 DEF ExclusiveAt
        <4>4. AgreeAt(s)'
          BY <2>2, <3>1, <3>4, <4>1 DEF AgreeAt, Past
        <4>5. \A t \in Streams : t # s => AgreeAt(t)'
          BY <2>2, <2>6, <3>1, <4>1 DEF AgreeAt
        <4>6. \A t \in Streams : SingleAt(t)'
          BY <2>5, <3>1 DEF SingleAt
        <4>. QED
          BY <4>2, <4>3, <4>4, <4>5, <4>6 DEF LockInv
      <3>. QED
        BY <3>3, <3>4
    <2>9. CASE CreateOutput(s) \/ ResizeOutput(s)
      <3>1. /\ UNCHANGED <<acc, got, flushed, initialized, file_name, total_size>>
            /\ rpc[s] \in {"create", "resize"}
        BY <2>9 DEF CreateOutput, ResizeOutput, shared
      <3>2. /\ rpc'[s] \in {"resize", "part", "open", "failed"}
            /\ rpc'[s] = "resize" => RecvParallel > 1 /\ lock' = lock
            /\ rpc'[s] = "part" => ~(RecvParallel > 1) /\ rpc[s] = "create"
            /\ rpc'[s] = "open" => rpc[s] = "resize"
            /\ rpc'[s] \in {"open", "failed"} => Unlock(s)
        BY <2>4, <2>9 DEF CreateOutput, ResizeOutput, ReceiverGoes
      <3>3. \A t \in Streams : t # s => rpc[t] \notin {"create", "resize"}
        <4>1. CASE RecvParallel > 1
          BY <2>2, <3>1, <4>1 DEF MutexAt
        <4>2. CASE RecvParallel = 1
          BY <3>1, <4>2, Alone
        <4>. QED
          BY <2>5, <4>1, <4>2
      <3>4. RecvParallel > 1 => lock = s /\ lock' \in {s, NoStream}
        BY <2>2, <3>1, <3>2 DEF MutexAt, Unlock
      <3>5. RecvParallel > 1 /\ rpc'[s] # "resize" => lock' = NoStream
        BY <3>2, <3>4 DEF Unlock
      <3>6. \A t \in Streams : t # s => MutexAt(t)'
        BY <2>1, <2>2, <2>3, <3>3, <3>4 DEF MutexAt
      <3>7. MutexAt(s)'
        BY <2>2, <2>3, <3>1, <3>2, <3>4, <3>5 DEF MutexAt
      <3>8. \A t \in Streams : ExclusiveAt(t)'
        <4>1. \A t \in Streams : t # s => ExclusiveAt(t)'
          BY <2>1, <3>3 DEF ExclusiveAt
        <4>2. ExclusiveAt(s)'
          BY <2>1, <2>2, <3>1, <3>2 DEF ExclusiveAt
        <4>. QED
          BY <4>1, <4>2
      <3>9. \A t \in Streams : AgreeAt(t)'
        <4>1. Past(s)
          BY <3>1 DEF Past
        <4>. QED
          BY <2>2, <2>6, <3>1, <4>1 DEF AgreeAt
      <3>10. \A t \in Streams : SingleAt(t)'
        BY <2>1, <2>2, <3>1, <3>2 DEF SingleAt
      <3>. QED
        BY <3>6, <3>7, <3>8, <3>9, <3>10 DEF LockInv
    <2>10. CASE OpenOutput(s) \/ rpc[s] = "part"
      <3>1. /\ UNCHANGED <<acc, lock, initialized, file_name, total_size>>
            /\ rpc[s] \in {"open", "part"}
            /\ rpc'[s] \in {"part", "failed", "header", "done"}
            /\ rpc[s] = "open" => rpc'[s] \in {"part", "failed"}
        <4>1. CASE OpenOutput(s)
          BY <2>4, <4>1 DEF OpenOutput, ReceiverGoes, shared
        <4>2. CASE rpc[s] = "part"
          BY <1>2, <4>2, WriteStep
        <4>. QED
          BY <2>10, <4>1, <4>2
      <3>2. \A t \in Streams : rpc[t] \notin {"create", "resize"}
        BY <2>2, <3>1 DEF ExclusiveAt
      <3>3. \A t \in Streams : MutexAt(t)'
        BY <2>1, <2>2, <3>1 DEF MutexAt
      <3>4. \A t \in Streams : ExclusiveAt(t)'
        BY <2>1, <3>1, <3>2 DEF ExclusiveAt
      <3>5. \A t \in Streams : AgreeAt(t)'
        <4>1. Past(s)
          BY <3>1 DEF Past
        <4>. QED
          BY <2>2, <2>6, <3>1, <4>1 DEF AgreeAt
      <3>6. \A t \in Streams : SingleAt(t)'
        <4>1. rpc[s] = "open" => RecvParallel > 1
          BY <2>2 DEF MutexAt
        <4>. QED
          BY <2>1, <2>2, <2>5, <3>1, <4>1 DEF SingleAt
      <3>. QED
        BY <3>3, <3>4, <3>5, <3>6 DEF LockInv
    <2>. QED
      BY <1>2, <2>7, <2>8, <2>9, <2>10, ReceiverCases
  <1>. QED
    BY <1>1, <1>2, StepCases, SenderFrame, OtherFrame

-----------------------------------------------------------------------------
(***************************************************************************)
(* The output file.                                                        *)
(***************************************************************************)
\* A thread in the payload loop writes inside its part of its sender's file.
LEMMA FileStep ==
  ASSUME TypeOK, ConnInv, PositionInv, SendInv, NEW s \in Streams, ReceiverStep(s), rpc[s] = "part"
  PROVE  \E m \in Nat :
           /\ acc[s] \in Senders /\ acc[s] # NoSender /\ s < Parallel[acc[s]]
           /\ PartOffset(acc[s], s) \in Nat /\ flushed[s] \in Nat /\ Size[acc[s]] \in Nat
           /\ flushed' = [flushed EXCEPT ![s] = m] /\ acc' = acc
           /\ flushed[s] <= m /\ PartOffset(acc[s], s) + m <= Size[acc[s]]
           /\ \A o \in Offsets :
                \/ /\ PartOffset(acc[s], s) + flushed[s] <= o
                   /\ o < PartOffset(acc[s], s) + m
                   /\ out'[o] = Byte(acc[s], o)
                \/ /\ ~(PartOffset(acc[s], s) + flushed[s] <= o /\ o < PartOffset(acc[s], s) + m)
                   /\ \/ out'[o] = out[o]
                      \/ out'[o] = Hole /\ out[o] = Void /\ o < PartOffset(acc[s], s) + m
  <1>. DEFINE a == acc[s]
  <1>1. a \in Senders /\ s < Parallel[a] /\ a # NoSender
    BY AcceptedSender, SenderAssumption DEF Connected
  <1>2. /\ got[s] \in Nat /\ flushed[s] \in Nat /\ wire[a][s] \in Nat
        /\ HeadLen(a) \in Nat /\ PartSize(a, s) \in Nat
        /\ StreamLen(a, s) = HeadLen(a) + PartSize(a, s)
    BY <1>1, ThreadFacts
  <1>3. /\ PartOffset(a, s) \in Nat /\ Size[a] \in Nat
        /\ PartOffset(a, s) + PartSize(a, s) <= Size[a]
    BY <1>1, StreamFacts, BoundAssumption
  <1>4. wire[a][s] <= StreamLen(a, s)
    BY <1>1 DEF SendInv, SendAt
  <1>. HIDE DEF a
  <1>5. PICK m \in Nat :
          /\ flushed' = [flushed EXCEPT ![s] = m] /\ acc' = acc
          /\ out' = Written(out, s, flushed[s], m) \/ (out' = out /\ m = flushed[s])
          /\ flushed[s] <= m /\ HeadLen(a) + m <= got'[s]
          /\ got'[s] \in Nat /\ got'[s] <= wire[a][s]
    BY WriteStep DEF a
  <1>6. PartOffset(a, s) + m <= Size[a]
    BY <1>2, <1>3, <1>4, <1>5
  <1>7. ASSUME NEW o \in Offsets
        PROVE  \/ /\ PartOffset(a, s) + flushed[s] <= o
                  /\ o < PartOffset(a, s) + m
                  /\ out'[o] = Byte(a, o)
               \/ /\ ~(PartOffset(a, s) + flushed[s] <= o /\ o < PartOffset(a, s) + m)
                  /\ \/ out'[o] = out[o]
                     \/ out'[o] = Hole /\ out[o] = Void /\ o < PartOffset(a, s) + m
    <2>1. o \in Nat
      BY BoundAssumption DEF Offsets
    <2>2. CASE out' = out /\ m = flushed[s]
      BY <1>2, <1>3, <2>1, <2>2
    <2>3. CASE out' = Written(out, s, flushed[s], m)
      <3>1. /\ PartOffset(a, s) + flushed[s] <= o /\ o < PartOffset(a, s) + m => out'[o] = Byte(a, o)
            /\ ~(PartOffset(a, s) + flushed[s] <= o /\ o < PartOffset(a, s) + m) =>
                 \/ out'[o] = out[o]
                 \/ out'[o] = Hole /\ out[o] = Void /\ o < PartOffset(a, s) + flushed[s]
        BY <1>1, <1>2, <2>3, WrittenFacts DEF a
      <3>. QED
        BY <1>2, <1>3, <1>5, <2>1, <3>1
    <2>. QED
      BY <1>5, <2>2, <2>3
  <1>. QED
    BY <1>1, <1>2, <1>3, <1>5, <1>6, <1>7 DEF a

\* Any other step leaves the file alone or creates or resizes it.
LEMMA QuietFile ==
  ASSUME NEW s \in Streams, ReceiverStep(s), rpc[s] # "part"
  PROVE  \/ out' = out
         \/ CreateOutput(s) /\ rpc[s] = "create" /\ out' = Truncated /\ acc' = acc
         \/ ResizeOutput(s) /\ rpc[s] = "resize" /\ out' = Resized(out, total_size) /\ acc' = acc
  BY DEF ReceiverStep, ReceiveThread, Listen, Accept, AcceptFail, ReceiveHeader, ReceiveName,
         EofAtHeader, EofInName, Enter, CreateOutput, ResizeOutput, OpenOutput, ReceivePart,
         EofInPart, ClosePart, ReceiveError

\* A thread whose sender changes had none, and had written nothing.
LEMMA AccStep ==
  ASSUME TypeOK, ConnInv, NEW s \in Streams, ReceiverStep(s), acc'[s] # acc[s]
  PROVE  acc[s] = NoSender /\ flushed[s] = 0 /\ flushed' = flushed
  <1>1. Accept(s)
    BY DEF ReceiverStep, ReceiveThread, Listen, AcceptFail, ReceiveHeader, ReceiveName,
           EofAtHeader, EofInName, Enter, CreateOutput, ResizeOutput, OpenOutput, ReceivePart,
           EofInPart, ClosePart, ReceiveError
  <1>. QED
    BY <1>1 DEF Accept, ConnInv, ConnAt

\* No step puts a byte where it does not belong or removes a flushed one.
LEMMA ContentStep ==
  ASSUME TypeOK, ConnInv, PositionInv, SendInv, LockInv, ContentInv, [Next]_vars
  PROVE  ContentInv'
  <1>1. CASE UNCHANGED <<acc, flushed, out>>
    BY <1>1 DEF ContentInv, PlacedAt, KeptAt
  <1>2. ASSUME NEW s \in Streams, ReceiverStep(s)
        PROVE  ContentInv'
    <2>. SUFFICES ASSUME NEW o \in Offsets
                  PROVE  PlacedAt(o)' /\ \A t \in Streams : KeptAt(t, o)'
      BY DEF ContentInv
    <2>1. PlacedAt(o) /\ \A t \in Streams : KeptAt(t, o)
      BY DEF ContentInv
    <2>2. /\ \A t \in Streams : flushed[t] \in Nat
          /\ flushed \in [Streams -> Nat] /\ o \in Int
          /\ \A t \in Streams : acc[t] # NoSender => PartOffset(acc[t], t) \in Nat
      <3>1. \A t \in Streams : acc[t] # NoSender => PartOffset(acc[t], t) \in Nat
        BY StreamFacts DEF TypeOK, OutputTypeOK
      <3>. QED
        BY <3>1 DEF TypeOK, OutputTypeOK, Offsets
    <2>3. ASSUME NEW t \in Streams, t # s
          PROVE  acc'[t] = acc[t] /\ flushed'[t] = flushed[t]
      BY <1>2, <2>3, OtherStreams
    <2>4. CASE rpc[s] # "part" /\ out' = out
      <3>1. flushed' = flushed
        BY <1>2, <2>4, QuietStep
      <3>2. acc'[s] # acc[s] => acc[s] = NoSender /\ flushed[s] = 0
        BY <1>2, AccStep
      <3>3. PlacedAt(o)'
        BY <2>1, <2>3, <2>4, <3>1, <3>2 DEF PlacedAt
      <3>4. ASSUME NEW t \in Streams
            PROVE  KeptAt(t, o)'
        <4>1. CASE acc'[t] = acc[t]
          BY <2>1, <2>4, <3>1, <4>1 DEF KeptAt
        <4>2. CASE acc'[t] # acc[t]
          <5>1. flushed'[t] = 0
            BY <2>3, <3>1, <3>2, <4>2
          <5>2. acc'[t] # NoSender => PartOffset(acc'[t], t) \in Nat
            BY TypeStep, StreamFacts DEF TypeOK, OutputTypeOK
          <5>. QED
            BY <2>2, <5>1, <5>2 DEF KeptAt
        <4>. QED
          BY <4>1, <4>2
      <3>. QED
        BY <3>3, <3>4
    <2>5. CASE /\ rpc[s] \in {"create", "resize"} /\ acc' = acc
               /\ out' = Truncated \/ out' = Resized(out, total_size)
      <3>1. flushed' = flushed
        BY <1>2, <2>5, QuietStep
      <3>2. \A t \in Streams : flushed[t] = 0
        BY <2>5 DEF LockInv, ExclusiveAt
      <3>3. out'[o].tag = "byte" => out'[o] = out[o]
        BY <2>5, CellFacts DEF Truncated, Resized
      <3>4. PlacedAt(o)'
        BY <2>1, <2>5, <3>1, <3>3 DEF PlacedAt
      <3>5. \A t \in Streams : KeptAt(t, o)'
        BY <2>2, <2>5, <3>1, <3>2 DEF KeptAt
      <3>. QED
        BY <3>4, <3>5
    <2>6. CASE rpc[s] = "part"
      <3>. DEFINE off == PartOffset(acc[s], s)
      <3>1. PICK m \in Nat :
              /\ acc[s] # NoSender /\ off \in Nat
              /\ flushed' = [flushed EXCEPT ![s] = m] /\ acc' = acc
              /\ flushed[s] <= m
              /\ \/ off + flushed[s] <= o /\ o < off + m /\ out'[o] = Byte(acc[s], o)
                 \/ /\ ~(off + flushed[s] <= o /\ o < off + m)
                    /\ out'[o] = out[o] \/ (out'[o] = Hole /\ out[o] = Void)
        BY <1>2, <2>6, FileStep
      <3>. HIDE DEF off
      <3>2. flushed'[s] = m
        BY <2>2, <3>1
      <3>3. CASE off + flushed[s] <= o /\ o < off + m /\ out'[o] = Byte(acc[s], o)
        <4>1. out'[o].tag = "byte" /\ out'[o].at = o /\ out'[o].src = acc[s]
          BY <3>3, CellFacts
        <4>2. m > 0
          BY <2>2, <3>1, <3>3
        <4>. QED
          BY <3>1, <3>2, <4>1, <4>2 DEF PlacedAt, KeptAt
      <3>4. CASE /\ ~(off + flushed[s] <= o /\ o < off + m)
                 /\ out'[o] = out[o] \/ (out'[o] = Hole /\ out[o] = Void)
        <4>1. /\ out'[o].tag = "byte" => out'[o] = out[o]
              /\ out[o].tag = "byte" => out'[o].tag = "byte"
          BY <3>4, CellFacts
        <4>2. \A t \in Streams : flushed[t] > 0 => flushed'[t] > 0
          BY <2>2, <2>3, <3>1, <3>2
        <4>3. PlacedAt(o)'
          BY <2>1, <3>1, <4>1, <4>2 DEF PlacedAt
        <4>4. KeptAt(s, o)'
          <5>1. off <= o /\ o < off + m => off <= o /\ o < off + flushed[s]
            BY <2>2, <3>1, <3>4
          <5>. QED
            BY <2>1, <3>1, <3>2, <4>1, <5>1 DEF KeptAt, off
        <4>5. \A t \in Streams : t # s => KeptAt(t, o)'
          BY <2>1, <2>3, <3>1, <4>1 DEF KeptAt
        <4>. QED
          BY <4>3, <4>4, <4>5
      <3>. QED
        BY <3>1, <3>3, <3>4
    <2>. QED
      BY <1>2, <2>4, <2>5, <2>6, QuietFile
  <1>. QED
    BY <1>1, <1>2, StepCases, SenderFrame, OtherFrame

\* No step makes the output longer than the announced size.
LEMMA LengthStep ==
  ASSUME TypeOK, ConnInv, PositionInv, SendInv, LockInv, LengthInv, [Next]_vars
  PROVE  LengthInv'
  <1>1. CASE UNCHANGED <<acc, rpc, initialized, total_size, out>>
    BY <1>1 DEF LengthInv, ParallelLength, SingleLength
  <1>2. ASSUME NEW s \in Streams, ReceiverStep(s)
        PROVE  LengthInv'
    <2>1. ASSUME NEW t \in Streams, t # s
          PROVE  rpc'[t] = rpc[t] /\ acc'[t] = acc[t]
      BY <1>2, <2>1, OtherStreams
    <2>2. rpc \in [Streams -> ReceiverPcs] /\ total_size \in Nat
      BY BoundAssumption DEF TypeOK, ThreadTypeOK, OutputTypeOK
    <2>3. RecvParallel \in Nat \ {0}
      BY BoundAssumption
    <2>4. CASE Opening(s)
      <3>1. /\ UNCHANGED <<initialized, total_size, out>>
            /\ rpc[s] \in {"start", "accept", "header", "name"}
            /\ rpc'[s] \in {"accept", "header", "name", "lock", "create", "done", "failed"}
            /\ rpc'[s] = "done" => RecvParallel > 1
        BY <2>4, OpeningStep
      <3>2. ParallelLength'
        BY <2>1, <3>1 DEF LengthInv, ParallelLength
      <3>3. SingleLength'
        BY <2>1, <2>3, <3>1 DEF LengthInv, SingleLength
      <3>. QED
        BY <3>2, <3>3 DEF LengthInv
    <2>5. CASE Enter(s)
      <3>1. RecvParallel > 1 /\ rpc[s] = "lock" /\ out' = out
        BY <2>5 DEF Enter, LockInv, MutexAt
      <3>2. \/ rpc'[s] = "create"
            \/ UNCHANGED <<initialized, total_size>> /\ rpc'[s] \in {"open", "failed"}
        BY <2>2, <2>5 DEF Enter, ReceiverGoes, shared
      <3>3. ParallelLength'
        BY <2>1, <3>1, <3>2 DEF LengthInv, ParallelLength
      <3>. QED
        BY <2>3, <3>1, <3>3 DEF LengthInv, SingleLength
    <2>6. CASE CreateOutput(s)
      <3>1. rpc'[s] = "failed" \/ out' = Truncated
        BY <2>2, <2>6 DEF CreateOutput, ReceiverGoes
      <3>2. CASE out' = Truncated
        BY <3>2 DEF LengthInv, ParallelLength, SingleLength, Truncated
      <3>3. CASE rpc'[s] = "failed"
        <4>1. ParallelLength'
          BY <3>3 DEF ParallelLength
        <4>2. SingleLength'
          <5>. SUFFICES ASSUME RecvParallel = 1, NEW t \in Streams, rpc'[t] \in {"part", "done"}
                        PROVE  FALSE
            BY DEF SingleLength
          <5>1. t # s /\ rpc[t] \in {"part", "done"}
            BY <2>1, <3>3
          <5>2. rpc[s] = "create"
            BY <2>6 DEF CreateOutput
          <5>. QED
            BY <5>1, <5>2, Alone
        <4>. QED
          BY <4>1, <4>2 DEF LengthInv
      <3>. QED
        BY <3>1, <3>2, <3>3
    <2>7. CASE ResizeOutput(s)
      <3>1. RecvParallel > 1 /\ UNCHANGED total_size
        BY <2>7 DEF ResizeOutput, LockInv, MutexAt, shared
      <3>2. rpc'[s] = "failed" \/ out' = Resized(out, total_size)
        BY <2>2, <2>7 DEF ResizeOutput, ReceiverGoes
      <3>3. ParallelLength'
        BY <3>1, <3>2 DEF ParallelLength, Resized
      <3>. QED
        BY <2>3, <3>1, <3>3 DEF LengthInv, SingleLength
    <2>8. CASE OpenOutput(s)
      <3>1. /\ RecvParallel > 1 /\ rpc[s] = "open" /\ rpc'[s] \in {"part", "failed"}
            /\ UNCHANGED <<out, initialized, total_size>>
        BY <2>2, <2>8 DEF OpenOutput, ReceiverGoes, LockInv, MutexAt, shared
      <3>2. ParallelLength'
        BY <2>1, <3>1 DEF LengthInv, ParallelLength
      <3>. QED
        BY <2>3, <3>1, <3>2 DEF LengthInv, SingleLength
    <2>9. CASE rpc[s] = "part"
      <3>1. UNCHANGED <<acc, initialized, total_size>>
        BY <1>2, <2>9, WriteStep
      <3>2. \A o \in Offsets : o >= Size[acc[s]] => out'[o] = out[o]
        <4>1. PICK m \in Nat :
                /\ PartOffset(acc[s], s) \in Nat /\ flushed[s] \in Nat /\ Size[acc[s]] \in Nat
                /\ PartOffset(acc[s], s) + m <= Size[acc[s]]
                /\ \A o \in Offsets :
                     \/ o < PartOffset(acc[s], s) + m
                     \/ out'[o] = out[o]
          BY <1>2, <2>9, FileStep
        <4>. QED
          BY <4>1, BoundAssumption DEF Offsets
      <3>3. RecvParallel > 1 => total_size = Size[acc[s]]
        BY <2>9 DEF LockInv, AgreeAt, Past
      <3>4. ParallelLength'
        BY <2>1, <2>9, <3>1, <3>2, <3>3 DEF LengthInv, ParallelLength
      <3>5. SingleLength'
        <4>. SUFFICES ASSUME RecvParallel = 1, NEW t \in Streams, rpc'[t] \in {"part", "done"},
                             NEW o \in Offsets, o >= Size[acc'[t]]
                      PROVE  out'[o] = Void
          BY DEF SingleLength
        <4>1. t = s
          BY <2>1, <2>9, Alone
        <4>. QED
          BY <2>9, <3>1, <3>2, <4>1 DEF LengthInv, SingleLength
      <3>. QED
        BY <3>4, <3>5 DEF LengthInv
    <2>. QED
      BY <1>2, <2>4, <2>5, <2>6, <2>7, <2>8, <2>9, ReceiverCases
  <1>. QED
    BY <1>1, <1>2, StepCases, SenderFrame, OtherFrame

-----------------------------------------------------------------------------
(***************************************************************************)
(* The invariant holds initially and is preserved.                         *)
(***************************************************************************)
LEMMA InvInit == Init => IInv
  <1>. SUFFICES ASSUME Init PROVE IInv
    OBVIOUS
  <1>1. TypeOK
    BY TypeInit
  <1>2. /\ \A s \in Streams : /\ rpc[s] = "start" /\ acc[s] = NoSender /\ got[s] = 0
                              /\ flushed[s] = 0 /\ queue[s] = <<>>
        /\ \A a \in Senders, s \in Streams : spc[a][s] = "start" /\ wire[a][s] = 0
        /\ \A a \in Senders : smain[a] = "start"
        /\ rmain = "run" /\ lock = NoStream /\ ~initialized
    BY DEF Init
  <1>3. ConnInv
    BY <1>2 DEF ConnInv, ConnAt, QueueAt, Connected
  <1>4. SendInv
    <2>1. \A a \in Senders, s \in Streams : StreamLen(a, s) \in Nat
      BY StreamFacts
    <2>. QED
      BY <1>2, <2>1 DEF SendInv, SendAt
  <1>5. PositionInv
    BY <1>2 DEF PositionInv
  <1>6. LockInv
    <2>1. \A s \in Streams : s # NoStream
      BY DEF Streams, NoStream
    <2>. QED
      BY <1>2, <2>1 DEF LockInv, MutexAt, ExclusiveAt, AgreeAt, SingleAt, Past
  <1>7. ContentInv
    <2>1. \A o \in Offsets : out[o].tag # "byte"
      BY CellFacts DEF Init
    <2>. QED
      BY <1>2, <2>1 DEF ContentInv, PlacedAt, KeptAt
  <1>8. LengthInv /\ MainInv
    BY <1>2 DEF LengthInv, ParallelLength, SingleLength, MainInv
  <1>. QED
    BY <1>1, <1>3, <1>4, <1>5, <1>6, <1>7, <1>8 DEF IInv

\* The strengthened invariant is inductive.
LEMMA InvStep == IInv /\ [Next]_vars => IInv'
  BY TypeStep, ConnStep, SendStep, PositionStep, LockStep, ContentStep, LengthStep, MainStep DEF IInv

\* The strengthened invariant holds in every state of every behaviour.
LEMMA Invariance == Spec => []IInv
  BY InvInit, InvStep, PTL DEF Spec

-----------------------------------------------------------------------------
(***************************************************************************)
(* The theorems.                                                           *)
(***************************************************************************)
\* The variables keep their types, whatever the threads of both sides and
\* the failures of the link, the disk and the processes do.
THEOREM TypeCorrect == Spec => []TypeOK
  BY Invariance, PTL DEF IInv

\* A thread that ended well and read its whole stream has its part of its
\* sender's file in the output, if the disk works.
LEMMA PartSaved ==
  ASSUME IInv, diskOk, NEW s \in Streams, rpc[s] = "done", acc[s] # NoSender,
         got[s] = StreamLen(acc[s], s), NEW o \in Offsets,
         PartOffset(acc[s], s) <= o, o < PartOffset(acc[s], s) + PartSize(acc[s], s)
  PROVE  out[o].tag = "byte"
  <1>1. flushed[s] = PartSize(acc[s], s)
    BY DEF IInv, PositionInv, FlushAt
  <1>. QED
    BY <1>1 DEF IInv, ContentInv, KeptAt

\* If every stream came from one sender, a byte in the output file is the
\* byte that this sender has there.
LEMMA OnlyFrom ==
  ASSUME IInv, NEW a \in Senders, AllFrom(a), NEW o \in Offsets, out[o].tag = "byte"
  PROVE  out[o] = Byte(a, o)
  <1>1. PICK s \in Streams : acc[s] # NoSender /\ acc[s] = out[o].src
    BY DEF IInv, ContentInv, PlacedAt
  <1>2. s \in 0 .. RecvParallel - 1
    BY <1>1, BoundAssumption DEF IInv, ConnInv, ConnAt, Streams
  <1>3. out[o].src = a /\ out[o].at = o
    BY <1>1, <1>2 DEF AllFrom, IInv, ContentInv, PlacedAt
  <1>4. out[o] \in Cells
    BY DEF IInv, TypeOK, OutputTypeOK
  <1>. QED
    BY <1>3, <1>4, CellFacts

\* Nothing lies past the end of the file that a finished receiver saved.
LEMMA RightLength ==
  ASSUME IInv, NEW a \in Senders, AllFrom(a), NEW s \in Streams, s < RecvParallel,
         \A t \in 0 .. RecvParallel - 1 : rpc[t] = "done",
         got[s] = StreamLen(acc[s], s),
         NEW o \in Offsets, o >= Size[a]
  PROVE  out[o] = Void
  <1>1. s \in 0 .. RecvParallel - 1 /\ acc[s] = a /\ a # NoSender /\ rpc[s] = "done"
    BY BoundAssumption, SenderAssumption DEF Streams, AllFrom
  <1>2. CASE RecvParallel > 1
    <2>1. initialized /\ total_size = Size[a]
      BY <1>1, <1>2 DEF IInv, LockInv, AgreeAt, Past
    <2>2. \A t \in Streams : rpc[t] \notin {"create", "failed"}
      <3>. SUFFICES ASSUME NEW t \in Streams PROVE rpc[t] \notin {"create", "failed"}
        OBVIOUS
      <3>1. CASE t < RecvParallel
        BY <3>1, BoundAssumption DEF Streams
      <3>2. CASE ~(t < RecvParallel)
        BY <3>2 DEF IInv, ConnInv, ConnAt
      <3>. QED
        BY <3>1, <3>2
    <2>. QED
      BY <1>2, <2>1, <2>2 DEF IInv, LengthInv, ParallelLength
  <1>3. CASE RecvParallel = 1
    BY <1>1, <1>3 DEF IInv, LengthInv, SingleLength
  <1>. QED
    BY <1>2, <1>3, BoundAssumption

\* The strengthened invariant gives end-to-end delivery.
LEMMA InvEndToEnd == IInv => EndToEnd
  <1>. SUFFICES ASSUME IInv, NEW a \in Senders, rmain = "ok", smain[a] = "ok", AllFrom(a), diskOk
                PROVE  out = FileOf(a)
    BY DEF EndToEnd
  <1>1. /\ Size[a] \in Nat /\ Parallel[a] \in Nat \ {0} /\ RecvParallel \in Nat \ {0}
        /\ Parallel[a] <= MaxStreams /\ RecvParallel <= MaxStreams /\ a # NoSender
    BY SenderAssumption, BoundAssumption
  <1>2. \A s \in 0 .. RecvParallel - 1 : /\ s \in Streams /\ acc[s] = a /\ rpc[s] = "done"
                                         /\ s < Parallel[a]
    <2>1. \A s \in 0 .. RecvParallel - 1 : s \in Streams /\ acc[s] = a /\ rpc[s] = "done"
      BY <1>1, BoundAssumption DEF Streams, AllFrom, IInv, MainInv
    <2>. QED
      BY <1>1, <2>1 DEF IInv, ConnInv, ConnAt
  <1>3. \A s \in 0 .. Parallel[a] - 1 : /\ s \in Streams /\ s < RecvParallel
                                        /\ wire[a][s] = StreamLen(a, s)
    <2>. SUFFICES ASSUME NEW s \in 0 .. Parallel[a] - 1
                  PROVE  s \in Streams /\ s < RecvParallel /\ wire[a][s] = StreamLen(a, s)
      OBVIOUS
    <2>1. s \in Streams /\ s < Parallel[a]
      BY <1>1, BoundAssumption DEF Streams
    <2>2. SendAt(a, s)
      BY <2>1 DEF IInv, SendInv
    <2>. QED
      BY <2>1, <2>2 DEF SendAt
  <1>4. \A s \in 0 .. Parallel[a] - 1 : got[s] = StreamLen(a, s)
    <2>. SUFFICES ASSUME NEW s \in 0 .. Parallel[a] - 1 PROVE got[s] = StreamLen(a, s)
      OBVIOUS
    <2>1. s \in Streams /\ s \in 0 .. RecvParallel - 1 /\ wire[a][s] = StreamLen(a, s)
      BY <1>1, <1>3
    <2>2. acc[s] = a /\ rpc[s] = "done"
      BY <1>2, <2>1
    <2>3. DoneAt(s, a)
      BY <1>1, <2>1, <2>2 DEF IInv, PositionInv
    <2>4. StreamLen(a, s) > 0
      BY <2>1, StreamFacts
    <2>. QED
      BY <2>1, <2>2, <2>3, <2>4 DEF DoneAt
  <1>5. ASSUME NEW o \in Offsets, o < Size[a]
        PROVE  out[o] = Byte(a, o)
    <2>1. o \in 0 .. Size[a] - 1
      BY <1>1, <1>5, BoundAssumption DEF Offsets
    <2>2. PICK s \in 0 .. Parallel[a] - 1 :
            /\ RangeOffset(Size[a], s, Parallel[a]) <= o
            /\ o < RangeOffset(Size[a], s, Parallel[a]) + RangeSize(Size[a], s, Parallel[a])
      BY <1>1, <2>1, RangesCover
    <2>3. s \in Streams /\ s \in 0 .. RecvParallel - 1 /\ got[s] = StreamLen(a, s)
      BY <1>1, <1>3, <1>4
    <2>4. acc[s] = a /\ rpc[s] = "done"
      BY <1>2, <2>3
    <2>5. out[o].tag = "byte"
      BY <1>1, <2>2, <2>3, <2>4, PartSaved DEF PartOffset, PartSize
    <2>. QED
      BY <2>5, OnlyFrom
  <1>6. ASSUME NEW o \in Offsets, o >= Size[a]
        PROVE  out[o] = Void
    <2>1. 0 \in 0 .. Parallel[a] - 1 /\ 0 \in 0 .. RecvParallel - 1 /\ 0 < RecvParallel
      BY <1>1
    <2>2. 0 \in Streams /\ got[0] = StreamLen(acc[0], 0)
      BY <1>2, <1>4, <2>1
    <2>. QED
      BY <1>2, <1>6, <2>1, <2>2, RightLength
  <1>7. out \in [Offsets -> Cells]
    BY DEF IInv, TypeOK, OutputTypeOK
  <1>8. ASSUME NEW o \in Offsets
        PROVE  out[o] = IF o < Size[a] THEN Byte(a, o) ELSE Void
    BY <1>1, <1>5, <1>6, BoundAssumption DEF Offsets
  <1>. QED
    BY <1>7, <1>8 DEF FileOf

\* When both sides report success, all streams came from one sender and the
\* disk took every write, the output file is that sender's input file.
THEOREM Delivery == Spec => []EndToEnd
  BY InvEndToEnd, Invariance, PTL

\* The receiver's own success on the single path means the file is complete.
THEOREM SingleDelivery == Spec => []SingleMeansComplete
  <1>1. IInv => SingleMeansComplete
    <2>. SUFFICES ASSUME IInv, RecvParallel = 1, rmain = "ok", diskOk
                  PROVE  out = FileOf(acc[0])
      BY DEF SingleMeansComplete
    <2>. DEFINE a == acc[0]
    <2>1. 0 \in Streams /\ 0 \in 0 .. RecvParallel - 1 /\ 0 < RecvParallel
      BY BoundAssumption DEF Streams
    <2>2. rpc[0] = "done" /\ \A t \in 0 .. RecvParallel - 1 : rpc[t] = "done"
      BY <2>1 DEF IInv, MainInv
    <2>3. a \in Senders /\ a # NoSender
      BY <2>1, <2>2, AcceptedSender, SenderAssumption DEF IInv, Connected
    <2>4. AllFrom(a)
      <3>1. \A t \in 0 .. RecvParallel - 1 : t = 0
        BY BoundAssumption
      <3>. QED
        BY <3>1 DEF AllFrom
    <2>5. Parallel[a] = 1
      BY <2>1, <2>2 DEF IInv, LockInv, SingleAt
    <2>6. got[0] = StreamLen(a, 0)
      BY <2>1, <2>2, <2>3 DEF IInv, PositionInv, DoneAt
    <2>7. Size[a] \in Nat
      BY <2>3, SenderAssumption, BoundAssumption
    <2>8. ASSUME NEW o \in Offsets, o < Size[a]
          PROVE  out[o] = Byte(a, o)
      <3>1. o \in 0 .. Size[a] - 1 /\ Parallel[a] \in Nat \ {0}
        BY <2>5, <2>7, <2>8, BoundAssumption DEF Offsets
      <3>2. PICK s \in 0 .. Parallel[a] - 1 :
              /\ RangeOffset(Size[a], s, Parallel[a]) <= o
              /\ o < RangeOffset(Size[a], s, Parallel[a]) + RangeSize(Size[a], s, Parallel[a])
        BY <2>7, <3>1, RangesCover
      <3>3. s = 0
        BY <2>5
      <3>4. out[o].tag = "byte"
        BY <2>1, <2>2, <2>3, <2>6, <3>2, <3>3, PartSaved DEF PartOffset, PartSize
      <3>. QED
        BY <2>3, <2>4, <3>4, OnlyFrom
    <2>9. \A o \in Offsets : o >= Size[a] => out[o] = Void
      BY <2>1, <2>2, <2>3, <2>4, <2>6, RightLength
    <2>10. out \in [Offsets -> Cells]
      BY DEF IInv, TypeOK, OutputTypeOK
    <2>. HIDE DEF a
    <2>11. ASSUME NEW o \in Offsets
           PROVE  out[o] = IF o < Size[a] THEN Byte(a, o) ELSE Void
      BY <2>7, <2>8, <2>9, BoundAssumption DEF Offsets
    <2>12. out = FileOf(a)
      BY <2>10, <2>11 DEF FileOf
    <2>. QED
      BY <2>12 DEF a
  <1>. QED
    BY <1>1, Invariance, PTL

\* No byte is ever in the wrong place.
THEOREM Placement == Spec => []NoMisplacedByte
  <1>1. IInv => NoMisplacedByte
    BY DEF IInv, ContentInv, PlacedAt, NoMisplacedByte
  <1>. QED
    BY <1>1, Invariance, PTL

\* The receiver's success means that each stream ended between two parts
\* and that all parts were of the file it saved.
THEOREM WholeParts == Spec => []SuccessMeansWholeParts
  <1>1. IInv => SuccessMeansWholeParts
    <2>. SUFFICES ASSUME IInv, rmain = "ok", NEW s \in 0 .. RecvParallel - 1
                  PROVE  \/ got[s] = 0 /\ RecvParallel > 1
                         \/ /\ got[s] = StreamLen(acc[s], s)
                            /\ RecvParallel > 1 => /\ file_name = Name[acc[s]]
                                                   /\ total_size = Size[acc[s]]
      BY DEF SuccessMeansWholeParts
    <2>1. s \in Streams /\ rpc[s] = "done"
      BY BoundAssumption DEF Streams, IInv, MainInv
    <2>2. acc[s] # NoSender
      BY <2>1, AcceptedSender, SenderAssumption DEF IInv, Connected
    <2>3. DoneAt(s, acc[s])
      BY <2>1, <2>2 DEF IInv, PositionInv
    <2>4. AgreeAt(s)
      BY <2>1 DEF IInv, LockInv
    <2>. QED
      BY <2>1, <2>2, <2>3, <2>4 DEF DoneAt, AgreeAt, Past
  <1>. QED
    BY <1>1, Invariance, PTL

\* No step takes a byte out of the file again.
THEOREM Persistence == Spec => WrittenStays
  <1>1. ASSUME IInv, [Next]_vars, NEW o \in Offsets, out[o].tag = "byte"
        PROVE  out'[o].tag = "byte"
    <2>1. CASE out' = out
      BY <1>1, <2>1
    <2>2. ASSUME NEW s \in Streams, ReceiverStep(s)
          PROVE  out'[o].tag = "byte"
      <3>1. CASE rpc[s] = "part"
        <4>1. out'[o] = Byte(acc[s], o) \/ out'[o] = out[o] \/ out[o] = Void
          BY <1>1, <2>2, <3>1, FileStep DEF IInv
        <4>. QED
          BY <1>1, <4>1, CellFacts
      <3>2. CASE rpc[s] \in {"create", "resize"}
        <4>1. \A t \in Streams : flushed[t] = 0
          BY <1>1, <3>2 DEF IInv, LockInv, ExclusiveAt
        <4>. QED
          BY <1>1, <4>1 DEF IInv, ContentInv, PlacedAt
      <3>. QED
        BY <2>1, <2>2, <3>1, <3>2, QuietFile
    <2>. QED
      BY <1>1, <2>1, <2>2, StepCases, SenderFrame, OtherFrame
  <1>2. IInv /\ [Next]_vars =>
          [\A o \in Offsets : out[o].tag = "byte" => out'[o].tag = "byte"]_vars
    BY <1>1
  <1>. QED
    BY <1>2, Invariance, PTL DEF Spec, WrittenStays

-----------------------------------------------------------------------------
(***************************************************************************)
(* The refinement.  Each step of the threads, seen through the mapping of  *)
(* Abstract, is a step of TransferSpec or leaves its variables alone.      *)
(***************************************************************************)
\* After the verdict of run_receive, good or bad, all its threads have ended:
\* MainInv says so of success only.
JoinedInv == rmain # "run" => \A s \in 0 .. RecvParallel - 1 : rpc[s] \in ReceiverEnded

\* A thread that has ended takes no step, and only the receiver's own
\* streams have threads.
LEMMA EndedIsEnd ==
  ASSUME TypeOK, ConnInv, NEW s \in Streams, ReceiverStep(s)
  PROVE  rpc[s] \notin ReceiverEnded /\ s \in 0 .. RecvParallel - 1
  <1>1. rpc[s] \notin ReceiverEnded
    BY DEF ReceiverStep, ReceiveThread, Listen, Accept, AcceptFail, ReceiveHeader, ReceiveName,
         EofAtHeader, EofInName, Enter, CreateOutput, ResizeOutput, OpenOutput, ReceivePart,
         EofInPart, ClosePart, ReceiveError, ReceiverEnded
  <1>2. s < RecvParallel
    <2>1. CASE Listen(s)
      BY <2>1 DEF Listen
    <2>2. CASE ~Listen(s)
      <3>1. rpc[s] # "start"
        BY <2>2 DEF ReceiverStep, ReceiveThread, Accept, AcceptFail, ReceiveHeader, ReceiveName,
         EofAtHeader, EofInName, Enter, CreateOutput, ResizeOutput, OpenOutput, ReceivePart,
         EofInPart, ClosePart, ReceiveError
      <3>. QED
        BY <3>1 DEF ConnInv, ConnAt
    <2>. QED
      BY <2>1, <2>2
  <1>. QED
    BY <1>1, <1>2, BoundAssumption DEF Streams

\* A receiving thread steps only before the verdict.
LEMMA RunsBeforeVerdict ==
  ASSUME IInv, JoinedInv, NEW s \in Streams, ReceiverStep(s)
  PROVE  rmain = "run"
  BY EndedIsEnd DEF IInv, JoinedInv

\* Between the truncation and the resizing of the file nobody writes to it.
FreshInv == \A s \in Streams : rpc[s] = "resize" => out = Truncated

LEMMA JoinedStep ==
  ASSUME IInv, JoinedInv, [Next]_vars
  PROVE  JoinedInv'
  <1>1. CASE SenderStep
    BY <1>1, SenderFrame DEF JoinedInv
  <1>2. ASSUME NEW s \in Streams, ReceiverStep(s)
        PROVE  JoinedInv'
    BY <1>2, RunsBeforeVerdict, ReceiverFrame DEF JoinedInv
  <1>3. CASE JoinReceive
    BY <1>3 DEF JoinReceive, JoinedInv
  <1>4. CASE LinkFails \/ DiskFails \/ UNCHANGED vars
    BY <1>4 DEF LinkFails, DiskFails, vars, JoinedInv
  <1>. QED
    BY <1>1, <1>2, <1>3, <1>4, StepCases

\* A thread comes to the resizing only from the truncation.
LEMMA ResizeEntry ==
  ASSUME IInv, [Next]_vars, NEW s \in Streams, ReceiverStep(s), rpc'[s] = "resize"
  PROVE  out' = Truncated
  <1>. USE DEF IInv
  <1>1. \A pc : ReceiverGoes(s, pc) => rpc'[s] = pc
    BY DEF ReceiverGoes, TypeOK, ThreadTypeOK
  <1>2. CASE Opening(s)
    BY <1>2, OpeningStep
  <1>3. CASE Enter(s)
    BY <1>1, <1>3 DEF Enter
  <1>4. CASE CreateOutput(s)
    BY <1>1, <1>4 DEF CreateOutput
  <1>5. CASE ResizeOutput(s) \/ OpenOutput(s)
    BY <1>1, <1>5 DEF ResizeOutput, OpenOutput
  <1>6. CASE rpc[s] = "part"
    BY <1>6, WriteStep
  <1>. QED
    BY <1>2, <1>3, <1>4, <1>5, <1>6, ReceiverCases

LEMMA FreshStep ==
  ASSUME IInv, FreshInv, [Next]_vars
  PROVE  FreshInv'
  <1>1. ASSUME NEW s \in Streams, ReceiverStep(s), NEW t \in Streams, rpc'[t] = "resize"
        PROVE  out' = Truncated
    <2>1. CASE t = s
      BY <1>1, <2>1, ResizeEntry
    <2>2. CASE t # s
      <3>1. rpc[t] = "resize"
        BY <1>1, <2>2, OtherStreams DEF IInv
      <3>2. rpc[s] \notin {"create", "resize"} /\ rpc[s] # "part"
        BY <2>2, <3>1 DEF IInv, LockInv, MutexAt, ExclusiveAt
      <3>3. out' = out
        BY <1>1, <3>2, QuietFile
      <3>. QED
        BY <3>1, <3>3 DEF FreshInv
    <2>. QED
      BY <2>1, <2>2
  <1>2. ASSUME NEW s \in Streams, ReceiverStep(s)
        PROVE  FreshInv'
    <2>1. Truncated' = Truncated
      BY DEF Truncated, Void
    <2>. QED
      BY <1>1, <1>2, <2>1 DEF FreshInv
  <1>3. CASE SenderStep \/ JoinReceive \/ LinkFails \/ DiskFails \/ UNCHANGED vars
    <2>1. UNCHANGED <<rpc, out>> /\ Truncated' = Truncated
      BY <1>3, SenderFrame, OtherFrame DEF Truncated, Void
    <2>. QED
      BY <2>1 DEF FreshInv
  <1>. QED
    BY <1>2, <1>3, StepCases

LEMMA Joined == Spec => [](IInv /\ JoinedInv /\ FreshInv)
  <1>1. Init => JoinedInv /\ FreshInv
    BY DEF Init, JoinedInv, FreshInv
  <1>. QED
    BY <1>1, JoinedStep, FreshStep, InvInit, InvStep, PTL DEF Spec

\* The cells of the two modules are the same.
LEMMA SameCells ==
  /\ Abstract!Void = Void /\ Abstract!Hole = Hole /\ Abstract!Old = Old
  /\ \A a, o : Abstract!Byte(a, o) = Byte(a, o)
  /\ \A a : Abstract!FileOf(a) = FileOf(a)
  BY DEF Abstract!Void, Abstract!Hole, Abstract!Old, Abstract!Byte, Abstract!FileOf,
         Void, Hole, Old, Byte, FileOf

\* A sender's step is its success, which the invariant allows, or nothing.
LEMMA AbstractSender ==
  ASSUME IInv, EndToEnd', SenderStep
  PROVE  [Abstract!Next]_(Abstract!vars)
  <1>1. UNCHANGED <<acc, rmain, out, diskOk>>
    BY SenderFrame
  <1>2. ASSUME NEW a \in Senders, JoinSend(a), smain'[a] = "ok"
        PROVE  Abstract!ReportSent(a)
    <2>1. { b \in Senders : smain'[b] = "ok" } = { b \in Senders : smain[b] = "ok" } \cup {a}
      BY <1>2 DEF JoinSend, IInv, TypeOK, ThreadTypeOK
    <2>2. rmain = "ok" => (diskOk /\ AllFrom(a) => out = FileOf(a))
      BY <1>1, <1>2 DEF EndToEnd, AllFrom, FileOf
    <2>3. Abstract!Delivered(a) <=> (diskOk /\ AllFrom(a) => out = FileOf(a))
      BY SameCells DEF Abstract!Delivered, AllFrom
    <2>. QED
      BY <1>1, <2>1, <2>2, <2>3 DEF Abstract!ReportSent
  <1>3. ASSUME NEW a \in Senders, StartSend(a) \/ JoinSend(a) \/ KillSender(a), smain'[a] # "ok"
        PROVE  { b \in Senders : smain'[b] = "ok" } = { b \in Senders : smain[b] = "ok" }
    <2>1. smain[a] # "ok" /\ \A b \in Senders : b # a => smain'[b] = smain[b]
      BY <1>3 DEF StartSend, JoinSend, KillSender, IInv, TypeOK, ThreadTypeOK
    <2>. QED
      BY <1>3, <2>1
  <1>4. ASSUME NEW a \in Senders, StartSend(a) \/ KillSender(a)
        PROVE  smain'[a] # "ok"
    BY <1>4 DEF StartSend, KillSender, IInv, TypeOK, ThreadTypeOK
  <1>5. ASSUME NEW a \in Senders, NEW s \in Streams, SendThread(a, s)
        PROVE  smain' = smain
    BY <1>5 DEF SendThread, OpenInput, Connect, ConnectFail, Send, SendFail, ReadFail, CloseSend,
         SenderGoes
  <1>6. \/ \E a \in Senders : Abstract!ReportSent(a)
        \/ { b \in Senders : smain'[b] = "ok" } = { b \in Senders : smain[b] = "ok" }
    BY <1>2, <1>3, <1>4, <1>5 DEF SenderStep
  <1>. QED
    BY <1>1, <1>6 DEF Abstract!Next, Abstract!vars

\* A receiving thread's step takes a sender, makes the file, puts bytes of
\* its sender's file in their place, or nothing.
LEMMA AbstractReceiver ==
  ASSUME IInv, IInv', JoinedInv, FreshInv, NEW s \in Streams, ReceiverStep(s)
  PROVE  [Abstract!Next]_(Abstract!vars)
  <1>1. rmain = "run" /\ UNCHANGED <<smain, rmain, diskOk>>
    BY RunsBeforeVerdict, ReceiverFrame
  <1>2. CASE acc' # acc
    <2>1. Accept(s)
      BY <1>2 DEF ReceiverStep, ReceiveThread, Listen, AcceptFail, ReceiveHeader, ReceiveName,
         EofAtHeader, EofInName, Enter, CreateOutput, ResizeOutput, OpenOutput, ReceivePart,
         EofInPart, ClosePart, ReceiveError
    <2>2. acc[s] = NoSender /\ UNCHANGED out
      BY <2>1 DEF Accept, IInv, ConnInv, ConnAt
    <2>3. queue[s] \in Seq(Senders) /\ queue[s] # <<>>
      BY <2>1 DEF Accept, IInv, TypeOK, ThreadTypeOK
    <2>4. Head(queue[s]) \in Senders
      BY <2>3
    <2>5. Abstract!Take(s, Head(queue[s]))
      BY <1>1, <2>1, <2>2 DEF Accept, Abstract!Take
    <2>. QED
      BY <2>4, <2>5 DEF Abstract!Next
  <1>3. CASE acc' = acc /\ rpc[s] = "part"
    <2>1. acc[s] # NoSender /\ \A o \in Offsets : \/ out'[o] \in {out[o], Byte(acc[s], o)}
                                                  \/ out[o] = Void /\ out'[o] = Hole
      BY <1>3, FileStep DEF IInv
    <2>2. out' \in [Offsets -> {Void, Hole, Old} \cup { Byte(a, o) : a \in Senders, o \in Offsets }]
      <3>1. out' \in [Offsets -> Cells]
        BY DEF IInv, TypeOK, OutputTypeOK
      <3>2. Cells \subseteq {Void, Hole, Old} \cup { Byte(a, o) : a \in Senders, o \in Offsets }
        BY DEF Cells, Byte
      <3>. QED
        BY <3>1, <3>2
    <2>3. Abstract!Deposit(s)
      BY <1>1, <1>3, <2>1, <2>2, SameCells DEF Abstract!Deposit
    <2>. QED
      BY <2>3 DEF Abstract!Next
  <1>4. CASE acc' = acc /\ rpc[s] \in {"create", "resize"} /\ out' # out
    <2>1. \A o \in Offsets : out[o].tag # "byte"
      BY <1>4 DEF IInv, LockInv, ExclusiveAt, ContentInv, PlacedAt
    <2>2. out' = Truncated \/ out' = Resized(out, total_size)
      BY <1>4, QuietFile
    <2>3. out' = Truncated \/ out = Truncated
      BY <1>4, QuietFile DEF FreshInv
    <2>4. out' \in [Offsets -> {Void, Hole}]
      <3>1. CASE out' = Truncated
        BY <3>1 DEF Truncated
      <3>2. CASE out' # Truncated
        <4>1. out' = Resized(out, total_size) /\ \A o \in Offsets : out[o] = Void
          BY <2>2, <2>3, <3>2 DEF Truncated
        <4>. QED
          BY <4>1 DEF Resized
      <3>. QED
        BY <3>1, <3>2
    <2>5. Abstract!Make
      BY <1>1, <1>4, <2>1, <2>4, SameCells DEF Abstract!Make
    <2>. QED
      BY <2>5 DEF Abstract!Next
  <1>5. CASE acc' = acc /\ out' = out
    BY <1>1, <1>5 DEF Abstract!vars
  <1>. QED
    BY <1>2, <1>3, <1>4, <1>5, QuietFile

\* The verdict of the receiver is one the abstract receiver may give.
LEMMA AbstractVerdict ==
  ASSUME IInv, EndToEnd', JoinReceive
  PROVE  Abstract!ReportReceived
  <1>1. /\ rmain = "run" /\ rmain' \in {"ok", "error"}
        /\ UNCHANGED <<smain, acc, out, diskOk>>
    BY DEF JoinReceive, Verdict, senderVars, envVars
  <1>2. ASSUME rmain' = "ok", NEW a \in Senders, smain[a] = "ok"
        PROVE  Abstract!Delivered(a)
    BY <1>1, <1>2, SameCells DEF EndToEnd, AllFrom, FileOf, Abstract!Delivered
  <1>. QED
    BY <1>1, <1>2 DEF Abstract!ReportReceived

\* run_send and run_receive, with their threads, connections, mutex, buffers
\* and failures, implement the transfer that TransferSpec promises.
THEOREM Refinement == Spec => Implements
  <1>1. Init => Abstract!Init
    BY SameCells DEF Init, Abstract!Init
  <1>2. (IInv => EndToEnd)'
    BY InvEndToEnd, PTL
  <1>3. ASSUME IInv, IInv', JoinedInv, FreshInv, [Next]_vars
        PROVE  [Abstract!Next]_(Abstract!vars)
    <2>1. EndToEnd'
      BY <1>2, <1>3
    <2>2. CASE SenderStep
      BY <1>3, <2>1, <2>2, AbstractSender
    <2>3. ASSUME NEW s \in Streams, ReceiverStep(s)
          PROVE  [Abstract!Next]_(Abstract!vars)
      BY <1>3, <2>3, AbstractReceiver
    <2>4. CASE JoinReceive
      BY <1>3, <2>1, <2>4, AbstractVerdict DEF Abstract!Next
    <2>5. CASE DiskFails
      BY <2>5 DEF DiskFails, senderVars, Abstract!DiskFails, Abstract!Next
    <2>6. CASE LinkFails \/ UNCHANGED vars
      BY <2>6 DEF LinkFails, senderVars, vars, Abstract!vars
    <2>. QED
      BY <1>3, <2>2, <2>3, <2>4, <2>5, <2>6, StepCases
  <1>. QED
    BY <1>1, <1>3, Joined, PTL DEF Spec, Implements, Abstract!Spec
=============================================================================
