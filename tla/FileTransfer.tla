---------------------------- MODULE FileTransfer ----------------------------
(***************************************************************************)
(* A file sent with hyperlink_file: run_send and its send_file_range       *)
(* threads on one side, run_receive and its receive_file_part threads (or, *)
(* with one stream, the single-stream path) on the other, over one TCP     *)
(* connection per stream.                                                  *)
(*                                                                         *)
(* Several senders may aim at the same receiver: every listener is opened  *)
(* with a backlog and stays open for as long as its thread lives, so that  *)
(* a second sender can connect, and even finish, without being accepted.   *)
(*                                                                         *)
(* Data is counted in units.  A stream is HeaderUnits of header, then the  *)
(* name, then the payload; what a unit holds follows from its position, so *)
(* the wire is the number of units written and the number read.  A header  *)
(* has several units because a connection may end in the middle of one.    *)
(***************************************************************************)
EXTENDS ByteRanges, Sequences, FiniteSets

CONSTANTS
    Senders,        \* sender processes, each started once
    Size,           \* Size[a]: bytes of a's input file, in units
    Name,           \* Name[a]: its base name
    NameUnits,      \* NameUnits[a]: length of that name
    Parallel,       \* Parallel[a]: a's --parallel
    RecvParallel,   \* the receiver's --parallel
    MaxStreams,     \* bound on both
    MaxBytes,       \* bound on Size[a]
    HeaderUnits,    \* kHeaderBytes
    MaxNameUnits,   \* kMaxNameBytes
    Window,         \* units two socket buffers hold
    Backlog,        \* connections a listener completes before accept
    NoSender,       \* not a sender
    LinkMayFail, DiskMayFail, SenderMayDie      \* which failures a run explores

Streams == 0 .. MaxStreams - 1
Offsets == 0 .. MaxBytes - 1
Names   == { Name[a] : a \in Senders }
NoName  == "no_name"        \* the empty string of a fresh ReceiveSharedState

ASSUME SenderAssumption ==
    /\ NoSender \notin Senders
    /\ Size \in [Senders -> 0 .. MaxBytes]
    /\ DOMAIN Name = Senders
    /\ NameUnits \in [Senders -> Nat \ {0}]
    /\ Parallel \in [Senders -> 1 .. MaxStreams]

ASSUME BoundAssumption ==
    /\ MaxStreams \in Nat \ {0} /\ MaxBytes \in Nat
    /\ RecvParallel \in 1 .. MaxStreams
    /\ HeaderUnits \in Nat \ {0} /\ MaxNameUnits \in Nat
    /\ Window \in Nat \ {0} /\ Backlog \in Nat \ {0}

ASSUME FailureAssumption == {LinkMayFail, DiskMayFail, SenderMayDie} \subseteq BOOLEAN

VARIABLES
    smain,      \* smain[a]: the sender's main thread
    spc,        \* spc[a][s]: its thread for stream s
    wire,       \* wire[a][s]: units of stream s handed to the kernel
    queue,      \* queue[s]: senders connected to port s and not accepted
    acc,        \* acc[s]: the sender that thread s accepted
    rmain,      \* the receiver's main thread
    rpc,        \* rpc[s]: its thread for stream s
    got,        \* got[s]: units that thread s has received
    flushed,    \* flushed[s]: payload units its output stream gave to the OS
    lock,       \* who holds shared.mutex
    initialized, file_name, total_size,     \* ReceiveSharedState
    out,        \* the output file
    linkUp, diskOk

senderVars == <<smain, spc, wire>>
envVars    == <<linkUp, diskOk>>
shared     == <<initialized, file_name, total_size>>
vars == <<smain, spc, wire, queue, acc, rmain, rpc, got, flushed, lock,
          initialized, file_name, total_size, out, linkUp, diskOk>>
-----------------------------------------------------------------------------
(***************************************************************************)
(* What a sender puts on a stream.                                         *)
(***************************************************************************)
PartOffset(a, s) == RangeOffset(Size[a], s, Parallel[a])
\* Mutant: the remainder of the division is dropped.
PartSize_NoRemainder(a, s) == Base(Size[a], Parallel[a])

PartSize(a, s) == RangeSize(Size[a], s, Parallel[a])

\* Mutant: every part claims to begin the file.
make_header_NoOffset(a, s) ==
    [ kind         |-> IF Parallel[a] > 1 THEN "FilePart" ELSE "File",
      payload_size |-> PartSize(a, s),
      name_size    |-> NameUnits[a],
      file_name    |-> Name[a],
      offset       |-> 0,
      total_size   |-> Size[a] ]

make_header(a, s) ==
    [ kind         |-> IF Parallel[a] > 1 THEN "FilePart" ELSE "File",
      payload_size |-> PartSize(a, s),
      name_size    |-> NameUnits[a],
      file_name    |-> Name[a],
      offset       |-> PartOffset(a, s),
      total_size   |-> Size[a] ]

HeadLen(a)      == HeaderUnits + NameUnits[a]
StreamLen(a, s) == HeadLen(a) + PartSize(a, s)

(***************************************************************************)
(* A cell of the output file: a byte of a sender's input, a hole left by   *)
(* resizing or seeking, a byte of an older file, or nothing (past the      *)
(* end).                                                                   *)
(***************************************************************************)
Void       == [tag |-> "void", src |-> NoSender, at |-> 0]
Hole       == [tag |-> "hole", src |-> NoSender, at |-> 0]
Old        == [tag |-> "old",  src |-> NoSender, at |-> 0]
Byte(a, o) == [tag |-> "byte", src |-> a, at |-> o]
Cells      == {Void, Hole, Old} \cup [tag : {"byte"}, src : Senders, at : Offsets]

\* Mutant: the seek is relative to the end of the input.
Payload_FromEnd(a, s, k) == Byte(a, Size[a] + PartOffset(a, s) + k)

\* Payload unit k of a stream: send_file_range seeks to the part's offset.
Payload(a, s, k) == Byte(a, PartOffset(a, s) + k)

Truncated == [o \in Offsets |-> Void]

Resized(f, n) ==
    [o \in Offsets |-> IF o >= n THEN Void ELSE IF f[o] = Void THEN Hole ELSE f[o]]

(***************************************************************************)
(* The receiver's view of stream s.  Incoming is what it decodes from the  *)
(* header; the payload counters are offsets into the part.                 *)
(***************************************************************************)
Incoming(s) == make_header(acc[s], s)
Received(s) == got[s] - HeadLen(acc[s])

\* The file f after the payload units from .. to - 1 were written where the
\* header says the part begins.
Written(f, s, from, to) ==
    LET base == Incoming(s).offset IN
    [o \in Offsets |->
        IF base + from <= o /\ o < base + to
          THEN Payload(acc[s], s, o - base)
          ELSE IF from < to /\ o < base + from /\ f[o] = Void THEN Hole ELSE f[o]]

-----------------------------------------------------------------------------
SenderEnded   == {"closed", "failed"}
ReceiverEnded == {"done", "failed"}
NoStream      == -1

Listening(s) == s < RecvParallel /\ rpc[s] \notin {"start"} \cup ReceiverEnded

Queued(a, s) == \E i \in 1 .. Len(queue[s]) : queue[s][i] = a

\* The sender's end of a connection is closed by close(), by the destructor
\* of a failed thread's session, or by the kernel when the process dies.
Fin(a, s) == spc[a][s] \in SenderEnded \/ smain[a] = "killed"

\* The peer has closed, or the path to it is gone: send will return an error.
Broken(a, s) ==
    \/ ~linkUp
    \/ ~Queued(a, s) /\ (acc[s] # a \/ rpc[s] \in ReceiverEnded)

Consumed(a, s) == IF acc[s] = a THEN got[s] ELSE 0

\* One session.send call covers the header, the name or a chunk of payload.
BufferEnd(a, s) ==
    IF wire[a][s] < HeaderUnits THEN HeaderUnits
    ELSE IF wire[a][s] < HeadLen(a) THEN HeadLen(a) ELSE StreamLen(a, s)

-----------------------------------------------------------------------------
Init ==
    /\ smain = [a \in Senders |-> "start"]
    /\ spc = [a \in Senders |-> [s \in Streams |-> "start"]]
    /\ wire = [a \in Senders |-> [s \in Streams |-> 0]]
    /\ queue = [s \in Streams |-> <<>>]
    /\ acc = [s \in Streams |-> NoSender]
    /\ rmain = "run"
    /\ rpc = [s \in Streams |-> "start"]
    /\ got = [s \in Streams |-> 0]
    /\ flushed = [s \in Streams |-> 0]
    /\ lock = NoStream
    /\ initialized = FALSE /\ file_name = NoName /\ total_size = 0
    /\ out \in {[o \in Offsets |-> Void], [o \in Offsets |-> Old]}
    /\ linkUp = TRUE
    /\ diskOk = TRUE

-----------------------------------------------------------------------------
(***************************************************************************)
(* The sender.                                                             *)
(***************************************************************************)
\* run_send: the path is checked and measured, then one thread per stream
\* starts.
StartSend(a) ==
    /\ smain[a] = "start"
    /\ \/ smain' = [smain EXCEPT ![a] = "run"]
       \/ smain' = [smain EXCEPT ![a] = "error"]
    /\ UNCHANGED <<spc, wire, queue, acc, rmain, rpc, got, flushed, lock, shared, out, envVars>>

\* Thread s of sender a moves to pc.
SenderGoes(a, s, pc) ==
    /\ spc' = [spc EXCEPT ![a][s] = pc]
    /\ UNCHANGED <<smain, acc, rmain, rpc, got, flushed, lock, shared, out, envVars>>

Running(a, s) == smain[a] = "run" /\ s < Parallel[a]

\* The input is opened and positioned before the connection is made.
OpenInput(a, s) ==
    /\ Running(a, s) /\ spc[a][s] = "start"
    /\ SenderGoes(a, s, "opened") \/ SenderGoes(a, s, "failed")
    /\ UNCHANGED <<wire, queue>>

\* The kernel completes the connection as long as the backlog has room.
CanConnect(s) == linkUp /\ Listening(s) /\ Len(queue[s]) < Backlog

Connect(a, s) ==
    /\ Running(a, s) /\ spc[a][s] = "opened" /\ CanConnect(s)
    /\ queue' = [queue EXCEPT ![s] = Append(@, a)]
    /\ SenderGoes(a, s, "sending")
    /\ UNCHANGED wire

ConnectFail(a, s) ==
    /\ Running(a, s) /\ spc[a][s] = "opened" /\ ~CanConnect(s)
    /\ SenderGoes(a, s, "failed")
    /\ UNCHANGED <<wire, queue>>

\* One ::send call.  It blocks while the socket buffers are full.
Send(a, s) ==
    /\ Running(a, s) /\ spc[a][s] = "sending"
    /\ \E n \in 1 .. BufferEnd(a, s) - wire[a][s] :
         /\ wire[a][s] + n - Consumed(a, s) <= Window
         /\ wire' = [wire EXCEPT ![a][s] = @ + n]
    /\ UNCHANGED <<smain, spc, queue, acc, rmain, rpc, got, flushed, lock, shared, out, envVars>>

SendFail(a, s) ==
    /\ Running(a, s) /\ spc[a][s] = "sending"
    /\ wire[a][s] < StreamLen(a, s) /\ Broken(a, s)
    /\ SenderGoes(a, s, "failed")
    /\ UNCHANGED <<wire, queue>>

\* "input file ended unexpectedly": the file shrank after it was measured.
ReadFail(a, s) ==
    /\ Running(a, s) /\ spc[a][s] = "sending"
    /\ wire[a][s] \in HeadLen(a) .. StreamLen(a, s) - 1
    /\ SenderGoes(a, s, "failed")
    /\ UNCHANGED <<wire, queue>>

CloseSend(a, s) ==
    /\ Running(a, s) /\ spc[a][s] = "sending" /\ wire[a][s] = StreamLen(a, s)
    /\ SenderGoes(a, s, "closed")
    /\ UNCHANGED <<wire, queue>>

\* rethrow_first_error, seen from main; and its mutant, which looks at none.
Verdict_Ignored(failed) == "ok"
Verdict(failed)         == IF failed THEN "error" ELSE "ok"

\* run_send joins every thread, then rethrow_first_error decides.
JoinSend(a) ==
    /\ smain[a] = "run"
    /\ \A s \in 0 .. Parallel[a] - 1 : spc[a][s] \in SenderEnded
    /\ smain' = [smain EXCEPT ![a] =
                    Verdict(\E s \in 0 .. Parallel[a] - 1 : spc[a][s] = "failed")]
    /\ UNCHANGED <<spc, wire, queue, acc, rmain, rpc, got, flushed, lock, shared, out, envVars>>

\* The whole process goes: SIGPIPE from a send on a closed connection (the
\* transport sends with no flags), a signal from the user, a crash.
KillSender(a) ==
    /\ SenderMayDie /\ smain[a] = "run"
    /\ smain' = [smain EXCEPT ![a] = "killed"]
    /\ UNCHANGED <<spc, wire, queue, acc, rmain, rpc, got, flushed, lock, shared, out, envVars>>

-----------------------------------------------------------------------------
(***************************************************************************)
(* The receiver's threads.                                                 *)
(***************************************************************************)
\* Mutant: the listener outlives its thread.
ReceiverGoes_LeaksListener(s, pc) ==
    /\ rpc' = [rpc EXCEPT ![s] = pc]
    /\ UNCHANGED <<queue, senderVars, rmain, envVars>>

\* Thread s moves to pc; when it ends, its session closes both its sockets
\* and connections that wait in the backlog are reset.
ReceiverGoes(s, pc) ==
    /\ rpc' = [rpc EXCEPT ![s] = pc]
    /\ queue' = IF pc \in ReceiverEnded THEN [queue EXCEPT ![s] = <<>>] ELSE queue
    /\ UNCHANGED <<senderVars, rmain, envVars>>

Listen(s) ==
    /\ s < RecvParallel /\ rpc[s] = "start"
    /\ ReceiverGoes(s, "accept") \/ ReceiverGoes(s, "failed")
    /\ UNCHANGED <<acc, got, flushed, lock, shared, out>>

Accept(s) ==
    /\ rpc[s] = "accept" /\ queue[s] # <<>>
    /\ acc' = [acc EXCEPT ![s] = Head(queue[s])]
    /\ queue' = [queue EXCEPT ![s] = Tail(@)]
    /\ rpc' = [rpc EXCEPT ![s] = "header"]
    /\ UNCHANGED <<senderVars, rmain, got, flushed, lock, shared, out, envVars>>

AcceptFail(s) ==
    /\ rpc[s] = "accept"
    /\ ReceiverGoes(s, "failed")
    /\ UNCHANGED <<acc, got, flushed, lock, shared, out>>

\* receive_into returned n units.
Receives(s, n) ==
    /\ linkUp
    /\ n <= wire[acc[s]][s] - got[s]
    /\ got' = [got EXCEPT ![s] = @ + n]

\* The connection has ended and everything sent before its end was read.
AtEof(s) == linkUp /\ Fin(acc[s], s) /\ got[s] = wire[acc[s]][s]

NameSizeOk(s) == Incoming(s).name_size \in 1 .. MaxNameUnits

\* receive_header_optional (or receive_header): the 48 bytes, in pieces.
ReceiveHeader(s) ==
    /\ rpc[s] = "header"
    /\ \E n \in 1 .. HeaderUnits - got[s] :
         /\ Receives(s, n)
         /\ ReceiverGoes(s, IF got[s] + n < HeaderUnits THEN "header"
                            ELSE IF NameSizeOk(s) THEN "name" ELSE "failed")
    /\ UNCHANGED <<acc, flushed, lock, shared, out>>

\* Mutant: the single path takes a part for a file.
AfterName_TakesPart(s) ==
    IF RecvParallel > 1 THEN "lock" ELSE "create"

\* Several streams: the range is checked and the thread goes for the mutex.
\* One stream: parts are refused, a file is created at once.
AfterName(s) ==
    LET h == Incoming(s) IN
    IF RecvParallel > 1
      THEN IF h.offset + h.payload_size > h.total_size THEN "failed" ELSE "lock"
      ELSE IF h.kind = "FilePart" THEN "failed" ELSE "create"

ReceiveName(s) ==
    /\ rpc[s] = "name"
    /\ \E n \in 1 .. HeadLen(acc[s]) - got[s] :
         /\ Receives(s, n)
         /\ ReceiverGoes(s, IF got[s] + n < HeadLen(acc[s]) THEN "name" ELSE AfterName(s))
    /\ UNCHANGED <<acc, flushed, lock, shared, out>>

\* Mutant: any end of the connection in a header ends the loop quietly.
EofAtHeader_Quiet(s) ==
    /\ rpc[s] = "header" /\ AtEof(s)
    /\ ReceiverGoes(s, IF RecvParallel > 1 THEN "done" ELSE "failed")
    /\ UNCHANGED <<acc, got, flushed, lock, shared, out>>

\* The end of the connection where a header could begin ends the loop of
\* receive_file_part without an error, whether or not a part came before;
\* receive_header, on the single path, insists on a header.
EofAtHeader(s) ==
    /\ rpc[s] = "header" /\ AtEof(s)
    /\ ReceiverGoes(s, IF RecvParallel > 1 /\ got[s] \in {0, StreamLen(acc[s], s)}
                         THEN "done" ELSE "failed")
    /\ UNCHANGED <<acc, got, flushed, lock, shared, out>>

EofInName(s) ==
    /\ rpc[s] = "name" /\ AtEof(s)
    /\ ReceiverGoes(s, "failed")
    /\ UNCHANGED <<acc, got, flushed, lock, shared, out>>

-----------------------------------------------------------------------------
(***************************************************************************)
(* The output file.  With several streams the first thread to take         *)
(* shared.mutex records what the file is, creates and resizes it while it  *)
(* holds the mutex; the others compare and go on.                          *)
(***************************************************************************)
\* Mutant: the mutex is not taken.
MutexFree_Ignored == TRUE

MutexFree   == lock = NoStream
FirstPart   == ~initialized
SameFile(s) == /\ file_name = Incoming(s).file_name
               /\ total_size = Incoming(s).total_size

Enter(s) ==
    /\ rpc[s] = "lock" /\ MutexFree
    /\ IF FirstPart
         THEN /\ initialized' = TRUE
              /\ file_name' = Incoming(s).file_name
              /\ total_size' = Incoming(s).total_size
              /\ lock' = s
              /\ ReceiverGoes(s, "create")
         ELSE /\ ReceiverGoes(s, IF SameFile(s) THEN "open" ELSE "failed")
              /\ UNCHANGED <<shared, lock>>
    /\ UNCHANGED <<acc, got, flushed, out>>

\* The mutex is released when the locked scope is left, by an exception too.
Unlock(s) == lock' = IF lock = s THEN NoStream ELSE lock

CreateOutput(s) ==
    /\ rpc[s] = "create"
    /\ \/ /\ out' = Truncated
          /\ ReceiverGoes(s, IF RecvParallel > 1 THEN "resize" ELSE "part")
          /\ UNCHANGED lock
       \/ /\ ReceiverGoes(s, "failed") /\ Unlock(s)
          /\ UNCHANGED out
    /\ UNCHANGED <<acc, got, flushed, shared>>

ResizeOutput(s) ==
    /\ rpc[s] = "resize"
    /\ \/ out' = Resized(out, total_size) /\ ReceiverGoes(s, "open")
       \/ UNCHANGED out /\ ReceiverGoes(s, "failed")
    /\ Unlock(s)
    /\ UNCHANGED <<acc, got, flushed, shared>>

OpenOutput(s) ==
    /\ rpc[s] = "open"
    /\ ReceiverGoes(s, "part") \/ ReceiverGoes(s, "failed")
    /\ UNCHANGED <<acc, got, flushed, lock, shared, out>>

\* The output stream gives its units up to m to the operating system.
Flush(s, m) ==
    /\ flushed' = [flushed EXCEPT ![s] = m]
    /\ out' = Written(out, s, flushed[s], m)

\* The output stream goes out of scope: its destructor writes what is still
\* buffered, and if that fails, after any part of it, nobody hears of it.
CloseOutput(s) ==
    \E m \in flushed[s] .. Received(s) : (diskOk => m = Received(s)) /\ Flush(s, m)

\* A piece of payload is received and written: through to the file, or into
\* the stream's buffer, or the write fails part of the way.
ReceivePart(s) ==
    /\ rpc[s] = "part"
    /\ \E n \in 1 .. Incoming(s).payload_size - Received(s) :
         /\ Receives(s, n)
         /\ \/ ReceiverGoes(s, "part") /\ Flush(s, Received(s) + n)
            \/ ReceiverGoes(s, "part") /\ UNCHANGED <<flushed, out>>
            \/ /\ ~diskOk /\ ReceiverGoes(s, "failed")
               /\ \E m \in flushed[s] .. Received(s) + n : Flush(s, m)
    /\ UNCHANGED <<acc, lock, shared>>

\* Mutant: a receive of nothing is tried again.
EofInPart_Retries(s) ==
    /\ rpc[s] = "part" /\ Received(s) < Incoming(s).payload_size /\ AtEof(s)
    /\ UNCHANGED vars

\* "connection closed before file part completed".
EofInPart(s) ==
    /\ rpc[s] = "part" /\ Received(s) < Incoming(s).payload_size /\ AtEof(s)
    /\ CloseOutput(s)
    /\ ReceiverGoes(s, "failed")
    /\ UNCHANGED <<acc, got, lock, shared>>

\* "receive failed": recv reports that the path is gone.
ReceiveError(s) ==
    /\ ~linkUp
    /\ \/ rpc[s] \in {"header", "name"} /\ UNCHANGED <<flushed, out>>
       \/ rpc[s] = "part" /\ Received(s) < Incoming(s).payload_size /\ CloseOutput(s)
    /\ ReceiverGoes(s, "failed")
    /\ UNCHANGED <<acc, got, lock, shared>>

\* The part is complete.  The single path returns here, the parallel loop
\* reads the next header.
ClosePart(s) ==
    /\ rpc[s] = "part" /\ Received(s) = Incoming(s).payload_size
    /\ CloseOutput(s)
    /\ ReceiverGoes(s, IF RecvParallel > 1 THEN "header" ELSE "done")
    /\ UNCHANGED <<acc, got, lock, shared>>

\* Mutant: the verdict is made when the first stream has ended.
JoinReceive_FirstOnly ==
    /\ rmain = "run" /\ rpc[0] \in ReceiverEnded
    /\ rmain' = Verdict(rpc[0] = "failed")
    /\ UNCHANGED <<senderVars, queue, acc, rpc, got, flushed, lock, shared, out, envVars>>

\* run_receive joins every thread, then rethrow_first_error decides.
JoinReceive ==
    /\ rmain = "run"
    /\ \A s \in 0 .. RecvParallel - 1 : rpc[s] \in ReceiverEnded
    /\ rmain' = Verdict(\E s \in 0 .. RecvParallel - 1 : rpc[s] = "failed")
    /\ UNCHANGED <<senderVars, queue, acc, rpc, got, flushed, lock, shared, out, envVars>>

-----------------------------------------------------------------------------
LinkFails ==
    /\ LinkMayFail /\ linkUp
    /\ linkUp' = FALSE
    /\ UNCHANGED <<senderVars, queue, acc, rmain, rpc, got, flushed, lock, shared, out, diskOk>>

DiskFails ==
    /\ DiskMayFail /\ diskOk
    /\ diskOk' = FALSE
    /\ UNCHANGED <<senderVars, queue, acc, rmain, rpc, got, flushed, lock, shared, out, linkUp>>

SendThread(a, s) ==
    \/ OpenInput(a, s) \/ Connect(a, s) \/ ConnectFail(a, s) \/ Send(a, s)
    \/ SendFail(a, s) \/ ReadFail(a, s) \/ CloseSend(a, s)

ReceiveThread(s) ==
    \/ Listen(s) \/ Accept(s) \/ ReceiveHeader(s) \/ ReceiveName(s)
    \/ EofAtHeader(s) \/ EofInName(s) \/ Enter(s) \/ CreateOutput(s)
    \/ ResizeOutput(s) \/ OpenOutput(s) \/ ReceivePart(s) \/ EofInPart(s)
    \/ ClosePart(s)

Next ==
    \/ \E a \in Senders : StartSend(a) \/ JoinSend(a) \/ KillSender(a)
    \/ \E a \in Senders, s \in Streams : SendThread(a, s)
    \/ \E s \in Streams : ReceiveThread(s) \/ AcceptFail(s) \/ ReceiveError(s)
    \/ JoinReceive \/ LinkFails \/ DiskFails

Spec == Init /\ [][Next]_vars

(***************************************************************************)
(* A thread that can take a step takes one; accept failing and a dead link *)
(* being noticed are not promised, nor that a user starts a sender.        *)
(***************************************************************************)
Fairness ==
    /\ \A a \in Senders : WF_vars(JoinSend(a))
    /\ \A a \in Senders, s \in Streams : WF_vars(SendThread(a, s))
    /\ \A s \in Streams : WF_vars(ReceiveThread(s))
    /\ WF_vars(JoinReceive)

FairSpec == Spec /\ Fairness

-----------------------------------------------------------------------------
(***************************************************************************)
(* Properties.                                                             *)
(***************************************************************************)
SenderMains   == {"start", "run", "ok", "error", "killed"}
SenderPcs     == {"start", "opened", "sending", "closed", "failed"}
ReceiverMains == {"run", "ok", "error"}
ReceiverPcs   == {"start", "accept", "header", "name", "lock", "create",
                  "resize", "open", "part", "done", "failed"}

\* The threads and the connections between them.
ThreadTypeOK ==
    /\ smain \in [Senders -> SenderMains]
    /\ spc \in [Senders -> [Streams -> SenderPcs]]
    /\ wire \in [Senders -> [Streams -> Nat]]
    /\ queue \in [Streams -> Seq(Senders)]
    /\ rmain \in ReceiverMains
    /\ rpc \in [Streams -> ReceiverPcs]
    /\ linkUp \in BOOLEAN /\ diskOk \in BOOLEAN

\* What the receiving threads know and write.
OutputTypeOK ==
    /\ acc \in [Streams -> Senders \cup {NoSender}]
    /\ got \in [Streams -> Nat]
    /\ flushed \in [Streams -> Nat]
    /\ lock \in Streams \cup {NoStream}
    /\ initialized \in BOOLEAN
    /\ file_name \in Names \cup {NoName}
    /\ total_size \in 0 .. MaxBytes
    /\ out \in [Offsets -> Cells]

\* The variables have the types of the program's: counters stay natural
\* numbers, a mutex owner is a stream, a cell of the file holds a byte of
\* some sender's file or nothing of theirs.
TypeOK == ThreadTypeOK /\ OutputTypeOK

\* Every stream of the receiver was accepted from sender a.
AllFrom(a) == \A s \in 0 .. RecvParallel - 1 : acc[s] = a

\* a's input file, as the output file should be.
FileOf(a) == [o \in Offsets |-> IF o < Size[a] THEN Byte(a, o) ELSE Void]

\* End to end: when run_send and run_receive both report success, all the
\* streams came from that sender and the disk took what it was given, then
\* the output file is the sender's file, byte for byte and of its length,
\* whatever the order in which the threads ran and the units arrived, and
\* whatever else was connected.
EndToEnd ==
    \A a \in Senders :
        rmain = "ok" /\ smain[a] = "ok" /\ AllFrom(a) /\ diskOk => out = FileOf(a)

\* On the single-stream path run_receive needs no word from the sender: its
\* own success means that the file it was sent is complete, because the path
\* refuses parts and does not return before the announced size has come.
SingleMeansComplete ==
    RecvParallel = 1 /\ rmain = "ok" /\ diskOk => out = FileOf(acc[0])

\* No byte is ever in the wrong place: what is in the output file at offset o
\* is the byte at offset o of the file of a sender that some thread accepted,
\* even while several senders' parts are mixed and after failures.
NoMisplacedByte ==
    \A o \in Offsets :
        out[o].tag = "byte" =>
            /\ out[o].at = o
            /\ \E s \in Streams : acc[s] = out[o].src

\* run_receive reports success only if each stream ended between two parts
\* (a connection cut inside a header, a name or a payload is an error) and
\* all parts described one file, the one that was saved.
SuccessMeansWholeParts ==
    rmain = "ok" =>
        \A s \in 0 .. RecvParallel - 1 :
            \/ got[s] = 0 /\ RecvParallel > 1
            \/ /\ got[s] = StreamLen(acc[s], s)
               /\ RecvParallel > 1 => /\ file_name = Name[acc[s]]
                                      /\ total_size = Size[acc[s]]

\* A byte once in the file is never truncated away again: creating and
\* resizing the file, which the first thread does while it holds the mutex,
\* happens before any thread writes.
WrittenStays ==
    [][\A o \in Offsets : out[o].tag = "byte" => out'[o].tag = "byte"]_vars

\* A sender that runs comes to an end, however slow or full the receiver is:
\* a connection that is never accepted is reset when the listener goes.
SenderTerminates ==
    \A a \in Senders : smain[a] = "run" ~> smain[a] # "run"

\* Once every stream of the receiver has a connection (or has failed), the
\* receiver comes to an end too, unless the link goes down silently, after
\* which recv waits for ever.
ReceiverTerminates ==
    (\A s \in 0 .. RecvParallel - 1 : acc[s] # NoSender \/ rpc[s] = "failed")
        ~> (rmain # "run" \/ ~linkUp)

\* run_receive prints "Saved to" and returns 0 only for a complete file.
SavedMeansComplete ==
    rmain = "ok" /\ initialized /\ diskOk =>
        \A o \in 0 .. total_size - 1 : out[o].tag = "byte"

\* The transfer as TransferSpec sees it.
Abstract == INSTANCE TransferSpec WITH
    Used <- 0 .. RecvParallel - 1,
    file <- out,
    source <- acc,
    sent <- { a \in Senders : smain[a] = "ok" },
    verdict <- rmain,
    intact <- diskOk

\* The threads, connections and failures of run_send and run_receive
\* implement the transfer as TransferSpec promises it.
Implements == Abstract!Spec
=============================================================================
