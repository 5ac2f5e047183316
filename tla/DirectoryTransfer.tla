------------------------- MODULE DirectoryTransfer -------------------------
(***************************************************************************)
(* A directory sent with hyperlink_file.  With --parallel above 1 run_send *)
(* collects the paths, deals them out to streams and send_directory_items  *)
(* sends each with a header of its own; receive_file_part recreates them.  *)
(* With one stream run_send pipes the output of tar to the connection and  *)
(* run_receive pipes what arrives into another tar.  The two users choose  *)
(* their --parallel apart from each other, so each receiver may also meet  *)
(* the other kind of sender.                                               *)
(*                                                                         *)
(* A stream is a sequence of units: per item the magic, then the rest of   *)
(* the header with the name, then the payload unit by unit.  Which unit    *)
(* comes next is not a matter of position, as it is for a file: a symbolic *)
(* link is measured before the transfer and read again during it.          *)
(***************************************************************************)
EXTENDS DirectoryItems

CONSTANTS
    Paths,          \* the sender's tree in the order it is visited: 1 is the directory sent
    Parent,         \* Parent[i]: the directory that holds path i; 0 is --output-dir
    Kind,           \* Kind[i]: the TransferKind of path i, "Other" (a fifo, a device) or "Socket"
    Mode,           \* Mode[i]: permissions of a regular file, "rw" or "ro"
    Length,         \* Length[i]: bytes of a file or of a link's target when collected
    NewLengths,     \* lengths of the targets that links may be given meanwhile
    Setups,         \* what to explore: [send, recv, hidden, leads], the two --parallel,
                    \* the paths in directories that the sender may not read, and
                    \* where older links at the receiver lead to
    MaxStreams,     \* bound on both --parallel
    Window,         \* units in flight on a connection
    MaxInTheWay,    \* how many things may be in the way at the receiver
    MaxFaults       \* how many things may go wrong on their own

Streams == 0 .. MaxStreams - 1
Archive == 0        \* the item a tar pipe is
Items   == Paths \cup {Archive}
Kinds   == {"DirectoryEntry", "DirectoryFile", "DirectorySymlink", "Other", "Socket"}
Links   == { i \in Paths : Kind[i] = "DirectorySymlink" }
Files   == { i \in Paths : Kind[i] = "DirectoryFile" }

ASSUME TreeAssumption ==
    /\ IsFiniteSet(Paths) /\ Paths = 1 .. Cardinality(Paths)
    /\ \A i \in Paths : Parent[i] \in 0 .. i - 1
    /\ \A i \in Paths : Parent[i] # 0 => Kind[Parent[i]] = "DirectoryEntry"
    /\ \A i \in Paths : Kind[i] \in Kinds
    /\ \A i \in Files : Mode[i] \in {"rw", "ro"}
    /\ \A i \in Paths : Length[i] \in Nat
    /\ \A i \in Paths \ (Links \cup Files) : Length[i] = 0

\* The target of a link is not empty.
ASSUME LinkAssumption == (\A i \in Links : Length[i] > 0) /\ NewLengths \subseteq Nat \ {0}

\* leads[i] is i unless symbolic links that were at the receiver before, at
\* path i or above it, make it another name of a path of the same kind.  What
\* is at the end of a link that leads elsewhere counts as path i itself.
ASSUME SetupAssumption ==
    /\ MaxStreams \in Nat /\ Window \in Nat \ {0}
    /\ \A u \in Setups :
         /\ u.send \in 1 .. MaxStreams /\ u.recv \in 1 .. MaxStreams
         /\ u.hidden \subseteq Paths
         /\ u.leads \in [Paths -> Paths]
         /\ \A i \in Paths : Kind[u.leads[i]] = Kind[i] /\ u.leads[u.leads[i]] = u.leads[i]

VARIABLES
    setup,      \* the users' choice
    smain, spc, \* the sender's main thread, and its thread for each stream
    parts,      \* the items of each stream
    done, sent, \* done[s]: items of s behind the thread; sent[s]: units of the next one
    target,     \* target[s]: the link's target as the thread read it, by its length
    links,      \* links[i]: the length of link i's target now
    wire,       \* wire[s]: units in flight
    rmain, rpc, \* the receiver's main thread, and its thread for each stream
    cur, buf,   \* cur[s]: the item its last header announced; buf[s]: what of a header or payload has arrived
    tree,       \* what is at each path below --output-dir
    extractor,  \* the receiver's tar
    lost,       \* a file was closed with less than was written, or not given its mode
    faults      \* what went wrong so far

sendVars == <<smain, spc, parts, done, sent, target>>
recvVars == <<rmain, rpc, cur, buf, tree, extractor, lost>>
vars == <<setup, sendVars, links, wire, recvVars, faults>>

HeadUnits == 2
NoTarget  == 0

Unit(i, n, t) == [item |-> i, at |-> n, target |-> t]

(***************************************************************************)
(* The receiver's file system.                                             *)
(***************************************************************************)
Node(is, data, mode) == [is |-> is, data |-> data, mode |-> mode]
Absent  == Node("absent", <<>>, "rw")
Dir     == Node("dir", <<>>, "rw")
OldFile(mode) == Node("old", <<>>, mode)

\* What an earlier transfer or the user may have left at a path.
Leftovers(i) ==
    CASE Kind[i] = "DirectoryEntry"   -> {Absent, Dir, OldFile("rw")}
      [] Kind[i] = "DirectoryFile"    -> {Absent, Dir, OldFile("rw"), OldFile("ro")}
      [] Kind[i] = "DirectorySymlink" -> {Absent, Dir}
      [] OTHER                        -> {Absent}

\* What does not get in the way of path i.
Expected(i) == IF Kind[i] = "DirectoryEntry" THEN {Absent, Dir} ELSE {Absent}

OldTrees(leads) ==
    { t \in [Paths -> UNION { Leftovers(i) : i \in Paths }] :
        /\ \A i \in Paths : /\ t[i] \in Leftovers(i)
                            /\ leads[i] # i => t[i] = Absent
                            /\ Parent[i] # 0 /\ t[leads[Parent[i]]] # Dir => t[i] = Absent
        /\ Cardinality({ i \in Paths : t[i] \notin Expected(i) }) <= MaxInTheWay }

Above[i \in Paths] == IF Parent[i] = 0 THEN {} ELSE {Parent[i]} \cup Above[Parent[i]]

Single == setup.recv = 1

\* Where path i is: the threads of a parallel receiver follow older links, tar
\* puts what it extracts in their place.
Place(i) == IF Single THEN i ELSE setup.leads[i]

\* No older link leads from one path of the tree to another.
Straight == \A i \in Paths : Place(i) = i

\* create_directories: fails where something else is in the way, a link that
\* leads to no directory too.
CanMake(dirs) == \A i \in dirs : tree[Place(i)] = Dir \/ (Place(i) = i /\ tree[i] = Absent)
Made(dirs)    == [i \in Paths |-> IF i \in dirs /\ Place(i) = i THEN Dir ELSE tree[i]]

HasParent(i)  == Parent[i] # 0 => tree[Place(Parent[i])] = Dir

Payload(i, t, n) == [k \in 1 .. n |-> Unit(i, HeadUnits + k, t)]

\* Path i as it should arrive, a link with a target of t units.
Copy(i, t) ==
    CASE Kind[i] = "DirectoryEntry"   -> Dir
      [] Kind[i] = "DirectoryFile"    -> Node("file", Payload(i, NoTarget, Length[i]), Mode[i])
      [] Kind[i] = "DirectorySymlink" -> Node("link", Payload(i, t, t), "rw")
      [] OTHER                        -> Node("other", <<>>, "rw")
-----------------------------------------------------------------------------
Init ==
    /\ setup \in Setups
    /\ smain = "start" /\ spc = [s \in Streams |-> "start"]
    /\ parts = [s \in Streams |-> <<>>]
    /\ done = [s \in Streams |-> 0] /\ sent = [s \in Streams |-> 0]
    /\ target = [s \in Streams |-> NoTarget]
    /\ links = [i \in Links |-> Length[i]]
    /\ wire = [s \in Streams |-> <<>>]
    /\ rmain = "run" /\ rpc = [s \in Streams |-> "start"]
    /\ cur = [s \in Streams |-> Archive] /\ buf = [s \in Streams |-> <<>>]
    /\ tree \in OldTrees(setup.leads)
    /\ extractor = "fine"
    /\ lost = FALSE /\ faults = 0

\* Something goes wrong that need not.
Fault == faults < MaxFaults /\ faults' = faults + 1

-----------------------------------------------------------------------------
(***************************************************************************)
(* The sender.                                                             *)
(***************************************************************************)
\* Other kinds of files, and what is in a directory that may not be read, are
\* left out without a word.
collect_directory_items == { i \in Paths \ setup.hidden : Kind[i] \notin {"Other", "Socket"} }

Dealt(deal) == [s \in Streams |-> IF s < setup.send THEN deal[s + 1].items ELSE <<>>]

\* run_send: checks the path, collects and partitions, or goes for the pipe.
StartSend ==
    /\ smain = "start"
    /\ \/ /\ smain' = "run"
          /\ IF setup.send > 1
               THEN \E deal \in partition_directory_items(collect_directory_items, Kind, Length,
                                                          setup.send) : parts' = Dealt(deal)
               ELSE parts' = Dealt(<<DirectoryPartition(<<Archive>>, 0)>>)
       \/ smain' = "error" /\ UNCHANGED parts
    /\ UNCHANGED <<setup, spc, done, sent, target, links, wire, recvVars, faults>>

Running(s) == smain = "run" /\ s < setup.send

SenderGoes(s, pc) ==
    /\ spc' = [spc EXCEPT ![s] = pc]
    /\ UNCHANGED <<setup, smain, parts, links, recvVars, faults>>

SenderFails(s) ==
    /\ spc' = [spc EXCEPT ![s] = "failed"] /\ Fault
    /\ UNCHANGED <<setup, smain, parts, done, sent, target, links, wire, recvVars>>

Listening(s) == rmain = "run" /\ rpc[s] \notin {"start", "done", "failed"}

Connect(s) ==
    /\ Running(s) /\ spc[s] = "start"
    /\ SenderGoes(s, IF Listening(s) THEN "sending" ELSE "refused")
    /\ UNCHANGED <<done, sent, target, wire>>

Item(s) == parts[s][done[s] + 1]
Busy(s) == Running(s) /\ spc[s] = "sending" /\ done[s] < Len(parts[s])

\* The members of the archive: tar cannot read a hidden path either, and leaves
\* sockets out, which is no error to it.
Archived == { i \in Paths \ setup.hidden : Kind[i] # "Socket" }
Members  == InOrder(Archived)

\* Payload units the thread will send for its item: two for a member of the
\* archive, so that the archive may end inside one.
PayloadUnits(s) ==
    CASE Item(s) = Archive  -> 2 * Len(Members)
      [] Item(s) \in Links  -> target[s]
      [] OTHER              -> Length[Item(s)]

Unread(s) == Item(s) \in Links /\ target[s] = NoTarget

\* The header goes out, then the name, then the payload.
Send(s) ==
    /\ Busy(s) /\ Len(wire[s]) < Window
    /\ sent[s] >= HeadUnits => ~Unread(s) /\ sent[s] < HeadUnits + PayloadUnits(s)
    /\ wire' = [wire EXCEPT ![s] =
                  Append(@, Unit(Item(s), sent[s] + 1,
                                 IF sent[s] < HeadUnits THEN NoTarget ELSE target[s]))]
    /\ sent' = [sent EXCEPT ![s] = @ + 1]
    /\ SenderGoes(s, "sending")
    /\ UNCHANGED <<done, target>>

\* read_symlink, the second time: after the header that says how long it is.
ReadLink(s) ==
    /\ Busy(s) /\ sent[s] = HeadUnits /\ Unread(s)
    /\ target' = [target EXCEPT ![s] = links[Item(s)]]
    /\ SenderGoes(s, "sending")
    /\ UNCHANGED <<done, sent, wire>>

\* The input cannot be opened or read, or it ended too soon; tar ended with a
\* status or the pipe with an error.
ReadFail(s) ==
    /\ Busy(s) /\ sent[s] >= HeadUnits /\ Item(s) \in Files \cup Links \cup {Archive}
    /\ SenderFails(s)

\* The item is complete.  A tar that could not read something ends with a status.
EndItem(s) ==
    /\ Busy(s) /\ sent[s] >= HeadUnits /\ ~Unread(s) /\ sent[s] = HeadUnits + PayloadUnits(s)
    /\ done' = [done EXCEPT ![s] = @ + 1]
    /\ sent' = [sent EXCEPT ![s] = 0]
    /\ target' = [target EXCEPT ![s] = NoTarget]
    /\ SenderGoes(s, IF Item(s) = Archive /\ setup.hidden # {} THEN "failed" ELSE "sending")
    /\ UNCHANGED wire

\* send reports that the connection is gone: closed by the receiver, or cut.
SendFail(s) ==
    /\ Busy(s)
    /\ \/ ~Listening(s) /\ SenderGoes(s, "failed") /\ UNCHANGED <<done, sent, target, wire>>
       \/ Listening(s) /\ SenderFails(s)

CloseSend(s) ==
    /\ Running(s) /\ spc[s] = "sending" /\ done[s] = Len(parts[s])
    /\ SenderGoes(s, "closed")
    /\ UNCHANGED <<done, sent, target, wire>>

SenderEnded == {"closed", "failed", "refused"}

JoinSend ==
    /\ smain = "run"
    /\ \A s \in 0 .. setup.send - 1 : spc[s] \in SenderEnded
    /\ smain' = IF \A s \in 0 .. setup.send - 1 : spc[s] = "closed" THEN "ok" ELSE "error"
    /\ UNCHANGED <<setup, spc, parts, done, sent, target, links, wire, recvVars, faults>>

\* SIGPIPE, a signal from the user, a crash.
KillSender ==
    /\ smain = "run" /\ smain' = "killed" /\ Fault
    /\ UNCHANGED <<setup, spc, parts, done, sent, target, links, wire, recvVars>>

\* Somebody gives a link another target after it was measured.
ReplaceLink(i) ==
    /\ smain = "run" /\ links[i] = Length[i]
    /\ \E t \in NewLengths : links' = [links EXCEPT ![i] = t]
    /\ UNCHANGED <<setup, sendVars, wire, recvVars, faults>>

-----------------------------------------------------------------------------
(***************************************************************************)
(* The receiver's threads; with --parallel 1, thread 0 is run_receive.     *)
(***************************************************************************)
\* Thread s goes on to pc with units in its buffer.
ReceiverGoes(s, pc, units) ==
    /\ rpc' = [rpc EXCEPT ![s] = pc]
    /\ buf' = [buf EXCEPT ![s] = units]
    /\ UNCHANGED <<setup, sendVars, links, rmain, faults>>

ReceiverFails(s) ==
    /\ rpc' = [rpc EXCEPT ![s] = "failed"] /\ Fault
    /\ buf' = [buf EXCEPT ![s] = <<>>]
    /\ UNCHANGED <<setup, sendVars, links, rmain>>

Step(s, pc) == rmain = "run" /\ s < setup.recv /\ rpc[s] = pc

Listen(s) ==
    /\ Step(s, "start")
    /\ ReceiverGoes(s, "accept", <<>>) \/ ReceiverFails(s)
    /\ UNCHANGED <<wire, cur, tree, extractor, lost>>

Accept(s) ==
    /\ Step(s, "accept") /\ spc[s] \in {"sending", "closed", "failed"}
    /\ ReceiverGoes(s, "header", <<>>)
    /\ UNCHANGED <<wire, cur, tree, extractor, lost>>

\* receive_into has returned the next unit.
Receives(s) == wire[s] # <<>> /\ wire' = [wire EXCEPT ![s] = Tail(@)]
Arrived(s)  == Append(buf[s], Head(wire[s]))

\* The sender's end has closed and everything before that was read.
AtEof(s) == wire[s] = <<>> /\ (spc[s] \in SenderEnded \/ smain = "killed")

IsHeader(units) == units[1].at = 1      \* the magic

\* With one stream whatever is no file goes to the extractor, the items of a
\* parallel sender too; with several, an archive is refused.
AfterName(i) ==
    CASE Single                         -> "extract"
      [] ~Single /\ i = Archive         -> "failed"
      [] OTHER                          -> "make"

\* receive_header or receive_header_optional, the name included.
TakeHeader(s) ==
    /\ Step(s, "header") /\ Receives(s)
    /\ IF Len(Arrived(s)) < HeadUnits
         THEN ReceiverGoes(s, "header", Arrived(s)) /\ UNCHANGED cur
         ELSE IF IsHeader(Arrived(s))
           THEN LET i == Arrived(s)[2].item IN
                ReceiverGoes(s, AfterName(i), <<>>) /\ cur' = [cur EXCEPT ![s] = i]
           ELSE ReceiverGoes(s, "failed", <<>>) /\ UNCHANGED cur
    /\ UNCHANGED <<tree, extractor, lost>>

\* Mutant: the end of the connection inside a file's payload is taken for
\* the end of the stream.
Quiet_InData(s) == (rpc[s] = "data" \/ (rpc[s] = "header" /\ buf[s] = <<>>)) /\ ~Single

Quiet(s) == rpc[s] = "header" /\ buf[s] = <<>> /\ ~Single

\* The end of the connection.  Between two items it ends the loop of
\* receive_file_part quietly; anywhere else it is an error.
Eof(s) ==
    /\ \E pc \in {"header", "text", "data"} : Step(s, pc)
    /\ rpc[s] \in {"text", "data"} => Len(buf[s]) < Length[cur[s]]
    /\ AtEof(s)
    /\ ReceiverGoes(s, IF Quiet(s) THEN "done" ELSE "failed", <<>>)
    /\ UNCHANGED <<wire, cur, tree, extractor, lost>>

\* recv reports an error.
ReceiveError(s) ==
    /\ \E pc \in {"header", "text", "data", "extract"} : Step(s, pc)
    /\ ReceiverFails(s)
    /\ UNCHANGED <<wire, cur, tree, extractor, lost>>

\* The directories that item i needs: a file or a link may come before the
\* entries of the directories it is in, which are on another stream.  The
\* mode of a DirectoryEntry is not looked at.
Needed(i) == IF i \in Files \cup Links THEN Above[i] ELSE Above[i] \cup {i}

\* An old file is truncated and keeps its mode, which may not allow it.  A
\* link to a file that is not there needs at least its directory.
CanOpen(i) ==
    /\ tree[Place(i)] # Dir /\ tree[Place(i)].mode = "rw"
    /\ Place(i) # i => HasParent(Place(i))

CanPrepare(i) == CanMake(Needed(i)) /\ (i \in Files => CanOpen(i))

\* The directories for item i that create_directories gets to.
Reached(i) == { d \in Needed(i) : CanMake(Above[d] \cup {d}) }

\* create_directories, then the item: nothing more for a directory, the
\* target for a link, the output file opened and truncated for a file.  The
\* directories that were made stay when something fails.
Prepare(s) ==
    /\ Step(s, "make")
    /\ LET i == cur[s] IN
       \/ /\ CanPrepare(i)
          /\ tree' = [p \in Paths |-> IF p = Place(i) /\ i \in Files
                                        THEN Node("file", <<>>, "rw") ELSE Made(Needed(i))[p]]
          /\ ReceiverGoes(s, CASE i \in Files -> "data" [] i \in Links -> "text"
                               [] OTHER -> "header", <<>>)
       \/ /\ ~CanPrepare(i)
          /\ tree' = Made(Reached(i)) /\ ReceiverGoes(s, "failed", <<>>)
       \/ /\ \E n \in 0 .. i : tree' = Made({ d \in Reached(i) : d <= n })
          /\ ReceiverFails(s)
    /\ UNCHANGED <<wire, cur, extractor, lost>>

\* The output file's data with a unit written at position n: what another
\* thread has truncated meanwhile reads as zeros.
Hole == Unit(Archive, 0, NoTarget)

Written(data, n, u) ==
    [k \in 1 .. (IF n > Len(data) THEN n ELSE Len(data)) |->
        IF k = n THEN u ELSE IF k <= Len(data) THEN data[k] ELSE Hole]

TakeData(s) ==
    /\ Step(s, "data") /\ Len(buf[s]) < Length[cur[s]] /\ Receives(s)
    /\ \/ /\ tree' = [tree EXCEPT ![Place(cur[s])].data = Written(@, Len(buf[s]) + 1, Head(wire[s]))]
          /\ ReceiverGoes(s, "data", Arrived(s))
       \/ UNCHANGED tree /\ ReceiverFails(s)
    /\ UNCHANGED <<cur, extractor, lost>>

\* Mutant: the mode in the header is not used.
CloseFile_NoMode(s) ==
    /\ Step(s, "data") /\ Len(buf[s]) = Length[cur[s]]
    /\ ReceiverGoes(s, "header", <<>>)
    /\ UNCHANGED <<tree, wire, cur, extractor, lost>>

\* apply_permissions, and the destructor of the output stream: neither tells
\* when it fails.
CloseFile(s) ==
    /\ Step(s, "data") /\ Len(buf[s]) = Length[cur[s]]
    /\ tree' = [tree EXCEPT ![Place(cur[s])].mode = Mode[cur[s]]]
    /\ ReceiverGoes(s, "header", <<>>)
    /\ UNCHANGED <<wire, cur, extractor, lost>>

\* Thread s goes on to the next header; what it wrote is not all there.
GoesBadly(s) ==
    /\ rpc' = [rpc EXCEPT ![s] = "header"] /\ buf' = [buf EXCEPT ![s] = <<>>]
    /\ lost' = TRUE /\ Fault
    /\ UNCHANGED <<setup, sendVars, links, wire, rmain, cur, extractor>>

CloseFileBadly(s) ==
    /\ Step(s, "data") /\ Len(buf[s]) = Length[cur[s]]
    /\ \E n \in 0 .. Len(tree[Place(cur[s])].data) :
         tree' = [tree EXCEPT ![Place(cur[s])].data = SubSeq(@, 1, n)]
    /\ GoesBadly(s)

\* Mutant: one unit too many.
TakeText_OneMore(s) ==
    /\ Step(s, "text") /\ Len(buf[s]) <= Length[cur[s]] /\ Receives(s)
    /\ ReceiverGoes(s, "text", Arrived(s))
    /\ UNCHANGED <<cur, tree, extractor, lost>>

TakeText(s) ==
    /\ Step(s, "text") /\ Len(buf[s]) < Length[cur[s]] /\ Receives(s)
    /\ ReceiverGoes(s, "text", Arrived(s))
    /\ UNCHANGED <<cur, tree, extractor, lost>>

\* create_symlink_or_fallback: what is there is removed if it can be; a link,
\* or a text file beside its path when no link can be made there, or an error
\* when that fails too.
MakeLink(s) ==
    /\ Step(s, "text") /\ Len(buf[s]) = Length[cur[s]]
    /\ \/ /\ \E is \in {"link", "note"} : tree' = [tree EXCEPT ![Place(cur[s])] = Node(is, buf[s], "rw")]
          /\ ReceiverGoes(s, "header", <<>>)
       \/ /\ UNCHANGED tree \/ tree' = [tree EXCEPT ![Place(cur[s])] = Absent]
          /\ ReceiverGoes(s, "failed", <<>>)
    /\ UNCHANGED <<wire, cur, extractor, lost>>

\* Nobody looks whether the text file could be written.
MakeNoteBadly(s) ==
    /\ Step(s, "text") /\ Len(buf[s]) = Length[cur[s]]
    /\ \E n \in 0 .. Len(buf[s]) :
         tree' = [tree EXCEPT ![Place(cur[s])] = Node("note", SubSeq(buf[s], 1, n), "rw")]
    /\ GoesBadly(s)

-----------------------------------------------------------------------------
(***************************************************************************)
(* The single-stream receiver's tar, an external program.                  *)
(***************************************************************************)
Member(u) == Members[(u.at - HeadUnits) \div 2]

\* A member has come in whole.  Something in its way may stop tar, which goes
\* on with the next member and remembers.
ExtractMember(i) ==
    \/ /\ HasParent(i)
       /\ \E t \in IF i \in Links THEN {Length[i], links[i]} ELSE {NoTarget} :
            tree' = [tree EXCEPT ![i] = Copy(i, t)]
       /\ extractor' = IF extractor = "failed" THEN "failed" ELSE "fine"
    \/ /\ UNCHANGED tree
       /\ extractor' = "failed"

\* fwrite to the pipe.  What is no archive makes tar fail.
Extract(s) ==
    /\ Step(s, "extract") /\ Receives(s)
    /\ LET u == Head(wire[s]) IN
       IF u.item # Archive THEN extractor' = "failed" /\ UNCHANGED tree
       ELSE IF (u.at - HeadUnits) % 2 = 0 THEN ExtractMember(Member(u))
       ELSE /\ extractor' = IF extractor = "failed" THEN "failed" ELSE "inside"
            /\ UNCHANGED tree
    /\ ReceiverGoes(s, "extract", <<>>)
    /\ UNCHANGED <<cur, lost>>

\* tar is gone: fwrite fails, or SIGPIPE ends the receiver.
ExtractorGone(s) ==
    /\ Step(s, "extract") /\ extractor = "failed"
    /\ \/ ReceiverGoes(s, "failed", <<>>)
       \/ /\ rmain' = "killed"
          /\ UNCHANGED <<setup, sendVars, links, rpc, buf, faults>>
    /\ UNCHANGED <<wire, cur, tree, extractor, lost>>

\* Mutant: the status of the extractor is not looked at.
close_pipe_checked_Ignored == TRUE

\* An archive may end after any member: tar does not miss the rest.
close_pipe_checked == extractor = "fine"

CloseExtractor(s) ==
    /\ Step(s, "extract") /\ AtEof(s)
    /\ ReceiverGoes(s, IF close_pipe_checked THEN "done" ELSE "failed", <<>>)
    /\ UNCHANGED <<wire, cur, tree, extractor, lost>>

JoinReceive ==
    /\ rmain = "run"
    /\ \A s \in 0 .. setup.recv - 1 : rpc[s] \in {"done", "failed"}
    /\ rmain' = IF \A s \in 0 .. setup.recv - 1 : rpc[s] = "done" THEN "ok" ELSE "error"
    /\ UNCHANGED <<setup, sendVars, links, wire, rpc, cur, buf, tree, extractor, lost, faults>>
-----------------------------------------------------------------------------
SendThread(s) ==
    \/ Connect(s) \/ Send(s) \/ ReadLink(s) \/ ReadFail(s) \/ EndItem(s) \/ CloseSend(s)

ReceiveThread(s) ==
    \/ Listen(s) \/ Accept(s) \/ TakeHeader(s) \/ Eof(s) \/ Prepare(s)
    \/ TakeData(s) \/ CloseFile(s) \/ CloseFileBadly(s) \/ TakeText(s)
    \/ MakeLink(s) \/ MakeNoteBadly(s) \/ Extract(s) \/ ExtractorGone(s) \/ CloseExtractor(s)

Next ==
    \/ StartSend \/ JoinSend \/ KillSender \/ JoinReceive
    \/ \E s \in Streams : SendThread(s) \/ SendFail(s) \/ ReceiveThread(s) \/ ReceiveError(s)
    \/ \E i \in Links : ReplaceLink(i)

Spec == Init /\ [][Next]_vars

-----------------------------------------------------------------------------
SendPcs == {"start", "sending"} \cup SenderEnded
RecvPcs == {"start", "accept", "header", "make", "data", "text",
            "extract", "done", "failed"}
Targets == { Length[i] : i \in Links } \cup NewLengths

\* The variables have the types of the program's; no thread is ever past the
\* items of its stream, and no buffer takes more than it was made for.
TypeOK ==
    /\ smain \in {"start", "run", "ok", "error", "killed"}
    /\ rmain \in {"run", "ok", "error", "killed"}
    /\ spc \in [Streams -> SendPcs] /\ rpc \in [Streams -> RecvPcs]
    /\ target \in [Streams -> Targets \cup {NoTarget}]
    /\ cur \in [Streams -> Items]
    /\ extractor \in {"fine", "inside", "failed"}
    /\ \A s \in Streams :
         /\ done[s] \in 0 .. Len(parts[s])
         /\ Len(wire[s]) <= Window
         /\ Len(buf[s]) <= IF rpc[s] \in {"text", "data"} THEN Length[cur[s]] ELSE HeadUnits
    /\ \A i \in Files : \/ tree[i].data = <<>>
                        \/ \E j \in Files : Place(j) = i /\ Len(tree[i].data) <= Length[j]

\* What the sender's mode of transfer undertakes to bring over.
Promised(i) ==
    /\ Kind[i] # "Socket"
    /\ setup.send > 1 => Kind[i] # "Other" /\ i \notin setup.hidden

\* Path i is there: a directory, a file with all its bytes and its mode, a
\* link (or the note that stands for it) with a whole target it once had.
Whole(i) ==
    LET node == tree[Place(i)] IN
    IF i \in Links
      THEN \E t \in Targets : node \in {Copy(i, t), [Copy(i, t) EXCEPT !.is = "note"]}
      ELSE node = Copy(i, NoTarget)

\* A link became shorter by what another item takes on the wire.
LinkLostAnItem == \E i \in Links : links[i] + HeadUnits <= Length[i]

\* A transfer "transfers files across multiple sockets, recreates directories,
\* preserves regular file permissions, and recreates symlinks": when run_send
\* and run_receive both report success, whatever --parallel each was given,
\* every path that the sender's mode undertakes to send is at the receiver.
Recreated ==
    smain = "ok" /\ rmain = "ok" /\ ~lost => \A i \in Paths : Promised(i) => Whole(i)

\* No interleaving of the streams, no file or directory in the way and no link
\* replaced during the transfer leaves a path out of what two successes
\* promise.  Two things do, and Recreated does not hold with them: an older
\* link at the receiver, through which one path is written over another, and
\* a link that has become shorter by the length of the items after it, which
\* takes these in for its target.
WholeTree == Straight /\ ~LinkLostAnItem => Recreated

\* The receiver's success alone means less: items may be missing, but a file
\* that was begun is complete and has its mode, if no older link leads to it.
NoFileCut ==
    Straight /\ rmain = "ok" /\ ~lost =>
        \A i \in Files : tree[i].is = "file" => Whole(i)

\* A single-stream receiver that reports success has the paths the archive
\* begins with, each of them whole: what a failing tar left out is missing at
\* the end, never in the middle.
ArchivePrefix ==
    Single /\ rmain = "ok" /\ ~lost =>
        \A i \in Archived, j \in Archived :
            i < j /\ Whole(j) /\ Kind[j] # "DirectoryEntry" => Whole(i)

\* A complete file is not touched again: no two streams carry one path, and
\* without older links none gets to another's.
FinishedStays ==
    [][\A i \in Files : Straight /\ Whole(i) /\ ~lost' => Whole(i)']_vars
=============================================================================
