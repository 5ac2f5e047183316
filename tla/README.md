# Hyperlink: TLA+ models, checks and proofs

Hyperlink is a C++20 library and a set of command-line programs that move files
between two machines over TCP (USB4/Thunderbolt networking in the first place),
with automatic discovery of the receiver. This directory holds its formal
models: TLA+ modules translated from the source, TLC configurations that check
them on small instances, and TLAPS proofs for every instance. `PROJECT.json`
maps each definition to the lines it models and lists runs, mutants, findings,
hazards and theorems.

Run a check with `tlc -config FileTransferTwin.cfg MCFileTransfer`, a proof with
`tlapm FileTransferProofs.tla`.

## The system

| Component | State it keeps | Operations | Interacts with |
|---|---|---|---|
| `Session` (`src/session.cpp`) | a transport it owns, `connected_` | discover, connect, send, receive, close, both moves, destruction | one `Transport`; `negotiate` |
| TCP transport (`src/network_transport.cpp`) | a data and a listening socket | connect (client: connect; server: listen and accept one), send, receive, close | the kernel |
| Automatic configuration (`src/auto_config.cpp`) | none | validate, negotiate | called by `Session::connect` |
| Responder (`src/peer_discovery.cpp`) | `running_`, two sockets, two threads, probe clients with deadlines | start, stop, answer a datagram, serve probes | seekers (UDP), probers (TCP), `run_receive` |
| Discovery (`src/peer_discovery.cpp`) | replies, candidates, rates | discover, select_fastest, connect_fastest | responders; `run_send --auto` |
| File transfer (`examples/file_transfer.cpp`) | one thread per stream on each side, `ReceiveSharedState`, the output file | run_send, send_file_range, run_receive, receive_file_part, the single-stream path | sessions, the responder, discovery |
| Directory transfer (same file) | items and their partition over streams; a tar process at each end | collect, partition, send_directory_items, the directory kinds of receive_file_part, tar pipes | sessions, the file system, tar |
| USB transport (`src/usb_libusb_transport.cpp`) | a libusb context | creation, destruction; connect, send and receive throw | `Session`, libusb |
| Command line (`examples/cli.cpp`, the parsers of the other programs) | none | parse, build the helper's arguments, quote, start | the helpers, a shell |
| Benchmark, probe example | byte counts; none | - | sessions |

What is hard, and what makes each component correct:

- *File transfer.* Up to N sender threads and M receiver threads, any number of
  senders, no acknowledgement, no agreement on the number of streams; a stream
  may end anywhere. Correct means: what is reported as received is the file;
  no byte is at a wrong place; a thread's failure is not lost; both programs
  end.
- *Session and transport.* Long sequences of connects, failures, moves and
  closes. Correct means: every descriptor has exactly one owner and
  `connected_` agrees with the transport.
- *Responder.* start fails at any of its steps; stop races with clients; clients
  stall. Correct means: between calls nothing is half started, stop returns,
  and one client cannot hold up the others.
- *Discovery.* Datagrams are lost, repeated, reordered, malformed; peers accept
  a probe and say nothing. Correct means: the fastest of those heard is
  chosen, each is probed once, errors tell the truth, the call ends.
- *Directory transfer.* Directories, files and links of one tree go over different
  streams, links are measured before and read again during the transfer, older
  files are in the way, tar may leave things out. Correct means: when both sides
  report success the tree is there; no file is cut; nothing finished is touched.
- *Rendezvous.* The responder advertises before anybody listens, and a receiver may
  be restarted with other ports after it was found. Correct means: connections
  get to the threads they are meant for and the receiver is not left waiting.
- *Command line.* A request passes through two parsers, an argument list and a
  shell. Correct means: the helper does what the user asked the front end for.
- *Negotiation and layout.* Two ends compute results for themselves that have to
  fit; ports and ranges have edges at zero and at the largest value.

## Modules

| Module | Models |
|---|---|
| `ByteRanges` | `byte_range_for_stream` |
| `PortLayout` | the port checks, `endpoint_for_stream`, the responder's choice of a probe port |
| `AutoConfig` | `validate`, `negotiate` |
| `FileTransfer` | file transfers, composed with `ByteRanges` |
| `TransferSpec` | what a file transfer promises; `FileTransfer` implements it |
| `Ordering` | sorted containers: a finite set in order, the members of a sequence at some places |
| `DirectoryItems` | `partition_directory_items`, composed with `Ordering` |
| `DirectoryTransfer` | directory transfers, parallel and through tar, composed with `DirectoryItems` |
| `Session` | `Session` objects and the `TcpTransport` or `LibusbTransport` of each |
| `Responder` | `PeerDiscoveryResponder`, composed with `PortLayout` |
| `Discovery` | `PeerDiscovery` and the `--auto` part of `run_send`, composed with `PortLayout` and `Ordering` |
| `Rendezvous` | responder, discovery and transfer together, for `send --auto` against `receive` |
| `CommandLine` | the parsers of the front end, of `hyperlink_file` and `hyperlink_bench`, and the shell between them |
| `MCPure`, `MCFileTransfer`, `MCDirectoryTransfer`, `MCSession`, `MCResponder`, `MCDiscovery`, `MCRendezvous` | instances for TLC |
| `LayoutProofs` | lemmas and theorems about `ByteRanges`, `PortLayout`, `Ordering` and `DirectoryItems`, and about folds |
| `PureProofs`, `FileTransferProofs`, `DirectoryTransferProofs`, `SessionProofs`, `ResponderProofs`, `RendezvousProofs`, `DiscoveryProofs` | theorems about the module of that name |

Definitions whose name ends in `_Something` beside one without (`MutexFree` and
`MutexFree_Ignored`) are mutants: what the definition would be after a plausible
mistake in the code. With a mutant in place of its original TLC finds the
property violated that `PROJECT.json` pairs it with, so that each property is
known to depend on the code it is about.

### FileTransfer

The wire is counted in units. A stream is a header (`HeaderUnits`), the name and
the payload; what a unit holds follows from its position, so a stream's state is
how many units were handed to the kernel (`wire`) and how many the receiver has
read (`got`). TCP is reliable and ordered: units are not lost or reordered
within a connection, but between streams everything interleaves. `Window` units
fit in the socket buffers. A listener completes `Backlog` connections that were
not accepted yet (`listen(socket, 1)`), so a sender can write and even finish
before anybody accepts it.

A sender's main thread (`smain`) checks its file (`StartSend`), starts its
threads, joins them and takes the first error (`JoinSend`, `Verdict`). A thread
(`spc`) opens and seeks the input (`OpenInput`), connects (`Connect`,
`ConnectFail`), sends header, name and payload (`Send`), may find the connection
broken (`SendFail`) or the input shorter than measured (`ReadFail`), and closes
(`CloseSend`). `KillSender` is the end of the whole process; one reason for it
is in the code, `::send` without `MSG_NOSIGNAL`.

A receiver thread (`rpc`) listens, accepts, reads header and name (`Listen`,
`Accept`, `ReceiveHeader`, `ReceiveName`, and the ends of the connection in
each), goes through the critical section under `shared.mutex` (`Enter`,
`CreateOutput`, `ResizeOutput`), opens the output (`OpenOutput`), writes the part
(`ReceivePart`, `EofInPart`) and closes it (`ClosePart`), after which it looks
for another header. With `RecvParallel = 1` the same thread follows
`run_receive`'s single-stream path: no shared state, no parts, one file. The
output stream buffers: a unit received may be in the file or still in the
stream (`flushed`); its destructor (`CloseOutput`) writes the rest and drops
failures. A cell of `out` is a byte of some sender's file at some offset, a hole,
a byte of an older file, or nothing, so that "the file is right" can be said.

Abstracted: what the bytes are, the magic number and the number encoding (a
header is decoded to what was encoded, and the receiver's checks of its fields
are kept), progress output.

### TransferSpec

The transfer without threads, headers, buffers, mutex or queues: streams take
senders (`Take`), the file may be made anew before its first byte (`Make`),
streams deposit bytes of their own sender in place (`Deposit`), and reports are
constrained (`ReportSent`, `ReportReceived`): with all streams between one sender
and the receiver and a disk that did not fail, the second of two successes
needs the complete file, in whichever order they come. After the receiver's
report nothing can change the file.
`FileTransfer!Implements` states that the detailed specification implements this
one, with `out` for the file, `acc` for the sources, the senders whose `smain` is
"ok" for the reports, `rmain` for the verdict and `diskOk` for the disk.

### DirectoryTransfer

A stream is a sequence of units on `wire`, because position does not determine
what comes next: per item the magic, the rest of the header with the name, and
the payload. `StartSend` collects and deals out the items (or makes the tar pipe
the only item, `Archive`); a thread connects, sends, reads a link again
(`ReadLink`), fails or goes on to the next item (`EndItem`). `ReplaceLink` changes
a link's target during the transfer. The receiver takes headers (`TakeHeader`; what
is no header is refused), makes the directories
and opens the file (`Prepare`; the directories made stay when it fails), takes data or a
link's target, applies the mode (`CloseFile`) or makes the link or the note that stands
for it (`MakeLink`). What a destructor may lose without a word, of a file or of such a
note, is in `CloseFileBadly` and `MakeNoteBadly`, and `lost` remembers it. A
receiver with one stream feeds its tar instead (`Extract`, `CloseExtractor`). tar
is external: two units per member, extraction member by member, a status that is
bad when a member could not be read or made or when the archive ended inside
one; sockets are not in an archive, which is no error to tar. Names are
the numbers of the paths; how names are checked is left out.

`tree` is the receiver's file system with what was there before: files and directories
in the way, and older symbolic links. The threads of a parallel receiver follow a link
(`Place`), at a file's path by opening it and at a directory's by `create_directories`,
while tar replaces it. `setup.leads` says which path of the tree each path comes to by
such links; then several threads may have one file open, and a thread that writes behind
a truncation leaves a hole (`Written`). A link that leads out of the tree counts as the
path itself. Left out: an older link that leads to a path of another kind, or to the
path of a link.

### Rendezvous

What goes over a connection is left out, since `FileTransfer` and `Responder` have
it; what remains is who listens where, who connects to which number, and when. A
connection to a port goes to whatever is behind the port *now*: a thread's
listener, the probe, or nothing. An advertisement carries the number of the start
it belongs to, so that "fresh" can be said.

### CommandLine

A command line is a sequence of words; the five parsers are one loop (`Turn`,
`Complete`) with different tables (`ReceiveWord`, `SendWord`, `TestWord`, `FileWord`,
`BenchWord`, over the sets `...Options` and the field each option is for, `Field`).
`main` gives the helper and its arguments; `parse_args` and `bench_parse_args` are what
the helpers make of them, numbers in the width of `std::stoul` and of the narrowing
casts. What number a word is and whether it begins with a dash are the constants
`Number` and `Dashed`; the defaults of the options are constants too.
`NumberAssumption` and `DefaultsAssumption` say what the code's literals satisfy:
numbers are natural, the default ports are valid ports and the default time is a
number. `shell_quote` and `run_command` work on characters and are checked against
`ShellWords`, a POSIX shell's splitting of such a line.

### Session

Slots are variables that may hold a `Session`. `Make` is the factory and the
constructor; `Listen`, `Accept` and `AcceptFail` split the server's connect where
it blocks; `Reset` is `close` of a transport and its destruction. File
descriptors come lowest first and are reused, all servers want one port. A `Usb`
transport has a libusb context instead (`contexts`), its construction may fail,
and its connect always does. Calling
connect or discover on a session that was moved from is undefined and excluded;
send and receive on it are not, because the class promises to refuse them.

### Responder

`owner` follows the caller of start and stop step by step, `dthread` and
`pthread` the two threads from one look at `running_` to the next; each select
(100 ms at most), accept, expiry and send round is one action. Environment:
`Ask`, `Probe`, `Read`, `Leave`, `Tick`. Advertisement text and the size limit on
it are abstracted to one more way for start to refuse.

### Discovery

One call from enumeration of the targets to its result. `Arrive` puts any member
of `Datagrams` on any socket, which covers loss, repetition, reordering,
malformed and oversized replies and a receiver that restarted with other
settings. A probe is connecting or reading; it ends by `ProbeWhole`, `ProbeEof`,
`ProbeError` or `ProbeTimeout`, and a success measures any of `Rates`.
The host's own addresses are numbers in the order of their texts (the targets are a
vector that is sorted by text and made unique, `peer_discovery.cpp:179`), the peers' in
the order of `parse_ipv4`.

## Runs

| Run | Shows | Bounds |
|---|---|---|
| `twin_senders` | `EndToEnd`, `NoMisplacedByte`, `SuccessMeansWholeParts`, `WrittenStays`, `Implements` with two senders of one name and size mixed on a receiver | 3 bytes over 2 streams (unequal parts) against 1, a header of 2 units (an end in its middle), a 4th offset past the file, an old file in place or not; disk failure and sender death at any moment |
| `single_stream` | `SingleMeansComplete`: success alone means a complete file; `Implements` on this path | a file, a file in parts, a name too long |
| `transfer_ends` | `SenderTerminates`, `ReceiverTerminates` | two senders, one byte, a link that may go |
| `pure` | `RangesPartition`, `ProbePortIsFree`, `EndsAgree`, `HelpersObey`, `ShellSeesWords`, `ItemsSpread` | files of 0..9 bytes, 1..8 streams, ports 1..7: fewer bytes than streams, ranges up to the last port and over all ports; packet sizes on both sides of both limits; command lines of up to 3 options, with numbers at zero, at the last port and at the limits of a word, and values that look like options; 4 directory items; shell words of up to 3 characters |
| `session` | `SocketsOwned`, `ConnectedMeansSocket` | 3 sessions, 3 transports (TCP or USB), 5 descriptors |
| `responder` | `RunningTellsTruth`, `SpawnsOnlyFreshThreads`, `ProbesBounded`; `StopReturns`, `RequestAnswered`, `StalledClientBlocksNobody`, `StalledClientIsReleased` | 4 configurations (invalid ones, clashes with the probe port), 2 clients for 1 place, a window of 1 tick |
| `discovery` | `SelectedIsFastest`, `ErrorsTellApart`, `ProbedOnce`, `StreamsFollowPort`, `CallReturns` | 2 targets, 3 datagrams out of 6 kinds, 2 rates |
| `directory` | `WholeTree`, `NoFileCut`, `ArchivePrefix`, `FinishedStays`; the types also with an older link between two files | a tree of 7 paths (two directories, a file, a read-only empty file, a link, a fifo, a socket), parallel or archive at either end, one thing in the way, one fault, links that shrink or grow, 1 unit in flight; 1.8 million states |
| `rendezvous` | `FreshConnectionsArrive`, `AutoSendLetsReceiverReturn` | 2 senders, 2 starts of the receiver with 4 settings on 4 ports: streams away from, beside and on the default probe port, and on all ports; a link that may go; 500 thousand states |
| `cut_stream` (violation) | a receiver reports a file with a hole as saved | one sender, 3 bytes over 2 streams |
| `directory_links` (violation) | a file written over another through an older link, and two successes | the tree of `directory`, an older link from one file's path to another file or from a directory's to another directory, no fault |
| `bench_ports` (violation) | `hyperlink_bench` accepts ports that it says it refuses | as `pure` |

Two streams are enough for every pair of threads to interleave, and two senders
for every mix; the theorems below remove the bounds for all safety properties.
In `directory` the link of three units is followed on its stream by an item of two,
so that a target that shrinks by exactly an item can happen. `MaxFaults` and `MaxInTheWay` bound how many independent mishaps one
behaviour has; `MaxStarts`, `MaxArrivals` and `ProbeWindow` bound counters that the
code bounds by time. Clients and slots are interchangeable and declared
symmetric in `session`; no liveness run uses symmetry. Deadlock is checked for
`pure` and `responder`, where something can always happen; a transfer, a
discovery call and a crashed process do end.

**Fairness.** Weak fairness of each thread's next step (the operating system
schedules threads), of joining, of the passing of time and of the deadlines of
`select`. Not assumed: that anybody starts or stops a program, connects, asks,
reads or closes; that a silent loss of the link is ever reported by `recv` (the
code sets no keepalive); that accept fails. Consequently `ReceiverTerminates`
starts from the moment when every stream has its connection: a receiver whose
`--parallel` is larger than the sender's waits in accept for ever, and that is
what the code does. `StalledClientIsReleased` has a premise for the same reason:
endless new connections keep the accept loop from reaching the expiry.
In `Rendezvous` the receiver's threads are fair, and those threads of a sender whose
connection a receiver's thread reads while the link is up: `recv` has no timeout, so that
a receiver gets on only if the sender it serves does, its own or one that came before it.
A sender whose connection waits in a queue need not go on, nobody has to start sending,
and once the link is lost nothing is promised.

## What the violations show

- `SavedMeansComplete`: `receive_header_optional` returns "no more headers" when
  a connection ends before its first byte, also on a stream that never carried
  a part (`file_transfer.cpp:793`, `:890`). If a sender dies after connecting and
  before a header, the receiver prints "Saved to" and returns 0 for a file with
  a hole. Received bytes are never compared with `total_size`.
- `Recreated`: `receive_directory_file` opens its output with
  `std::ofstream` and `trunc` (`file_transfer.cpp:842`), which follows a symbolic link
  that was there before, as an earlier transfer may have left it. If it leads to another
  file of the tree, both files are written to one place and one is lost, without an
  error at either side. Only link items remove what is at their path (`:240`).
- `BenchPortsFit`: `bench` adds port and streams in 32 bits (`bench.cpp:90`); a sum that
  wraps (`--parallel -1` makes one) passes the check.

`WholeTree` says what remains true of a directory transfer: `Recreated` holds
whenever no older link leads from one path of the tree to another (`Straight`) and no
link lost an item (`LinkLostAnItem`). `HelpersObey` is likewise about numbers and sums
that fit in a word.

Seen while modelling, without a run of their own:

- The output stream is tested after `write`, not after the flush in its destructor
  (`file_transfer.cpp:968`): with a disk that fails last, success is reported for an
  incomplete file. `EndToEnd` and its like have the premise `diskOk` for that reason.
- The defaulted move constructor of a session leaves `connected_` true in the source
  (`session.cpp:16`), so that a send on it calls through null (the outcome `crash` in
  `Session`); move assignment resets the flag.
- A link that becomes shorter between its measurement and its sending
  (`file_transfer.cpp:549`) by exactly the length of the items after it on the stream
  takes their units for its target; they are missing, and both sides report success
  (`LinkLostAnItem`). Any other change of length is noticed, as the next header is out
  of step.
- Without a socket for any target the loop of receives is not entered
  (`peer_discovery.cpp:221`) and the call ends with "no Hyperlink peer discovered", where
  the design (line 74) asks for an error of its own.
- `--parallel` is narrowed to 32 bits before it is checked (`file_transfer.cpp:108`):
  2^32 + 1 streams are taken for one.

Also: a sender killed behind the measured length of a link that grew leaves a
cut link and a receiver that reports success; unreadable directories and special files are left out of a
parallel transfer silently (`file_transfer.cpp:425`), while tar reports the
former; a read-only file left by one transfer makes a repetition fail
(`file_transfer.cpp:842`); an archive cut after a member is complete to tar; with
an advertisement from before a restart a sender's probe may be accepted by a
stream's thread, which then ends without an error; `hyperlink send` without a
host drops `--port` and `--parallel`; on Windows `_spawnv` quotes nothing; a probe connection above the limit is closed without
a byte (`peer_discovery.cpp:569`, design line 54) and the prober takes the
receiver for dead; `connect_fastest` returns a transport that is not connected
(design line 36); with both modes `Auto` both ends of a session become
the host; tar leaves sockets out of an archive without a status.

## Proofs

Each theorem holds for every value of the constants that satisfies the
assumptions of its module: any number of senders, sessions, clients, peers,
streams, ports and bytes, any bounds on what is in flight or may go wrong.

`LayoutProofs` has what the others share. `RangesCover` and `RangesDisjoint`: the
ranges of a file's streams are all of it and share nothing. `ProbePortClear`: the
chosen probe port is valid and no stream's. Lemmas on `Ordering`: the n-th member
of `Ordered(S, ...)` exists, the result lists each member of S once and in order
(`Ranked`, `NumbersInOrder`, `Picked`). These are facts about all finite sets that
one would show by induction; the proofs take a smallest counterexample instead
(`SmallestSubset`, `LeastNat`), which needs well-foundedness and no operator
parameter. `PartitionSpread`: each result of `partition_directory_items` holds each
item in one place of one stream, whatever the order of equal sizes.

Loops over a sequence are folds in the models, and a fold of the library is a
`CHOOSE` of a function on the subsets of the indices. `FoldRuns` shows that such a
function exists and `FoldStates` that along the sets 1..n it goes through the states
of the loop, each by one turn from the one before (`Recurs`, `Steps`, `UpTo`). What a
loop does for every input is then an argument about these states, with `UpTo` in the
place of induction. The step of the loop is a function there, not an operator, so
that each loop has a lemma that connects the two (`ReceiveLoop`, `FileLoop`,
`ShellLoop`, ...).

### PureProofs

- `RangesAlways`: `Spec => []RangesPartition`
- `ProbePortAlways`: `Spec => []ProbePortIsFree`
- `EndsAlwaysAgree`: `Spec => []EndsAgree`
- `ItemsAlwaysSpread`: `Spec => []ItemsSpread`
- `HelpersAlwaysObey`: `Spec => []HelpersObey`
- `ShellAlwaysSeesWords`: `Spec => []ShellSeesWords`

The states of `MCPure` are arguments of pure functions, and its bounds are constants,
so these are statements about arguments of any size, port numbers, packet limits,
numbers of options and items, and lengths of words. `Arguments` (the arguments have
the types that the functions take) is the only invariant that they need.

*Listings.* That no stream is ahead of another by more than its last item is an
invariant of the dealing loop (`Balanced`): the next item goes to a smallest stream,
which without that item still is one. The bytes counted during the loop are the sum
over the items (`Sums`, `LoadStates`).

*Command lines.* `Vocabulary(V)` says that V has what the programs write themselves; V
is otherwise any set of words, and `FileObeyed` and `BenchObeyed` are about every command
line in `Seq(V)`. The front end's three parsers end with options of the right fields
(`ReceiveParses`, `SendParses`, `TestParses`). What they pass on to `hyperlink_file`
has the places that `ReceiveLayout` and `SendLayout` name. On the helper's side `FileReads` and
`BenchReads` are the invariants of the loop: of the fields F that came so far all are
as the front end had them or a number was wrong, the others are as before. An option
with its value adds its field (`FileNextPair`), a switch sets one
(`FileNextWord`), and the value is taken as it is even when it looks like an option,
which is the reason that the helper cannot misread what the front end understood.
`FileEnds` and `BenchEnds` are the checks after the loop. Numbers above a word and, for
`bench`, sums above a word are outside of the statement: what happens to them is
said under "What the violations show".

*The shell.* `Takes(p, s, q)`: reading the characters s in state p ends in state q. It
composes (`TakesBoth`), so that it can be followed through one character, which
`shell_quote` leaves as it is or writes as quote, backslash, quote, quote (`QuotedReads`),
a word (`WordReads`) and the line (`LineReads`). `QuotedWords` then says for any executable and
any list of arguments over any characters that the shell sees just these words.

### FileTransferProofs

- `TypeCorrect`: `Spec => []TypeOK`
- `Delivery`: `Spec => []EndToEnd`
- `SingleDelivery`: `Spec => []SingleMeansComplete`
- `Placement`: `Spec => []NoMisplacedByte`
- `WholeParts`: `Spec => []SuccessMeansWholeParts`
- `Persistence`: `Spec => WrittenStays`
- `Refinement`: `Spec => Implements`

The assumptions are those of `FileTransfer` (`SenderAssumption`,
`BoundAssumption`, `FailureAssumption`): sizes are natural numbers, there is at
least one stream, one header unit, one unit of window and one place of backlog.

None of these is inductive. The invariant `IInv` adds to `TypeOK`:

- `ConnInv`: a receiver thread past its accept has a sender and one before it has
  none; a connection, queued or accepted, is on a stream within both sides' counts;
- `SendInv`: no thread sends more than its stream; it sends or closes only on a port
  the receiver has; one that closed has put its whole stream on the wire, and a
  main thread that says ok has only such threads;
- `PositionInv`: where a receiver thread is determines how much it has read:
  in a header or between parts, in the name, or in the payload, and never more
  than was sent; what is flushed is at most what was received; a thread that
  ended well read nothing or a whole stream;
- `LockInv`: the creating thread, and it alone, holds the mutex; no thread is
  past the critical section before creation is over; all that are past it agree
  with the shared name and size;
- `ContentInv`: bytes are in place and come from accepted senders (`PlacedAt`), and
  at every offset that a thread has flushed there is a byte of some sender, never a
  hole or a zero of the resize (`KeptAt`). This is where the mutex matters;
- `LengthInv`: nothing lies beyond the announced size once creation is over and as
  long as no thread failed, nor, on the single path, beyond the sender's size;
- `MainInv`: a receiver that says ok has only threads that ended well.

`Delivery` then follows: success of both sides with all streams accepted from
one sender means, by `MainInv` and `SendInv`, that each thread ended well on a
stream that was completely sent, by `PositionInv` that all of it was received and
flushed, by `ContentInv` that each part is in the file, and by `RangesCover` and
`LengthInv` that the parts are all of it. `IInv` was checked with TLC on
an instance with one sender and all failures enabled, and on that of
`single_stream`, before it was proved.

`Refinement` goes through the actions. A step of a sender changes no file and
at most reports; `Accept` is `Take`; `CreateOutput` and the resize that follows it
are `Make`, for which two more invariants are needed: the file between the two is
still the empty one (`FreshInv`), and a receiver that has reported has no thread
left that could write (`JoinedInv`); a flush is a `Deposit` of the bytes between two
values of `flushed`. The two reports are where `Delivery` and `SingleDelivery` enter,
with the reporting step itself as the second of two successes.

### SessionProofs

`TypeCorrect`, `DescriptorsOwned` (`SocketsOwned`) and `ConnectedTellsTruth`
(`ConnectedMeansSocket`), from `SessionAssumption` (the null pointer is no transport,
there is a descriptor). The inductive invariant adds `HandleInv` (a descriptor is open
exactly while one socket field of one transport names it, and no data socket holds the
port), `OwnerInv` (a transport has one owner, which is alive; one without an owner
has no sockets) and `ContextInv` (the same for libusb contexts). Without `OwnerInv` a
move or a destruction could reset a transport that another session still uses.

### ResponderProofs

`TypeCorrect`, `RunningTruth`, `FreshThreads` and `BoundedProbes`, from
`ResponderAssumption` and `ConfigsAssumption` (configurations are 16- and 32-bit
numbers). `ThreadInv` says at each step of start and stop which threads live and
which sockets belong to them, which is what makes `RunningTellsTruth` true again
after a failure at any step; `QueueInv` that the accept queue holds each client
once, and no one when the socket is closed; `ActiveInv` that only a live probe thread
has clients and no more than its limit.

### RendezvousProofs

`FreshArrive` (`FreshConnectionsArrive`), from `SettingsAssumption` and
`ProbePortAssumption` (the default probe port is a port). `AdInv`: an advertisement
is of an earlier start or says what the receiver would say now. `EarlyAt`: a sender
without an advertisement has no connection, so that none becomes fresh later.
`PlaceAt` and `OpenAt`: fresh connections wait at, or were accepted by, the thread
they are meant for, until that thread has ended. That a stream's port is not the
probe port is `ProbePortClear`; that different streams have different ports rests on
the port checks.

### DiscoveryProofs

`TypeCorrect`, `ErrorsTrue` (`ErrorsTellApart`), `EachProbedOnce` (`ProbedOnce`),
`FastestSelected` (`SelectedIsFastest`) and `StreamsInRange` (`StreamsFollowPort`), from
`DiscoveryAssumption` and `AddressAssumption` (interfaces and their addresses are
finite sets of numbers). `PhaseInv` ties the phases of the call to its state,
`ProbeInv` says that the candidates up to the current one are settled, each of them
exactly one of failed and measured, and `ResultInv` what each result implies.
`Answers(candidates)` is the link to the replies: candidates are replies that were
heard, no two of one endpoint, and every endpoint heard has one. It holds by
`Deduplicated`, a lemma about `deduplicate_candidates` for every sequence of replies.

### DirectoryTransferProofs

- `TypeCorrect`: `Spec => []TypeOK`
- `WholeTreeArrives`: `Spec => []WholeTree`
- `NoCutFile`: `Spec => []NoFileCut`
- `ArchivePrefixArrives`: `Spec => []ArchivePrefix`
- `FinishedFilesStay`: `Spec => FinishedStays`

The assumptions are those of `DirectoryTransfer`: the tree is finite, paths are
numbered so that directories come before what is in them, the target of a link is
not empty, both `--parallel` are at least 1 and within the bound on streams, older
links lead to paths of the same kind.

`TypeCorrect` holds with any older links, by an invariant of its own (`RoomInv`): a
thread has no more in its buffer than its item is long (`RoomFor`), and a file is no
longer than one of the items that are written to it (`Roomy`), which is enough although
several threads may write to it in turns. The other theorems are about receivers where
no older link leads from one path of the tree to another: `Invariance` is
`Spec => [](Straight => IInv)`, and `Straight` never changes. tar does not follow links, so that
`ArchivePrefix` needs no such premise.

What is on the wire does not say what was sent before it, and a link may be read
with another length than its header announced, so no statement about the variables
alone is inductive. `IInv` therefore says that each stream has a *log*: there are a
sequence of entries and a number c such that

- `Recorded`: the log is what the sender thread has sent. An entry is a unit and the
  place of its item in the stream; it fits its item (`Fits`), entry follows entry as
  `send_directory_items` sends them (`Follows`), and the last one is where the thread
  is now (`Newest`);
- `InFlight`: after the first c entries the rest is on the wire;
- `Reading`: the c entries put the receiver's thread where it is. The item it makes is
  the one of the last entry, the file it writes has exactly the payload units read, a
  thread that ended has met the end of the connection. For the target of a link
  (`TextRead`) there are three cases: it is still within the units of that link; or it
  went past them by one, the magic of the next item, after which the next header
  cannot be one; or the link lost the length of an item (`LinkLostAnItem`);
- `ClearFrom`: items after the ones begun are untouched; `Progress`: the items before
  the current one are whole; with one stream at each end, `Extracted`: the members of
  the archive that came in are whole unless tar failed, the others are untouched.

Besides these, `PartsInv` (from `PartitionSpread`: no path is carried twice, and all that
were collected are carried), `LinkInv` (a thread sends a target that its link had),
`SendAt` (which threads can be where on a stream), `FileInv` (a file that was begun is
whole, or a thread is at work on it, or a thread failed) and `MainInv`.

Each lemma `...Steps` takes one action. A step on one stream leaves the others' part of
`IInv` alone because by `PartsInv` their items are other paths, and the only thing it
may do at another path is to make a missing directory (`Gentle`). `WholeTree` then
follows from the end: both successes mean that every stream was closed by its sender
and read to its end, so that c is the length of the log, whose last entry ends the
last item; `Progress` gives all items of the stream and `PartsInv` all of the tree. A
parallel receiver of an archive, or a single-stream receiver of a parallel sender,
cannot get there.

The first attempt at this proof showed that a condition of `Prepare` was wrong in
the model: as written, an item could be prepared although something else was in
the way of one of its directories. `CanPrepare` is the corrected condition.

`IInv` of each of these modules was first checked with TLC on the run of its
component, that of `DirectoryTransfer` with the logs as history variables.

### Only model-checked

Every invariant and every action property of a passing run is a theorem. The
liveness properties are checked by TLC alone: `SenderTerminates`,
`ReceiverTerminates`, `StopReturns`, `RequestAnswered`, `StalledClientBlocksNobody`,
`StalledClientIsReleased`, `CallReturns` and `AutoSendLetsReceiverReturn`. Fairness and
`ENABLED` are out of the prover's reach.

## Not modelled

The search for the helper programs and the start of processes, the loops of the
benchmark (its option parsing is modelled), the probe example, enumeration of
USB devices, file names (`safe_file_name`, `safe_relative_path`) and path
manipulation, formatting and progress output, address resolution and socket
options, Windows-specific variants of the same control flow, packaging and
scripts. `set_nonblocking` failing on an accepted probe would end the program
(`peer_discovery.cpp:570`); it is left out because that call does not fail on a
fresh descriptor.

## Plan

The modules that were planned are there, and every safety property that a run
checks is proved. What is left is a model of the benchmark's loops (byte counts
against a deadline).
