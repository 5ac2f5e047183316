------------------------------- MODULE MCPure -------------------------------
(***************************************************************************)
(* The pure functions of ByteRanges, PortLayout, AutoConfig, CommandLine   *)
(* and DirectoryItems, checked against what they should return for every   *)
(* choice of their arguments up to the bounds.  The states are the         *)
(* choices; a step goes from one to another.  Choices that have nothing to *)
(* do with each other are not varied together.                             *)
(***************************************************************************)
EXTENDS ByteRanges, AutoConfig, CommandLine, DirectoryItems

CONSTANTS
    MaxTotal, MaxParallel,
    MaxPhrases,     \* options of a command line
    MaxItems,       \* items of a directory
    MaxChars        \* characters of a word for the shell

ASSUME SizesAssumption == MaxTotal \in Nat /\ MaxParallel \in Nat

VARIABLES
    total, parallel, port, probe,   \* a transfer
    here, there,                    \* the options of the two ends of a session
    argv, phrases,                  \* a command line, and its number of phrases
    words,                          \* two words for the shell
    listing                         \* the items of a directory

layout  == <<total, port, probe>>
options == <<here, there>>
command == <<argv, phrases>>
vars    == <<layout, parallel, options, command, words, listing>>

\* Packet sizes around both limits; timeouts around zero.
Options ==
    [mode : Modes, profile : Profiles,
     preferred_packet_bytes : MinPacketBytes - 1 .. MaxPacketBytes + 1,
     discovery_timeout : {0, 1}, require_encryption : BOOLEAN]

Default == [mode |-> "Auto", profile |-> "Balanced", preferred_packet_bytes |-> MinPacketBytes,
            discovery_timeout |-> 1, require_encryption |-> TRUE]

\* Numbers at and around their limits, two of them above what fits in a word.
Numbers ==
    "0" :> 0 @@ "2" :> 2 @@ "3" :> 3 @@ "7" :> MaxPort @@ "9" :> MaxPort + 2
    @@ "17" :> WordSize + 1 @@ "-1" :> WordSize * WordSize - 1

\* What a user types after the command: options with and without their
\* values, good, bad and made to look like options, and other words.
Values ==
    "--port" :> {"0", "2", "7", "9", "f"} @@ "--parallel" :> {"0", "2", "9", "17", "-1", "f"}
    @@ "--discovery-port" :> {"2", "-1"} @@ "--seconds" :> {"0", "2"} @@ "--chunk-bytes" :> {"0", "2"}
    @@ "--socket-buffer-bytes" :> {"2", "f"} @@ "--out" :> {"f"} @@ "--host" :> {"h", ""}
    @@ "--name" :> {"f", "--send"}

Lone == {"f", "", "--no-advertise", "--auto", "--help", "--port"}

WithValue == UNION { {o} \X Values[o] : o \in DOMAIN Values }
Alone     == { <<w>> : w \in Lone }
Phrases   == WithValue \cup Alone

DashedWords == ((DOMAIN Values \cup Lone) \ {"f", ""}) \cup {"-1", "--send"}

Commands ==
    { <<"receive">>, <<"send">>, <<"send", "f">>, <<"test">>, <<"test", "receive">>,
      <<"test", "send", "h">>, <<"bench">>, <<"help">>, <<"other">> }

Items ==
    { [kind |-> "DirectoryEntry", size |-> 0] }
    \cup [kind : {"DirectoryFile", "DirectorySymlink"}, size : {0, 1, 3}]

Chars == {Quote, Backslash, Space, "c"}

FirstLayout  == <<0, 1, 1>>
FirstOptions == <<Default, Default>>
FirstCommand == <<<<>>, 0>>
FirstWords   == <<<<>>, <<>>>>

Init ==
    /\ total = 0 /\ parallel = 1 /\ port = 1 /\ probe = 1
    /\ here = Default /\ there = Default
    /\ argv = <<>> /\ phrases = 0
    /\ words = FirstWords
    /\ listing = <<>>

\* Another file size, other ports, another number of streams.
ChooseFile    == total' \in 0 .. MaxTotal /\ UNCHANGED <<parallel, port, probe>>
ChooseStreams == parallel' \in 1 .. MaxParallel /\ UNCHANGED layout
ChoosePorts   == port' \in 1 .. MaxPort /\ probe' \in 1 .. MaxPort /\ UNCHANGED <<total, parallel>>

\* Other options at one end of a session.
ChooseHere  == here' \in Options /\ UNCHANGED there
ChooseThere == there' \in Options /\ UNCHANGED here

\* A new command, then a phrase more.
TypeCommand == argv' \in Commands /\ phrases' = 0

TypePhrase ==
    /\ argv # <<>> /\ phrases < MaxPhrases
    /\ \E q \in Phrases : argv' = argv \o q
    /\ phrases' = phrases + 1

\* A character more in one of two words, or both anew.
TypeChar ==
    \/ words' = FirstWords
    \/ \E i \in 1 .. 2, c \in Chars :
         Len(words[i]) < MaxChars /\ words' = [words EXCEPT ![i] = Append(@, c)]

\* An item more, or another directory.
ListItem ==
    \/ listing' = <<>>
    \/ Len(listing) < MaxItems /\ \E i \in Items : listing' = Append(listing, i)

Next ==
    \/ /\ options = FirstOptions /\ command = FirstCommand /\ words = FirstWords /\ listing = <<>>
       /\ ChooseFile \/ ChooseStreams \/ ChoosePorts
       /\ UNCHANGED <<options, command, words, listing>>
    \/ /\ layout = FirstLayout /\ parallel = 1 /\ command = FirstCommand
       /\ words = FirstWords /\ listing = <<>>
       /\ ChooseHere \/ ChooseThere
       /\ UNCHANGED <<layout, parallel, command, words, listing>>
    \/ /\ layout = FirstLayout /\ parallel = 1 /\ options = FirstOptions
       /\ words = FirstWords /\ listing = <<>>
       /\ TypeCommand \/ TypePhrase
       /\ UNCHANGED <<layout, parallel, options, words, listing>>
    \/ /\ layout = FirstLayout /\ parallel = 1 /\ options = FirstOptions
       /\ command = FirstCommand /\ listing = <<>>
       /\ TypeChar
       /\ UNCHANGED <<layout, parallel, options, command, listing>>
    \/ /\ layout = FirstLayout /\ options = FirstOptions /\ command = FirstCommand
       /\ words = FirstWords
       /\ ListItem
       /\ UNCHANGED <<layout, parallel, options, command, words>>

Spec == Init /\ [][Next]_vars

-----------------------------------------------------------------------------
\* byte_range_for_stream is a partition in stream order: each range begins
\* where the one before it ended, the first at 0, and the last one ends at
\* the end of the file; no stream carries more than one byte above another.
RangesPartition ==
    /\ RangeOffset(total, 0, parallel) = 0
    /\ \A s \in 0 .. parallel - 1 :
         RangeOffset(total, s, parallel) + RangeSize(total, s, parallel)
           = IF s = parallel - 1 THEN total ELSE RangeOffset(total, s + 1, parallel)
    /\ \A s, t \in 0 .. parallel - 1 :
         RangeSize(total, s, parallel) <= RangeSize(total, t, parallel) + 1

\* The responder's probe listens on a valid port that no transfer stream
\* uses, or start() refuses because the streams take every port.
ProbePortIsFree ==
    PortsAccepted(port, parallel) =>
        LET chosen == SelectedProbePort(probe, port, parallel) IN
        IF chosen = NoPort
          THEN { StreamPort(port, s) : s \in 0 .. parallel - 1 } = 1 .. MaxPort
          ELSE /\ chosen \in 1 .. MaxPort
               /\ \A s \in 0 .. parallel - 1 : chosen # StreamPort(port, s)

mine   == negotiate(here, there)
theirs == negotiate(there, here)

\* The two ends of a session, each negotiating for itself, both refuse or
\* come to the same packet size, profile and encryption, which neither end
\* forbids: the packet is no larger and the profile no hungrier than either
\* asked for, and whoever requires encryption gets it.  When one end leaves
\* its mode to Auto and the other does not, one becomes the host and the
\* other the device.
EndsAgree ==
    /\ mine.is = theirs.is
    /\ mine.is = "config" =>
         /\ mine.packet_bytes = theirs.packet_bytes
         /\ mine.profile = theirs.profile
         /\ mine.encryption_enabled = theirs.encryption_enabled
         /\ \A o \in {here, there} :
              /\ mine.packet_bytes <= o.preferred_packet_bytes
              /\ profile_rank[mine.profile] <= profile_rank[o.profile]
              /\ o.require_encryption => mine.encryption_enabled
         /\ here.mode = "Auto" /\ there.mode # "Auto" =>
              { mine.local_mode, theirs.local_mode } = {"Host", "Device"}

IsNumber(w)   == w \in DOMAIN Number
IsPort(w)     == IsNumber(w) /\ Number[w] \in 1 .. MaxPort
IsPositive(w) == IsNumber(w) /\ Number[w] > 0
Fit(p, n)     == LastPort(Number[p], Number[n]) <= MaxPort

\* What a user means by a word in a field of the options.
Meaning(field, w) ==
    IF field \in {"port", "discovery_port", "parallel", "seconds", "chunk_bytes",
                  "socket_buffer_bytes"} THEN Number[w] ELSE w

\* A number is one that the helpers can hold, and so is a last port.
InWord(w)     == IsNumber(w) => Number[w] < WordSize
SumInWord(p, n) == IsPort(p) /\ IsNumber(n) => LastPort(Number[p], Number[n]) < WordSize

\* hyperlink_file, started for receive or send.
FileHelperObeys ==
    LET started == main(argv)
        asked   == started.asked
        sends   == argv[1] = "send"
        auto    == sends /\ asked.host = ""
        helper  == parse_args(started.args)
        passed  == DOMAIN asked \ (IF auto THEN {"port", "parallel"} ELSE {})
    IN  /\ argv # <<>> /\ started.is = "run" /\ started.tool = "hyperlink_file"
        /\ auto \/ InWord(asked.parallel)
        =>  /\ helper.is = IF /\ IsPort(asked.discovery_port)
                              /\ auto \/ /\ IsPort(asked.port) /\ IsPositive(asked.parallel)
                                         /\ Fit(asked.port, asked.parallel)
                             THEN "options" ELSE "error"
            /\ helper.is = "options" =>
                 /\ \A f \in passed : helper.opt[f] = Meaning(f, asked[f])
                 /\ helper.opt.send = sends /\ helper.opt.receive = ~sends
                 /\ helper.opt.auto_discover = auto

\* hyperlink_bench, started for test.
BenchHelperObeys ==
    LET started == main(argv)
        asked   == started.asked
        helper  == bench_parse_args(started.args)
        passed  == {"port", "parallel", "socket_buffer_bytes"}
                   \cup (IF asked.send THEN {"host", "seconds", "chunk_bytes"} ELSE {})
    IN  /\ argv # <<>> /\ argv[1] \in {"test", "speedtest"} /\ started.is = "run"
        /\ InWord(asked.parallel) /\ InWord(asked.socket_buffer_bytes)
        /\ asked.send => InWord(asked.seconds)
        /\ SumInWord(asked.port, asked.parallel)
        =>  /\ helper.is = IF /\ IsPort(asked.port) /\ IsPositive(asked.parallel)
                              /\ IsNumber(asked.socket_buffer_bytes)
                              /\ asked.send => IsPositive(asked.seconds) /\ IsPositive(asked.chunk_bytes)
                              /\ Fit(asked.port, asked.parallel)
                             THEN "options" ELSE "error"
            /\ helper.is = "options" =>
                 /\ \A f \in passed : helper.opt[f] = Meaning(f, asked[f])
                 /\ helper.opt.server = ~asked.send
                 /\ helper.opt.server => helper.opt.host = "0.0.0.0"

\* What reaches a helper is what the user asked for: hyperlink_file and
\* hyperlink_bench accept the arguments they are started with exactly when
\* the numbers in them are valid and the last port is one, whatever the values
\* look like and in whatever order they came, and then have the user's
\* options; a "send" without a host has those of --auto, as the peer it finds
\* says which port and how many streams to use.  Nothing is said of numbers
\* that do not fit in 32 bits, nor of sums that do not: see BenchPortsFit.
HelpersObey == FileHelperObeys /\ BenchHelperObeys

\* hyperlink_bench does not start a test when "port plus parallel stream count
\* exceeds 65535" for the numbers it has read.
BenchPortsFit ==
    LET started == main(argv)
        helper  == bench_parse_args(started.args) IN
    /\ argv # <<>> /\ argv[1] \in {"test", "speedtest"} /\ started.is = "run"
    /\ helper.is = "options"
    => PortsAccepted(helper.opt.port, helper.opt.parallel)

\* The shell that run_command starts sees the words that were quoted: no
\* character of a path ends a word, opens quotes or escapes anything.
ShellSeesWords ==
    ShellWords(run_command(<<"c">>, words)) = <<<<"c">>>> \o words

Load(items, size) == FoldLeft(LAMBDA sum, i : sum + size[i], 0, items)

\* partition_directory_items deals every item out once, those without payload
\* to the first stream and ahead of its payload, and evenly: the longest
\* stream has at most one payload more than the shortest.
ItemsSpread ==
    LET kind == [i \in DOMAIN listing |-> listing[i].kind]
        size == [i \in DOMAIN listing |-> listing[i].size]
        meta == { i \in DOMAIN listing : ~HasPayload(kind[i]) } IN
    \A deal \in partition_directory_items(DOMAIN listing, kind, size, parallel) :
        LET parts == [p \in 1 .. parallel |-> deal[p].items] IN
        /\ \A i \in DOMAIN listing :
             Cardinality({ q \in (1 .. parallel) \X DOMAIN listing :
                             q[2] <= Len(parts[q[1]]) /\ parts[q[1]][q[2]] = i }) = 1
        /\ { parts[1][j] : j \in 1 .. Cardinality(meta) } = meta
        /\ \A p, q \in 1 .. parallel :
             parts[p] # <<>> =>
                 Load(parts[p], size) - size[parts[p][Len(parts[p])]] <= Load(parts[q], size)
=============================================================================
