---------------------------- MODULE CommandLine ----------------------------
(***************************************************************************)
(* The front end "hyperlink" and the two programs it starts: what a user's *)
(* command line becomes in hyperlink_file or hyperlink_bench.  A command   *)
(* line is a sequence of words.  A word that is a number has its value in  *)
(* Number, as std::stoul returns it: a minus sign wraps around in 64 bits. *)
(***************************************************************************)
EXTENDS PortLayout, Sequences, SequencesExt

CONSTANTS
    Number,                                             \* Number[w], for words that are numbers
    Dashed,                                             \* the words whose first character is a dash
    DefaultPort, DefaultParallel, DefaultDiscovery,     \* words, of the front end
    DefaultTestPort, DefaultSeconds, DefaultChunk, DefaultBuffer,
    Downloads                                           \* default_download_dir()

ASSUME NumberAssumption == \A w \in DOMAIN Number : Number[w] \in Nat

ASSUME DefaultsAssumption ==
    /\ \A w \in {DefaultPort, DefaultDiscovery, DefaultTestPort} :
         w \in DOMAIN Number /\ Number[w] \in 1 .. MaxPort
    /\ DefaultSeconds \in DOMAIN Number

None == ""      \* the empty string: the code takes it for "not given"

(***************************************************************************)
(* All five parsers are one loop: an option that takes a value takes the   *)
(* next word, whatever it looks like; the first word that is wrong, or     *)
(* asks for help, ends the program.  p.want is the field that the next     *)
(* word goes to.                                                           *)
(***************************************************************************)
Fresh(options)  == [is |-> "options", want |-> None, opt |-> options]
Stop(p, is)     == [p EXCEPT !.is = is]
Want(p, field)  == [p EXCEPT !.want = field]
Put(p, field, v) == [p EXCEPT !.want = None, !.opt = [@ EXCEPT ![field] = v]]

\* One turn of the loop: value is what the word means as a value, option what it
\* means where an option is due.
Turn(p, value, option) ==
    IF p.is # "options" THEN p ELSE IF p.want # None THEN value ELSE option

\* require_value: the words end where a value is due.
Complete(p) == IF p.is = "options" /\ p.want # None THEN Stop(p, "error") ELSE p

Text(p, w) == Put(p, p.want, w)

Help(w) == w \in {"--help", "-h"}

\* The field of the option with a value; the parsers agree on it.
Field(w) ==
    CASE w = "--host" -> "host"
      [] w = "--port" -> "port"
      [] w = "--parallel" -> "parallel"
      [] w = "--discovery-port" -> "discovery_port"
      [] w \in {"--out", "--output-dir"} -> "output_dir"
      [] w = "--name" -> "remote_name"
      [] w = "--file" -> "file"
      [] w = "--seconds" -> "seconds"
      [] w = "--chunk-bytes" -> "chunk_bytes"
      [] w = "--socket-buffer-bytes" -> "socket_buffer_bytes"

-----------------------------------------------------------------------------
(***************************************************************************)
(* The front end.  Its options are words; it looks at none of the numbers. *)
(***************************************************************************)
TransferOptions == {"--host", "--port", "--parallel", "--discovery-port"}
ReceiveOptions  == TransferOptions \cup {"--out", "--output-dir"}

ReceiveWord(p, w) ==
    IF w \in ReceiveOptions THEN Want(p, Field(w))
    ELSE IF w = "--no-advertise" THEN Put(p, "advertise", FALSE)
    ELSE Stop(p, IF Help(w) THEN "help" ELSE "error")

ReceiveDefaults ==
    [host |-> "0.0.0.0", port |-> DefaultPort, output_dir |-> Downloads,
     parallel |-> DefaultParallel, discovery_port |-> DefaultDiscovery, advertise |-> TRUE]

parse_receive(argv) ==
    Complete(FoldLeft(LAMBDA p, w : Turn(p, Text(p, w), ReceiveWord(p, w)),
                      Fresh(ReceiveDefaults), argv))

SendOptions == TransferOptions \cup {"--name"}

\* A word that is no option is the path, if there was none before it.
SendWord(p, w) ==
    IF w \in SendOptions THEN Want(p, Field(w))
    ELSE IF Help(w) THEN Stop(p, "help")
    ELSE IF w \in Dashed \/ p.opt.file # None THEN Stop(p, "error")
    ELSE Put(p, "file", w)

SendDefaults ==
    [file |-> None, host |-> None, port |-> DefaultPort, parallel |-> DefaultParallel,
     discovery_port |-> DefaultDiscovery, remote_name |-> None]

parse_send(argv) ==
    LET end == Complete(FoldLeft(LAMBDA p, w : Turn(p, Text(p, w), SendWord(p, w)),
                                 Fresh(SendDefaults), argv))
    IN  IF end.is = "options" /\ end.opt.file = None THEN Stop(end, "error") ELSE end

TestOptions ==
    {"--host", "--port", "--parallel", "--seconds", "--chunk-bytes", "--socket-buffer-bytes"}

\* A word that is no option is the peer of "test send".
TestWord(p, w) ==
    IF w \in TestOptions THEN Want(p, Field(w))
    ELSE IF Help(w) THEN Stop(p, "help")
    ELSE IF w \notin Dashed /\ p.opt.send /\ p.opt.host = None THEN Put(p, "host", w)
    ELSE Stop(p, "error")

TestDefaults(send) ==
    [send |-> send, host |-> None, port |-> DefaultTestPort, parallel |-> DefaultParallel,
     seconds |-> DefaultSeconds, chunk_bytes |-> DefaultChunk, socket_buffer_bytes |-> DefaultBuffer]

parse_test(argv) ==
    LET receive == {"receive", "recv", "server"}
        send    == {"send", "client"}
        fresh   == Fresh(TestDefaults(FALSE))
    IN  IF argv = <<>> \/ Head(argv) \notin receive \cup send
          THEN Stop(fresh, IF argv # <<>> /\ Help(Head(argv)) THEN "help" ELSE "error")
          ELSE LET end == Complete(FoldLeft(LAMBDA p, w : Turn(p, Text(p, w), TestWord(p, w)),
                                            Fresh(TestDefaults(Head(argv) \in send)), Tail(argv)))
               IN  IF end.is = "options" /\ end.opt.send /\ end.opt.host = None
                     THEN Stop(end, "error") ELSE end

\* The arguments for the helper.
run_receive(o) ==
    <<"--receive", "--host", o.host, "--port", o.port, "--output-dir", o.output_dir,
      "--parallel", o.parallel, "--discovery-port", o.discovery_port>>
    \o (IF o.advertise THEN <<>> ELSE <<"--no-advertise">>)

\* Mutant: the mode comes last, and with it the mode's default for the host.
run_send_ModeLast(o) ==
    <<"--file", o.file, "--discovery-port", o.discovery_port>>
    \o (IF o.host = None
          THEN <<"--auto">>
          ELSE <<"--host", o.host, "--port", o.port, "--parallel", o.parallel>>)
    \o (IF o.remote_name = None THEN <<>> ELSE <<"--name", o.remote_name>>)
    \o <<"--send">>

\* Without a host neither the port nor the number of streams is passed on.
run_send(o) ==
    <<"--send", "--file", o.file, "--discovery-port", o.discovery_port>>
    \o (IF o.host = None
          THEN <<"--auto">>
          ELSE <<"--host", o.host, "--port", o.port, "--parallel", o.parallel>>)
    \o (IF o.remote_name = None THEN <<>> ELSE <<"--name", o.remote_name>>)

run_test(o) ==
    IF ~o.send
      THEN <<"--server", "--host", "0.0.0.0", "--port", o.port, "--parallel", o.parallel,
             "--socket-buffer-bytes", o.socket_buffer_bytes>>
      ELSE <<"--client", "--host", o.host, "--port", o.port, "--seconds", o.seconds,
             "--chunk-bytes", o.chunk_bytes, "--parallel", o.parallel,
             "--socket-buffer-bytes", o.socket_buffer_bytes>>

\* What main does with a command: a helper with arguments, or an end without one.
Started(p, tool, args) ==
    [is |-> IF p.is = "options" THEN "run" ELSE p.is, tool |-> tool, asked |-> p.opt,
     args |-> IF p.is = "options" THEN args ELSE <<>>]

Ended(is) == [is |-> is, tool |-> None, asked |-> None, args |-> <<>>]

run_passthrough(tool, args) == [is |-> "run", tool |-> tool, asked |-> None, args |-> args]

main(argv) ==
    IF argv = <<>> THEN Ended("error")
    ELSE LET command == Head(argv)
             rest    == Tail(argv) IN
         CASE command \in {"receive", "recv"}   -> LET p == parse_receive(rest) IN
                                                   Started(p, "hyperlink_file", run_receive(p.opt))
           [] command = "send"                  -> LET p == parse_send(rest) IN
                                                   Started(p, "hyperlink_file", run_send(p.opt))
           [] command \in {"test", "speedtest"} -> LET p == parse_test(rest) IN
                                                   Started(p, "hyperlink_bench", run_test(p.opt))
           [] command = "bench"                 -> run_passthrough("hyperlink_bench", rest)
           [] command = "probe"                 -> run_passthrough("hyperlink_probe", rest)
           [] command \in {"--help", "-h", "help"} -> Ended("help")
           [] OTHER -> Ended("error")
-----------------------------------------------------------------------------
(***************************************************************************)
(* The helpers.  A number that is none, or is out of its range, is an      *)
(* error at once.                                                          *)
(***************************************************************************)
Narrow(n) == n % WordSize       \* static_cast<std::uint32_t>

parse_port(p, w) ==
    IF w \in DOMAIN Number /\ Number[w] \in 1 .. MaxPort
      THEN Put(p, p.want, Number[w]) ELSE Stop(p, "error")

PositiveWord(p, w) ==
    IF w \in DOMAIN Number /\ Narrow(Number[w]) # 0
      THEN Put(p, p.want, Narrow(Number[w])) ELSE Stop(p, "error")

FileOptions == SendOptions \cup ReceiveOptions \cup {"--file"}

\* --send, --receive and --auto also set the host.
FileWord(p, w) ==
    CASE w = "--send"    -> Put(Put(p, "send", TRUE), "host", "127.0.0.1")
      [] w = "--receive" -> Put(Put(p, "receive", TRUE), "host", "0.0.0.0")
      [] w = "--auto"    -> Put(Put(p, "auto_discover", TRUE), "host", None)
      [] w = "--no-advertise" -> Put(p, "advertise", FALSE)
      [] w \in FileOptions -> Want(p, Field(w))
      [] OTHER -> Stop(p, IF Help(w) THEN "help" ELSE "error")

FileValue(p, w) ==
    CASE p.want \in {"port", "discovery_port"} -> parse_port(p, w)
      [] p.want = "parallel" -> PositiveWord(p, w)
      [] OTHER -> Text(p, w)

FileDefaults ==
    [send |-> FALSE, receive |-> FALSE, auto_discover |-> FALSE, advertise |-> TRUE,
     host |-> "0.0.0.0", port |-> Number[DefaultPort],
     discovery_port |-> Number[DefaultDiscovery], parallel |-> 1,
     file |-> None, output_dir |-> ".", remote_name |-> None]

\* hyperlink_file.
parse_args(argv) ==
    LET p == Complete(FoldLeft(LAMBDA q, w : Turn(q, FileValue(q, w), FileWord(q, w)),
                               Fresh(FileDefaults), argv))
        o == p.opt
    IN  IF /\ p.is = "options"
           /\ \/ o.send = o.receive
              \/ o.send /\ o.file = None
              \/ o.receive /\ o.auto_discover
              \/ ~PortsAccepted(o.port, o.parallel)
          THEN Stop(p, "error") ELSE p

BenchWord(p, w) ==
    CASE w = "--server" -> Put(Put(p, "server", TRUE), "host", "0.0.0.0")
      [] w = "--client" -> Put(p, "server", FALSE)
      [] w \in TestOptions -> Want(p, Field(w))
      [] OTHER -> Stop(p, IF Help(w) THEN "help" ELSE "error")

\* chunk_bytes is not narrowed, socket_buffer_bytes may be zero.
BenchValue(p, w) ==
    CASE p.want = "port" -> parse_port(p, w)
      [] p.want \in {"parallel", "seconds"} -> PositiveWord(p, w)
      [] p.want = "chunk_bytes" -> IF w \in DOMAIN Number /\ Number[w] # 0
                                     THEN Put(p, p.want, Number[w]) ELSE Stop(p, "error")
      [] p.want = "socket_buffer_bytes" -> IF w \in DOMAIN Number
                                             THEN Put(p, p.want, Narrow(Number[w])) ELSE Stop(p, "error")
      [] OTHER -> Text(p, w)

BenchDefaults ==
    [server |-> FALSE, host |-> "127.0.0.1", port |-> Number[DefaultTestPort],
     seconds |-> Number[DefaultSeconds], parallel |-> 1, socket_buffer_bytes |-> 0, chunk_bytes |-> 1]

\* hyperlink_bench adds port and number of streams in 32 bits.
bench_parse_args(argv) ==
    LET p == Complete(FoldLeft(LAMBDA q, w : Turn(q, BenchValue(q, w), BenchWord(q, w)),
                               Fresh(BenchDefaults), argv))
    IN  IF p.is = "options" /\ Narrow(LastPort(p.opt.port, p.opt.parallel)) > MaxPort
          THEN Stop(p, "error") ELSE p

-----------------------------------------------------------------------------
(***************************************************************************)
(* run_command gives the arguments to a shell, as one line.  Here a word   *)
(* is the sequence of its characters.                                      *)
(***************************************************************************)
Quote     == "'"
Backslash == "\\"
Space     == " "

\* Mutant: a quote is escaped inside the quotes, where the shell does not
\* look for escapes.
shell_quote_Inside(value) ==
    <<Quote>> \o FlattenSeq([i \in DOMAIN value |->
        IF value[i] = Quote THEN <<Backslash, Quote>> ELSE <<value[i]>>]) \o <<Quote>>

shell_quote(value) ==
    <<Quote>> \o FlattenSeq([i \in DOMAIN value |->
        IF value[i] = Quote THEN <<Quote, Backslash, Quote, Quote>> ELSE <<value[i]>>]) \o <<Quote>>

run_command(executable, args) ==
    shell_quote(executable)
    \o FlattenSeq([i \in DOMAIN args |-> <<Space>> \o shell_quote(args[i])])

\* How a POSIX shell takes such a line apart: words end at a space outside of
\* quotes; between quotes every character stands for itself.
ShellStart == [words |-> <<>>, word |-> <<>>, inWord |-> FALSE, in |-> "plain"]

ShellStep(p, c) ==
    LET Keep(state)   == [p EXCEPT !.word = Append(@, c), !.inWord = TRUE, !.in = state]
        Switch(state) == [p EXCEPT !.inWord = TRUE, !.in = state] IN
    CASE p.in = "escape" -> Keep("plain")
      [] p.in = "quotes" -> IF c = Quote THEN Switch("plain") ELSE Keep("quotes")
      [] p.in = "plain" /\ c = Quote -> Switch("quotes")
      [] p.in = "plain" /\ c = Backslash -> Switch("escape")
      [] p.in = "plain" /\ c = Space ->
           IF p.inWord THEN [p EXCEPT !.words = Append(@, p.word), !.word = <<>>, !.inWord = FALSE] ELSE p
      [] OTHER -> Keep("plain")

ShellWords(line) ==
    LET end == FoldLeft(ShellStep, ShellStart, line) IN
    IF end.inWord THEN Append(end.words, end.word) ELSE end.words
=============================================================================
