---------------------------- MODULE TransferSpec ----------------------------
(***************************************************************************)
(* What hyperlink_file promises of a file transfer, without saying how: no *)
(* threads, headers, buffers, mutex or queues.  Each of the receiver's     *)
(* streams takes one sender and keeps it; as long as the receiver runs, a  *)
(* stream may put bytes of its sender's file where they belong; before the *)
(* first of them the output file may be made anew; once the receiver has   *)
(* its verdict the file does not change any more; and a receiver and a     *)
(* sender that both report success, with all streams between them, have    *)
(* the same file.                                                          *)
(***************************************************************************)
EXTENDS Integers

CONSTANTS
    Senders, NoSender,
    Size,       \* Size[a]: length of a's file
    Streams,
    Used,       \* the streams the receiver has, a subset of Streams
    Offsets     \* positions of the output file

VARIABLES
    file,       \* the output file
    source,     \* source[s]: the sender on stream s
    sent,       \* the senders that reported success
    verdict,    \* what the receiver reported, "run" before that
    intact      \* the receiver's disk has not failed

vars == <<file, source, sent, verdict, intact>>

Void       == [tag |-> "void", src |-> NoSender, at |-> 0]
Hole       == [tag |-> "hole", src |-> NoSender, at |-> 0]
Old        == [tag |-> "old",  src |-> NoSender, at |-> 0]
Byte(a, o) == [tag |-> "byte", src |-> a, at |-> o]
FileOf(a)  == [o \in Offsets |-> IF o < Size[a] THEN Byte(a, o) ELSE Void]

\* a may call the transfer successful if the receiver does.
Delivered(a) == intact /\ (\A s \in Used : source[s] = a) => file = FileOf(a)
-----------------------------------------------------------------------------
Init ==
    /\ file \in {[o \in Offsets |-> Void], [o \in Offsets |-> Old]}
    /\ source = [s \in Streams |-> NoSender]
    /\ sent = {}
    /\ verdict = "run"
    /\ intact = TRUE

Take(s, a) ==
    /\ verdict = "run" /\ source[s] = NoSender
    /\ source' = [source EXCEPT ![s] = a]
    /\ UNCHANGED <<file, sent, verdict, intact>>

Make ==
    /\ verdict = "run"
    /\ \A o \in Offsets : file[o].tag # "byte"
    /\ file' \in [Offsets -> {Void, Hole}]
    /\ UNCHANGED <<source, sent, verdict, intact>>

Deposit(s) ==
    /\ verdict = "run" /\ source[s] # NoSender
    /\ file' \in [Offsets -> {Void, Hole, Old} \cup { Byte(a, o) : a \in Senders, o \in Offsets }]
    /\ \A o \in Offsets : \/ file'[o] \in {file[o], Byte(source[s], o)}
                          \/ file[o] = Void /\ file'[o] = Hole
    /\ UNCHANGED <<source, sent, verdict, intact>>

ReportSent(a) ==
    /\ verdict = "ok" => Delivered(a)
    /\ sent' = sent \cup {a}
    /\ UNCHANGED <<file, source, verdict, intact>>

ReportReceived ==
    /\ verdict = "run"
    /\ verdict' \in {"ok", "error"}
    /\ verdict' = "ok" => \A a \in sent : Delivered(a)
    /\ UNCHANGED <<file, source, sent, intact>>

DiskFails ==
    /\ intact' = FALSE
    /\ UNCHANGED <<file, source, sent, verdict>>

Next ==
    \/ \E s \in Streams, a \in Senders : Take(s, a)
    \/ \E s \in Streams : Deposit(s)
    \/ \E a \in Senders : ReportSent(a)
    \/ Make \/ ReportReceived \/ DiskFails

Spec == Init /\ [][Next]_vars
=============================================================================
