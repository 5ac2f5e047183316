--------------------------- MODULE MCFileTransfer ---------------------------
(***************************************************************************)
(* Instances of FileTransfer for TLC.                                      *)
(***************************************************************************)
EXTENDS FileTransfer

CONSTANTS a, b, c

\* One sender: three bytes over two streams, so the parts differ in size.
OneSize      == [x \in {a} |-> 3]
OneName      == [x \in {a} |-> "f"]
OneNameUnits == [x \in {a} |-> 1]
OneParallel  == [x \in {a} |-> 2]

\* Two senders of files with the same name and size, over two streams and one.
TwinSize     == [x \in {a, b} |-> 3]
TwinName     == [x \in {a, b} |-> "f"]
PairNameUnits == [x \in {a, b} |-> 1]
PairParallel == [x \in {a, b} |-> IF x = a THEN 2 ELSE 1]

\* Three senders to a receiver with one stream: a plain file, a file in
\* parts, and a file whose name is longer than the receiver takes.
MixSize      == [x \in {a, b, c} |-> 2]
MixName      == [x \in {a, b, c} |-> IF x = a THEN "f" ELSE "g"]
MixNameUnits == [x \in {a, b, c} |-> IF x = c THEN 2 ELSE 1]
MixParallel  == [x \in {a, b, c} |-> IF x = b THEN 2 ELSE 1]

\* Two small files of the same name and size, for the temporal properties.
TinySize     == [x \in {a, b} |-> 1]
=============================================================================
