---------------------------- MODULE MCRendezvous ----------------------------
(***************************************************************************)
(* Instances of Rendezvous for TLC.                                        *)
(***************************************************************************)
EXTENDS Rendezvous

\* Ports 1 .. 4 and a probe at 3 unless a stream is there: one stream that
\* leaves it alone, two that push the probe to 4, two that push it to 2 and
\* sit where it would be otherwise, and streams on every port.
SomeSettings ==
    { [port |-> 1, parallel |-> 1], [port |-> 2, parallel |-> 2],
      [port |-> 3, parallel |-> 2], [port |-> 1, parallel |-> 4] }
=============================================================================
