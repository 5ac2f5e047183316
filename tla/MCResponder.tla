---------------------------- MODULE MCResponder ----------------------------
(***************************************************************************)
(* Instances of Responder for TLC.                                         *)
(***************************************************************************)
EXTENDS Responder, TLC

\* Ports 1 .. 5.  The probe port clashes with a stream of a range that reaches
\* the last port, or of one that takes every port; or the options are invalid.
SomeConfigs ==
    { [transfer_port |-> 3, probe_port |-> 4, parallel_streams |-> 3],
      [transfer_port |-> 1, probe_port |-> 2, parallel_streams |-> 5],
      [transfer_port |-> 4, probe_port |-> 1, parallel_streams |-> 3],
      [transfer_port |-> 0, probe_port |-> 1, parallel_streams |-> 1] }
=============================================================================
