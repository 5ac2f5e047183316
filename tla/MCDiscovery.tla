---------------------------- MODULE MCDiscovery ----------------------------
(***************************************************************************)
(* Instances of Discovery for TLC.                                         *)
(***************************************************************************)
EXTENDS Discovery

\* One interface that is up, with a broadcast address equal to the limited
\* one, and one that is down: two targets with loopback.
SomeInterfaces == { [addr |-> 10, broadcast |-> 255, up |-> TRUE],
                    [addr |-> 20, broadcast |-> 29, up |-> FALSE] }

Advert(host, transfer, probePort, streams) ==
    [host |-> host, form |-> "advert", transfer_port |-> transfer, probe_port |-> probePort,
     parallel_streams |-> streams]

\* Two receivers on one host, a third elsewhere whose streams do not fit, and
\* the first again after a restart with another number of streams.
SomeDatagrams ==
    { Advert(1, 2, 5, 1), Advert(1, 2, 6, 1), Advert(2, 2, 5, 7), Advert(1, 2, 5, 2),
      Advert(2, 0, 5, 1),
      [host |-> 2, form |-> "oversized", transfer_port |-> 2, probe_port |-> 5, parallel_streams |-> 1] }
=============================================================================
