----------------------------- MODULE PortLayout -----------------------------
(***************************************************************************)
(* Which TCP port a stream uses, which port ranges the programs accept,    *)
(* and where the discovery responder puts its throughput probe.  Ports are *)
(* 0 .. MaxPort; 0 is never a valid port of the program.                   *)
(***************************************************************************)
EXTENDS Integers

CONSTANTS
    MaxPort,    \* the largest TCP port; 65535 in the code
    WordSize    \* 2^32 in the code: values of an unsigned 32-bit integer

ASSUME MaxPortAssumption  == MaxPort \in Nat \ {0}
ASSUME WordSizeAssumption == WordSize \in Nat /\ WordSize > MaxPort

(***************************************************************************)
(* The sum port + parallel - 1 is computed in 64 bits: it does not wrap.   *)
(***************************************************************************)
LastPort(port, parallel) == port + parallel - 1

\* parse_args of file_transfer, run_send after discovery, responder start().
PortsAccepted(port, parallel) == LastPort(port, parallel) <= MaxPort

\* endpoint_for_stream: the sum is narrowed to 16 bits.
StreamPort(port, stream) == (port + stream) % (MaxPort + 1)

-----------------------------------------------------------------------------
(***************************************************************************)
(* The responder's choice of a probe port, made in start(): the requested  *)
(* port unless a transfer stream uses it, then the port after the last     *)
(* stream, then the port before the first one, else start() throws.        *)
(***************************************************************************)
NoPort == 0

\* Mutants: the end of the port numbers is forgotten; the last stream's port
\* is forgotten.
SelectedProbePort_NoLimit(probe, port, parallel) ==
    LET last == LastPort(port, parallel) IN
    IF probe < port \/ probe > last THEN probe ELSE last + 1

SelectedProbePort_OffByOne(probe, port, parallel) ==
    LET last == LastPort(port, parallel) IN
    IF probe < port \/ probe >= last
      THEN probe
      ELSE IF last < MaxPort
             THEN last + 1
             ELSE IF port > 1 THEN port - 1 ELSE NoPort

SelectedProbePort(probe, port, parallel) ==
    LET last == LastPort(port, parallel) IN
    IF probe < port \/ probe > last
      THEN probe
      ELSE IF last < MaxPort
             THEN last + 1
             ELSE IF port > 1 THEN port - 1 ELSE NoPort
=============================================================================
