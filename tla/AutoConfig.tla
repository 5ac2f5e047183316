----------------------------- MODULE AutoConfig -----------------------------
(***************************************************************************)
(* negotiate: what a session settles on, from its own options and what it  *)
(* was told of the peer's.  Nothing is exchanged on the wire: each end     *)
(* calls negotiate for itself, with the two arguments the other way round, *)
(* and the link works only if the two results fit together.                *)
(***************************************************************************)
EXTENDS Integers

CONSTANTS
    MinPacketBytes,     \* kMinPacketBytes
    MaxPacketBytes      \* kMaxPacketBytes

ASSUME PacketAssumption ==
    MinPacketBytes \in Nat /\ MaxPacketBytes \in Nat /\ MinPacketBytes <= MaxPacketBytes

Modes    == {"Host", "Device", "Auto"}
Profiles == {"LowLatency", "Balanced", "Throughput"}

profile_rank == [LowLatency |-> 0, Balanced |-> 1, Throughput |-> 2]

\* profile_from_rank of the smaller rank, and std::min.
MeetProfile(p, q) == IF profile_rank[p] <= profile_rank[q] THEN p ELSE q
SmallerOf(m, n)   == IF m <= n THEN m ELSE n

\* validate.
Valid(options) ==
    /\ options.preferred_packet_bytes >= MinPacketBytes
    /\ options.preferred_packet_bytes <= MaxPacketBytes
    /\ options.discovery_timeout > 0

\* Auto gives way to a peer that is the host, and is the host otherwise.
Role(local, peer) ==
    IF local # "Auto" THEN local ELSE IF peer = "Host" THEN "Device" ELSE "Host"

Invalid == [is |-> "invalid_argument"]

\* negotiate throws on options that validate refuses, the local ones first.
\* Mutant: what the peer prefers is not looked at.
negotiate_LocalOnly(local, peer) ==
    IF ~Valid(local) \/ ~Valid(peer)
      THEN Invalid
      ELSE [is |-> "config",
            local_mode |-> Role(local.mode, peer.mode),
            profile |-> MeetProfile(local.profile, peer.profile),
            packet_bytes |-> SmallerOf(local.preferred_packet_bytes, peer.preferred_packet_bytes),
            encryption_enabled |-> local.require_encryption]

negotiate(local, peer) ==
    IF ~Valid(local) \/ ~Valid(peer)
      THEN Invalid
      ELSE [is |-> "config",
            local_mode |-> Role(local.mode, peer.mode),
            profile |-> MeetProfile(local.profile, peer.profile),
            packet_bytes |-> SmallerOf(local.preferred_packet_bytes, peer.preferred_packet_bytes),
            encryption_enabled |-> local.require_encryption \/ peer.require_encryption]
=============================================================================
