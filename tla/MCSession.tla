----------------------------- MODULE MCSession -----------------------------
(***************************************************************************)
(* Instances of Session for TLC.                                           *)
(***************************************************************************)
EXTENDS Session, TLC

\* The slots are interchangeable, and so are the transports.
Interchangeable == Permutations(Slots) \cup Permutations(Transports)
=============================================================================
