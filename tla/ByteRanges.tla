----------------------------- MODULE ByteRanges -----------------------------
(***************************************************************************)
(* How a parallel file transfer cuts a file into one byte range per        *)
(* stream.  Sender and receiver never agree on the cut: the sender puts    *)
(* offset and size into each stream's header and the receiver trusts them, *)
(* so that the file is whole only if these ranges are a partition of it.   *)
(***************************************************************************)
EXTENDS Integers

(***************************************************************************)
(* byte_range_for_stream(total_size, stream, parallel): the first `extra'  *)
(* streams carry base + 1 bytes, the others carry base bytes.              *)
(***************************************************************************)
Base(total, parallel)  == total \div parallel
Extra(total, parallel) == total % parallel

RangeOffset(total, stream, parallel) ==
    Base(total, parallel) * stream
      + (IF stream < Extra(total, parallel) THEN stream ELSE Extra(total, parallel))

\* Mutant: one stream too many carries an extra byte.
RangeSize_OffByOne(total, stream, parallel) ==
    Base(total, parallel) + (IF stream <= Extra(total, parallel) THEN 1 ELSE 0)

RangeSize(total, stream, parallel) ==
    Base(total, parallel) + (IF stream < Extra(total, parallel) THEN 1 ELSE 0)
=============================================================================
