--------------------------- MODULE DirectoryItems ---------------------------
(***************************************************************************)
(* How hyperlink_file deals the items of a directory out to its streams.   *)
(* An item is a number, in the order in which they were collected; what    *)
(* partition_directory_items looks at is whether it has a payload and how  *)
(* long that is.                                                           *)
(***************************************************************************)
EXTENDS Ordering, SequencesExt

HasPayload(kind) == kind \in {"DirectoryFile", "DirectorySymlink"}

\* std::sort by descending size is not stable: equal sizes in any order.
SortedPayload(items, kind, size) ==
    { q \in SetToSeqs({ i \in items : HasPayload(kind[i]) }) :
        \A j \in 1 .. Len(q) - 1 : size[q[j]] >= size[q[j + 1]] }

\* Mutant: the comparison of min_element the wrong way round.
Smallest_Largest(partitions) ==
    Min({ p \in DOMAIN partitions :
            \A q \in DOMAIN partitions : partitions[p].bytes >= partitions[q].bytes })

\* std::min_element: the first of the partitions with the fewest bytes.
Smallest(partitions) ==
    Min({ p \in DOMAIN partitions :
            \A q \in DOMAIN partitions : partitions[p].bytes <= partitions[q].bytes })

DirectoryPartition(items, bytes) == [items |-> items, bytes |-> bytes]

\* An item goes to the partition that is smallest by then.
Assign(partitions, i, size) ==
    [partitions EXCEPT ![Smallest(partitions)] =
       DirectoryPartition(Append(@.items, i), @.bytes + size[i])]

\* The items without payload open the first partition, in the order they were
\* collected; the loop then assigns the payload, one after the other.
Partitioned(metadata, payload, size, parallel) ==
    LET deal[n \in 0 .. Len(payload)] ==
          IF n = 0
            THEN [p \in 1 .. parallel |-> DirectoryPartition(IF p = 1 THEN metadata ELSE <<>>, 0)]
            ELSE Assign(deal[n - 1], payload[n], size)
    IN  deal[Len(payload)]

\* Mutant: payload is also put with the items that have none.
partition_directory_items_NoElse(items, kind, size, parallel) ==
    { Partitioned(InOrder(items), q, size, parallel) : q \in SortedPayload(items, kind, size) }

\* Every result of partition_directory_items, one for each order of equal sizes.
partition_directory_items(items, kind, size, parallel) ==
    { Partitioned(InOrder({ i \in items : ~HasPayload(kind[i]) }), q, size, parallel) :
        q \in SortedPayload(items, kind, size) }
=============================================================================
