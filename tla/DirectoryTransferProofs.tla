---------------------- MODULE DirectoryTransferProofs ----------------------
(***************************************************************************)
(* Proofs about directory transfers: any tree, any numbers of streams, any *)
(* replaced links, anything in the way at the receiver, any number of      *)
(* faults.  That everything arrives, and that what has arrived stays, are  *)
(* proved for receivers where no older link leads from one path of the     *)
(* tree to another (Straight); the types without that.                     *)
(***************************************************************************)
EXTENDS DirectoryTransfer, LayoutProofs

-----------------------------------------------------------------------------
(***************************************************************************)
(* What a sender thread has sent is a log, of which the receiver's thread  *)
(* has read a prefix.  An entry is a unit with the place k of its item     *)
(* among the items of the stream.                                          *)
(***************************************************************************)
\* Path i is there as Whole says it, where no older link leads elsewhere.
There(i) ==
    IF i \in Links
      THEN \E t \in Targets : tree[i] \in {Copy(i, t), [Copy(i, t) EXCEPT !.is = "note"]}
      ELSE tree[i] = Copy(i, NoTarget)

Entries        == [k : Nat, at : Nat, target : Nat]
Entry(k, n, t) == [k |-> k, at |-> n, target |-> t]

Carried(s, e)  == parts[s][e.k]
OnWire(s, e)   == Unit(Carried(s, e), e.at, e.target)

\* Payload units of item i when it is a link with a target of t units.
UnitsOf(i, t)  == IF i = Archive THEN 2 * Len(Members)
                  ELSE IF i \in Links THEN t ELSE Length[i]

\* Entry e is the last one of its item.
Ends(s, e) ==
    /\ e.at >= HeadUnits
    /\ e.at = HeadUnits + UnitsOf(Carried(s, e), e.target)
    /\ Carried(s, e) \in Links => e.target # NoTarget

\* A link is sent with the target it was measured with or the one it has now.
Fits(s, e) ==
    /\ e.k \in 1 .. Len(parts[s]) /\ e.at >= 1
    /\ e.at <= HeadUnits => e.target = NoTarget
    /\ e.at > HeadUnits =>
         /\ e.at <= HeadUnits + UnitsOf(Carried(s, e), e.target)
         /\ IF Carried(s, e) \in Links
              THEN e.target \in {Length[Carried(s, e)], links[Carried(s, e)]}
              ELSE e.target = NoTarget

\* Entry f is sent after e.
Follows(s, e, f) ==
    IF Ends(s, e) THEN f = Entry(e.k + 1, 1, NoTarget)
    ELSE f.k = e.k /\ f.at = e.at + 1 /\ (e.at > HeadUnits => f.target = e.target)

\* Entry e is the last one sent.
Newest(s, e) ==
    IF sent[s] = 0 THEN e.k = done[s] /\ Ends(s, e)
    ELSE e.k = done[s] + 1 /\ e.at = sent[s] /\ (sent[s] > HeadUnits => e.target = target[s])

Recorded(s, log) ==
    /\ log \in Seq(Entries)
    /\ \A j \in 1 .. Len(log) : Fits(s, log[j])
    /\ \A j \in 1 .. Len(log) - 1 : Follows(s, log[j], log[j + 1])
    /\ log # <<>> => log[1] = Entry(1, 1, NoTarget)
    /\ IF log = <<>> THEN done[s] = 0 /\ sent[s] = 0 ELSE Newest(s, log[Len(log)])

\* What comes after the first c entries is on the wire.
InFlight(s, log, c) ==
    /\ Len(wire[s]) = Len(log) - c
    /\ \A j \in 1 .. Len(wire[s]) : wire[s][j] = OnWire(s, log[c + j])

\* A link's target in part: it comes from one target of the link, or from
\* that and the magic of the next item, or from still more items.
TextRead(s, e) ==
    \/ LinkLostAnItem
    \/ Carried(s, e) = cur[s] /\ e.at = HeadUnits /\ buf[s] = <<>>
    \/ /\ Carried(s, e) = cur[s] /\ e.at = HeadUnits + Len(buf[s]) /\ buf[s] # <<>>
       /\ buf[s] = Payload(cur[s], e.target, Len(buf[s]))
    \/ e.at = 1 /\ \E t \in {Length[cur[s]], links[cur[s]]} : Len(buf[s]) = t + 1

\* Where a receiver thread is after c entries.
Reading(s, log, c) ==
    /\ rpc[s] \in {"start", "accept"} => c = 0
    /\ rpc[s] \notin {"header", "text", "data"} => buf[s] = <<>>
    /\ rpc[s] = "header" => \/ buf[s] = <<>>
                            \/ c > 0 /\ buf[s] = <<OnWire(s, log[c])>>
    /\ rpc[s] \in {"make", "data", "text", "extract"} => c > 0
    /\ rpc[s] \in {"make", "data"} => cur[s] = Carried(s, log[c])
    /\ rpc[s] \in {"make", "data", "text"} => \E k \in 1 .. log[c].k : parts[s][k] = cur[s]
    /\ rpc[s] = "make" => cur[s] \in Paths /\ log[c].at = HeadUnits
    /\ rpc[s] = "data" =>
         /\ cur[s] \in Files
         /\ log[c].at = HeadUnits + Len(tree[cur[s]].data)
         /\ tree[cur[s]] = Node("file", Payload(cur[s], NoTarget, Len(tree[cur[s]].data)), "rw")
         /\ buf[s] = tree[cur[s]].data
    /\ rpc[s] = "text" => cur[s] \in Links /\ TextRead(s, log[c])
    /\ rpc[s] = "done" => AtEof(s)
    /\ Single /\ rpc[s] = "header" => c = Len(buf[s])

\* The items of stream s after the n-th were not begun.
Untouched(i)   == tree[i].is \in {"absent", "dir", "old"}
ClearFrom(s, n) == \A k \in 1 .. Len(parts[s]) : k > n /\ parts[s][k] \in Paths => Untouched(parts[s][k])

\* Items of which the receiver's thread has begun to make something.
Begun(s, log, c) ==
    IF c = 0 THEN 0
    ELSE IF rpc[s] = "make" \/ (rpc[s] = "header" /\ buf[s] # <<>> /\ log[c].at = 1)
      THEN log[c].k - 1 ELSE log[c].k

\* The first n items of stream s are there.
Got(s, n) == \A k \in 1 .. n : parts[s][k] \in Paths /\ There(parts[s][k])

Progress(s, log, c) ==
    /\ rpc[s] \in {"make", "data", "text"} =>
         \A k \in 1 .. Len(parts[s]) : parts[s][k] = cur[s] => Got(s, k - 1)
    /\ c > 0 /\ rpc[s] = "header" /\ buf[s] # <<>> /\ log[c].at = 1 => Got(s, log[c].k - 1)
    /\ c > 0 /\ rpc[s] \in {"header", "done"} /\ buf[s] = <<>> /\ Ends(s, log[c]) =>
         Got(s, log[c].k)

\* The archive's members that came in whole are there, unless tar has failed;
\* the others are as they were.
Had(log, c) == IF c = 0 THEN 0 ELSE (log[c].at - HeadUnits) \div 2

Extracted(log, c) ==
    /\ rpc[0] = "extract" => log[c].at >= HeadUnits
    /\ \A n \in 1 .. Len(Members) :
         IF n <= Had(log, c) THEN extractor # "failed" => There(Members[n])
         ELSE Untouched(Members[n])

ReadInv(s, log, c) ==
    /\ Reading(s, log, c)
    /\ ~Single => ClearFrom(s, Begun(s, log, c))
    /\ ~Single /\ ~lost /\ ~LinkLostAnItem => Progress(s, log, c)
    /\ Single /\ s = 0 /\ setup.send = 1 => Extracted(log, c)

StreamInv(s, log, c) ==
    Recorded(s, log) /\ c \in 0 .. Len(log) /\ InFlight(s, log, c) /\ ReadInv(s, log, c)

-----------------------------------------------------------------------------
AllUnits == [item : Items, at : Nat, target : Nat]
Nodes == [is : {"absent", "dir", "old", "file", "link", "note", "other"}, data : Seq(AllUnits),
          mode : {"rw", "ro"}]

TypeInv ==
    /\ setup \in Setups
    /\ smain \in {"start", "run", "ok", "error", "killed"}
    /\ rmain \in {"run", "ok", "error", "killed"}
    /\ spc \in [Streams -> SendPcs] /\ rpc \in [Streams -> RecvPcs]
    /\ parts \in [Streams -> Seq(Items)]
    /\ done \in [Streams -> Nat] /\ sent \in [Streams -> Nat] /\ target \in [Streams -> Nat]
    /\ links \in [Links -> Nat]
    /\ wire \in [Streams -> Seq(AllUnits)] /\ buf \in [Streams -> Seq(AllUnits)]
    /\ cur \in [Streams -> Items]
    /\ tree \in [Paths -> Nodes]
    /\ extractor \in {"fine", "inside", "failed"}
    /\ lost \in BOOLEAN

\* A link is given a new target once; a thread knows a target of its link.
LinkInv ==
    /\ \A i \in Links : links[i] \in {Length[i]} \cup NewLengths
    /\ \A s \in Streams : target[s] # NoTarget =>
         /\ done[s] < Len(parts[s]) /\ Item(s) \in Links
         /\ target[s] \in {Length[Item(s)], links[Item(s)]}
         /\ sent[s] >= HeadUnits

\* No path is carried twice, nor by a stream that the sender has not; the
\* items are all those of the sender's mode.
PartsInv ==
    /\ \A s, t \in Streams : \A j \in 1 .. Len(parts[s]), k \in 1 .. Len(parts[t]) :
         parts[s][j] = parts[t][k] => s = t /\ j = k
    /\ \A s \in Streams : parts[s] # <<>> => s < setup.send /\ smain # "start"
    /\ setup.send = 1 => \A s \in Streams : \A k \in 1 .. Len(parts[s]) : k = 1 /\ parts[s][k] = Archive
    /\ setup.send > 1 => \A s \in Streams : \A k \in 1 .. Len(parts[s]) :
         parts[s][k] \in collect_directory_items
    /\ smain \in {"run", "ok", "killed"} =>
         /\ setup.send = 1 => Len(parts[0]) = 1
         /\ setup.send > 1 => \A i \in collect_directory_items :
              \E s \in Streams : \E k \in 1 .. Len(parts[s]) : parts[s][k] = i

SendAt(s) ==
    /\ spc[s] \notin {"start", "refused"} => s < setup.send /\ s < setup.recv
    /\ spc[s] \in {"start", "refused"} => done[s] = 0 /\ sent[s] = 0
    /\ spc[s] \in {"start", "refused"} => rpc[s] \in {"start", "accept", "failed"}
    /\ done[s] <= Len(parts[s]) /\ (sent[s] > 0 => done[s] < Len(parts[s]))
    /\ spc[s] = "closed" => done[s] = Len(parts[s])
    /\ setup.send = 1 /\ spc[s] \in {"sending", "closed"} /\ done[s] = 1 => setup.hidden = {}
    /\ Len(wire[s]) <= Window
    /\ rpc[s] # "start" => s < setup.recv
    /\ rpc[s] \in {"text", "data"} => Len(buf[s]) <= Length[cur[s]]
    /\ Single => rpc[s] \notin {"make", "data", "text"}
    /\ ~Single => rpc[s] # "extract"
    /\ Single /\ rpc[s] = "done" => extractor = "fine"

MainInv ==
    /\ smain = "start" => \A s \in Streams : spc[s] = "start"
    /\ smain = "start" \/ (Single /\ setup.send > 1) => \A i \in Paths : Untouched(i)
    /\ smain = "ok" => \A s \in 0 .. setup.send - 1 : spc[s] = "closed"
    /\ rmain = "ok" => \A s \in 0 .. setup.recv - 1 : rpc[s] = "done"

\* A file that was begun is complete, or in the hands of a thread, or the
\* thread that had it failed.
FileAt(i) ==
    /\ tree[i].is # "file" => Untouched(i) /\ tree[i].data = <<>>
    /\ Len(tree[i].data) <= Length[i]
    /\ tree[i].is = "file" /\ ~lost =>
         \/ There(i)
         \/ \E s \in Streams : rpc[s] = "failed" \/ (rpc[s] = "data" /\ cur[s] = i)

FileInv == \A i \in Files : FileAt(i)

IInv ==
    /\ TypeInv /\ LinkInv /\ PartsInv /\ MainInv /\ FileInv
    /\ \A s \in Streams : SendAt(s) /\ \E log \in Seq(Entries), c \in Nat : StreamInv(s, log, c)

-----------------------------------------------------------------------------
(***************************************************************************)
(* The tree sent and what is made of it.                                   *)
(***************************************************************************)
LEMMA Constants ==
  /\ Paths \in SUBSET Nat /\ IsFiniteSet(Paths) /\ Archive \notin Paths
  /\ Links \in SUBSET Paths /\ Files \in SUBSET Paths /\ Links \cap Files = {}
  /\ \A i \in Paths : Length[i] \in Nat
  /\ \A i \in Links : Length[i] \in Nat \ {0}
  /\ Targets \in SUBSET (Nat \ {0})
  <1>1. IsFiniteSet(Paths) /\ Paths = 1 .. Cardinality(Paths) /\ Cardinality(Paths) \in Nat
    BY TreeAssumption, FS_CardinalityType
  <1>2. Paths \in SUBSET Nat /\ Archive \notin Paths
    BY <1>1 DEF Archive
  <1>3. Links \in SUBSET Paths /\ Files \in SUBSET Paths /\ Links \cap Files = {}
    BY DEF Links, Files
  <1>4. \A i \in Paths : Length[i] \in Nat
    BY TreeAssumption
  <1>5. \A i \in Links : Length[i] \in Nat \ {0}
    BY <1>3, <1>4, LinkAssumption
  <1>. QED
    BY <1>1, <1>2, <1>3, <1>4, <1>5, LinkAssumption DEF Targets

LEMMA SetupFacts ==
  ASSUME setup \in Setups
  PROVE  /\ setup.send \in Nat \ {0} /\ setup.recv \in Nat \ {0}
         /\ setup.send <= MaxStreams /\ setup.recv <= MaxStreams /\ MaxStreams \in Nat
         /\ setup.hidden \in SUBSET Paths
         /\ setup.leads \in [Paths -> Paths]
         /\ \A i \in Paths : Kind[setup.leads[i]] = Kind[i]
         /\ 0 \in Streams /\ Streams \in SUBSET Nat
         /\ 0 .. setup.send - 1 \subseteq Streams /\ 0 .. setup.recv - 1 \subseteq Streams
  BY SetupAssumption DEF Streams

\* The members of the archive are the paths that tar can read, in order.
LEMMA MembersFacts ==
  ASSUME setup \in Setups
  PROVE  /\ Members \in Seq(Archived) /\ Archived \in SUBSET Paths /\ Len(Members) \in Nat
         /\ \A m, n \in 1 .. Len(Members) : m < n => Members[m] < Members[n]
         /\ \A i \in Archived : \E n \in 1 .. Len(Members) : Members[n] = i
  <1>. DEFINE I == Archived
  <1>0. Archived \in SUBSET Paths
    BY DEF Archived
  <1>1. I \in SUBSET Nat /\ IsFiniteSet(I)
    BY <1>0, Constants, FS_Subset
  <1>. HIDE DEF I
  <1>2. /\ InOrder(I) \in [1 .. Cardinality(I) -> I] /\ Cardinality(I) \in Nat
        /\ \A i, j \in 1 .. Cardinality(I) : i < j => InOrder(I)[i] < InOrder(I)[j]
        /\ \A x \in I : \E i \in 1 .. Cardinality(I) : InOrder(I)[i] = x
    BY <1>1, NumbersInOrder
  <1>3. Members = InOrder(I)
    BY DEF Members, I
  <1>4. Members \in Seq(I) /\ Len(Members) = Cardinality(I)
    BY <1>2, <1>3
  <1>. QED
    BY <1>0, <1>2, <1>3, <1>4 DEF I

LEMMA PayloadFacts ==
  ASSUME NEW i \in Items, NEW t \in Nat, NEW n \in Nat
  PROVE  /\ Payload(i, t, n) \in Seq(AllUnits) /\ Len(Payload(i, t, n)) = n
         /\ \A k \in 1 .. n : Payload(i, t, n)[k] = Unit(i, HeadUnits + k, t)
  <1>1. Payload(i, t, n) \in [1 .. n -> AllUnits]
    BY DEF Payload, AllUnits, Unit, HeadUnits
  <1>. QED
    BY <1>1 DEF Payload

\* One unit more.
LEMMA PayloadGrows ==
  ASSUME NEW i \in Items, NEW t \in Nat, NEW n \in Nat
  PROVE  Append(Payload(i, t, n), Unit(i, HeadUnits + n + 1, t)) = Payload(i, t, n + 1)
  <1>. DEFINE a == Payload(i, t, n)
              b == Payload(i, t, n + 1)
              u == Unit(i, HeadUnits + n + 1, t)
  <1>1. /\ a \in Seq(AllUnits) /\ Len(a) = n
        /\ \A k \in 1 .. n : a[k] = Unit(i, HeadUnits + k, t)
    BY PayloadFacts
  <1>2. /\ b \in Seq(AllUnits) /\ Len(b) = n + 1
        /\ \A k \in 1 .. n + 1 : b[k] = Unit(i, HeadUnits + k, t)
    BY PayloadFacts
  <1>3. u \in AllUnits /\ u = Unit(i, HeadUnits + (n + 1), t)
    BY DEF Unit, AllUnits, HeadUnits
  <1>. HIDE DEF a, b, u
  <1>4. Append(a, u) \in Seq(AllUnits) /\ Len(Append(a, u)) = n + 1
    BY <1>1, <1>3
  <1>5. \A k \in 1 .. n + 1 : Append(a, u)[k] = b[k]
    BY <1>1, <1>2, <1>3
  <1>6. Append(a, u) = b
    BY <1>2, <1>4, <1>5
  <1>. QED
    BY <1>6 DEF a, b, u

\* What a path is when it has arrived.
LEMMA CopyFacts ==
  ASSUME NEW i \in Paths, NEW t \in Nat
  PROVE  /\ Copy(i, t) \in Nodes
         /\ Kind[i] = "DirectoryEntry" => Copy(i, t) = Dir
         /\ i \in Files => Copy(i, t) = Node("file", Payload(i, NoTarget, Length[i]), Mode[i])
         /\ i \in Links => Copy(i, t) = Node("link", Payload(i, t, t), "rw")
         /\ Kind[i] # "DirectoryEntry" => Copy(i, t).is \in {"file", "link", "other"}
         /\ Copy(i, t).is \in {"dir", "file", "link", "other"}
  <1>1. i \in Items /\ Length[i] \in Nat /\ NoTarget \in Nat
    BY Constants DEF Items, NoTarget
  <1>2. <<>> \in Seq(AllUnits)
    OBVIOUS
  <1>3. CASE Kind[i] = "DirectoryEntry"
    BY <1>2, <1>3 DEF Copy, Dir, Node, Nodes, Files, Links
  <1>4. CASE Kind[i] = "DirectoryFile"
    <2>1. Mode[i] \in {"rw", "ro"}
      BY <1>4, TreeAssumption DEF Files
    <2>2. Copy(i, t) = Node("file", Payload(i, NoTarget, Length[i]), Mode[i])
      BY <1>4 DEF Copy
    <2>3. Payload(i, NoTarget, Length[i]) \in Seq(AllUnits)
      BY <1>1, PayloadFacts
    <2>. QED
      BY <1>4, <2>1, <2>2, <2>3 DEF Node, Nodes, Files, Links
  <1>5. CASE Kind[i] = "DirectorySymlink"
    <2>1. Copy(i, t) = Node("link", Payload(i, t, t), "rw")
      BY <1>5 DEF Copy
    <2>2. Payload(i, t, t) \in Seq(AllUnits)
      BY <1>1, PayloadFacts
    <2>. QED
      BY <1>5, <2>1, <2>2 DEF Node, Nodes, Files, Links
  <1>6. CASE Kind[i] \in {"Other", "Socket"}
    <2>1. Copy(i, t) = Node("other", <<>>, "rw")
      BY <1>6 DEF Copy
    <2>. QED
      BY <1>2, <1>6, <2>1 DEF Node, Nodes, Files, Links
  <1>. QED
    BY <1>3, <1>4, <1>5, <1>6, TreeAssumption DEF Kinds

\* Something whole is there, and is a directory only at a directory's path.
LEMMA WholeIs ==
  ASSUME NEW i \in Paths, There(i)
  PROVE  /\ tree[i].is \in {"dir", "file", "link", "note", "other"}
         /\ Kind[i] # "DirectoryEntry" => tree[i].is \in {"file", "link", "note", "other"}
  <1>1. CASE i \in Links
    <2>1. PICK t \in Targets : tree[i] \in {Copy(i, t), [Copy(i, t) EXCEPT !.is = "note"]}
      BY <1>1 DEF There
    <2>2. t \in Nat
      BY Constants
    <2>3. Copy(i, t) = Node("link", Payload(i, t, t), "rw")
      BY <1>1, <2>2, CopyFacts
    <2>. QED
      BY <2>1, <2>3 DEF Node
  <1>2. CASE i \notin Links
    BY <1>2, CopyFacts DEF There, NoTarget
  <1>. QED
    BY <1>1, <1>2

\* Where no older link leads elsewhere, Whole means that.
LEMMA WholeIsThere ==
  ASSUME Straight, NEW i \in Paths
  PROVE  Whole(i) <=> There(i)
  BY DEF Whole, There, Straight

\* Older links stay where they are, and tar does not follow them.
LEMMA StraightStays ==
  /\ [Next]_vars => setup' = setup /\ (Straight' <=> Straight)
  /\ Single => Straight
  <1>1. ASSUME [Next]_vars PROVE setup' = setup
    <2>1. CASE StartSend \/ JoinSend \/ KillSender \/ JoinReceive \/ UNCHANGED vars
      BY <2>1 DEF StartSend, JoinSend, KillSender, JoinReceive, vars
    <2>2. ASSUME NEW s \in Streams, SendThread(s) \/ SendFail(s)
          PROVE  setup' = setup
      BY <2>2 DEF SendThread, Connect, Send, ReadLink, ReadFail, EndItem, CloseSend, SendFail,
                  SenderGoes, SenderFails
    <2>3. ASSUME NEW s \in Streams, ReceiveThread(s) \/ ReceiveError(s)
          PROVE  setup' = setup
      BY <2>3 DEF ReceiveThread, ReceiveError, Listen, Accept, TakeHeader, Eof, Prepare, TakeData,
                  CloseFile, CloseFileBadly, TakeText, MakeLink, MakeNoteBadly, Extract, ExtractorGone,
                  CloseExtractor, GoesBadly, ReceiverGoes, ReceiverFails
    <2>4. CASE \E i \in Links : ReplaceLink(i)
      BY <2>4 DEF ReplaceLink
    <2>. QED
      BY <1>1, <2>1, <2>2, <2>3, <2>4 DEF Next
  <1>2. setup' = setup => (Straight' <=> Straight)
    BY DEF Straight, Place, Single
  <1>3. Single => Straight
    BY DEF Straight, Place
  <1>. QED
    BY <1>1, <1>2, <1>3

LEMMA UntouchedIsNotWhole ==
  ASSUME NEW i \in Paths, Kind[i] # "DirectoryEntry", Untouched(i)
  PROVE  ~There(i)
  BY WholeIs DEF Untouched

-----------------------------------------------------------------------------
(***************************************************************************)
(* Steps that disturb nothing at a path: it stays, or a directory is made  *)
(* where there was nothing.                                                *)
(***************************************************************************)
Gentle(p) == tree'[p] = tree[p] \/ (tree[p] = Absent /\ tree'[p] = Dir)

LEMMA GentleKeeps ==
  ASSUME NEW p \in Paths, Gentle(p)
  PROVE  /\ There(p) => There(p)'
         /\ Untouched(p) => Untouched(p)'
         /\ tree[p].is = "file" => tree'[p] = tree[p]
         /\ tree'[p].is = "file" => tree[p].is = "file"
  <1>1. CASE tree'[p] = tree[p]
    BY <1>1 DEF There, Untouched
  <1>2. CASE tree[p] = Absent /\ tree'[p] = Dir
    <2>1. tree[p].is = "absent" /\ tree'[p].is = "dir"
      BY <1>2 DEF Absent, Dir, Node
    <2>2. ~There(p)
      BY <2>1, WholeIs
    <2>. QED
      BY <2>1, <2>2 DEF Untouched
  <1>. QED
    BY <1>1, <1>2 DEF Gentle

-----------------------------------------------------------------------------
(***************************************************************************)
(* What a step leaves alone.                                               *)
(***************************************************************************)
SenderStep(s)   == SendThread(s) \/ SendFail(s)
ReceiverStep(s) == ReceiveThread(s) \/ ReceiveError(s)

SameSender(t) == /\ spc'[t] = spc[t] /\ done'[t] = done[t] /\ sent'[t] = sent[t]
                 /\ target'[t] = target[t] /\ wire'[t] = wire[t]

SameReceiver(t) == rpc'[t] = rpc[t] /\ cur'[t] = cur[t] /\ buf'[t] = buf[t] /\ wire'[t] = wire[t]

LEMMA SenderFrame ==
  ASSUME TypeInv, NEW s \in Streams, SenderStep(s)
  PROVE  /\ UNCHANGED <<setup, smain, parts, links, recvVars>>
         /\ smain = "run" /\ s < setup.send /\ spc[s] \in {"start", "sending"}
         /\ \A t \in Streams \ {s} : SameSender(t)
  <1>1. spc[s] \in {"start", "sending"} /\ smain = "run" /\ s < setup.send
    BY DEF SenderStep, SendThread, Connect, Send, ReadLink, ReadFail, EndItem, CloseSend, SendFail,
           Busy, Running
  <1>2. UNCHANGED <<setup, smain, parts, links, recvVars>>
    BY DEF SenderStep, SendThread, Connect, Send, ReadLink, ReadFail, EndItem, CloseSend, SendFail,
           SenderGoes, SenderFails
  <1>3. \A t \in Streams \ {s} : spc'[t] = spc[t]
    BY DEF SenderStep, SendThread, Connect, Send, ReadLink, ReadFail, EndItem, CloseSend, SendFail,
           SenderGoes, SenderFails, TypeInv
  <1>4. \A t \in Streams \ {s} : done'[t] = done[t] /\ sent'[t] = sent[t]
    BY DEF SenderStep, SendThread, Connect, Send, ReadLink, ReadFail, EndItem, CloseSend, SendFail,
           SenderFails, TypeInv
  <1>5. \A t \in Streams \ {s} : target'[t] = target[t] /\ wire'[t] = wire[t]
    BY DEF SenderStep, SendThread, Connect, Send, ReadLink, ReadFail, EndItem, CloseSend, SendFail,
           SenderFails, TypeInv
  <1>. QED
    BY <1>1, <1>2, <1>3, <1>4, <1>5 DEF SameSender

LEMMA ReceiverFrame ==
  ASSUME TypeInv, NEW s \in Streams, ReceiverStep(s)
  PROVE  /\ UNCHANGED <<setup, sendVars, links>>
         /\ rmain = "run" /\ s < setup.recv /\ rpc[s] \notin {"done", "failed"}
         /\ rmain' \in {"run", "killed"}
         /\ \A t \in Streams \ {s} : SameReceiver(t)
  <1>1. rmain = "run" /\ s < setup.recv /\ rpc[s] \notin {"done", "failed"}
    BY DEF ReceiverStep, ReceiveThread, Listen, Accept, TakeHeader, Eof, Prepare, TakeData, CloseFile,
           CloseFileBadly, TakeText, MakeLink, MakeNoteBadly, Extract, ExtractorGone, CloseExtractor,
           ReceiveError, Step
  <1>2. CASE Listen(s) \/ Accept(s) \/ TakeHeader(s) \/ Eof(s) \/ ReceiveError(s)
    <2>1. UNCHANGED <<setup, sendVars, links, rmain>>
      BY <1>2 DEF Listen, Accept, TakeHeader, Eof, ReceiveError, ReceiverGoes, ReceiverFails
    <2>2. \A t \in Streams \ {s} : SameReceiver(t)
      BY <1>2 DEF Listen, Accept, TakeHeader, Eof, ReceiveError, ReceiverGoes, ReceiverFails,
                  Receives, SameReceiver, TypeInv
    <2>. QED
      BY <1>1, <2>1, <2>2
  <1>3. CASE Prepare(s) \/ TakeData(s) \/ CloseFile(s) \/ CloseFileBadly(s) \/ MakeNoteBadly(s)
    <2>1. UNCHANGED <<setup, sendVars, links, rmain>>
      BY <1>3 DEF Prepare, TakeData, CloseFile, CloseFileBadly, MakeNoteBadly, GoesBadly,
                  ReceiverGoes, ReceiverFails
    <2>2. \A t \in Streams \ {s} : SameReceiver(t)
      BY <1>3 DEF Prepare, TakeData, CloseFile, CloseFileBadly, MakeNoteBadly, GoesBadly,
                  ReceiverGoes, ReceiverFails, Receives, SameReceiver, TypeInv
    <2>. QED
      BY <1>1, <2>1, <2>2
  <1>4. CASE TakeText(s) \/ MakeLink(s) \/ Extract(s) \/ CloseExtractor(s)
    <2>1. UNCHANGED <<setup, sendVars, links, rmain>>
      BY <1>4 DEF TakeText, MakeLink, Extract, CloseExtractor, ReceiverGoes
    <2>2. \A t \in Streams \ {s} : SameReceiver(t)
      BY <1>4 DEF TakeText, MakeLink, Extract, CloseExtractor, ReceiverGoes,
                  Receives, SameReceiver, TypeInv
    <2>. QED
      BY <1>1, <2>1, <2>2
  <1>5. CASE ExtractorGone(s)
    BY <1>1, <1>5 DEF ExtractorGone, ReceiverGoes, SameReceiver, TypeInv
  <1>. QED
    BY <1>2, <1>3, <1>4, <1>5 DEF ReceiverStep, ReceiveThread

\* What a thread has read stays as it is while nothing is disturbed that its
\* stream carries.
LEMMA ReadKept ==
  ASSUME TypeInv, NEW t \in Streams, NEW log, NEW c, ReadInv(t, log, c), c > 0 => Fits(t, log[c]),
         UNCHANGED <<setup, parts, links>>, rpc'[t] = rpc[t], cur'[t] = cur[t], buf'[t] = buf[t],
         rpc[t] = "done" => AtEof(t)', lost => lost',
         Single => UNCHANGED <<tree, extractor>>,
         \A k \in 1 .. Len(parts[t]) : parts[t][k] \in Paths => Gentle(parts[t][k])
  PROVE  ReadInv(t, log, c)'
  <1>1. /\ \A e : (Carried(t, e) = Carried(t, e)') /\ (Ends(t, e) <=> Ends(t, e)')
        /\ \A e : Fits(t, e) => Fits(t, e)'
        /\ (Single <=> Single') /\ (LinkLostAnItem <=> LinkLostAnItem')
    BY DEF Carried, Ends, Fits, UnitsOf, Members, Archived, Single, LinkLostAnItem
  <1>3. c > 0 => log[c].k \in 1 .. Len(parts[t])
    BY DEF Fits
  <1>4. ASSUME NEW n, ClearFrom(t, n)
        PROVE  ClearFrom(t, n)'
    BY <1>4, GentleKeeps DEF ClearFrom
  <1>5. ASSUME NEW n \in Int, n <= Len(parts[t]), Got(t, n)
        PROVE  Got(t, n)'
    <2>1. Len(parts[t]) \in Nat
      BY DEF TypeInv
    <2>. QED
      BY <1>5, <2>1, GentleKeeps DEF Got
  <1>6. Reading(t, log, c)'
    <2>1. rpc[t] = "data" => c > 0 /\ tree'[cur[t]] = tree[cur[t]]
      <3>. SUFFICES ASSUME rpc[t] = "data" PROVE c > 0 /\ tree'[cur[t]] = tree[cur[t]]
        OBVIOUS
      <3>1. c > 0 /\ cur[t] = Carried(t, log[c]) /\ cur[t] \in Files /\ tree[cur[t]].is = "file"
        BY DEF ReadInv, Reading, Node
      <3>2. cur[t] \in Paths /\ Gentle(cur[t])
        BY <1>3, <3>1, Constants DEF Carried
      <3>. QED
        BY <3>1, <3>2, GentleKeeps
    <2>2. Reading(t, log, c)
      BY DEF ReadInv
    <2>3. \A e : TextRead(t, e) <=> TextRead(t, e)'
      BY <1>1 DEF TextRead
    <2>. QED
      BY <1>1, <2>1, <2>2, <2>3 DEF Reading, OnWire
  <1>7. ~Single => ClearFrom(t, Begun(t, log, c))'
    <2>1. Begun(t, log, c)' = Begun(t, log, c)
      BY DEF Begun
    <2>. QED
      BY <1>4, <2>1 DEF ReadInv, ClearFrom
  <1>8. ASSUME ~Single, ~lost', ~LinkLostAnItem
        PROVE  Progress(t, log, c)'
    <2>1. Progress(t, log, c)
      BY <1>8 DEF ReadInv
    <2>2. ASSUME rpc[t] \in {"make", "data", "text"}, NEW k \in 1 .. Len(parts[t]), parts[t][k] = cur[t]
          PROVE  Got(t, k - 1)'
      <3>1. Got(t, k - 1) /\ k - 1 \in Int /\ k - 1 <= Len(parts[t])
        BY <2>1, <2>2 DEF Progress, TypeInv
      <3>. QED
        BY <1>5, <3>1
    <2>3. ASSUME c > 0, rpc[t] = "header", buf[t] # <<>>, log[c].at = 1
          PROVE  Got(t, log[c].k - 1)'
      <3>1. Got(t, log[c].k - 1) /\ log[c].k - 1 \in Int /\ log[c].k - 1 <= Len(parts[t])
        BY <1>3, <2>1, <2>3 DEF Progress, TypeInv
      <3>. QED
        BY <1>5, <3>1
    <2>4. ASSUME c > 0, rpc[t] \in {"header", "done"}, buf[t] = <<>>, Ends(t, log[c])
          PROVE  Got(t, log[c].k)'
      <3>1. Got(t, log[c].k) /\ log[c].k \in Int /\ log[c].k <= Len(parts[t])
        BY <1>3, <2>1, <2>4 DEF Progress, TypeInv
      <3>. QED
        BY <1>5, <3>1
    <2>. QED
      BY <1>1, <2>2, <2>3, <2>4 DEF Progress
  <1>9. Single /\ t = 0 /\ setup.send = 1 => Extracted(log, c)'
    <2>. SUFFICES ASSUME Single, t = 0, setup.send = 1 PROVE Extracted(log, c)'
      OBVIOUS
    <2>1. Extracted(log, c) /\ tree' = tree /\ extractor' = extractor
      BY DEF ReadInv
    <2>. QED
      BY <2>1 DEF Extracted, Members, Archived, Had, There, Untouched
  <1>. QED
    BY <1>1, <1>6, <1>7, <1>8, <1>9 DEF ReadInv

\* What was sent, and what of it is on the wire, when neither changes.
LEMMA RecordKept ==
  ASSUME TypeInv, NEW t \in Streams, NEW log, NEW c, Recorded(t, log), c \in 0 .. Len(log),
         InFlight(t, log, c), UNCHANGED <<setup, parts, links>>, SameSender(t)
  PROVE  Recorded(t, log)' /\ InFlight(t, log, c)'
  <1>. USE DEF SameSender
  <1>1. /\ \A e : (Carried(t, e) = Carried(t, e)') /\ (Ends(t, e) <=> Ends(t, e)')
        /\ \A e : Fits(t, e) => Fits(t, e)'
    BY DEF Carried, Ends, Fits, UnitsOf, Members, Archived
  <1>. QED
    BY <1>1 DEF Recorded, Follows, Newest, InFlight, OnWire, Carried

\* A stream that takes no step.
LEMMA Bystander ==
  ASSUME TypeInv, NEW t \in Streams, NEW log, NEW c, StreamInv(t, log, c),
         UNCHANGED <<setup, parts, links>>, SameSender(t), SameReceiver(t),
         AtEof(t) => AtEof(t)', lost => lost',
         Single => UNCHANGED <<tree, extractor>>,
         \A k \in 1 .. Len(parts[t]) : parts[t][k] \in Paths => Gentle(parts[t][k])
  PROVE  StreamInv(t, log, c)'
  <1>1. Recorded(t, log)' /\ InFlight(t, log, c)' /\ c \in 0 .. Len(log)
    BY RecordKept DEF StreamInv
  <1>2. c > 0 => Fits(t, log[c])
    BY DEF StreamInv, Recorded
  <1>3. rpc[t] = "done" => AtEof(t)'
    BY DEF StreamInv, ReadInv, Reading
  <1>4. ReadInv(t, log, c)'
    BY <1>2, <1>3, ReadKept DEF StreamInv, SameReceiver
  <1>. QED
    BY <1>1, <1>4 DEF StreamInv

-----------------------------------------------------------------------------
(***************************************************************************)
(* The initial states.                                                     *)
(***************************************************************************)
\* What was there before is no work of the receiver's.
LEMMA OldTree ==
  ASSUME NEW leads, NEW t \in OldTrees(leads)
  PROVE  /\ t \in [Paths -> Nodes]
         /\ \A i \in Paths : t[i].is \in {"absent", "dir", "old"} /\ t[i].data = <<>>
  <1>. DEFINE Left == { n \in Nodes : n.is \in {"absent", "dir", "old"} /\ n.data = <<>> }
  <1>1. {Absent, Dir, OldFile("rw"), OldFile("ro")} \subseteq Left
    <2>1. <<>> \in Seq(AllUnits)
      OBVIOUS
    <2>. QED
      BY <2>1 DEF Absent, Dir, OldFile, Node, Nodes
  <1>2. ASSUME NEW i \in Paths
        PROVE  Leftovers(i) \subseteq Left
    <2>. HIDE DEF Left
    <2>1. Leftovers(i) \subseteq {Absent, Dir, OldFile("rw"), OldFile("ro")}
      BY TreeAssumption DEF Leftovers, Kinds
    <2>. QED
      BY <1>1, <2>1
  <1>3. DOMAIN t = Paths /\ t = [i \in Paths |-> t[i]] /\ \A i \in Paths : t[i] \in Leftovers(i)
    BY DEF OldTrees
  <1>4. \A i \in Paths : t[i] \in Left
    <2>. HIDE DEF Left
    <2>. QED
      BY <1>2, <1>3
  <1>. QED
    BY <1>3, <1>4

LEMMA InitInv == Init => IInv
  <1>. SUFFICES ASSUME Init PROVE IInv
    OBVIOUS
  <1>1. setup \in Setups /\ tree \in OldTrees(setup.leads)
    BY DEF Init
  <1>2. tree \in [Paths -> Nodes] /\ \A i \in Paths : Untouched(i) /\ tree[i].data = <<>>
    BY <1>1, OldTree DEF Untouched
  <1>3. TypeInv
    <2>1. /\ parts \in [Streams -> Seq(Items)] /\ wire \in [Streams -> Seq(AllUnits)]
          /\ buf \in [Streams -> Seq(AllUnits)]
      BY DEF Init
    <2>2. links \in [Links -> Nat]
      BY Constants DEF Init
    <2>3. /\ done \in [Streams -> Nat] /\ sent \in [Streams -> Nat] /\ target \in [Streams -> Nat]
          /\ cur \in [Streams -> Items]
          /\ spc \in [Streams -> SendPcs] /\ rpc \in [Streams -> RecvPcs]
      BY DEF Init, NoTarget, Items, SendPcs, RecvPcs
    <2>. QED
      BY <1>1, <1>2, <2>1, <2>2, <2>3 DEF Init, TypeInv
  <1>4. \A s \in Streams : Len(parts[s]) = 0 /\ Len(wire[s]) = 0 /\ parts[s] = <<>>
    BY DEF Init
  <1>5. LinkInv /\ PartsInv
    BY <1>4 DEF Init, LinkInv, PartsInv
  <1>6. MainInv
    BY <1>2 DEF Init, MainInv
  <1>7. FileInv
    <2>. SUFFICES ASSUME NEW i \in Files PROVE FileAt(i)
      BY DEF FileInv
    <2>1. Untouched(i) /\ tree[i].data = <<>> /\ Length[i] \in Nat
      BY <1>2, Constants
    <2>2. Len(tree[i].data) = 0
      BY <2>1
    <2>. QED
      BY <2>1, <2>2 DEF FileAt, Untouched
  <1>8. ASSUME NEW s \in Streams
        PROVE  SendAt(s) /\ \E log \in Seq(Entries), c \in Nat : StreamInv(s, log, c)
    <2>0. Window \in Nat
      BY SetupAssumption
    <2>1. SendAt(s)
      BY <1>4, <2>0 DEF Init, SendAt
    <2>. DEFINE log == <<>>
    <2>2. log \in Seq(Entries) /\ Len(log) = 0 /\ wire[s] = <<>> /\ buf[s] = <<>> /\ rpc[s] = "start"
      BY DEF Init
    <2>. HIDE DEF log
    <2>3. Recorded(s, log)
      BY <2>2 DEF Recorded, Init, log
    <2>4. InFlight(s, log, 0) /\ 0 \in 0 .. Len(log)
      BY <1>4, <2>2 DEF InFlight
    <2>5. Reading(s, log, 0)
      BY <2>2 DEF Reading
    <2>6. ClearFrom(s, Begun(s, log, 0)) /\ Progress(s, log, 0)
      BY <1>4, <2>2 DEF ClearFrom, Progress
    <2>7. Extracted(log, 0)
      <3>1. Members \in Seq(Paths) /\ Len(Members) \in Nat
        BY <1>1, MembersFacts
      <3>2. rpc[0] = "start"
        BY <1>1, SetupFacts DEF Init
      <3>. QED
        BY <1>2, <3>1, <3>2 DEF Extracted, Had
    <2>8. StreamInv(s, log, 0)
      BY <2>3, <2>4, <2>5, <2>6, <2>7 DEF StreamInv, ReadInv
    <2>9. 0 \in Nat
      OBVIOUS
    <2>10. \E l \in Seq(Entries), c \in Nat : StreamInv(s, l, c)
      BY <2>2, <2>8, <2>9, Zenon
    <2>. QED
      BY <2>1, <2>10
  <1>. QED
    BY <1>3, <1>5, <1>6, <1>7, <1>8 DEF IInv

-----------------------------------------------------------------------------
(***************************************************************************)
(* A stream as its invariant describes it.                                 *)
(***************************************************************************)
LEMMA LogFacts ==
  ASSUME TypeInv, NEW s \in Streams, NEW log, NEW c, StreamInv(s, log, c)
  PROVE  /\ log \in Seq(Entries) /\ Len(log) \in Nat /\ c \in 0 .. Len(log) /\ Len(parts[s]) \in Nat
         /\ \A j \in 1 .. Len(log) : /\ Fits(s, log[j]) /\ log[j] \in Entries
                                     /\ log[j].k \in 1 .. Len(parts[s])
                                     /\ Carried(s, log[j]) \in Items
         /\ \A j \in 1 .. Len(log) : j + 1 \in 1 .. Len(log) => Follows(s, log[j], log[j + 1])
         /\ Len(log) > 0 => log[1] = Entry(1, 1, NoTarget)
         /\ wire[s] = <<>> <=> c = Len(log)
  <1>1. log \in Seq(Entries) /\ Len(log) \in Nat /\ c \in 0 .. Len(log) /\ Len(parts[s]) \in Nat
    BY DEF StreamInv, Recorded, TypeInv
  <1>2. \A j \in 1 .. Len(log) : /\ Fits(s, log[j]) /\ log[j] \in Entries
                                 /\ log[j].k \in 1 .. Len(parts[s])
                                 /\ Carried(s, log[j]) \in Items
    <2>. SUFFICES ASSUME NEW j \in 1 .. Len(log)
                  PROVE  /\ Fits(s, log[j]) /\ log[j] \in Entries
                         /\ log[j].k \in 1 .. Len(parts[s]) /\ Carried(s, log[j]) \in Items
      OBVIOUS
    <2>1. Fits(s, log[j]) /\ log[j] \in Entries
      BY <1>1 DEF StreamInv, Recorded
    <2>2. log[j].k \in 1 .. Len(parts[s]) /\ parts[s] \in Seq(Items)
      BY <2>1 DEF Fits, TypeInv
    <2>. QED
      BY <2>1, <2>2 DEF Carried
  <1>3. \A j \in 1 .. Len(log) : j + 1 \in 1 .. Len(log) => Follows(s, log[j], log[j + 1])
    <2>. SUFFICES ASSUME NEW j \in 1 .. Len(log), j + 1 \in 1 .. Len(log)
                  PROVE  Follows(s, log[j], log[j + 1])
      OBVIOUS
    <2>1. j \in 1 .. Len(log) - 1
      BY <1>1
    <2>. QED
      BY <2>1 DEF StreamInv, Recorded
  <1>4. Len(log) > 0 => log[1] = Entry(1, 1, NoTarget)
    BY <1>1 DEF StreamInv, Recorded
  <1>5. wire[s] = <<>> <=> c = Len(log)
    <2>1. wire[s] \in Seq(AllUnits) /\ Len(wire[s]) = Len(log) - c
      BY DEF TypeInv, StreamInv, InFlight
    <2>. QED
      BY <1>1, <2>1
  <1>. QED
    BY <1>1, <1>2, <1>3, <1>4, <1>5

\* The next unit is taken off the wire.
LEMMA TakeOne ==
  ASSUME TypeInv, NEW s \in Streams, NEW log, NEW c, StreamInv(s, log, c), Receives(s),
         parts' = parts
  PROVE  /\ c + 1 \in 1 .. Len(log) /\ c + 1 \in 0 .. Len(log)
         /\ Head(wire[s]) = OnWire(s, log[c + 1]) /\ Head(wire[s]) \in AllUnits
         /\ wire' \in [Streams -> Seq(AllUnits)] /\ Len(wire'[s]) = Len(wire[s]) - 1
         /\ InFlight(s, log, c + 1)'
  <1>1. /\ wire[s] \in Seq(AllUnits) /\ wire[s] # <<>> /\ wire' = [wire EXCEPT ![s] = Tail(wire[s])]
        /\ Len(wire[s]) = Len(log) - c /\ Len(log) \in Nat /\ c \in 0 .. Len(log)
        /\ \A j \in 1 .. Len(wire[s]) : wire[s][j] = OnWire(s, log[c + j])
    BY LogFacts DEF TypeInv, Receives, StreamInv, InFlight
  <1>2. c + 1 \in 1 .. Len(log) /\ c + 1 \in 0 .. Len(log) /\ Len(wire[s]) \in Nat /\ Len(wire[s]) > 0
    BY <1>1
  <1>3. Head(wire[s]) = OnWire(s, log[c + 1]) /\ Head(wire[s]) \in AllUnits
    BY <1>1, <1>2
  <1>4. /\ wire'[s] = Tail(wire[s]) /\ wire' \in [Streams -> Seq(AllUnits)]
        /\ Len(wire'[s]) = Len(wire[s]) - 1
        /\ \A j \in 1 .. Len(wire'[s]) : wire'[s][j] = wire[s][j + 1]
    BY <1>1, <1>2 DEF TypeInv
  <1>5. InFlight(s, log, c + 1)'
    <2>1. Len(wire'[s]) = Len(log) - (c + 1)
      BY <1>1, <1>2, <1>4
    <2>2. ASSUME NEW j \in 1 .. Len(wire'[s])
          PROVE  wire'[s][j] = OnWire(s, log[c + 1 + j])
      <3>1. j + 1 \in 1 .. Len(wire[s]) /\ c + (j + 1) = c + 1 + j
        BY <1>1, <1>2, <1>4
      <3>. QED
        BY <1>1, <1>4, <3>1
    <2>. QED
      BY <2>1, <2>2 DEF InFlight, OnWire, Carried
  <1>. QED
    BY <1>2, <1>3, <1>4, <1>5

LEMMA InvParts ==
  ASSUME IInv
  PROVE  /\ TypeInv /\ LinkInv /\ PartsInv /\ MainInv /\ FileInv
         /\ \A s \in Streams : SendAt(s)
         /\ \A s \in Streams : \E log \in Seq(Entries), c \in Nat : StreamInv(s, log, c)
  BY DEF IInv

\* An item that a thread is at work on is one of its stream's.
LEMMA AtWork ==
  ASSUME IInv, NEW s \in Streams, rpc[s] \in {"make", "data", "text"}
  PROVE  /\ ~Single /\ cur[s] \in Paths
         /\ rpc[s] = "data" => cur[s] \in Files
         /\ rpc[s] = "text" => cur[s] \in Links
         /\ \E k \in 1 .. Len(parts[s]) : parts[s][k] = cur[s]
         /\ setup.send > 1 /\ smain # "start"
         /\ Kind[cur[s]] \notin {"Other", "Socket"}
  <1>1. TypeInv /\ PartsInv /\ SendAt(s)
    BY InvParts
  <1>2. PICK log \in Seq(Entries), c \in Nat : StreamInv(s, log, c)
    BY InvParts
  <1>3. Reading(s, log, c)
    BY <1>2 DEF StreamInv, ReadInv
  <1>4. /\ ~Single /\ cur[s] \in Paths
        /\ rpc[s] = "data" => cur[s] \in Files
        /\ rpc[s] = "text" => cur[s] \in Links
    BY <1>1, <1>3, Constants DEF Reading, SendAt
  <1>5. PICK k \in 1 .. Len(parts[s]) : parts[s][k] = cur[s]
    <2>1. c \in 1 .. Len(log)
      BY <1>1, <1>2, <1>3, LogFacts DEF Reading
    <2>2. log[c].k \in 1 .. Len(parts[s]) /\ Len(parts[s]) \in Nat
      BY <1>1, <1>2, <2>1, LogFacts
    <2>3. PICK k \in 1 .. log[c].k : parts[s][k] = cur[s]
      BY <1>3 DEF Reading
    <2>. QED
      BY <2>2, <2>3
  <1>6. setup.send > 1 /\ smain # "start"
    <2>1. setup.send \in Nat \ {0}
      BY <1>1, SetupFacts DEF TypeInv
    <2>2. parts[s] # <<>>
      BY <1>5
    <2>3. cur[s] # Archive
      BY <1>4, Constants
    <2>. QED
      BY <1>1, <1>5, <2>1, <2>2, <2>3 DEF PartsInv
  <1>7. cur[s] \in collect_directory_items
    BY <1>1, <1>5, <1>6 DEF PartsInv
  <1>. QED
    BY <1>4, <1>5, <1>6, <1>7 DEF collect_directory_items

\* No two threads are at work on one item.
LEMMA OneAtWork ==
  ASSUME IInv, NEW s \in Streams, rpc[s] \in {"make", "data", "text"},
         NEW t \in Streams, t # s
  PROVE  /\ \A k \in 1 .. Len(parts[t]) : parts[t][k] # cur[s]
         /\ rpc[t] \in {"make", "data", "text"} => cur[t] # cur[s]
  <1>1. PICK k \in 1 .. Len(parts[s]) : parts[s][k] = cur[s]
    BY AtWork
  <1>2. \A j \in 1 .. Len(parts[t]) : parts[t][j] # cur[s]
    BY <1>1, InvParts DEF PartsInv
  <1>. QED
    BY <1>2, AtWork

\* The next unit of the archive, for tar.
LEMMA ArchiveUnit ==
  ASSUME IInv, NEW s \in Streams, NEW log, NEW c, StreamInv(s, log, c), Step(s, "extract"),
         c + 1 \in 1 .. Len(log), Carried(s, log[c + 1]) = Archive
  PROVE  /\ Single /\ s = 0 /\ setup.send = 1 /\ c \in 1 .. Len(log)
         /\ log[c].at \in Nat /\ log[c].at >= HeadUnits
         /\ log[c + 1].at = log[c].at + 1
         /\ log[c + 1].at <= HeadUnits + 2 * Len(Members)
         /\ (log[c + 1].at - HeadUnits) % 2 = 0 =>
              /\ (log[c + 1].at - HeadUnits) \div 2 \in 1 .. Len(Members)
              /\ Had(log, c + 1) = Had(log, c) + 1
         /\ (log[c + 1].at - HeadUnits) % 2 # 0 => Had(log, c + 1) = Had(log, c)
  <1>1. TypeInv /\ PartsInv /\ SendAt(s) /\ setup \in Setups /\ Len(Members) \in Nat
    BY InvParts, MembersFacts DEF TypeInv
  <1>2. /\ log \in Seq(Entries) /\ Len(log) \in Nat /\ c \in 0 .. Len(log) /\ Len(parts[s]) \in Nat
        /\ \A j \in 1 .. Len(log) : /\ Fits(s, log[j]) /\ log[j] \in Entries
                                    /\ log[j].k \in 1 .. Len(parts[s])
    BY <1>1, LogFacts
  <1>3. /\ setup.send = 1 /\ setup.send \in Nat /\ setup.recv \in Nat
        /\ \A k \in 1 .. Len(parts[s]) : k = 1 /\ parts[s][k] = Archive
    <2>1. /\ setup.send \in Nat \ {0} /\ setup.recv \in Nat
          /\ parts[s][log[c + 1].k] = Archive /\ log[c + 1].k \in 1 .. Len(parts[s])
      BY <1>1, <1>2, SetupFacts DEF Carried
    <2>2. Archive \notin collect_directory_items
      BY Constants DEF collect_directory_items
    <2>. QED
      BY <1>1, <2>1, <2>2 DEF PartsInv
  <1>4. Single /\ s = 0 /\ rpc[s] = "extract"
    BY <1>1, <1>3, SetupFacts DEF Step, SendAt, Single, Streams
  <1>5. c \in 1 .. Len(log) /\ log[c].at >= HeadUnits
    BY <1>2, <1>3, <1>4 DEF StreamInv, ReadInv, Reading, Extracted
  <1>6. Follows(s, log[c], log[c + 1]) /\ log[c].k = 1 /\ log[c + 1].k = 1 /\ log[c].k + 1 = 2
    BY <1>1, <1>2, <1>3, <1>5, LogFacts
  <1>7. ~Ends(s, log[c])
    BY <1>6 DEF Follows, Entry
  <1>8. log[c].at \in Nat /\ log[c + 1].at = log[c].at + 1
    BY <1>2, <1>5, <1>6, <1>7 DEF Follows, Entries
  <1>9. log[c + 1].at <= HeadUnits + 2 * Len(Members)
    <2>1. log[c + 1].at > HeadUnits /\ Fits(s, log[c + 1])
      BY <1>2, <1>5, <1>8 DEF HeadUnits
    <2>. QED
      BY <2>1 DEF Fits, UnitsOf
  <1>. DEFINE a == log[c].at
              n == Len(Members)
  <1>10. a \in Nat /\ n \in Nat /\ a >= 2 /\ a + 1 <= 2 + 2 * n
    BY <1>1, <1>5, <1>8, <1>9 DEF HeadUnits
  <1>11. /\ Had(log, c) = (a - 2) \div 2 /\ Had(log, c + 1) = (a + 1 - 2) \div 2
         /\ log[c + 1].at - HeadUnits = a + 1 - 2
    <2>1. c # 0 /\ c + 1 # 0 /\ HeadUnits = 2
      BY <1>2, <1>5 DEF HeadUnits
    <2>2. Had(log, c) = (log[c].at - 2) \div 2 /\ Had(log, c + 1) = (log[c + 1].at - 2) \div 2
      BY <2>1 DEF Had
    <2>. QED
      BY <1>8, <2>1, <2>2
  <1>. HIDE DEF a, n
  <1>12. /\ (a + 1 - 2) % 2 = 0 => (a + 1 - 2) \div 2 \in 1 .. n /\ (a + 1 - 2) \div 2 = (a - 2) \div 2 + 1
         /\ (a + 1 - 2) % 2 # 0 => (a + 1 - 2) \div 2 = (a - 2) \div 2
    BY <1>10
  <1>. QED
    BY <1>3, <1>4, <1>5, <1>8, <1>9, <1>11, <1>12 DEF a, n

-----------------------------------------------------------------------------
(***************************************************************************)
(* The sender's threads.                                                   *)
(***************************************************************************)
LEMMA PayloadUnitsOf ==
  ASSUME NEW s, Item(s) # Archive \/ Item(s) \notin Links
  PROVE  PayloadUnits(s) = UnitsOf(Item(s), target[s])
  BY DEF PayloadUnits, UnitsOf

LEMMA BusyFacts ==
  ASSUME TypeInv, NEW s \in Streams, Busy(s)
  PROVE  /\ done[s] \in Nat /\ sent[s] \in Nat /\ target[s] \in Nat /\ Len(parts[s]) \in Nat
         /\ done[s] + 1 \in 1 .. Len(parts[s]) /\ Item(s) \in Items
         /\ PayloadUnits(s) = UnitsOf(Item(s), target[s]) /\ PayloadUnits(s) \in Nat
         /\ \A e : e.k = done[s] + 1 => Carried(s, e) = Item(s)
  <1>1. done[s] \in Nat /\ sent[s] \in Nat /\ target[s] \in Nat /\ parts[s] \in Seq(Items)
    BY DEF TypeInv
  <1>2. done[s] + 1 \in 1 .. Len(parts[s]) /\ Item(s) \in Items /\ Len(parts[s]) \in Nat
    BY <1>1 DEF Busy, Item
  <1>3. PayloadUnits(s) = UnitsOf(Item(s), target[s])
    BY Constants, PayloadUnitsOf
  <1>4. UnitsOf(Item(s), target[s]) \in Nat
    <2>1. Len(Members) \in Nat
      BY MembersFacts DEF TypeInv
    <2>. QED
      <3>1. Item(s) # Archive => Length[Item(s)] \in Nat
        BY <1>2, Constants DEF Items
      <3>2. 2 * Len(Members) \in Nat
        BY <2>1
      <3>. QED
        BY <1>1, <3>1, <3>2 DEF UnitsOf
  <1>. QED
    BY <1>1, <1>2, <1>3, <1>4 DEF Carried, Item

\* The unit that Send puts on the wire.
LEMMA NextUnit ==
  ASSUME IInv, NEW s \in Streams, Send(s), NEW log, NEW c, StreamInv(s, log, c)
  PROVE  \E e \in Entries :
           /\ Fits(s, e) /\ e.k = done[s] + 1 /\ e.at = sent[s] + 1
           /\ e.target = IF sent[s] < HeadUnits THEN NoTarget ELSE target[s]
           /\ IF log = <<>> THEN e = Entry(1, 1, NoTarget) ELSE Follows(s, log[Len(log)], e)
           /\ wire' = [wire EXCEPT ![s] = Append(wire[s], OnWire(s, e))]
  <1>1. TypeInv /\ LinkInv /\ Busy(s)
    BY InvParts DEF Send
  <1>2. /\ done[s] \in Nat /\ sent[s] \in Nat /\ target[s] \in Nat /\ Len(parts[s]) \in Nat
        /\ done[s] + 1 \in 1 .. Len(parts[s]) /\ Item(s) \in Items
        /\ PayloadUnits(s) = UnitsOf(Item(s), target[s]) /\ PayloadUnits(s) \in Nat
        /\ \A e : e.k = done[s] + 1 => Carried(s, e) = Item(s)
    BY <1>1, BusyFacts
  <1>. DEFINE t == IF sent[s] < HeadUnits THEN NoTarget ELSE target[s]
              e == Entry(done[s] + 1, sent[s] + 1, t)
  <1>3. e \in Entries /\ e.k = done[s] + 1 /\ e.at = sent[s] + 1 /\ e.target = t /\ Carried(s, e) = Item(s)
    BY <1>2 DEF Entry, Entries, NoTarget
  <1>. HIDE DEF e
  <1>4. wire' = [wire EXCEPT ![s] = Append(wire[s], OnWire(s, e))]
    BY <1>3 DEF Send, OnWire
  <1>5. sent[s] >= HeadUnits => (Item(s) \in Links => target[s] # NoTarget) /\ sent[s] < HeadUnits + PayloadUnits(s)
    BY DEF Send, Unread
  <1>6. target[s] # NoTarget => Item(s) \in Links /\ target[s] \in {Length[Item(s)], links[Item(s)]}
    BY <1>1 DEF LinkInv
  <1>7. Fits(s, e)
    <2>1. CASE sent[s] < HeadUnits
      BY <1>2, <1>3, <2>1 DEF Fits, HeadUnits
    <2>2. CASE sent[s] >= HeadUnits
      <3>1. t = target[s] /\ sent[s] + 1 <= HeadUnits + UnitsOf(Item(s), target[s]) /\ sent[s] + 1 > HeadUnits
        BY <1>2, <1>5, <2>2 DEF HeadUnits
      <3>2. IF Item(s) \in Links THEN target[s] \in {Length[Item(s)], links[Item(s)]}
            ELSE target[s] = NoTarget
        BY <1>5, <1>6, <2>2
      <3>. HIDE DEF t
      <3>. QED
        BY <1>2, <1>3, <3>1, <3>2 DEF Fits, HeadUnits
    <2>. QED
      BY <1>2, <2>1, <2>2 DEF HeadUnits
  <1>8. IF log = <<>> THEN e = Entry(1, 1, NoTarget) ELSE Follows(s, log[Len(log)], e)
    <2>1. CASE log = <<>>
      <3>1. done[s] = 0 /\ sent[s] = 0
        BY <2>1 DEF StreamInv, Recorded
      <3>. QED
        BY <2>1, <3>1 DEF HeadUnits, e
    <2>2. CASE log # <<>>
      <3>. DEFINE f == log[Len(log)]
      <3>1. Newest(s, f) /\ f \in Entries /\ Fits(s, f)
        BY <2>2 DEF StreamInv, Recorded
      <3>. HIDE DEF f
      <3>2. CASE sent[s] = 0
        <4>1. Ends(s, f) /\ f.k = done[s]
          BY <3>1, <3>2 DEF Newest
        <4>2. e = Entry(f.k + 1, 1, NoTarget)
          BY <3>2, <4>1 DEF e, HeadUnits
        <4>3. Follows(s, f, e)
          BY <4>1, <4>2 DEF Follows
        <4>. QED
          BY <2>2, <4>3 DEF f
      <3>3. CASE sent[s] # 0
        <4>1. f.k = done[s] + 1 /\ f.at = sent[s] /\ (sent[s] > HeadUnits => f.target = target[s])
          BY <3>1, <3>3 DEF Newest
        <4>2. Carried(s, f) = Item(s)
          BY <1>2, <4>1
        <4>3. ~Ends(s, f)
          <5>. SUFFICES ASSUME Ends(s, f) PROVE FALSE
            OBVIOUS
          <5>1. /\ sent[s] >= HeadUnits /\ sent[s] = HeadUnits + UnitsOf(Item(s), f.target)
                /\ Item(s) \in Links => f.target # NoTarget
            BY <4>1, <4>2 DEF Ends
          <5>2. sent[s] < HeadUnits + UnitsOf(Item(s), target[s])
            BY <1>2, <1>5, <5>1
          <5>3. sent[s] = HeadUnits /\ Item(s) \in Links => f.target = NoTarget
            BY <3>1, <4>1 DEF Fits, HeadUnits
          <5>4. CASE sent[s] > HeadUnits
            BY <1>2, <4>1, <5>1, <5>2, <5>4
          <5>5. CASE sent[s] = HeadUnits
            <6>1. Item(s) \notin Links
              BY <5>1, <5>3, <5>5
            <6>2. UnitsOf(Item(s), f.target) = UnitsOf(Item(s), target[s])
              BY <6>1 DEF UnitsOf
            <6>. QED
              BY <1>2, <5>1, <5>2, <6>2
          <5>. QED
            BY <1>2, <5>1, <5>4, <5>5 DEF HeadUnits
        <4>4. f.at > HeadUnits => e.target = f.target
          BY <1>2, <1>3, <4>1 DEF HeadUnits
        <4>5. Follows(s, f, e)
          BY <1>3, <4>1, <4>3, <4>4 DEF Follows
        <4>. QED
          BY <2>2, <4>5 DEF f
      <3>. QED
        BY <3>2, <3>3
    <2>. QED
      BY <2>1, <2>2
  <1>. QED
    BY <1>3, <1>4, <1>7, <1>8

\* Only the last entry that was read matters.
LEMMA ReadSame ==
  ASSUME NEW s, NEW log, NEW more, NEW c, ReadInv(s, log, c), c # 0 => more[c] = log[c],
         rpc[s] \in {"make", "data", "text", "extract"} => c # 0, c > 0 => c # 0,
         Single /\ s = 0 /\ rpc[0] = "extract" => c # 0
  PROVE  ReadInv(s, more, c)
  <1>1. Reading(s, more, c)
    <2>1. Reading(s, log, c)
      BY DEF ReadInv
    <2>. QED
      BY <2>1 DEF Reading
  <1>2. Begun(s, more, c) = Begun(s, log, c) /\ Had(more, c) = Had(log, c)
    BY DEF Begun, Had
  <1>3. Progress(s, log, c) => Progress(s, more, c)
    BY DEF Progress
  <1>4. Single /\ s = 0 /\ Extracted(log, c) => Extracted(more, c)
    BY <1>2 DEF Extracted
  <1>. QED
    BY <1>1, <1>2, <1>3, <1>4 DEF ReadInv

LEMMA SenderOwn ==
  ASSUME IInv, NEW s \in Streams, SenderStep(s)
  PROVE  \E log \in Seq(Entries), c \in Nat : StreamInv(s, log, c)'
  <1>1. TypeInv /\ LinkInv /\ SendAt(s)
    BY InvParts
  <1>2. /\ UNCHANGED <<setup, smain, parts, links, recvVars>>
        /\ smain = "run" /\ spc[s] \in {"start", "sending"}
    BY <1>1, SenderFrame
  <1>3. PICK log \in Seq(Entries), c \in Nat : StreamInv(s, log, c)
    BY InvParts
  <1>4. /\ Len(log) \in Nat /\ c \in 0 .. Len(log)
        /\ \A j \in 1 .. Len(log) : Fits(s, log[j])
    BY <1>1, <1>3, LogFacts
  <1>5. rpc[s] # "done"
    BY <1>2, <1>3 DEF StreamInv, ReadInv, Reading, AtEof, SenderEnded
  <1>6. /\ \A e : (Carried(s, e) = Carried(s, e)') /\ (Ends(s, e) <=> Ends(s, e)')
        /\ \A e : Fits(s, e) => Fits(s, e)'
        /\ \A e, f : Follows(s, e, f) => Follows(s, e, f)'
    BY <1>2 DEF Carried, Ends, Fits, UnitsOf, Members, Archived, Follows
  <1>7. ASSUME NEW l, ReadInv(s, l, c), c > 0 => Fits(s, l[c])
        PROVE  ReadInv(s, l, c)'
    <2>1. /\ rpc'[s] = rpc[s] /\ cur'[s] = cur[s] /\ buf'[s] = buf[s] /\ lost' = lost
          /\ tree' = tree /\ extractor' = extractor
      BY <1>2 DEF recvVars
    <2>2. \A p : Gentle(p)
      BY <2>1 DEF Gentle
    <2>. QED
      BY <1>1, <1>2, <1>5, <1>7, <2>1, <2>2, ReadKept
  <1>8. CASE Send(s)
    <2>1. PICK e \in Entries :
           /\ Fits(s, e) /\ e.k = done[s] + 1 /\ e.at = sent[s] + 1
           /\ e.target = IF sent[s] < HeadUnits THEN NoTarget ELSE target[s]
           /\ IF log = <<>> THEN e = Entry(1, 1, NoTarget) ELSE Follows(s, log[Len(log)], e)
           /\ wire' = [wire EXCEPT ![s] = Append(wire[s], OnWire(s, e))]
      BY <1>3, <1>8, NextUnit
    <2>. DEFINE more == Append(log, e)
    <2>2. /\ more \in Seq(Entries) /\ Len(more) = Len(log) + 1 /\ more[Len(log) + 1] = e
          /\ \A j \in 1 .. Len(log) : more[j] = log[j]
          /\ more # <<>>
      <3>1. more \in Seq(Entries) /\ Len(more) = Len(log) + 1
        BY <1>3, <1>4
      <3>2. more[Len(log) + 1] = e /\ \A j \in 1 .. Len(log) : more[j] = log[j]
        BY <1>3, <1>4
      <3>. HIDE DEF more
      <3>3. more # <<>>
        BY <1>4, <3>1
      <3>. QED
        BY <3>1, <3>2, <3>3
    <2>. HIDE DEF more
    <2>3. /\ sent' = [sent EXCEPT ![s] = sent[s] + 1] /\ done' = done /\ target' = target
          /\ sent'[s] = sent[s] + 1 /\ sent[s] \in Nat
      BY <1>1, <1>8 DEF Send, TypeInv
    <2>4. Recorded(s, more)'
      <3>1. \A j \in 1 .. Len(more) : Fits(s, more[j])'
        <4>1. \A j \in 1 .. Len(more) : j \in 1 .. Len(log) \/ j = Len(log) + 1
          BY <1>4, <2>2
        <4>. QED
          BY <1>4, <1>6, <2>1, <2>2, <4>1
      <3>2. ASSUME NEW j \in 1 .. Len(more) - 1
            PROVE  Follows(s, more[j], more[j + 1])'
        <4>1. j \in 1 .. Len(log) /\ j + 1 \in 1 .. Len(more) /\ log # <<>>
          BY <1>3, <1>4, <2>2
        <4>2. CASE j = Len(log)
          <5>1. more[j] = log[Len(log)] /\ more[j + 1] = e
            BY <2>2, <4>1, <4>2
          <5>2. Follows(s, log[Len(log)], e)
            BY <2>1, <4>1
          <5>. QED
            BY <1>6, <5>1, <5>2
        <4>3. CASE j # Len(log)
          <5>1. j + 1 \in 1 .. Len(log) /\ more[j] = log[j] /\ more[j + 1] = log[j + 1]
            BY <1>4, <2>2, <4>1, <4>3
          <5>2. Follows(s, log[j], log[j + 1])
            BY <1>1, <1>3, <4>1, <5>1, LogFacts
          <5>. QED
            BY <1>6, <5>1, <5>2
        <4>. QED
          BY <4>2, <4>3
      <3>3. more[1] = Entry(1, 1, NoTarget)
        <4>1. CASE log = <<>>
          <5>1. Len(log) = 0
            BY <4>1
          <5>. QED
            BY <2>1, <2>2, <4>1, <5>1
        <4>2. CASE log # <<>>
          <5>1. 1 \in 1 .. Len(log) /\ Len(log) > 0
            BY <1>3, <1>4, <4>2
          <5>. QED
            BY <1>1, <1>3, <2>2, <5>1, LogFacts
        <4>. QED
          BY <4>1, <4>2
      <3>4. Newest(s, more[Len(more)])'
        <4>1. sent'[s] # 0 /\ more[Len(more)] = e
          BY <2>2, <2>3
        <4>2. sent'[s] > HeadUnits => e.target = target'[s]
          BY <2>1, <2>3 DEF HeadUnits
        <4>. QED
          BY <2>1, <2>3, <4>1, <4>2 DEF Newest
      <3>. QED
        BY <2>2, <3>1, <3>2, <3>3, <3>4 DEF Recorded
    <2>5. InFlight(s, more, c)'
      <3>1. /\ wire[s] \in Seq(AllUnits) /\ wire \in [Streams -> Seq(AllUnits)] /\ OnWire(s, e) \in AllUnits
            /\ Len(wire[s]) = Len(log) - c
            /\ \A j \in 1 .. Len(wire[s]) : wire[s][j] = OnWire(s, log[c + j])
        <4>1. Carried(s, e) \in Items
          BY <1>1, <2>1 DEF Fits, Carried, TypeInv
        <4>2. OnWire(s, e) \in AllUnits
          BY <2>1, <4>1 DEF OnWire, Unit, AllUnits, Entries
        <4>. QED
          BY <1>1, <1>3, <4>2 DEF TypeInv, StreamInv, InFlight
      <3>2. wire'[s] = Append(wire[s], OnWire(s, e))
        BY <2>1, <3>1
      <3>3. Len(wire'[s]) = Len(more) - c
        BY <1>4, <2>2, <3>1, <3>2
      <3>4. ASSUME NEW j \in 1 .. Len(wire'[s])
            PROVE  wire'[s][j] = OnWire(s, more[c + j])
        <4>1. CASE j \in 1 .. Len(wire[s])
          <5>1. c + j \in 1 .. Len(log) /\ wire'[s][j] = wire[s][j]
            BY <1>4, <3>1, <3>2, <4>1
          <5>. QED
            BY <2>2, <3>1, <4>1, <5>1
        <4>2. CASE j \notin 1 .. Len(wire[s])
          <5>1. j = Len(wire[s]) + 1 /\ c + j = Len(log) + 1
            <6>1. Len(wire'[s]) = Len(wire[s]) + 1 /\ Len(wire[s]) \in Nat
              BY <1>4, <2>2, <3>1, <3>3
            <6>. QED
              BY <1>4, <3>1, <4>2, <6>1
          <5>2. wire'[s][j] = OnWire(s, e)
            BY <3>1, <3>2, <5>1
          <5>3. more[c + j] = e
            BY <2>2, <5>1
          <5>. QED
            BY <5>2, <5>3
        <4>. QED
          BY <4>1, <4>2
      <3>5. \A f : OnWire(s, f)' = OnWire(s, f)
        BY <1>6 DEF OnWire
      <3>. QED
        BY <3>3, <3>4, <3>5 DEF InFlight
    <2>6. c \in 0 .. Len(more) /\ (c # 0 => more[c] = log[c] /\ c \in 1 .. Len(log))
      BY <1>4, <2>2
    <2>7. ReadInv(s, more, c)
      <3>1. ReadInv(s, log, c) /\ (rpc[s] \in {"make", "data", "text", "extract"} => c # 0)
        BY <1>3 DEF StreamInv, ReadInv, Reading
      <3>. QED
        BY <2>6, <3>1, ReadSame
    <2>8. ReadInv(s, more, c)'
      BY <1>4, <1>7, <2>6, <2>7
    <2>9. StreamInv(s, more, c)'
      BY <2>4, <2>5, <2>6, <2>8 DEF StreamInv
    <2>. QED
      BY <1>3, <2>2, <2>9
  <1>9. ASSUME Recorded(s, log)', wire'[s] = wire[s]
        PROVE  StreamInv(s, log, c)'
    <2>1. InFlight(s, log, c)'
      <3>1. \A f : OnWire(s, f)' = OnWire(s, f)
        BY <1>6 DEF OnWire
      <3>. QED
        BY <1>3, <1>9, <3>1 DEF StreamInv, InFlight
    <2>2. ReadInv(s, log, c)'
      BY <1>3, <1>4, <1>7 DEF StreamInv
    <2>. QED
      BY <1>4, <1>9, <2>1, <2>2 DEF StreamInv
  <1>10. CASE EndItem(s)
    <2>1. /\ done[s] \in Nat /\ sent[s] \in Nat /\ target[s] \in Nat
          /\ PayloadUnits(s) = UnitsOf(Item(s), target[s]) /\ PayloadUnits(s) \in Nat
          /\ \A e : e.k = done[s] + 1 => Carried(s, e) = Item(s)
      BY <1>1, <1>10, BusyFacts DEF EndItem
    <2>2. /\ sent[s] >= HeadUnits /\ sent[s] = HeadUnits + PayloadUnits(s)
          /\ Item(s) \in Links => target[s] # NoTarget
          /\ done'[s] = done[s] + 1 /\ sent'[s] = 0 /\ wire' = wire
      BY <1>1, <1>10 DEF EndItem, Unread, TypeInv
    <2>3. log # <<>> /\ Newest(s, log[Len(log)]) /\ Fits(s, log[Len(log)])
      BY <1>3, <1>4, <2>1, <2>2 DEF StreamInv, Recorded, HeadUnits
    <2>. DEFINE e == log[Len(log)]
    <2>. HIDE DEF e
    <2>4. e.k = done[s] + 1 /\ e.at = sent[s] /\ (sent[s] > HeadUnits => e.target = target[s])
      BY <2>1, <2>2, <2>3 DEF Newest, HeadUnits, e
    <2>5. Ends(s, e)
      <3>1. Carried(s, e) = Item(s)
        BY <2>1, <2>4
      <3>2. CASE Item(s) \in Links
        <4>1. PayloadUnits(s) = target[s] /\ target[s] > 0
          <5>1. Item(s) # Archive
            BY <3>2, Constants
          <5>2. PayloadUnits(s) = target[s]
            BY <2>1, <3>2, <5>1 DEF UnitsOf
          <5>. QED
            BY <2>1, <2>2, <3>2, <5>2 DEF NoTarget
        <4>2. e.target = target[s]
          BY <2>1, <2>2, <2>4, <4>1 DEF HeadUnits
        <4>. QED
          BY <2>1, <2>2, <2>4, <3>1, <4>2 DEF Ends
      <3>3. CASE Item(s) \notin Links
        <4>1. UnitsOf(Item(s), e.target) = UnitsOf(Item(s), target[s])
          BY <3>3 DEF UnitsOf
        <4>. QED
          BY <2>1, <2>2, <2>4, <3>1, <3>3, <4>1 DEF Ends
      <3>. QED
        BY <3>2, <3>3
    <2>6. Newest(s, e)'
      BY <1>6, <2>2, <2>4, <2>5 DEF Newest
    <2>7. Recorded(s, log)'
      BY <1>3, <1>6, <2>3, <2>6 DEF StreamInv, Recorded, e
    <2>. QED
      BY <1>3, <1>9, <2>2, <2>7
  <1>11. CASE Connect(s) \/ ReadLink(s) \/ ReadFail(s) \/ SendFail(s) \/ CloseSend(s)
    <2>1. UNCHANGED <<done, sent, wire>>
      BY <1>11 DEF Connect, ReadLink, ReadFail, SendFail, CloseSend, SenderFails
    <2>2. sent[s] > HeadUnits => target'[s] = target[s]
      BY <1>1, <1>11 DEF Connect, ReadLink, ReadFail, SendFail, CloseSend, SenderFails, HeadUnits, TypeInv
    <2>3. \A e : Newest(s, e) => Newest(s, e)'
      BY <1>6, <2>1, <2>2 DEF Newest
    <2>4. Recorded(s, log)'
      BY <1>3, <1>6, <2>1, <2>3 DEF StreamInv, Recorded
    <2>. QED
      BY <1>3, <1>9, <2>1, <2>4
  <1>. QED
    BY <1>8, <1>10, <1>11 DEF SenderStep, SendThread

LEMMA SenderTypes ==
  ASSUME TypeInv, LinkInv, NEW s \in Streams, SenderStep(s)
  PROVE  TypeInv' /\ LinkInv'
  <1>1. TypeInv /\ LinkInv
    OBVIOUS
  <1>2. /\ UNCHANGED <<setup, smain, parts, links, recvVars>>
        /\ \A t \in Streams \ {s} : SameSender(t)
    BY <1>1, SenderFrame
  <1>3. spc' \in [Streams -> SendPcs]
    <2>1. \E pc \in SendPcs : spc' = [spc EXCEPT ![s] = pc]
      BY DEF SenderStep, SendThread, Connect, Send, ReadLink, ReadFail, EndItem, CloseSend, SendFail,
             SenderGoes, SenderFails, SendPcs, SenderEnded
    <2>. QED
      BY <1>1, <2>1 DEF TypeInv
  <1>4. done' \in [Streams -> Nat] /\ sent' \in [Streams -> Nat]
    <2>1. done \in [Streams -> Nat] /\ sent \in [Streams -> Nat]
      BY <1>1 DEF TypeInv
    <2>2. CASE Send(s)
      BY <2>1, <2>2 DEF Send
    <2>3. CASE EndItem(s)
      BY <2>1, <2>3 DEF EndItem
    <2>4. CASE ~(Send(s) \/ EndItem(s))
      BY <2>1, <2>4 DEF SenderStep, SendThread, Connect, ReadLink, ReadFail, CloseSend, SendFail, SenderFails
    <2>. QED
      BY <2>2, <2>3, <2>4
  <1>5. target' \in [Streams -> Nat]
    <2>1. CASE ReadLink(s)
      <3>1. Item(s) \in Links /\ links[Item(s)] \in Nat
        BY <1>1, <2>1 DEF ReadLink, Unread, TypeInv
      <3>. QED
        BY <1>1, <2>1, <3>1 DEF ReadLink, TypeInv
    <2>2. CASE EndItem(s)
      BY <1>1, <2>2 DEF EndItem, TypeInv, NoTarget
    <2>3. CASE Connect(s) \/ Send(s) \/ ReadFail(s) \/ CloseSend(s) \/ SendFail(s)
      BY <1>1, <2>3 DEF Connect, Send, ReadFail, CloseSend, SendFail, SenderFails, TypeInv
    <2>. QED
      BY <2>1, <2>2, <2>3 DEF SenderStep, SendThread
  <1>6. wire' \in [Streams -> Seq(AllUnits)]
    <2>1. CASE Send(s)
      <3>1. PICK t \in {NoTarget, target[s]} :
              wire' = [wire EXCEPT ![s] = Append(wire[s], Unit(Item(s), sent[s] + 1, t))]
        BY <2>1 DEF Send
      <3>2. Item(s) \in Items
        <4>1. parts[s] \in Seq(Items) /\ done[s] \in Nat /\ done[s] < Len(parts[s])
          BY <1>1, <2>1 DEF TypeInv, Send, Busy
        <4>. QED
          BY <4>1 DEF Item
      <3>3. t \in Nat /\ sent[s] + 1 \in Nat
        BY <1>1, <3>1 DEF TypeInv, NoTarget
      <3>4. Unit(Item(s), sent[s] + 1, t) \in AllUnits
        BY <3>2, <3>3 DEF Unit, AllUnits
      <3>5. wire \in [Streams -> Seq(AllUnits)] /\ wire[s] \in Seq(AllUnits)
        BY <1>1 DEF TypeInv
      <3>. QED
        BY <3>1, <3>4, <3>5
    <2>2. CASE ~Send(s)
      BY <1>1, <2>2 DEF SenderStep, SendThread, Connect, ReadLink, ReadFail, EndItem, CloseSend, SendFail,
             SenderFails, TypeInv
    <2>. QED
      BY <2>1, <2>2
  <1>7. TypeInv'
    BY <1>1, <1>2, <1>3, <1>4, <1>5, <1>6 DEF TypeInv, recvVars
  <1>8. LinkInv'
    <2>1. \A i \in Links : links'[i] \in {Length[i]} \cup NewLengths
      BY <1>1, <1>2 DEF LinkInv
    <2>2. ASSUME NEW t \in Streams, target'[t] # NoTarget
          PROVE  /\ done'[t] < Len(parts'[t]) /\ Item(t)' \in Links
                 /\ target'[t] \in {Length[Item(t)'], links'[Item(t)']}
                 /\ sent'[t] >= HeadUnits
      <3>1. CASE t # s \/ Connect(s) \/ ReadFail(s) \/ CloseSend(s) \/ SendFail(s)
        <4>1. done'[t] = done[t] /\ target'[t] = target[t] /\ sent'[t] = sent[t]
          BY <1>2, <3>1 DEF SameSender, Connect, ReadFail, CloseSend, SendFail, SenderFails
        <4>. QED
          BY <1>1, <1>2, <2>2, <4>1 DEF LinkInv, Item
      <3>2. CASE t = s /\ Send(s)
        <4>1. done'[t] = done[t] /\ target'[t] = target[t] /\ sent'[t] = sent[t] + 1 /\ sent[t] \in Nat
          BY <1>1, <3>2 DEF Send, TypeInv
        <4>2. /\ done[t] < Len(parts[t]) /\ Item(t) \in Links
              /\ target[t] \in {Length[Item(t)], links[Item(t)]} /\ sent[t] >= HeadUnits
          BY <1>1, <2>2, <4>1 DEF LinkInv
        <4>. QED
          BY <1>2, <4>1, <4>2 DEF Item, HeadUnits
      <3>3. CASE t = s /\ ReadLink(s)
        <4>1. done' = done /\ target'[s] = links[Item(s)] /\ sent' = sent
          BY <1>1, <3>3 DEF ReadLink, TypeInv
        <4>2. done[s] < Len(parts[s]) /\ Item(s) \in Links /\ sent[s] = HeadUnits
          BY <3>3 DEF ReadLink, Unread, Busy
        <4>. QED
          BY <1>2, <3>3, <4>1, <4>2 DEF Item, HeadUnits
      <3>4. CASE t = s /\ EndItem(s)
        BY <1>1, <2>2, <3>4 DEF EndItem, TypeInv
      <3>. QED
        BY <3>1, <3>2, <3>3, <3>4 DEF SenderStep, SendThread
    <2>. QED
      BY <2>1, <2>2 DEF LinkInv
  <1>. QED
    BY <1>7, <1>8

LEMMA SenderAt ==
  ASSUME IInv, NEW s \in Streams, SenderStep(s)
  PROVE  SendAt(s)'
  <1>1. TypeInv /\ PartsInv /\ SendAt(s)
    BY InvParts
  <1>2. /\ UNCHANGED <<setup, smain, parts, links, recvVars>>
        /\ smain = "run" /\ s < setup.send /\ spc[s] \in {"start", "sending"}
        /\ rpc'[s] = rpc[s] /\ buf'[s] = buf[s] /\ cur'[s] = cur[s] /\ extractor' = extractor
        /\ Single' = Single
    BY <1>1, SenderFrame DEF recvVars, Single
  <1>3. done[s] \in Nat /\ sent[s] \in Nat /\ Len(parts[s]) \in Nat
    BY <1>1 DEF TypeInv
  <1>4. \/ Connect(s) /\ spc'[s] \in {"sending", "refused"} /\ spc[s] = "start"
        \/ ~Connect(s) /\ spc'[s] \notin {"start", "refused"} /\ spc[s] = "sending"
    BY <1>1 DEF SenderStep, SendThread, Connect, Send, ReadLink, ReadFail, EndItem, CloseSend, SendFail,
             SenderGoes, SenderFails, Busy, TypeInv
  <1>5. spc'[s] \notin {"start", "refused"} => s < setup'.send /\ s < setup'.recv
    <2>1. CASE Connect(s)
      <3>1. spc'[s] = "sending" => Listening(s)
        BY <1>1, <2>1 DEF Connect, SenderGoes, TypeInv
      <3>2. spc'[s] = "sending" => s < setup.recv
        BY <1>1, <3>1 DEF Listening, SendAt
      <3>. QED
        BY <1>2, <1>4, <2>1, <3>2
    <2>2. CASE ~Connect(s)
      BY <1>1, <1>2, <1>4, <2>2 DEF SendAt
    <2>. QED
      BY <2>1, <2>2
  <1>6. Connect(s) => done' = done /\ sent' = sent /\ done[s] = 0 /\ sent[s] = 0
    BY <1>1, <1>4 DEF Connect, SendAt
  <1>7. spc'[s] \in {"start", "refused"} =>
          done'[s] = 0 /\ sent'[s] = 0 /\ rpc'[s] \in {"start", "accept", "failed"}
    BY <1>1, <1>2, <1>4, <1>6 DEF SendAt
  <1>8. done'[s] <= Len(parts'[s]) /\ (sent'[s] > 0 => done'[s] < Len(parts'[s]))
    <2>1. CASE Send(s) \/ EndItem(s)
      <3>1. done[s] < Len(parts[s])
        BY <2>1 DEF Send, EndItem, Busy
      <3>. QED
        BY <1>1, <1>2, <1>3, <2>1, <3>1 DEF Send, EndItem, TypeInv
    <2>2. CASE ~(Send(s) \/ EndItem(s))
      <3>1. done' = done /\ sent' = sent
        BY <2>2 DEF SenderStep, SendThread, Connect, ReadLink, ReadFail, CloseSend, SendFail, SenderFails
      <3>. QED
        BY <1>1, <1>2, <3>1 DEF SendAt
    <2>. QED
      BY <2>1, <2>2
  <1>9. spc'[s] = "closed" => done'[s] = Len(parts'[s])
    <2>. SUFFICES ASSUME spc'[s] = "closed" PROVE done'[s] = Len(parts'[s])
      OBVIOUS
    <2>1. CloseSend(s)
      BY <1>1 DEF SenderStep, SendThread, Connect, Send, ReadLink, ReadFail, EndItem, SendFail,
             SenderGoes, SenderFails, TypeInv
    <2>. QED
      BY <1>2, <2>1 DEF CloseSend
  <1>10. ASSUME setup'.send = 1, spc'[s] \in {"sending", "closed"}, done'[s] = 1
         PROVE  setup'.hidden = {}
    <2>1. CASE EndItem(s)
      <3>1. done[s] + 1 \in 1 .. Len(parts[s])
        BY <1>3, <2>1 DEF EndItem, Busy
      <3>2. Item(s) = Archive
        BY <1>1, <1>2, <1>10, <3>1 DEF Item, PartsInv
      <3>. QED
        BY <1>1, <1>2, <1>10, <2>1, <3>2 DEF EndItem, SenderGoes, TypeInv
    <2>2. CASE ~EndItem(s)
      <3>1. done' = done
        BY <2>2 DEF SenderStep, SendThread, Connect, Send, ReadLink, ReadFail, CloseSend, SendFail, SenderFails
      <3>. QED
        BY <1>1, <1>2, <1>4, <1>6, <1>10, <3>1 DEF SendAt
    <2>. QED
      BY <2>1, <2>2
  <1>11. Len(wire'[s]) <= Window
    <2>1. CASE Send(s)
      <3>1. PICK u : wire' = [wire EXCEPT ![s] = Append(wire[s], u)]
        BY <2>1 DEF Send
      <3>2. wire[s] \in Seq(AllUnits) /\ wire'[s] = Append(wire[s], u) /\ Window \in Nat
        BY <1>1, <3>1, SetupAssumption DEF TypeInv
      <3>3. Len(wire'[s]) = Len(wire[s]) + 1 /\ Len(wire[s]) \in Nat /\ Len(wire[s]) < Window
        BY <2>1, <3>2 DEF Send
      <3>. QED
        BY <3>2, <3>3
    <2>2. CASE ~Send(s)
      BY <1>1, <2>2 DEF SenderStep, SendThread, Connect, ReadLink, ReadFail, EndItem, CloseSend, SendFail,
             SenderFails, SendAt
    <2>. QED
      BY <2>1, <2>2
  <1>. QED
    BY <1>1, <1>2, <1>5, <1>7, <1>8, <1>9, <1>10, <1>11 DEF SendAt

LEMMA SenderSteps ==
  ASSUME IInv, NEW s \in Streams, SenderStep(s)
  PROVE  IInv'
  <1>1. TypeInv /\ PartsInv /\ MainInv /\ FileInv
    BY InvParts
  <1>2. /\ UNCHANGED <<setup, smain, parts, links, recvVars>> /\ smain = "run"
        /\ \A t \in Streams \ {s} : SameSender(t)
    BY <1>1, SenderFrame
  <1>3. /\ rmain' = rmain /\ rpc' = rpc /\ cur' = cur /\ buf' = buf /\ tree' = tree /\ lost' = lost
        /\ extractor' = extractor
    BY <1>2 DEF recvVars
  <1>4. PartsInv'
    BY <1>1, <1>2 DEF PartsInv, collect_directory_items
  <1>5. MainInv'
    BY <1>1, <1>2, <1>3 DEF MainInv, Single, Untouched
  <1>6. FileInv'
    BY <1>1, <1>3 DEF FileInv, FileAt, Untouched, There
  <1>7. ASSUME NEW t \in Streams
        PROVE  SendAt(t)' /\ \E log \in Seq(Entries), c \in Nat : StreamInv(t, log, c)'
    <2>1. CASE t = s
      BY <2>1, SenderAt, SenderOwn
    <2>2. CASE t # s
      <3>1. SameSender(t)
        BY <1>2, <2>2
      <3>2. SendAt(t)'
        BY <1>2, <1>3, <3>1, InvParts DEF SendAt, SameSender, Single
      <3>3. PICK log \in Seq(Entries), c \in Nat : StreamInv(t, log, c)
        BY InvParts
      <3>4. SameReceiver(t) /\ (AtEof(t) => AtEof(t)') /\ \A p : Gentle(p)
        BY <1>2, <1>3, <3>1 DEF SameReceiver, SameSender, AtEof, Gentle
      <3>5. StreamInv(t, log, c)'
        BY <1>1, <1>2, <1>3, <3>1, <3>3, <3>4, Bystander
      <3>. QED
        BY <3>2, <3>3, <3>5
    <2>. QED
      BY <2>1, <2>2
  <1>. QED
    BY <1>4, <1>5, <1>6, <1>7, SenderTypes DEF IInv

-----------------------------------------------------------------------------
(***************************************************************************)
(* The main threads.                                                       *)
(***************************************************************************)
\* A step of a main thread, which leaves the streams alone.
LEMMA Quietly ==
  ASSUME IInv, UNCHANGED <<setup, spc, parts, done, sent, target, links, wire>>,
         UNCHANGED <<rpc, cur, buf, tree, extractor, lost>>,
         smain = "killed" => smain' = "killed"
  PROVE  /\ LinkInv' /\ FileInv'
         /\ \A t \in Streams : SendAt(t)' /\ \E log \in Seq(Entries), c \in Nat : StreamInv(t, log, c)'
  <1>1. TypeInv /\ LinkInv /\ FileInv
    BY InvParts
  <1>2. LinkInv'
    BY <1>1 DEF LinkInv, Item
  <1>3. FileInv'
    BY <1>1 DEF FileInv, FileAt, Untouched, There
  <1>4. ASSUME NEW t \in Streams
        PROVE  SendAt(t)' /\ \E log \in Seq(Entries), c \in Nat : StreamInv(t, log, c)'
    <2>1. SendAt(t)'
      BY InvParts DEF SendAt, Single
    <2>2. PICK log \in Seq(Entries), c \in Nat : StreamInv(t, log, c)
      BY InvParts
    <2>3. /\ SameSender(t) /\ SameReceiver(t) /\ (AtEof(t) => AtEof(t)') /\ \A p : Gentle(p)
          /\ UNCHANGED <<setup, parts, links>> /\ UNCHANGED <<tree, extractor>> /\ (lost => lost')
      BY DEF SameSender, SameReceiver, AtEof, Gentle
    <2>4. StreamInv(t, log, c)'
      BY <1>1, <2>2, <2>3, Bystander
    <2>. QED
      BY <2>1, <2>2, <2>4
  <1>. QED
    BY <1>2, <1>3, <1>4

LEMMA JoinSteps ==
  ASSUME IInv, JoinSend \/ KillSender \/ JoinReceive \/ UNCHANGED vars
  PROVE  IInv'
  <1>1. TypeInv /\ PartsInv /\ MainInv
    BY InvParts
  <1>2. /\ UNCHANGED <<setup, spc, parts, done, sent, target, links, wire>>
        /\ UNCHANGED <<rpc, cur, buf, tree, extractor, lost>>
        /\ smain = "killed" => smain' = "killed"
    BY DEF JoinSend, KillSender, JoinReceive, vars, sendVars, recvVars
  <1>3. \/ smain' = smain
        \/ /\ smain = "run" /\ smain' \in {"ok", "error", "killed"}
           /\ smain' = "ok" => \A s \in 0 .. setup.send - 1 : spc[s] = "closed"
    BY DEF JoinSend, KillSender, JoinReceive, vars, sendVars, recvVars
  <1>4. \/ rmain' = rmain
        \/ /\ rmain = "run" /\ rmain' \in {"ok", "error"}
           /\ rmain' = "ok" => \A s \in 0 .. setup.recv - 1 : rpc[s] = "done"
    BY DEF JoinSend, KillSender, JoinReceive, vars, sendVars, recvVars
  <1>5. TypeInv'
    BY <1>1, <1>2, <1>3, <1>4 DEF TypeInv
  <1>6. PartsInv'
    BY <1>1, <1>2, <1>3 DEF PartsInv, collect_directory_items
  <1>7. MainInv'
    BY <1>1, <1>2, <1>3, <1>4 DEF MainInv, Single, Untouched
  <1>. QED
    BY <1>2, <1>5, <1>6, <1>7, Quietly DEF IInv

\* Nothing was sent while the main thread is at its start.
LEMMA NothingSent ==
  ASSUME IInv, smain = "start", NEW s \in Streams
  PROVE  /\ parts[s] = <<>> /\ done[s] = 0 /\ sent[s] = 0 /\ target[s] = NoTarget
         /\ wire[s] = <<>> /\ buf[s] = <<>> /\ rpc[s] \in {"start", "accept", "failed"}
         /\ spc[s] = "start"
  <1>1. TypeInv /\ LinkInv /\ PartsInv /\ MainInv /\ SendAt(s)
    BY InvParts
  <1>2. parts[s] = <<>> /\ spc[s] = "start"
    BY <1>1 DEF PartsInv, MainInv
  <1>3. done[s] = 0 /\ sent[s] = 0 /\ rpc[s] \in {"start", "accept", "failed"}
    BY <1>1, <1>2 DEF SendAt
  <1>4. target[s] = NoTarget
    <2>1. Len(parts[s]) = 0
      BY <1>2
    <2>. QED
      BY <1>1, <1>3, <2>1 DEF LinkInv
  <1>5. PICK log \in Seq(Entries), c \in Nat : StreamInv(s, log, c)
    BY InvParts
  <1>6. wire[s] = <<>>
    <2>1. Len(parts[s]) = 0
      BY <1>2
    <2>2. Len(log) \in Nat /\ c \in 0 .. Len(log) /\ \A j \in 1 .. Len(log) : log[j].k \in 1 .. Len(parts[s])
      BY <1>1, <1>5, LogFacts
    <2>3. Len(log) = 0
      <3>1. 1 .. Len(parts[s]) = {}
        BY <2>1
      <3>. QED
        BY <2>2, <3>1
    <2>4. c = Len(log)
      BY <2>2, <2>3
    <2>. QED
      BY <1>1, <1>5, <2>4, LogFacts
  <1>7. buf[s] = <<>>
    BY <1>3, <1>5 DEF StreamInv, ReadInv, Reading
  <1>. QED
    BY <1>2, <1>3, <1>4, <1>6, <1>7

\* The items as they are dealt out.
LEMMA PartsDealt ==
  ASSUME TypeInv, StartSend, smain' = "run"
  PROVE  /\ parts' \in [Streams -> Seq(Items)] /\ PartsInv'
  <1>1. /\ setup.send \in Nat \ {0} /\ setup.send <= MaxStreams /\ MaxStreams \in Nat
        /\ 0 \in Streams /\ Streams \in SUBSET Nat /\ setup' = setup
    BY SetupFacts DEF TypeInv, StartSend
  <1>. DEFINE I == collect_directory_items
  <1>2. I \in SUBSET Paths /\ I \in SUBSET Nat /\ IsFiniteSet(I) /\ \A i \in I : Length[i] \in Nat
    <2>1. I \in SUBSET Paths
      BY DEF collect_directory_items
    <2>. HIDE DEF I
    <2>. QED
      BY <2>1, Constants, FS_Subset
  <1>3. CASE setup.send = 1
    <2>1. parts' = [s \in Streams |-> IF s < 1 THEN <<Archive>> ELSE <<>>]
      BY <1>3 DEF StartSend, Dealt, DirectoryPartition
    <2>2. /\ parts'[0] = <<Archive>> /\ Len(parts'[0]) = 1 /\ parts'[0][1] = Archive
          /\ \A s \in Streams : s # 0 => parts'[s] = <<>> /\ Len(parts'[s]) = 0
      BY <1>1, <2>1
    <2>3. \A s \in Streams : \A k \in 1 .. Len(parts'[s]) : s = 0 /\ k = 1 /\ parts'[s][k] = Archive
      <3>. SUFFICES ASSUME NEW s \in Streams, NEW k \in 1 .. Len(parts'[s])
                    PROVE  s = 0 /\ k = 1 /\ parts'[s][k] = Archive
        OBVIOUS
      <3>1. CASE s = 0
        <4>1. Len(parts'[s]) = 1 /\ parts'[s][1] = Archive
          BY <2>2, <3>1
        <4>2. k = 1
          BY <4>1
        <4>. QED
          BY <3>1, <4>1, <4>2
      <3>2. CASE s # 0
        BY <2>2, <3>2
      <3>. QED
        BY <3>1, <3>2
    <2>4. parts' \in [Streams -> Seq(Items)]
      <3>1. <<Archive>> \in Seq(Items) /\ <<>> \in Seq(Items)
        BY DEF Items
      <3>. QED
        BY <2>1, <3>1
    <2>5. \A s \in Streams : parts'[s] # <<>> => s < setup.send
      BY <1>3, <2>2
    <2>. QED
      BY <1>1, <1>3, <2>2, <2>3, <2>4, <2>5 DEF PartsInv
  <1>4. CASE setup.send > 1
    <2>1. PICK d \in partition_directory_items(I, Kind, Length, setup.send) : parts' = Dealt(d)
      BY <1>4 DEF StartSend
    <2>2. d \in Deals(setup.send, I) /\ Spread(d, setup.send, I)
      <3>. HIDE DEF I
      <3>. QED
        BY <1>1, <1>2, <2>1, PartitionSpread
    <2>3. parts' = [s \in Streams |-> IF s < setup.send THEN d[s + 1].items ELSE <<>>]
      BY <2>1 DEF Dealt
    <2>. HIDE DEF I
    <2>4. \A p \in 1 .. setup.send : d[p].items \in Seq(I)
      BY <2>2 DEF Deals
    <2>5. \A s \in Streams : s < setup.send => s + 1 \in 1 .. setup.send /\ parts'[s] = d[s + 1].items
      BY <1>1, <2>3
    <2>6. \A s \in Streams : ~(s < setup.send) => parts'[s] = <<>> /\ Len(parts'[s]) = 0
      BY <2>3
    <2>7. parts' \in [Streams -> Seq(Items)]
      <3>1. \A p \in 1 .. setup.send : d[p].items \in Seq(Items)
        <4>1. I \subseteq Items
          BY <1>2 DEF Items
        <4>2. ASSUME NEW p \in 1 .. setup.send
              PROVE  d[p].items \in Seq(Items)
          <5>1. d[p].items \in Seq(I)
            BY <2>4
          <5>2. \A k \in 1 .. Len(d[p].items) : d[p].items[k] \in Items
            BY <4>1, <5>1
          <5>. QED
            BY <5>1, <5>2
        <4>. QED
          BY <4>2
      <3>2. <<>> \in Seq(Items)
        OBVIOUS
      <3>. QED
        BY <2>3, <2>5, <3>1, <3>2
    <2>8. ASSUME NEW s \in Streams, NEW t \in Streams, NEW j \in 1 .. Len(parts'[s]),
                 NEW k \in 1 .. Len(parts'[t]), parts'[s][j] = parts'[t][k]
          PROVE  s = t /\ j = k
      <3>1. s < setup.send /\ t < setup.send
        BY <2>6
      <3>2. s + 1 = t + 1 /\ j = k
        <4>1. PICK p, q : p = s + 1 /\ q = t + 1
          OBVIOUS
        <4>2. /\ p \in 1 .. setup.send /\ parts'[s] = d[p].items
              /\ q \in 1 .. setup.send /\ parts'[t] = d[q].items
          BY <2>5, <3>1, <4>1
        <4>3. /\ j \in 1 .. Len(d[p].items) /\ k \in 1 .. Len(d[q].items)
              /\ d[p].items[j] = d[q].items[k]
          BY <2>8, <4>2
        <4>4. p = q /\ j = k
          BY <2>2, <4>2, <4>3 DEF Spread
        <4>. QED
          BY <4>1, <4>4
      <3>. QED
        BY <1>1, <3>2
    <2>9. \A s \in Streams : \A k \in 1 .. Len(parts'[s]) : parts'[s][k] \in I
      <3>. SUFFICES ASSUME NEW s \in Streams, NEW k \in 1 .. Len(parts'[s]) PROVE parts'[s][k] \in I
        OBVIOUS
      <3>1. s < setup.send
        BY <2>6
      <3>. QED
        BY <2>2, <2>5, <3>1 DEF Spread
    <2>10. \A i \in I : \E s \in Streams : \E k \in 1 .. Len(parts'[s]) : parts'[s][k] = i
      <3>. SUFFICES ASSUME NEW i \in I
                    PROVE  \E s \in Streams : \E k \in 1 .. Len(parts'[s]) : parts'[s][k] = i
        OBVIOUS
      <3>1. PICK p \in 1 .. setup.send : \E j \in 1 .. Len(d[p].items) : d[p].items[j] = i
        BY <2>2 DEF Spread
      <3>2. p - 1 \in Streams /\ p - 1 < setup.send /\ (p - 1) + 1 = p
        BY <1>1 DEF Streams
      <3>3. parts'[p - 1] = d[p].items
        BY <2>5, <3>2
      <3>. QED
        BY <3>1, <3>2, <3>3
    <2>11. collect_directory_items' = I
      BY <1>1 DEF I, collect_directory_items
    <2>12. \A s \in Streams : parts'[s] # <<>> => s < setup.send
      BY <2>6
    <2>. QED
      BY <1>1, <1>4, <2>7, <2>8, <2>9, <2>10, <2>11, <2>12 DEF PartsInv
  <1>. QED
    BY <1>1, <1>3, <1>4

LEMMA StartSteps ==
  ASSUME IInv, StartSend
  PROVE  IInv'
  <1>1. TypeInv /\ LinkInv /\ PartsInv /\ MainInv /\ FileInv
    BY InvParts
  <1>2. /\ UNCHANGED <<setup, spc, done, sent, target, links, wire>>
        /\ UNCHANGED <<rmain, rpc, cur, buf, tree, extractor, lost>>
        /\ smain = "start" /\ smain' \in {"run", "error"} /\ (smain' = "error" => parts' = parts)
    BY DEF StartSend, recvVars
  <1>3. \A i \in Paths : Untouched(i)'
    BY <1>1, <1>2 DEF MainInv, Untouched
  <1>4. MainInv'
    BY <1>1, <1>2, <1>3 DEF MainInv
  <1>5. CASE smain' = "error"
    <2>1. TypeInv' /\ PartsInv'
      BY <1>1, <1>2, <1>5 DEF TypeInv, PartsInv, collect_directory_items
    <2>. QED
      BY <1>2, <1>4, <1>5, <2>1, Quietly DEF IInv
  <1>6. CASE smain' = "run"
    <2>1. parts' \in [Streams -> Seq(Items)] /\ PartsInv'
      BY <1>1, <1>6, PartsDealt
    <2>2. TypeInv'
      BY <1>1, <1>2, <1>6, <2>1 DEF TypeInv
    <2>3. LinkInv'
      BY <1>1, <1>2, NothingSent DEF LinkInv
    <2>4. FileInv'
      BY <1>1, <1>2 DEF FileInv, FileAt, Untouched, There
    <2>5. ASSUME NEW s \in Streams
          PROVE  SendAt(s)' /\ \E log \in Seq(Entries), c \in Nat : StreamInv(s, log, c)'
      <3>1. /\ done'[s] = 0 /\ sent'[s] = 0 /\ wire'[s] = <<>> /\ buf'[s] = <<>>
            /\ rpc'[s] \in {"start", "accept", "failed"} /\ spc'[s] = "start"
        BY <1>2, NothingSent
      <3>2. SendAt(s)'
        <4>1. Len(parts'[s]) \in Nat /\ SendAt(s)
          BY <2>1, InvParts
        <4>. QED
          BY <1>2, <3>1, <4>1 DEF SendAt, Single
      <3>. DEFINE log == <<>>
      <3>3. log \in Seq(Entries) /\ Len(log) = 0 /\ log = <<>> /\ Len(wire'[s]) = 0
        BY <3>1
      <3>. HIDE DEF log
      <3>4. Recorded(s, log)'
        BY <3>1, <3>3 DEF Recorded
      <3>5. InFlight(s, log, 0)' /\ 0 \in 0 .. Len(log)
        BY <3>3 DEF InFlight
      <3>6. Reading(s, log, 0)' /\ Progress(s, log, 0)'
        BY <3>1 DEF Reading, Progress
      <3>7. ClearFrom(s, Begun(s, log, 0))'
        BY <1>3 DEF ClearFrom
      <3>8. s = 0 => Extracted(log, 0)'
        <4>1. Members' = Members /\ Members \in Seq(Paths) /\ Len(Members) \in Nat
          <5>1. Members' = Members
            BY <1>2 DEF Members, Archived
          <5>2. Members \in Seq(Archived) /\ Archived \in SUBSET Paths /\ Len(Members) \in Nat
            BY <1>1, MembersFacts DEF TypeInv
          <5>. QED
            BY <5>1, <5>2
        <4>2. \A n \in 1 .. Len(Members) : Members[n] \in Paths /\ ~(n <= 0)
          BY <4>1
        <4>. QED
          BY <1>3, <3>1, <4>1, <4>2 DEF Extracted, Had
      <3>9. StreamInv(s, log, 0)'
        BY <3>4, <3>5, <3>6, <3>7, <3>8 DEF StreamInv, ReadInv
      <3>10. 0 \in Nat
        OBVIOUS
      <3>11. \E l \in Seq(Entries), c \in Nat : StreamInv(s, l, c)'
        BY <3>3, <3>9, <3>10, Zenon
      <3>. QED
        BY <3>2, <3>11
    <2>. QED
      BY <1>4, <2>1, <2>2, <2>3, <2>4, <2>5 DEF IInv
  <1>. QED
    BY <1>2, <1>5, <1>6

-----------------------------------------------------------------------------
(***************************************************************************)
(* A link is given another target: a thread that has read the first one    *)
(* goes on with that.                                                      *)
(***************************************************************************)
\* A link has another target: the threads know its old one.
LEMMA ReplacedLink ==
  ASSUME TypeInv, LinkInv, NEW i \in Links, ReplaceLink(i)
  PROVE  TypeInv' /\ LinkInv'
  <1>1. /\ UNCHANGED <<setup, smain, spc, parts, done, sent, target, wire>>
        /\ UNCHANGED <<rmain, rpc, cur, buf, tree, extractor, lost>>
    BY DEF ReplaceLink, sendVars, recvVars
  <1>2. PICK n \in NewLengths : links' = [links EXCEPT ![i] = n]
    BY DEF ReplaceLink
  <1>3. /\ n \in Nat /\ links \in [Links -> Nat] /\ links[i] = Length[i]
        /\ \A j \in Links : links'[j] = links[j] \/ (j = i /\ links[j] = Length[j] /\ links'[j] = n)
    BY <1>2, LinkAssumption DEF TypeInv, ReplaceLink
  <1>4. \A j \in Links : {Length[j], links[j]} \subseteq {Length[j], links'[j]}
    BY <1>3
  <1>5. links' \in [Links -> Nat]
    BY <1>2, <1>3
  <1>6. TypeInv'
    BY <1>1, <1>5 DEF TypeInv
  <1>7. \A j \in Links : links'[j] \in {Length[j]} \cup NewLengths
    BY <1>2, <1>3 DEF LinkInv
  <1>8. \A s \in Streams : Item(s)' = Item(s)
    BY <1>1 DEF Item
  <1>. QED
    BY <1>1, <1>4, <1>6, <1>7, <1>8 DEF LinkInv

LEMMA ReplaceSteps ==
  ASSUME IInv, NEW i \in Links, ReplaceLink(i)
  PROVE  IInv'
  <1>1. TypeInv /\ LinkInv /\ PartsInv /\ MainInv /\ FileInv
    BY InvParts
  <1>2. /\ UNCHANGED <<setup, smain, spc, parts, done, sent, target, wire>>
        /\ UNCHANGED <<rmain, rpc, cur, buf, tree, extractor, lost>>
    BY DEF ReplaceLink, sendVars, recvVars
  <1>3. PICK n \in NewLengths : links' = [links EXCEPT ![i] = n]
    BY DEF ReplaceLink
  <1>4. /\ n \in Nat /\ links \in [Links -> Nat] /\ links[i] = Length[i]
        /\ \A j \in Links : links'[j] = links[j] \/ (j = i /\ links[j] = Length[j] /\ links'[j] = n)
    BY <1>1, <1>3, LinkAssumption DEF TypeInv, ReplaceLink
  <1>5. \A j \in Links : {Length[j], links[j]} \subseteq {Length[j], links'[j]}
    BY <1>4
  <1>6. LinkLostAnItem => LinkLostAnItem'
    <2>. SUFFICES ASSUME NEW j \in Links, links[j] + HeadUnits <= Length[j]
                  PROVE  links'[j] + HeadUnits <= Length[j]
      BY DEF LinkLostAnItem
    <2>1. links[j] \in Nat /\ links[j] # Length[j]
      BY <1>4 DEF HeadUnits
    <2>. QED
      BY <1>4, <2>1
  <1>7. TypeInv'
    BY <1>1, ReplacedLink
  <1>8. LinkInv'
    BY <1>1, ReplacedLink
  <1>9. PartsInv'
    BY <1>1, <1>2 DEF PartsInv, collect_directory_items
  <1>10. MainInv'
    BY <1>1, <1>2 DEF MainInv, Single, Untouched
  <1>11. FileInv'
    BY <1>1, <1>2 DEF FileInv, FileAt, Untouched, There
  <1>12. ASSUME NEW s \in Streams
         PROVE  SendAt(s)' /\ \E log \in Seq(Entries), c \in Nat : StreamInv(s, log, c)'
    <2>1. SendAt(s)'
      BY <1>2, InvParts DEF SendAt, Single
    <2>2. PICK log \in Seq(Entries), c \in Nat : StreamInv(s, log, c)
      BY InvParts
    <2>3. /\ \A e : (Carried(s, e) = Carried(s, e)') /\ (Ends(s, e) <=> Ends(s, e)')
          /\ \A e : OnWire(s, e)' = OnWire(s, e)
          /\ (Single <=> Single')
      BY <1>2 DEF Carried, Ends, UnitsOf, Members, Archived, OnWire, Single
    <2>4. \A e : Fits(s, e) => Fits(s, e)'
      <3>1. \A e : UnitsOf(Carried(s, e), e.target)' = UnitsOf(Carried(s, e), e.target)
        BY <1>2 DEF Carried, UnitsOf, Members, Archived
      <3>. QED
        BY <1>2, <1>5, <2>3, <3>1 DEF Fits
    <2>5. Recorded(s, log)' /\ InFlight(s, log, c)'
      BY <1>2, <2>2, <2>3, <2>4 DEF StreamInv, Recorded, Follows, Newest, InFlight
    <2>6. Reading(s, log, c)'
      <3>1. Reading(s, log, c)
        BY <2>2 DEF StreamInv, ReadInv
      <3>2. ASSUME rpc[s] = "text"
            PROVE  TextRead(s, log[c])'
        <4>1. cur[s] \in Links /\ TextRead(s, log[c])
          BY <3>1, <3>2 DEF Reading
        <4>2. {Length[cur[s]], links[cur[s]]} \subseteq {Length[cur[s]], links'[cur[s]]}
          BY <1>5, <4>1
        <4>3. /\ Carried(s, log[c])' = Carried(s, log[c]) /\ cur'[s] = cur[s] /\ buf'[s] = buf[s]
          BY <1>2, <2>3
        <4>. QED
          BY <1>6, <4>1, <4>2, <4>3 DEF TextRead
      <3>3. AtEof(s)' <=> AtEof(s)
        BY <1>2 DEF AtEof
      <3>. QED
        BY <1>2, <2>3, <3>1, <3>2, <3>3 DEF Reading
    <2>7. ReadInv(s, log, c)'
      <3>1. Begun(s, log, c)' = Begun(s, log, c)
        BY <1>2 DEF Begun
      <3>2. ClearFrom(s, Begun(s, log, c)) => ClearFrom(s, Begun(s, log, c))'
        BY <1>2, <3>1 DEF ClearFrom, Untouched
      <3>3. \A m : Got(s, m) => Got(s, m)'
        BY <1>2 DEF Got, There
      <3>4. Progress(s, log, c) => Progress(s, log, c)'
        BY <1>2, <2>3, <3>3 DEF Progress
      <3>5. Extracted(log, c) => Extracted(log, c)'
        BY <1>2 DEF Extracted, Members, Archived, Had, There, Untouched
      <3>6. setup' = setup /\ lost' = lost
        BY <1>2
      <3>. QED
        BY <1>6, <2>2, <2>3, <2>6, <3>2, <3>4, <3>5, <3>6 DEF StreamInv, ReadInv
    <2>8. StreamInv(s, log, c)'
      BY <2>2, <2>5, <2>7 DEF StreamInv
    <2>. QED
      BY <2>1, <2>2, <2>8
  <1>. QED
    BY <1>7, <1>8, <1>9, <1>10, <1>11, <1>12 DEF IInv

-----------------------------------------------------------------------------
(***************************************************************************)
(* The receiver's threads.                                                 *)
(***************************************************************************)
\* What the sender has sent is not for the receiver to change.
LEMMA SentStays ==
  ASSUME UNCHANGED <<setup, sendVars, links>>, NEW s
  PROVE  /\ \A e : Carried(s, e)' = Carried(s, e) /\ OnWire(s, e)' = OnWire(s, e)
         /\ \A e : (Ends(s, e)' <=> Ends(s, e)) /\ (Fits(s, e)' <=> Fits(s, e))
         /\ (Single' <=> Single) /\ (LinkLostAnItem' <=> LinkLostAnItem) /\ Members' = Members
         /\ \A log : Recorded(s, log) => Recorded(s, log)'
         /\ UNCHANGED <<setup, smain, spc, parts, done, sent, target, links>>
  <1>1. UNCHANGED <<setup, smain, spc, parts, done, sent, target, links>>
    BY DEF sendVars
  <1>2. Members' = Members /\ \A e : Carried(s, e)' = Carried(s, e) /\ OnWire(s, e)' = OnWire(s, e)
    BY <1>1 DEF Members, Archived, Carried, OnWire
  <1>3. \A e : (Ends(s, e)' <=> Ends(s, e)) /\ (Fits(s, e)' <=> Fits(s, e))
    BY <1>1, <1>2 DEF Ends, Fits, UnitsOf
  <1>4. (Single' <=> Single) /\ (LinkLostAnItem' <=> LinkLostAnItem)
    BY <1>1 DEF Single, LinkLostAnItem
  <1>5. \A log : Recorded(s, log) => Recorded(s, log)'
    BY <1>1, <1>3 DEF Recorded, Follows, Newest
  <1>. QED
    BY <1>1, <1>2, <1>3, <1>4, <1>5

\* The entry after another is of the same item or of the next.
LEMMA NextEntry ==
  ASSUME TypeInv, NEW s \in Streams, NEW log, NEW c, StreamInv(s, log, c), c > 0, c + 1 \in 1 .. Len(log)
  PROVE  /\ c \in 1 .. Len(log) /\ log[c].k \in Nat /\ log[c].at \in Nat /\ log[c + 1].k \in Nat
         /\ log[c].k \in 1 .. Len(parts[s]) /\ log[c + 1].k \in 1 .. Len(parts[s])
         /\ log[c].k <= log[c + 1].k
         /\ Ends(s, log[c]) => /\ log[c + 1].k = log[c].k + 1 /\ log[c + 1].at = 1
                               /\ log[c + 1].target = NoTarget
         /\ ~Ends(s, log[c]) => /\ log[c + 1].k = log[c].k /\ log[c + 1].at = log[c].at + 1
                                /\ Carried(s, log[c + 1]) = Carried(s, log[c])
                                /\ log[c].at > HeadUnits => log[c + 1].target = log[c].target
         /\ log[c].at >= 1
  <1>1. /\ Len(log) \in Nat /\ c \in 0 .. Len(log) /\ log \in Seq(Entries)
        /\ \A j \in 1 .. Len(log) : Fits(s, log[j]) /\ log[j] \in Entries /\ log[j].k \in 1 .. Len(parts[s])
        /\ \A j \in 1 .. Len(log) : j + 1 \in 1 .. Len(log) => Follows(s, log[j], log[j + 1])
        /\ Len(parts[s]) \in Nat
    BY LogFacts
  <1>2. c \in 1 .. Len(log)
    BY <1>1
  <1>3. Follows(s, log[c], log[c + 1]) /\ log[c] \in Entries /\ log[c + 1] \in Entries /\ log[c].at >= 1
    BY <1>1, <1>2 DEF Fits
  <1>4. log[c].k \in Nat /\ log[c].at \in Nat /\ log[c + 1].k \in Nat
    BY <1>3 DEF Entries
  <1>5. Ends(s, log[c]) => /\ log[c + 1].k = log[c].k + 1 /\ log[c + 1].at = 1
                           /\ log[c + 1].target = NoTarget
    BY <1>3 DEF Follows, Entry
  <1>6. ~Ends(s, log[c]) => /\ log[c + 1].k = log[c].k /\ log[c + 1].at = log[c].at + 1
                            /\ Carried(s, log[c + 1]) = Carried(s, log[c])
                            /\ log[c].at > HeadUnits => log[c + 1].target = log[c].target
    BY <1>3 DEF Follows, Carried
  <1>. QED
    BY <1>1, <1>2, <1>3, <1>4, <1>5, <1>6

\* The first unit of a stream, and of every item.
LEMMA FirstEntry ==
  ASSUME TypeInv, NEW s \in Streams, NEW log, NEW c, StreamInv(s, log, c), c = 0, 1 \in 1 .. Len(log)
  PROVE  log[1].k = 1 /\ log[1].at = 1
  <1>1. Len(log) \in Nat /\ (Len(log) > 0 => log[1] = Entry(1, 1, NoTarget))
    BY LogFacts
  <1>. QED
    BY <1>1 DEF Entry

LEMMA ClearMore ==
  ASSUME TypeInv, NEW s \in Streams, NEW m \in Int, NEW n \in Int, m <= n, ClearFrom(s, m),
         UNCHANGED <<parts>>,
         \A k \in 1 .. Len(parts[s]) : k > n /\ parts[s][k] \in Paths => Gentle(parts[s][k])
  PROVE  ClearFrom(s, n)'
  <1>. SUFFICES ASSUME NEW k \in 1 .. Len(parts[s]), k > n, parts[s][k] \in Paths
                PROVE  Untouched(parts[s][k])'
    BY DEF ClearFrom
  <1>1. k > m
    BY DEF TypeInv
  <1>2. Untouched(parts[s][k])
    BY <1>1 DEF ClearFrom
  <1>. QED
    BY <1>2, GentleKeeps

LEMMA GotStays ==
  ASSUME NEW s, NEW n, Got(s, n), UNCHANGED <<parts>>, \A k \in 1 .. n : Gentle(parts[s][k])
  PROVE  Got(s, n)'
  BY GentleKeeps DEF Got

\* Of the items that a thread has begun.
LEMMA BegunFacts ==
  ASSUME TypeInv, NEW s \in Streams, NEW log, NEW c, StreamInv(s, log, c)
  PROVE  /\ Begun(s, log, c) \in Int
         /\ c = 0 => Begun(s, log, c) = 0
         /\ c > 0 => Begun(s, log, c) <= log[c].k /\ log[c].k \in 1 .. Len(parts[s]) /\ c \in 1 .. Len(log)
  <1>1. /\ Len(log) \in Nat /\ c \in 0 .. Len(log) /\ Len(parts[s]) \in Nat
        /\ \A j \in 1 .. Len(log) : log[j].k \in 1 .. Len(parts[s])
    BY LogFacts
  <1>2. c > 0 => c \in 1 .. Len(log) /\ log[c].k \in 1 .. Len(parts[s])
    BY <1>1
  <1>. QED
    BY <1>1, <1>2 DEF Begun

\* A file that a step leaves alone.
LEMMA FileKept ==
  ASSUME NEW i \in Files, FileAt(i), Gentle(i), lost => lost',
         \A t \in Streams : rpc[t] = "failed" \/ (rpc[t] = "data" /\ cur[t] = i) =>
                              rpc'[t] = "failed" \/ (rpc'[t] = "data" /\ cur'[t] = i)
  PROVE  FileAt(i)'
  <1>1. i \in Paths /\ Length[i] \in Nat
    BY Constants
  <1>2. tree'[i].is # "file" => Untouched(i)' /\ tree'[i].data = <<>>
    <2>1. CASE tree'[i] = tree[i]
      BY <2>1 DEF FileAt, Untouched
    <2>2. CASE tree[i] = Absent /\ tree'[i] = Dir
      BY <2>2 DEF Dir, Node, Untouched
    <2>. QED
      BY <2>1, <2>2 DEF Gentle
  <1>3. Len(tree'[i].data) <= Length[i]
    <2>1. CASE tree'[i] = tree[i]
      BY <2>1 DEF FileAt
    <2>2. CASE tree[i] = Absent /\ tree'[i] = Dir
      <3>1. tree'[i].data = <<>>
        BY <2>2 DEF Dir, Node
      <3>. QED
        BY <1>1, <3>1
    <2>. QED
      BY <2>1, <2>2 DEF Gentle
  <1>4. ASSUME tree'[i].is = "file", ~lost'
        PROVE  \/ There(i)'
               \/ \E s \in Streams : rpc'[s] = "failed" \/ (rpc'[s] = "data" /\ cur'[s] = i)
    <2>1. tree[i].is = "file" /\ ~lost /\ (There(i) => There(i)')
      BY <1>1, <1>4, GentleKeeps
    <2>. QED
      BY <2>1 DEF FileAt
  <1>. QED
    BY <1>2, <1>3, <1>4 DEF FileAt

\* A step of one thread: what is left to show is its own part.
LEMMA OneReceives ==
  ASSUME IInv, NEW s \in Streams, ReceiverStep(s), TypeInv', SendAt(s)', FileInv', lost => lost',
         ~Single => \A p \in Paths : Gentle(p) \/ (rpc[s] \in {"make", "data", "text"} /\ p = cur[s]),
         smain = "start" \/ (Single /\ setup.send > 1) => UNCHANGED tree,
         \E log \in Seq(Entries), c \in Nat : StreamInv(s, log, c)'
  PROVE  IInv'
  <1>1. TypeInv /\ LinkInv /\ PartsInv /\ MainInv
    BY InvParts
  <1>2. /\ UNCHANGED <<setup, sendVars, links>>
        /\ rmain = "run" /\ s < setup.recv
        /\ rmain' \in {"run", "killed"}
        /\ \A t \in Streams \ {s} : SameReceiver(t)
    BY <1>1, ReceiverFrame
  <1>3. UNCHANGED <<setup, smain, spc, parts, done, sent, target, links>>
    BY <1>2, SentStays
  <1>4. LinkInv' /\ PartsInv'
    BY <1>1, <1>3 DEF LinkInv, Item, PartsInv, collect_directory_items
  <1>5. MainInv'
    BY <1>1, <1>2, <1>3 DEF MainInv, Single, Untouched
  <1>6. ASSUME NEW t \in Streams, t # s
        PROVE  SendAt(t)' /\ \E log \in Seq(Entries), c \in Nat : StreamInv(t, log, c)'
    <2>1. SameReceiver(t) /\ SameSender(t) /\ SendAt(t)
      BY <1>2, <1>3, <1>6, InvParts DEF SameSender, SameReceiver
    <2>2. Single => rpc[t] = "start" /\ t # 0
      <3>1. setup.recv \in Nat /\ Streams \in SUBSET Nat
        BY <1>1, SetupFacts DEF TypeInv
      <3>2. Single => ~(t < setup.recv) /\ t # 0
        BY <1>2, <1>6, <3>1 DEF Single
      <3>. QED
        BY <2>1, <3>2 DEF SendAt
    <2>3. SendAt(t)'
      BY <1>3, <2>1, <2>2 DEF SendAt, SameReceiver, SameSender, Single
    <2>4. PICK log \in Seq(Entries), c \in Nat : StreamInv(t, log, c)
      BY InvParts
    <2>5. StreamInv(t, log, c)'
      <3>1. CASE Single
        <4>1. Recorded(t, log)' /\ InFlight(t, log, c)' /\ c \in 0 .. Len(log)
          BY <1>1, <1>3, <2>1, <2>4, RecordKept DEF StreamInv
        <4>2. rpc'[t] = "start" /\ buf'[t] = buf[t] /\ buf[t] = <<>> /\ c = 0
          BY <2>1, <2>2, <2>4, <3>1 DEF StreamInv, ReadInv, Reading, SameReceiver
        <4>3. Reading(t, log, c)'
          BY <4>2 DEF Reading
        <4>4. Single'
          BY <1>3, <3>1 DEF Single
        <4>5. ReadInv(t, log, c)'
          BY <2>2, <3>1, <4>3, <4>4 DEF ReadInv
        <4>. QED
          BY <4>1, <4>5 DEF StreamInv
      <3>2. CASE ~Single
        <4>1. AtEof(t) => AtEof(t)'
          BY <1>3, <2>1 DEF AtEof, SameReceiver
        <4>2. \A k \in 1 .. Len(parts[t]) : parts[t][k] \in Paths => Gentle(parts[t][k])
          BY <1>6, <3>2, OneAtWork
        <4>. QED
          BY <1>1, <1>3, <2>1, <2>4, <3>2, <4>1, <4>2, Bystander
      <3>. QED
        BY <3>1, <3>2
    <2>. QED
      BY <2>3, <2>4, <2>5
  <1>7. \A t \in Streams : SendAt(t)' /\ \E log \in Seq(Entries), c \in Nat : StreamInv(t, log, c)'
    BY <1>6
  <1>. QED
    BY <1>4, <1>5, <1>7 DEF IInv

\* A thread fails, before or after it took a unit; directories that it has
\* made are left, and a link that it was to make may have been removed.
LEMMA FailedGently ==
  ASSUME IInv, NEW s \in Streams, ReceiverStep(s),
         rpc' = [rpc EXCEPT ![s] = "failed"], buf' = [buf EXCEPT ![s] = <<>>],
         UNCHANGED <<rmain, extractor, lost>>,
         tree' \in [Paths -> Nodes], Single \/ smain = "start" => tree' = tree,
         \A p \in Paths : Gentle(p) \/ (rpc[s] = "text" /\ p = cur[s] /\ tree'[p] = Absent),
         wire' = wire \/ (Receives(s) /\ ~Single),
         cur' = cur \/ \E i \in Items : cur' = [cur EXCEPT ![s] = i]
  PROVE  IInv'
  <1>1. TypeInv /\ FileInv /\ SendAt(s) /\ SetupAssumption
    BY InvParts, SetupAssumption
  <1>2. UNCHANGED <<setup, sendVars, links>> /\ s < setup.recv
    BY <1>1, ReceiverFrame
  <1>3. PICK log \in Seq(Entries), c \in Nat : StreamInv(s, log, c)
    BY InvParts
  <1>4. UNCHANGED <<setup, smain, spc, parts, done, sent, target, links>> /\ (Single' <=> Single)
    BY <1>2, SentStays
  <1>5. /\ rpc'[s] = "failed" /\ buf'[s] = <<>>
        /\ \A p \in Paths : Untouched(p) => Untouched(p)'
        /\ \A p \in Files : Gentle(p)
    <2>1. rpc'[s] = "failed" /\ buf'[s] = <<>>
      BY <1>1 DEF TypeInv
    <2>2. \A p \in Paths : Untouched(p) => Untouched(p)'
      BY GentleKeeps DEF Untouched, Absent, Node
    <2>3. rpc[s] = "text" => cur[s] \in Links
      BY AtWork
    <2>4. \A p \in Files : Gentle(p)
      BY <2>3, Constants
    <2>. QED
      BY <2>1, <2>2, <2>4
  <1>6. PICK d \in Nat : /\ d \in 0 .. Len(log) /\ InFlight(s, log, d)' /\ (d = c \/ (d = c + 1 /\ ~Single))
                         /\ wire' \in [Streams -> Seq(AllUnits)] /\ Len(wire'[s]) <= Len(wire[s])
    <2>1. CASE wire' = wire
      <3>1. InFlight(s, log, c)'
        BY <1>2, <1>3, <2>1, SentStays DEF StreamInv, InFlight
      <3>2. c \in 0 .. Len(log) /\ Len(wire[s]) \in Nat
        BY <1>1, <1>3 DEF StreamInv, TypeInv
      <3>. QED
        BY <1>1, <1>3, <2>1, <3>1, <3>2 DEF TypeInv
    <2>2. CASE Receives(s) /\ ~Single
      <3>1. /\ c + 1 \in 0 .. Len(log) /\ InFlight(s, log, c + 1)'
            /\ wire' \in [Streams -> Seq(AllUnits)] /\ Len(wire'[s]) = Len(wire[s]) - 1
        BY <1>1, <1>3, <1>4, <2>2, TakeOne
      <3>2. c + 1 \in Nat /\ Len(wire[s]) \in Nat
        BY <1>1, <1>3 DEF TypeInv
      <3>. QED
        BY <2>2, <3>1, <3>2
    <2>. QED
      BY <2>1, <2>2
  <1>7. TypeInv'
    <2>1. rpc' \in [Streams -> RecvPcs] /\ buf' \in [Streams -> Seq(AllUnits)]
      BY <1>1 DEF TypeInv, RecvPcs
    <2>2. cur' \in [Streams -> Items]
      BY <1>1 DEF TypeInv
    <2>. QED
      BY <1>1, <1>4, <1>6, <2>1, <2>2 DEF TypeInv
  <1>8. SendAt(s)'
    <2>1. Len(wire'[s]) <= Window
      <3>1. Len(wire[s]) \in Nat /\ Len(wire'[s]) \in Nat /\ Len(wire[s]) <= Window /\ Window \in Nat
        BY <1>1, <1>6 DEF TypeInv, SendAt, SetupAssumption
      <3>. QED
        BY <1>6, <3>1
    <2>. QED
      BY <1>1, <1>2, <1>4, <1>5, <2>1 DEF SendAt
  <1>9. FileInv'
    <2>. SUFFICES ASSUME NEW i \in Files PROVE FileAt(i)'
      BY DEF FileInv
    <2>1. \A t \in Streams : rpc[t] = "failed" \/ (rpc[t] = "data" /\ cur[t] = i) =>
                              rpc'[t] = "failed" \/ (rpc'[t] = "data" /\ cur'[t] = i)
      BY <1>1 DEF TypeInv
    <2>. QED
      BY <1>1, <1>5, <2>1, FileKept DEF FileInv
  <1>10. StreamInv(s, log, d)'
    <2>1. Recorded(s, log)'
      BY <1>2, <1>3, SentStays DEF StreamInv
    <2>2. Reading(s, log, d)' /\ Progress(s, log, d)'
      BY <1>5 DEF Reading, Progress
    <2>3. ~Single => ClearFrom(s, Begun(s, log, d))'
      <3>1. Begun(s, log, d)' = IF d = 0 THEN 0 ELSE log[d].k
        BY <1>5 DEF Begun
      <3>2. /\ Begun(s, log, c) \in Int /\ (c = 0 => Begun(s, log, c) = 0)
            /\ c > 0 => Begun(s, log, c) <= log[c].k /\ log[c].k \in 1 .. Len(parts[s]) /\ c \in 1 .. Len(log)
            /\ Len(log) \in Nat /\ Len(parts[s]) \in Nat
        BY <1>1, <1>3, BegunFacts, LogFacts
      <3>. DEFINE n == IF d = 0 THEN 0 ELSE log[d].k
      <3>3. n \in Int /\ Begun(s, log, c) <= n
        <4>1. CASE d = c
          BY <3>2, <4>1
        <4>2. CASE d = c + 1 /\ c > 0
          <5>1. c + 1 \in 1 .. Len(log) /\ log[c + 1].k \in Nat /\ log[c].k <= log[c + 1].k /\ log[c].k \in Nat
            <6>1. c + 1 \in 1 .. Len(log)
              BY <1>6, <3>2, <4>2
            <6>. QED
              BY <1>1, <1>3, <4>2, <6>1, NextEntry
          <5>. QED
            BY <3>2, <4>2, <5>1
        <4>3. CASE d = c + 1 /\ c = 0
          <5>1. 1 \in 1 .. Len(log)
            BY <1>6, <3>2, <4>3
          <5>2. log[1].k = 1
            BY <1>1, <1>3, <4>3, <5>1, FirstEntry
          <5>. QED
            BY <3>2, <4>3, <5>2
        <4>. QED
          BY <1>6, <4>1, <4>2, <4>3
      <3>. HIDE DEF n
      <3>4. ~Single => ClearFrom(s, Begun(s, log, c))
        BY <1>3 DEF StreamInv, ReadInv
      <3>5. ~Single => ClearFrom(s, n)'
        <4>. SUFFICES ASSUME ~Single, NEW k \in 1 .. Len(parts[s]), k > n, parts[s][k] \in Paths
                      PROVE  Untouched(parts[s][k])'
          BY <1>4 DEF ClearFrom
        <4>1. PICK m : m = Begun(s, log, c)
          OBVIOUS
        <4>2. m \in Int /\ n \in Int /\ m <= n /\ k \in Int
          BY <3>2, <3>3, <4>1
        <4>3. k > m
          BY <4>2
        <4>. QED
          <5>1. ClearFrom(s, Begun(s, log, c)) /\ k > Begun(s, log, c)
            BY <3>4, <4>1, <4>3
          <5>2. PICK p \in Paths : p = parts[s][k]
            OBVIOUS
          <5>3. Untouched(p)
            BY <5>1, <5>2 DEF ClearFrom
          <5>4. Untouched(p)'
            BY <1>5, <5>3
          <5>. QED
            BY <1>4, <5>2, <5>4 DEF Untouched
      <3>6. Begun(s, log, d)' = n
        BY <3>1 DEF n
      <3>. QED
        BY <3>5, <3>6 DEF ClearFrom
    <2>4. ASSUME Single, s = 0, setup.send = 1
          PROVE  Extracted(log, d)'
      <3>1. d = c /\ Extracted(log, c)
        BY <1>3, <1>6, <2>4 DEF StreamInv, ReadInv
      <3>2. tree' = tree
        BY <2>4
      <3>. QED
        BY <1>4, <1>5, <2>4, <3>1, <3>2 DEF Extracted, Members, Archived, Had, There, Untouched
    <2>. QED
      BY <1>4, <1>6, <2>1, <2>2, <2>3, <2>4 DEF StreamInv, ReadInv
  <1>11. \A p \in Paths : Gentle(p) \/ (rpc[s] \in {"make", "data", "text"} /\ p = cur[s])
    OBVIOUS
  <1>12. smain = "start" \/ (Single /\ setup.send > 1) => UNCHANGED tree
    OBVIOUS
  <1>13. \E l \in Seq(Entries), e \in Nat : StreamInv(s, l, e)'
    BY <1>3, <1>6, <1>10
  <1>. QED
    BY <1>7, <1>8, <1>9, <1>11, <1>12, <1>13, OneReceives

LEMMA FailedSteps ==
  ASSUME IInv, NEW s \in Streams, ReceiverStep(s),
         rpc' = [rpc EXCEPT ![s] = "failed"], buf' = [buf EXCEPT ![s] = <<>>],
         UNCHANGED <<rmain, tree, extractor, lost>>,
         wire' = wire \/ (Receives(s) /\ ~Single),
         cur' = cur \/ \E i \in Items : cur' = [cur EXCEPT ![s] = i]
  PROVE  IInv'
  <1>1. tree' \in [Paths -> Nodes]
    BY InvParts DEF TypeInv
  <1>2. \A p \in Paths : Gentle(p) \/ (rpc[s] = "text" /\ p = cur[s] /\ tree'[p] = Absent)
    BY DEF Gentle
  <1>. QED
    BY <1>1, <1>2, FailedGently

LEMMA ThreadAt ==
  ASSUME IInv, NEW s \in Streams, ReceiverStep(s), TypeInv',
         wire'[s] = wire[s] \/ Len(wire'[s]) = Len(wire[s]) - 1,
         spc[s] \in {"start", "refused"} => rpc'[s] \in {"start", "accept", "failed"},
         rpc'[s] \in {"text", "data"} => Len(buf'[s]) <= Length[cur'[s]],
         Single => rpc'[s] \notin {"make", "data", "text"}, ~Single => rpc'[s] # "extract",
         Single /\ rpc'[s] = "done" => extractor' = "fine"
  PROVE  SendAt(s)'
  <1>1. TypeInv /\ SendAt(s)
    BY InvParts
  <1>2. UNCHANGED <<setup, sendVars, links>> /\ s < setup.recv
    BY <1>1, ReceiverFrame
  <1>3. UNCHANGED <<setup, smain, spc, parts, done, sent, target, links>> /\ (Single' <=> Single)
    BY <1>2, SentStays
  <1>4. Len(wire'[s]) <= Window
    <2>1. Len(wire[s]) \in Nat /\ Len(wire[s]) <= Window /\ Window \in Nat
      BY <1>1, SetupAssumption DEF TypeInv, SendAt
    <2>. QED
      BY <2>1
  <1>. QED
    BY <1>1, <1>2, <1>3, <1>4 DEF SendAt

\* A thread goes on and leaves the tree as it is.
LEMMA TreeStays ==
  ASSUME IInv, NEW s \in Streams, ReceiverStep(s), UNCHANGED <<rmain, tree, extractor, lost>>,
         NEW pc \in RecvPcs, rpc' = [rpc EXCEPT ![s] = pc], rpc[s] # "data",
         NEW b \in Seq(AllUnits), buf' = [buf EXCEPT ![s] = b],
         wire' = wire \/ Receives(s),
         cur' = cur \/ \E i \in Items : cur' = [cur EXCEPT ![s] = i],
         spc[s] \in {"start", "refused"} => pc = "accept",
         pc \in {"text", "data"} => Len(b) <= Length[cur'[s]],
         Single => pc \notin {"make", "data", "text"}, ~Single => pc # "extract",
         Single /\ pc = "done" => extractor = "fine",
         \E log \in Seq(Entries), c \in Nat : StreamInv(s, log, c)'
  PROVE  IInv'
  <1>1. TypeInv /\ FileInv
    BY InvParts
  <1>2. UNCHANGED <<setup, sendVars, links>> /\ rpc[s] # "failed"
    BY <1>1, ReceiverFrame
  <1>3. UNCHANGED <<setup, smain, spc, parts, done, sent, target, links>>
    BY <1>2, SentStays
  <1>4. rpc'[s] = pc /\ buf'[s] = b /\ \A p : Gentle(p)
    BY <1>1 DEF TypeInv, Gentle
  <1>5. /\ wire' \in [Streams -> Seq(AllUnits)]
        /\ wire'[s] = wire[s] \/ Len(wire'[s]) = Len(wire[s]) - 1
    <2>1. CASE wire' = wire
      BY <1>1, <2>1 DEF TypeInv
    <2>2. CASE Receives(s)
      <3>1. PICK log \in Seq(Entries), c \in Nat : StreamInv(s, log, c)
        BY InvParts
      <3>. QED
        BY <1>1, <1>3, <2>2, <3>1, TakeOne
    <2>. QED
      BY <2>1, <2>2
  <1>6. TypeInv'
    <2>1. rpc' \in [Streams -> RecvPcs] /\ buf' \in [Streams -> Seq(AllUnits)] /\ cur' \in [Streams -> Items]
      BY <1>1 DEF TypeInv
    <2>. QED
      BY <1>1, <1>3, <1>5, <2>1 DEF TypeInv
  <1>7. SendAt(s)'
    BY <1>3, <1>4, <1>5, <1>6, ThreadAt
  <1>8. FileInv'
    <2>. SUFFICES ASSUME NEW i \in Files PROVE FileAt(i)'
      BY DEF FileInv
    <2>1. \A t \in Streams : rpc[t] = "failed" \/ (rpc[t] = "data" /\ cur[t] = i) =>
                              rpc'[t] = "failed" \/ (rpc'[t] = "data" /\ cur'[t] = i)
      BY <1>1, <1>2 DEF TypeInv
    <2>. QED
      BY <1>1, <1>4, <2>1, FileKept DEF FileInv
  <1>. QED
    BY <1>4, <1>6, <1>7, <1>8, OneReceives

\* A thread goes on without taking a unit.
LEMMA WireStays ==
  ASSUME NEW s \in Streams, NEW log, NEW c, StreamInv(s, log, c), UNCHANGED <<setup, sendVars, links>>,
         wire'[s] = wire[s]
  PROVE  Recorded(s, log)' /\ c \in 0 .. Len(log) /\ InFlight(s, log, c)'
  BY SentStays DEF StreamInv, InFlight

LEMMA ListenSteps ==
  ASSUME IInv, NEW s \in Streams, Listen(s) \/ Accept(s)
  PROVE  IInv'
  <1>1. TypeInv /\ SendAt(s) /\ ReceiverStep(s)
    BY InvParts DEF ReceiverStep, ReceiveThread
  <1>2. UNCHANGED <<setup, sendVars, links>>
    BY <1>1, ReceiverFrame
  <1>3. CASE Listen(s) /\ ReceiverFails(s)
    BY <1>1, <1>3, FailedSteps DEF Listen, ReceiverFails
  <1>4. CASE (Listen(s) /\ ~ReceiverFails(s)) \/ Accept(s)
    <2>1. PICK pc \in {"accept", "header"} :
             /\ ReceiverGoes(s, pc, <<>>) /\ UNCHANGED <<wire, cur, tree, extractor, lost>>
             /\ rpc[s] \in {"start", "accept"} /\ (spc[s] \in {"start", "refused"} => pc = "accept")
      BY <1>4 DEF Listen, Accept, Step
    <2>2. /\ rpc' = [rpc EXCEPT ![s] = pc] /\ buf' = [buf EXCEPT ![s] = <<>>] /\ rmain' = rmain
          /\ rpc'[s] = pc /\ buf'[s] = <<>>
      BY <1>1, <2>1 DEF ReceiverGoes, TypeInv
    <2>3. PICK log \in Seq(Entries), c \in Nat : StreamInv(s, log, c)
      BY InvParts
    <2>4. c = 0
      BY <2>1, <2>3 DEF StreamInv, ReadInv, Reading
    <2>5. Recorded(s, log)' /\ c \in 0 .. Len(log) /\ InFlight(s, log, c)'
      BY <1>2, <2>1, <2>3, WireStays
    <2>6. ReadInv(s, log, c)'
      <3>1. Reading(s, log, c)' /\ Progress(s, log, c)'
        <4>1. Len(<<>>) = 0
          OBVIOUS
        <4>. QED
          BY <2>1, <2>2, <2>4, <4>1 DEF Reading, Progress
      <3>2. UNCHANGED <<setup, parts>>
        BY <1>2, SentStays
      <3>3. Begun(s, log, c) = 0 /\ Begun(s, log, c)' = 0
        BY <2>4 DEF Begun
      <3>4. ClearFrom(s, 0) => ClearFrom(s, 0)'
        BY <2>1, <3>2 DEF ClearFrom, Untouched
      <3>5. s = 0 /\ Extracted(log, c) => Extracted(log, c)'
        BY <2>1, <2>2, <3>2 DEF Extracted, Members, Archived, Had, There, Untouched
      <3>6. ClearFrom(s, Begun(s, log, c)) => ClearFrom(s, Begun(s, log, c))'
        BY <3>3, <3>4 DEF ClearFrom
      <3>. QED
        BY <2>3, <3>1, <3>2, <3>5, <3>6 DEF StreamInv, ReadInv, Single
    <2>7. StreamInv(s, log, c)'
      BY <2>5, <2>6 DEF StreamInv
    <2>8. pc \in RecvPcs /\ <<>> \in Seq(AllUnits) /\ pc \notin {"text", "make", "data", "extract", "done"}
      BY <2>1 DEF RecvPcs
    <2>. QED
      BY <1>1, <2>1, <2>2, <2>3, <2>7, <2>8, TreeStays
  <1>. QED
    BY <1>3, <1>4

LEMMA EndSteps ==
  ASSUME IInv, NEW s \in Streams, Eof(s) \/ ReceiveError(s) \/ ExtractorGone(s) \/ CloseExtractor(s)
  PROVE  IInv'
  <1>1. TypeInv /\ SendAt(s) /\ ReceiverStep(s) /\ PartsInv /\ MainInv
    BY InvParts DEF ReceiverStep, ReceiveThread
  <1>2. UNCHANGED <<setup, sendVars, links>>
    BY <1>1, ReceiverFrame
  <1>3. UNCHANGED <<setup, smain, spc, parts, done, sent, target, links>>
    BY <1>2, SentStays
  <1>4. CASE ReceiveError(s) \/ (Eof(s) /\ ~Quiet(s)) \/ (CloseExtractor(s) /\ ~close_pipe_checked)
    BY <1>1, <1>4, FailedSteps DEF ReceiveError, Eof, CloseExtractor, ReceiverFails, ReceiverGoes
  <1>5. CASE ExtractorGone(s)
    <2>1. CASE ReceiverGoes(s, "failed", <<>>)
      BY <1>1, <1>5, <2>1, FailedSteps DEF ExtractorGone, ReceiverGoes
    <2>2. CASE ~ReceiverGoes(s, "failed", <<>>)
      <3>1. /\ rmain' = "killed" /\ UNCHANGED <<rpc, buf>> /\ UNCHANGED <<wire, cur, tree, extractor, lost>>
        BY <1>5, <2>2 DEF ExtractorGone
      <3>2. TypeInv' /\ PartsInv'
        <4>1. TypeInv'
          BY <1>1, <1>3, <3>1 DEF TypeInv
        <4>2. collect_directory_items' = collect_directory_items
          BY <1>3 DEF collect_directory_items
        <4>3. PartsInv'
          BY <1>1, <1>3, <4>2 DEF PartsInv
        <4>. QED
          BY <4>1, <4>3
      <3>3. MainInv'
        BY <1>1, <1>3, <3>1 DEF MainInv, Single, Untouched
      <3>. QED
        BY <1>3, <3>1, <3>2, <3>3, Quietly DEF IInv
    <2>. QED
      BY <2>1, <2>2
  <1>6. CASE (Eof(s) /\ Quiet(s)) \/ (CloseExtractor(s) /\ close_pipe_checked)
    <2>1. /\ ReceiverGoes(s, "done", <<>>) /\ UNCHANGED <<wire, cur, tree, extractor, lost>>
          /\ AtEof(s)
      BY <1>6 DEF Eof, CloseExtractor
    <2>2. /\ rpc' = [rpc EXCEPT ![s] = "done"] /\ buf' = [buf EXCEPT ![s] = <<>>] /\ rmain' = rmain
          /\ rpc'[s] = "done" /\ buf'[s] = <<>>
      BY <1>1, <2>1 DEF ReceiverGoes, TypeInv
    <2>3. \/ rpc[s] = "header" /\ buf[s] = <<>> /\ ~Single
          \/ rpc[s] = "extract" /\ extractor = "fine" /\ Single
      BY <1>1, <1>6 DEF Quiet, CloseExtractor, close_pipe_checked, Step, SendAt
    <2>4. PICK log \in Seq(Entries), c \in Nat : StreamInv(s, log, c)
      BY InvParts
    <2>5. Recorded(s, log)' /\ c \in 0 .. Len(log) /\ InFlight(s, log, c)'
      BY <1>2, <2>1, <2>4, WireStays
    <2>6. ReadInv(s, log, c)'
      <3>1. Reading(s, log, c)'
        <4>1. AtEof(s)'
          BY <1>3, <2>1 DEF AtEof
        <4>. QED
          BY <2>2, <4>1 DEF Reading
      <3>2. ~Single => ClearFrom(s, Begun(s, log, c))'
        <4>1. ~Single => Begun(s, log, c)' = Begun(s, log, c)
          BY <2>2, <2>3 DEF Begun
        <4>2. ~Single => ClearFrom(s, Begun(s, log, c))
          BY <2>4 DEF StreamInv, ReadInv
        <4>. QED
          BY <1>3, <2>1, <4>1, <4>2 DEF ClearFrom, Untouched
      <3>3. ASSUME ~Single, ~lost, ~LinkLostAnItem
            PROVE  Progress(s, log, c)'
        <4>1. Progress(s, log, c) /\ rpc[s] = "header" /\ buf[s] = <<>>
          BY <2>3, <2>4, <3>3 DEF StreamInv, ReadInv
        <4>2. \A n : Got(s, n) => Got(s, n)'
          BY <1>3, <2>1 DEF Got, There
        <4>. QED
          BY <1>2, <2>2, <4>1, <4>2, SentStays DEF Progress
      <3>4. s = 0 /\ Extracted(log, c) => Extracted(log, c)'
        BY <1>3, <2>1, <2>2 DEF Extracted, Members, Archived, Had, There, Untouched
      <3>. QED
        BY <1>2, <1>3, <2>1, <2>4, <3>1, <3>2, <3>3, <3>4, SentStays DEF StreamInv, ReadInv
    <2>7. StreamInv(s, log, c)'
      BY <2>5, <2>6 DEF StreamInv
    <2>8. "done" \in RecvPcs /\ <<>> \in Seq(AllUnits)
      BY DEF RecvPcs
    <2>9. spc[s] \notin {"start", "refused"}
      BY <1>1, <2>3 DEF SendAt
    <2>. QED
      BY <1>1, <2>1, <2>2, <2>3, <2>4, <2>7, <2>8, <2>9, TreeStays
  <1>. QED
    BY <1>4, <1>5, <1>6

\* The first unit of a header.
LEMMA MagicSteps ==
  ASSUME IInv, NEW s \in Streams, TakeHeader(s), Len(Arrived(s)) < HeadUnits
  PROVE  IInv'
  <1>1. TypeInv /\ SendAt(s) /\ ReceiverStep(s)
    BY InvParts DEF ReceiverStep, ReceiveThread
  <1>2. UNCHANGED <<setup, sendVars, links>>
    BY <1>1, ReceiverFrame
  <1>3. UNCHANGED <<setup, smain, spc, parts, done, sent, target, links>>
    BY <1>2, SentStays
  <1>4. /\ ReceiverGoes(s, "header", Arrived(s)) /\ UNCHANGED <<cur, tree, extractor, lost>>
        /\ rpc[s] = "header" /\ Receives(s) /\ rmain' = rmain
    BY DEF TakeHeader, Step, ReceiverGoes
  <1>5. PICK log \in Seq(Entries), c \in Nat : StreamInv(s, log, c)
    BY InvParts
  <1>6. /\ c + 1 \in 1 .. Len(log) /\ c + 1 \in 0 .. Len(log)
        /\ Head(wire[s]) = OnWire(s, log[c + 1]) /\ Head(wire[s]) \in AllUnits
        /\ InFlight(s, log, c + 1)'
    BY <1>1, <1>3, <1>4, <1>5, TakeOne
  <1>7. /\ buf[s] = <<>> /\ Arrived(s) = <<OnWire(s, log[c + 1])>> /\ Arrived(s) \in Seq(AllUnits)
        /\ Len(Arrived(s)) = 1
    <2>1. buf[s] \in Seq(AllUnits)
      BY <1>1 DEF TypeInv
    <2>2. Len(Arrived(s)) = Len(buf[s]) + 1 /\ Len(buf[s]) \in Nat /\ Arrived(s) \in Seq(AllUnits)
      BY <1>6, <2>1 DEF Arrived
    <2>3. buf[s] = <<>>
      BY <2>1, <2>2 DEF HeadUnits
    <2>. QED
      BY <1>6, <2>2, <2>3 DEF Arrived
  <1>8. /\ rpc' = [rpc EXCEPT ![s] = "header"] /\ buf' = [buf EXCEPT ![s] = Arrived(s)]
        /\ rpc'[s] = "header" /\ buf'[s] = Arrived(s) /\ buf'[s] # <<>>
    BY <1>1, <1>4, <1>7 DEF ReceiverGoes, TypeInv
  <1>9. Single => c = 0
    <2>1. Len(buf[s]) = 0
      BY <1>7
    <2>. QED
      BY <1>4, <1>5, <2>1 DEF StreamInv, ReadInv, Reading
  <1>10. c > 0 => /\ log[c].k \in Nat /\ log[c + 1].k \in Nat /\ log[c].k <= log[c + 1].k
                  /\ log[c + 1].at = 1 => Ends(s, log[c]) /\ log[c + 1].k - 1 = log[c].k
    <2>. SUFFICES ASSUME c > 0
                  PROVE  /\ log[c].k \in Nat /\ log[c + 1].k \in Nat /\ log[c].k <= log[c + 1].k
                         /\ log[c + 1].at = 1 => Ends(s, log[c]) /\ log[c + 1].k - 1 = log[c].k
      OBVIOUS
    <2>1. /\ log[c].k \in Nat /\ log[c].at \in Nat /\ log[c + 1].k \in Nat
          /\ log[c].k <= log[c + 1].k /\ log[c].at >= 1
          /\ Ends(s, log[c]) => log[c + 1].k = log[c].k + 1
          /\ ~Ends(s, log[c]) => log[c + 1].at = log[c].at + 1
      BY <1>1, <1>5, <1>6, NextEntry
    <2>. QED
      BY <2>1
  <1>11. c = 0 => log[c + 1].k = 1 /\ log[c + 1].at = 1
    BY <1>1, <1>5, <1>6, FirstEntry
  <1>12. c + 1 # 0 /\ c + 1 > 0
    BY <1>5
  <1>13. Reading(s, log, c + 1)'
    <2>1. OnWire(s, log[c + 1])' = OnWire(s, log[c + 1]) /\ (Single' <=> Single)
      BY <1>2, SentStays
    <2>2. Single => c + 1 = Len(buf'[s])
      BY <1>7, <1>8, <1>9
    <2>. QED
      BY <1>7, <1>8, <1>12, <2>1, <2>2 DEF Reading
  <1>14. ~Single => ClearFrom(s, Begun(s, log, c + 1))'
    <2>. DEFINE n == IF log[c + 1].at = 1 THEN log[c + 1].k - 1 ELSE log[c + 1].k
    <2>1. Begun(s, log, c + 1)' = n
      BY <1>8, <1>12 DEF Begun
    <2>2. Begun(s, log, c) = (IF c = 0 THEN 0 ELSE log[c].k) /\ (~Single => ClearFrom(s, Begun(s, log, c)))
      BY <1>4, <1>5, <1>7 DEF Begun, StreamInv, ReadInv
    <2>3. Begun(s, log, c) \in Int /\ n \in Int /\ Begun(s, log, c) <= n
      BY <1>5, <1>10, <1>11, <2>2
    <2>4. \A p : Gentle(p)
      BY <1>4 DEF Gentle
    <2>. HIDE DEF n
    <2>5. ~Single => ClearFrom(s, n)'
      BY <1>1, <1>3, <2>2, <2>3, <2>4, ClearMore
    <2>. QED
      BY <2>1, <2>5 DEF ClearFrom
  <1>15. ASSUME ~Single, ~lost, ~LinkLostAnItem
         PROVE  Progress(s, log, c + 1)'
    <2>1. Progress(s, log, c)
      BY <1>5, <1>15 DEF StreamInv, ReadInv
    <2>2. log[c + 1].at = 1 => Got(s, log[c + 1].k - 1)
      <3>1. CASE c = 0
        <4>1. log[c + 1].k - 1 = 0 /\ 1 .. 0 = {}
          BY <1>11, <3>1
        <4>. QED
          BY <4>1 DEF Got
      <3>2. CASE c # 0
        BY <1>4, <1>5, <1>7, <1>10, <2>1, <3>2 DEF Progress
      <3>. QED
        BY <3>1, <3>2
    <2>3. \A n : Got(s, n) => Got(s, n)'
      BY <1>3, <1>4 DEF Got, There
    <2>. QED
      BY <1>8, <2>2, <2>3 DEF Progress
  <1>16. ASSUME Single, s = 0, setup.send = 1
         PROVE  Extracted(log, c + 1)'
    <2>1. Extracted(log, c) /\ c = 0 /\ rpc'[0] = "header"
      BY <1>5, <1>8, <1>9, <1>16 DEF StreamInv, ReadInv
    <2>2. Had(log, c) = 0 /\ Had(log, c + 1) = (1 - 2) \div 2 /\ (1 - 2) \div 2 <= 0 /\ (1 - 2) \div 2 \in Int
      <3>1. log[c + 1].at = 1 /\ c = 0
        BY <1>11, <2>1
      <3>2. Had(log, c) = 0 /\ Had(log, c + 1) = (log[c + 1].at - 2) \div 2
        BY <1>12, <2>1 DEF Had, HeadUnits
      <3>3. (1 - 2) \div 2 <= 0 /\ (1 - 2) \div 2 \in Int
        OBVIOUS
      <3>. QED
        BY <3>1, <3>2, <3>3
    <2>3. Members' = Members /\ Len(Members) \in Nat
      BY <1>1, <1>2, SentStays, MembersFacts DEF TypeInv
    <2>4. \A n \in 1 .. Len(Members) : ~(n <= Had(log, c)) /\ ~(n <= Had(log, c + 1))
      BY <2>2, <2>3
    <2>5. \A n \in 1 .. Len(Members) : Untouched(Members[n])
      BY <2>1, <2>4 DEF Extracted
    <2>6. Had(log, c + 1)' = Had(log, c + 1)
      BY DEF Had
    <2>. QED
      BY <1>4, <2>1, <2>3, <2>4, <2>5, <2>6 DEF Extracted, Untouched
  <1>17. StreamInv(s, log, c + 1)'
    <2>1. Recorded(s, log)' /\ (Single' <=> Single) /\ (LinkLostAnItem' <=> LinkLostAnItem)
      BY <1>2, <1>5, SentStays DEF StreamInv
    <2>. QED
      BY <1>3, <1>4, <1>6, <1>13, <1>14, <1>15, <1>16, <2>1 DEF StreamInv, ReadInv
  <1>18. "header" \in RecvPcs /\ spc[s] \notin {"start", "refused"}
    BY <1>1, <1>4 DEF RecvPcs, SendAt
  <1>19. c + 1 \in Nat
    BY <1>5
  <1>20. \E l \in Seq(Entries), d \in Nat : StreamInv(s, l, d)'
    BY <1>5, <1>17, <1>19
  <1>. QED
    BY <1>1, <1>4, <1>7, <1>8, <1>18, <1>20, TreeStays

\* The rest of a header.
LEMMA NameSteps ==
  ASSUME IInv, NEW s \in Streams, TakeHeader(s), ~(Len(Arrived(s)) < HeadUnits)
  PROVE  IInv'
  <1>1. TypeInv /\ PartsInv /\ SendAt(s) /\ ReceiverStep(s)
    BY InvParts DEF ReceiverStep, ReceiveThread
  <1>2. UNCHANGED <<setup, sendVars, links>>
    BY <1>1, ReceiverFrame
  <1>3. UNCHANGED <<setup, smain, spc, parts, done, sent, target, links>>
    BY <1>2, SentStays
  <1>4. rpc[s] = "header" /\ Receives(s) /\ UNCHANGED <<rmain, tree, extractor, lost>>
    BY DEF TakeHeader, Step, ReceiverGoes
  <1>5. PICK log \in Seq(Entries), c \in Nat : StreamInv(s, log, c)
    BY InvParts
  <1>6. /\ c + 1 \in 1 .. Len(log) /\ c + 1 \in 0 .. Len(log)
        /\ Head(wire[s]) = OnWire(s, log[c + 1]) /\ Head(wire[s]) \in AllUnits
        /\ InFlight(s, log, c + 1)'
    BY <1>1, <1>3, <1>4, <1>5, TakeOne
  <1>7. /\ c > 0 /\ buf[s] = <<OnWire(s, log[c])>> /\ buf[s] # <<>> /\ Len(buf[s]) = 1
        /\ Arrived(s)[1] = OnWire(s, log[c]) /\ Arrived(s)[2] = OnWire(s, log[c + 1])
    <2>1. buf[s] # <<>>
      <3>. SUFFICES ASSUME buf[s] = <<>> PROVE FALSE
        OBVIOUS
      <3>1. Len(Arrived(s)) = 1
        BY DEF Arrived
      <3>. QED
        BY <3>1 DEF HeadUnits
    <2>2. c > 0 /\ buf[s] = <<OnWire(s, log[c])>>
      BY <1>4, <1>5, <2>1 DEF StreamInv, ReadInv, Reading
    <2>3. buf[s] \in Seq(AllUnits) /\ Len(buf[s]) = 1 /\ buf[s][1] = OnWire(s, log[c])
      <3>1. buf[s] \in Seq(AllUnits)
        BY <1>1 DEF TypeInv
      <3>2. \A u : Len(<<u>>) = 1 /\ <<u>>[1] = u
        OBVIOUS
      <3>. QED
        BY <2>2, <3>1, <3>2
    <2>4. Arrived(s)[1] = buf[s][1] /\ Arrived(s)[2] = Head(wire[s])
      BY <1>6, <2>3 DEF Arrived
    <2>. QED
      BY <1>6, <2>1, <2>2, <2>3, <2>4
  <1>8. /\ Arrived(s)[1].at = log[c].at /\ Arrived(s)[2].item = Carried(s, log[c + 1])
        /\ Carried(s, log[c + 1]) \in Items
    <2>1. Carried(s, log[c + 1]) \in Items
      BY <1>1, <1>5, <1>6, LogFacts
    <2>. QED
      BY <1>7, <2>1 DEF OnWire, Unit
  <1>9. Single => c = 1 /\ log[c].at = 1
    <2>1. Single => c = 1
      BY <1>4, <1>5, <1>7 DEF StreamInv, ReadInv, Reading
    <2>2. Len(log) \in Nat /\ (Len(log) > 0 => log[1] = Entry(1, 1, NoTarget))
      BY <1>1, <1>5, LogFacts
    <2>3. log[1].at = 1
      BY <1>6, <2>2 DEF Entry
    <2>. QED
      BY <2>1, <2>3
  <1>10. CASE ~IsHeader(Arrived(s))
    <2>1. ReceiverGoes(s, "failed", <<>>) /\ cur' = cur
      BY <1>10 DEF TakeHeader
    <2>2. ~Single
      BY <1>8, <1>9, <1>10 DEF IsHeader
    <2>. QED
      BY <1>1, <1>4, <2>1, <2>2, FailedSteps DEF ReceiverGoes
  <1>11. CASE IsHeader(Arrived(s))
    <2>. DEFINE i == Carried(s, log[c + 1])
    <2>1. ReceiverGoes(s, AfterName(i), <<>>) /\ cur' = [cur EXCEPT ![s] = i]
      BY <1>8, <1>11 DEF TakeHeader
    <2>2. /\ c \in 1 .. Len(log) /\ log[c].at = 1 /\ ~Ends(s, log[c])
          /\ log[c + 1].k = log[c].k /\ log[c + 1].at = 2 /\ Carried(s, log[c + 1]) = Carried(s, log[c])
          /\ log[c].k \in 1 .. Len(parts[s]) /\ Len(parts[s]) \in Nat
      <3>1. log[c].at = 1
        BY <1>8, <1>11 DEF IsHeader
      <3>2. ~Ends(s, log[c])
        BY <3>1 DEF Ends, HeadUnits
      <3>. QED
        BY <1>1, <1>5, <1>6, <1>7, <3>1, <3>2, NextEntry, LogFacts
    <2>3. c + 1 # 0 /\ c + 1 > 0 /\ c + 1 \in Nat
      BY <1>5
    <2>4. i \in Items /\ parts[s][log[c].k] = i
      BY <1>8, <2>2 DEF Carried
    <2>. HIDE DEF i
    <2>5. Recorded(s, log)' /\ (Single' <=> Single) /\ (LinkLostAnItem' <=> LinkLostAnItem)
      BY <1>2, <1>5, SentStays DEF StreamInv
    <2>6. \A p : Gentle(p)
      BY <1>4 DEF Gentle
    <2>7. CASE ~Single /\ i = Archive
      <3>1. AfterName(i) = "failed"
        BY <2>7 DEF AfterName
      <3>. QED
        BY <1>1, <1>4, <2>1, <2>4, <2>7, <3>1, FailedSteps DEF ReceiverGoes
    <2>8. CASE ~Single /\ i # Archive
      <3>1. AfterName(i) = "make" /\ i \in Paths
        BY <2>4, <2>8 DEF AfterName, Items
      <3>2. /\ rpc' = [rpc EXCEPT ![s] = "make"] /\ buf' = [buf EXCEPT ![s] = <<>>]
            /\ rpc'[s] = "make" /\ buf'[s] = <<>> /\ cur'[s] = i
        BY <1>1, <2>1, <3>1 DEF ReceiverGoes, TypeInv
      <3>3. Reading(s, log, c + 1)'
        <4>1. parts'[s][log[c + 1].k] = cur'[s] /\ log[c + 1].k \in 1 .. log[c + 1].k
          BY <1>3, <2>2, <2>4, <3>2
        <4>2. Carried(s, log[c + 1])' = cur'[s]
          BY <1>2, <3>2, SentStays DEF i
        <4>. QED
          BY <2>2, <2>3, <2>5, <2>8, <3>1, <3>2, <4>1, <4>2 DEF Reading, HeadUnits
      <3>4. ClearFrom(s, Begun(s, log, c + 1))'
        <4>. DEFINE n == log[c].k - 1
        <4>1. Begun(s, log, c + 1)' = n /\ Begun(s, log, c) = n /\ n \in Int
          BY <1>4, <1>7, <2>2, <2>3, <3>2 DEF Begun
        <4>. HIDE DEF n
        <4>2. ClearFrom(s, n)
          BY <1>5, <2>8, <4>1 DEF StreamInv, ReadInv
        <4>3. n <= n
          BY <4>1
        <4>4. ClearFrom(s, n)'
          BY <1>1, <1>3, <2>6, <4>1, <4>2, <4>3, ClearMore
        <4>. QED
          BY <4>1, <4>4 DEF ClearFrom
      <3>5. ASSUME ~lost, ~LinkLostAnItem
            PROVE  Progress(s, log, c + 1)'
        <4>1. Got(s, log[c].k - 1)
          BY <1>4, <1>5, <1>7, <2>2, <2>8, <3>5 DEF StreamInv, ReadInv, Progress
        <4>2. \A k \in 1 .. Len(parts[s]) : parts[s][k] = i => k = log[c].k
          BY <1>1, <2>2, <2>4 DEF PartsInv
        <4>3. \A n : Got(s, n) => Got(s, n)'
          BY <1>3, <1>4 DEF Got, There
        <4>. QED
          BY <1>3, <3>2, <4>1, <4>2, <4>3 DEF Progress
      <3>6. StreamInv(s, log, c + 1)'
        BY <1>3, <1>4, <1>6, <2>5, <2>8, <3>3, <3>4, <3>5 DEF StreamInv, ReadInv
      <3>7. "make" \in RecvPcs /\ spc[s] \notin {"start", "refused"} /\ <<>> \in Seq(AllUnits)
        BY <1>1, <1>4 DEF RecvPcs, SendAt
      <3>8. \E l \in Seq(Entries), d \in Nat : StreamInv(s, l, d)'
        BY <1>5, <2>3, <3>6
      <3>. QED
        BY <1>1, <1>4, <2>1, <2>4, <2>8, <3>2, <3>7, <3>8, TreeStays
    <2>9. CASE Single
      <3>1. AfterName(i) = "extract"
        BY <2>9 DEF AfterName
      <3>2. /\ rpc' = [rpc EXCEPT ![s] = "extract"] /\ buf' = [buf EXCEPT ![s] = <<>>]
            /\ rpc'[s] = "extract" /\ buf'[s] = <<>>
        BY <1>1, <2>1, <3>1 DEF ReceiverGoes, TypeInv
      <3>3. Reading(s, log, c + 1)'
        BY <2>3, <3>2 DEF Reading
      <3>4. ASSUME s = 0, setup.send = 1
            PROVE  Extracted(log, c + 1)'
        <4>1. Extracted(log, c)
          BY <1>5, <2>9, <3>4 DEF StreamInv, ReadInv
        <4>2. Had(log, c) = (1 - 2) \div 2 /\ Had(log, c + 1) = (2 - 2) \div 2
          <5>1. c # 0
            BY <1>7
          <5>. QED
            BY <2>2, <2>3, <5>1 DEF Had, HeadUnits
        <4>3. (1 - 2) \div 2 <= 0 /\ (1 - 2) \div 2 \in Int /\ (2 - 2) \div 2 = 0
          OBVIOUS
        <4>4. Members' = Members /\ Len(Members) \in Nat
          BY <1>1, <1>2, SentStays, MembersFacts DEF TypeInv
        <4>5. \A n \in 1 .. Len(Members) : ~(n <= Had(log, c)) /\ ~(n <= Had(log, c + 1))
          BY <4>2, <4>3, <4>4
        <4>6. \A n \in 1 .. Len(Members) : Untouched(Members[n])
          BY <4>1, <4>5 DEF Extracted
        <4>7. Had(log, c + 1)' = Had(log, c + 1) /\ log[c + 1].at >= HeadUnits
          BY <2>2 DEF Had, HeadUnits
        <4>. QED
          BY <1>4, <4>4, <4>5, <4>6, <4>7 DEF Extracted, Untouched
      <3>5. StreamInv(s, log, c + 1)'
        BY <1>3, <1>6, <2>5, <2>9, <3>3, <3>4 DEF StreamInv, ReadInv
      <3>6. "extract" \in RecvPcs /\ spc[s] \notin {"start", "refused"} /\ <<>> \in Seq(AllUnits)
        BY <1>1, <1>4 DEF RecvPcs, SendAt
      <3>7. \E l \in Seq(Entries), d \in Nat : StreamInv(s, l, d)'
        BY <1>5, <2>3, <3>5
      <3>. QED
        BY <1>1, <1>4, <2>1, <2>4, <2>9, <3>2, <3>6, <3>7, TreeStays
    <2>. QED
      BY <2>7, <2>8, <2>9
  <1>. QED
    BY <1>10, <1>11

\* A thread does something about the item it is at work on.
LEMMA WorkSteps ==
  ASSUME IInv, NEW s \in Streams, ReceiverStep(s), rpc[s] \in {"make", "data", "text"},
         UNCHANGED <<rmain, cur, extractor>>, lost => lost', lost' \in BOOLEAN,
         NEW pc \in {"header", "data", "text"}, rpc' = [rpc EXCEPT ![s] = pc],
         NEW b \in Seq(AllUnits), buf' = [buf EXCEPT ![s] = b], pc # "header" => Len(b) <= Length[cur[s]],
         wire' = wire \/ Receives(s), tree' \in [Paths -> Nodes], \A p \in Paths \ {cur[s]} : Gentle(p),
         cur[s] \in Files => FileAt(cur[s])',
         \E log \in Seq(Entries), c \in Nat : StreamInv(s, log, c)'
  PROVE  IInv'
  <1>1. TypeInv /\ FileInv /\ SendAt(s)
    BY InvParts
  <1>2. UNCHANGED <<setup, sendVars, links>> /\ rpc[s] # "failed"
    BY <1>1, ReceiverFrame
  <1>3. UNCHANGED <<setup, smain, spc, parts, done, sent, target, links>>
    BY <1>2, SentStays
  <1>4. rpc'[s] = pc /\ buf'[s] = b
    BY <1>1 DEF TypeInv
  <1>5. ~Single /\ cur[s] \in Paths /\ smain # "start" /\ Length[cur[s]] \in Nat
    BY AtWork, Constants
  <1>6. /\ wire' \in [Streams -> Seq(AllUnits)]
        /\ wire'[s] = wire[s] \/ Len(wire'[s]) = Len(wire[s]) - 1
    <2>1. CASE wire' = wire
      BY <1>1, <2>1 DEF TypeInv
    <2>2. CASE Receives(s)
      <3>1. PICK log \in Seq(Entries), c \in Nat : StreamInv(s, log, c)
        BY InvParts
      <3>. QED
        BY <1>1, <1>3, <2>2, <3>1, TakeOne
    <2>. QED
      BY <2>1, <2>2
  <1>7. TypeInv'
    <2>1. rpc' \in [Streams -> RecvPcs] /\ buf' \in [Streams -> Seq(AllUnits)]
      BY <1>1, <1>4 DEF TypeInv, RecvPcs
    <2>. QED
      BY <1>1, <1>3, <1>6, <2>1 DEF TypeInv
  <1>8. SendAt(s)'
    <2>1. spc[s] \notin {"start", "refused"}
      BY <1>1 DEF SendAt
    <2>. QED
      BY <1>4, <1>5, <1>6, <1>7, <2>1, ThreadAt
  <1>9. FileInv'
    <2>. SUFFICES ASSUME NEW i \in Files, i # cur[s] PROVE FileAt(i)'
      BY DEF FileInv
    <2>1. \A t \in Streams : rpc[t] = "failed" \/ (rpc[t] = "data" /\ cur[t] = i) =>
                              rpc'[t] = "failed" \/ (rpc'[t] = "data" /\ cur'[t] = i)
      BY <1>1, <1>2 DEF TypeInv
    <2>2. Gentle(i)
      BY Constants
    <2>. QED
      BY <1>1, <2>1, <2>2, FileKept DEF FileInv
  <1>10. \A p \in Paths : Gentle(p) \/ (rpc[s] \in {"make", "data", "text"} /\ p = cur[s])
    OBVIOUS
  <1>. QED
    BY <1>5, <1>7, <1>8, <1>9, <1>10, OneReceives

\* A thread at work, and the place k of its item in the stream.
LEMMA WorkPlace ==
  ASSUME IInv, NEW s \in Streams, rpc[s] \in {"make", "data", "text"}, NEW log, NEW c, StreamInv(s, log, c)
  PROVE  /\ c \in 1 .. Len(log) /\ log[c].k \in 1 .. Len(parts[s]) /\ Len(parts[s]) \in Nat
         /\ Fits(s, log[c]) /\ log[c] \in Entries
         /\ \E k \in 1 .. log[c].k :
              /\ parts[s][k] = cur[s]
              /\ \A j \in 1 .. Len(parts[s]) : parts[s][j] = cur[s] => j = k
              /\ ~lost /\ ~LinkLostAnItem => Got(s, k - 1)
              /\ rpc[s] \in {"make", "data"} => k = log[c].k
  <1>1. TypeInv /\ PartsInv
    BY InvParts
  <1>2. Reading(s, log, c) /\ (~Single /\ ~lost /\ ~LinkLostAnItem => Progress(s, log, c)) /\ ~Single
    BY AtWork DEF StreamInv, ReadInv
  <1>3. c \in 1 .. Len(log)
    BY <1>1, <1>2, LogFacts DEF Reading
  <1>4. /\ log[c].k \in 1 .. Len(parts[s]) /\ Len(parts[s]) \in Nat
        /\ Fits(s, log[c]) /\ log[c] \in Entries
    BY <1>1, <1>3, LogFacts
  <1>5. PICK k \in 1 .. log[c].k : parts[s][k] = cur[s]
    BY <1>2 DEF Reading
  <1>6. k \in 1 .. Len(parts[s])
    BY <1>4, <1>5
  <1>7. \A j \in 1 .. Len(parts[s]) : parts[s][j] = cur[s] => j = k
    BY <1>1, <1>5, <1>6 DEF PartsInv
  <1>8. ~lost /\ ~LinkLostAnItem => Got(s, k - 1)
    BY <1>2, <1>5, <1>6 DEF Progress
  <1>9. rpc[s] \in {"make", "data"} => k = log[c].k
    BY <1>2, <1>4, <1>7 DEF Reading, Carried
  <1>. QED
    BY <1>3, <1>4, <1>5, <1>7, <1>8, <1>9

\* The items behind the one at work and before it are left alone.
LEMMA WorkKeeps ==
  ASSUME IInv, NEW s \in Streams, UNCHANGED <<setup, sendVars, links>>, NEW k \in 1 .. Len(parts[s]),
         \A j \in 1 .. Len(parts[s]) : parts[s][j] = cur[s] => j = k,
         \A p \in Paths \ {cur[s]} : Gentle(p)
  PROVE  /\ \A j \in 1 .. Len(parts[s]) : j # k /\ parts[s][j] \in Paths => Gentle(parts[s][j])
         /\ Got(s, k - 1) => Got(s, k - 1)'
         /\ parts' = parts /\ k \in Nat
  <1>1. parts' = parts /\ Len(parts[s]) \in Nat
    <2>1. TypeInv
      BY InvParts
    <2>2. parts[s] \in Seq(Items)
      BY <2>1 DEF TypeInv
    <2>3. parts' = parts
      BY DEF sendVars
    <2>. QED
      BY <2>2, <2>3
  <1>2. \A j \in 1 .. Len(parts[s]) : j # k /\ parts[s][j] \in Paths => Gentle(parts[s][j])
    OBVIOUS
  <1>3. ASSUME Got(s, k - 1)
        PROVE  Got(s, k - 1)'
    <2>1. \A j \in 1 .. k - 1 : parts[s][j] \in Paths /\ j \in 1 .. Len(parts[s]) /\ j # k
      BY <1>1, <1>3 DEF Got
    <2>2. \A j \in 1 .. k - 1 : Gentle(parts[s][j])
      BY <1>2, <2>1
    <2>. QED
      BY <1>1, <1>3, <2>2, GotStays
  <1>. QED
    BY <1>1, <1>2, <1>3

\* All of the first k items, with the last of them.
LEMMA GotOneMore ==
  ASSUME NEW s, NEW k \in Nat, Got(s, k - 1)', parts' = parts, NEW i \in Paths, parts[s][k] = i, There(i)'
  PROVE  Got(s, k)'
  <1>. SUFFICES ASSUME NEW j \in 1 .. k PROVE parts[s][j] \in Paths /\ There(parts[s][j])'
    BY DEF Got
  <1>1. CASE j = k
    BY <1>1 DEF There
  <1>2. CASE j # k
    <2>1. j \in 1 .. k - 1
      BY <1>2
    <2>. QED
      BY <2>1 DEF Got, There
  <1>. QED
    BY <1>1, <1>2

\* What create_directories leaves where no older link leads elsewhere.
LEMMA MadeGently ==
  ASSUME TypeInv, Straight, NEW dirs, tree' = Made(dirs),
         \A p \in Paths : p \in dirs => tree[p] \in {Absent, Dir}
  PROVE  /\ tree' \in [Paths -> Nodes] /\ \A p \in Paths : Gentle(p)
         /\ \A p \in Paths : tree'[p] = IF p \in dirs THEN Dir ELSE tree[p]
  <1>1. \A p \in Paths : tree'[p] = IF p \in dirs THEN Dir ELSE tree[p]
    BY DEF Made, Straight
  <1>2. \A p \in Paths : Gentle(p)
    BY <1>1 DEF Gentle
  <1>3. <<>> \in Seq(AllUnits)
    OBVIOUS
  <1>4. Dir \in Nodes
    BY <1>3 DEF Dir, Node, Nodes
  <1>5. \A p \in Paths : tree'[p] \in Nodes
    BY <1>1, <1>4 DEF TypeInv
  <1>. QED
    BY <1>1, <1>2, <1>5 DEF Made

LEMMA CanBeMade ==
  ASSUME Straight, NEW dirs, CanMake(dirs)
  PROVE  \A p \in Paths : p \in dirs => tree[p] \in {Absent, Dir}
  BY DEF CanMake, Straight

\* A thread that fails to prepare its item.
PrepareFails(s) ==
    /\ tree' \in [Paths -> Nodes] /\ \A p \in Paths : Gentle(p)
    /\ ReceiverGoes(s, "failed", <<>>) \/ ReceiverFails(s)

LEMMA PrepareFailsGently ==
  ASSUME TypeInv, Straight, NEW s \in Streams, Prepare(s), ~PrepareFails(s)
  PROVE  /\ CanPrepare(cur[s])
         /\ tree' = [p \in Paths |-> IF p = Place(cur[s]) /\ cur[s] \in Files
                                       THEN Node("file", <<>>, "rw") ELSE Made(Needed(cur[s]))[p]]
         /\ ReceiverGoes(s, CASE cur[s] \in Files -> "data" [] cur[s] \in Links -> "text"
                               [] OTHER -> "header", <<>>)
  <1>1. PICK i : i = cur[s]
    OBVIOUS
  <1>2. ASSUME NEW dirs \in SUBSET Reached(i), tree' = Made(dirs)
        PROVE  tree' \in [Paths -> Nodes] /\ \A p \in Paths : Gentle(p)
    <2>1. \A p \in Paths : p \in dirs => tree[p] \in {Absent, Dir}
      BY CanBeMade DEF Reached
    <2>. QED
      BY <1>2, <2>1, MadeGently
  <1>3. ~(tree' = Made(Reached(i)) /\ ReceiverGoes(s, "failed", <<>>))
    BY <1>2 DEF PrepareFails
  <1>4. ~((\E n \in 0 .. i : tree' = Made({ d \in Reached(i) : d <= n })) /\ ReceiverFails(s))
    <2>. SUFFICES ASSUME NEW n \in 0 .. i, tree' = Made({ d \in Reached(i) : d <= n }), ReceiverFails(s)
                  PROVE  FALSE
      OBVIOUS
    <2>1. { d \in Reached(i) : d <= n } \in SUBSET Reached(i)
      OBVIOUS
    <2>. QED
      BY <1>2, <2>1 DEF PrepareFails
  <1>. QED
    BY <1>1, <1>3, <1>4 DEF Prepare

\* create_directories, and the output file.
LEMMA PrepareSteps ==
  ASSUME IInv, Straight, NEW s \in Streams, Prepare(s)
  PROVE  IInv'
  <1>1. TypeInv /\ FileInv /\ SendAt(s) /\ ReceiverStep(s)
    BY InvParts DEF ReceiverStep, ReceiveThread
  <1>2. UNCHANGED <<setup, sendVars, links>>
    BY <1>1, ReceiverFrame
  <1>0. PICK i : i = cur[s]
    OBVIOUS
  <1>3. rpc[s] = "make" /\ ~Single /\ i \in Paths /\ Kind[i] \notin {"Other", "Socket"} /\ smain # "start"
        /\ UNCHANGED <<wire, cur, extractor, lost>>
    BY <1>0, AtWork DEF Prepare, Step
  <1>4. CASE PrepareFails(s)
    <2>1. rpc' = [rpc EXCEPT ![s] = "failed"] /\ buf' = [buf EXCEPT ![s] = <<>>] /\ rmain' = rmain
      BY <1>4 DEF PrepareFails, ReceiverGoes, ReceiverFails
    <2>2. tree' \in [Paths -> Nodes] /\ \A p \in Paths : Gentle(p)
      BY <1>4 DEF PrepareFails
    <2>. QED
      BY <1>1, <1>3, <2>1, <2>2, FailedGently
  <1>5. CASE ~PrepareFails(s)
    <2>. DEFINE pc == CASE i \in Files -> "data" [] i \in Links -> "text" [] OTHER -> "header"
    <2>1. /\ CanPrepare(i) /\ ReceiverGoes(s, pc, <<>>)
          /\ tree' = [p \in Paths |-> IF p = i /\ i \in Files
                                        THEN Node("file", <<>>, "rw") ELSE Made(Needed(i))[p]]
      <3>1. Place(i) = i
        BY <1>3 DEF Straight
      <3>. QED
        BY <1>0, <1>1, <1>5, <3>1, PrepareFailsGently
    <2>2. /\ pc \in {"header", "data", "text"} /\ (pc = "data" <=> i \in Files) /\ (pc = "text" <=> i \in Links)
          /\ (pc = "header" <=> i \notin Files \cup Links)
      BY Constants
    <2>. HIDE DEF pc
    <2>3. \A p \in Paths : p \in Needed(i) => tree[p] \in {Absent, Dir}
      BY <2>1, CanBeMade DEF CanPrepare
    <2>4. \A p \in Paths : tree'[p] = IF p = i /\ i \in Files THEN Node("file", <<>>, "rw")
                                      ELSE IF p \in Needed(i) THEN Dir ELSE tree[p]
      <3>1. \A p \in Paths : Made(Needed(i))[p] = IF p \in Needed(i) THEN Dir ELSE tree[p]
        BY DEF Made, Straight
      <3>. QED
        BY <2>1, <3>1
    <2>5. \A p \in Paths : p # i \/ i \notin Files => Gentle(p)
      BY <2>3, <2>4 DEF Gentle
    <2>6. tree' \in [Paths -> Nodes]
      <3>1. <<>> \in Seq(AllUnits)
        OBVIOUS
      <3>2. Node("file", <<>>, "rw") \in Nodes /\ Dir \in Nodes
        BY <3>1 DEF Node, Nodes, Dir
      <3>3. \A p \in Paths : tree'[p] \in Nodes
        BY <1>1, <2>4, <3>2 DEF TypeInv
      <3>. QED
        BY <2>1, <3>3
    <2>7. /\ rpc' = [rpc EXCEPT ![s] = pc] /\ buf' = [buf EXCEPT ![s] = <<>>] /\ rmain' = rmain
          /\ rpc'[s] = pc /\ buf'[s] = <<>> /\ cur'[s] = i
      BY <1>0, <1>1, <1>3, <2>1 DEF ReceiverGoes, TypeInv
    <2>8. i \in Files => FileAt(i)' /\ tree'[i] = Node("file", <<>>, "rw") /\ tree'[i].data = <<>>
      <3>. SUFFICES ASSUME i \in Files PROVE FileAt(i)' /\ tree'[i] = Node("file", <<>>, "rw") /\ tree'[i].data = <<>>
        OBVIOUS
      <3>1. tree'[i] = Node("file", <<>>, "rw")
        BY <1>0, <1>3, <2>4
      <3>2. tree'[i].is = "file" /\ tree'[i].data = <<>> /\ Len(tree'[i].data) = 0 /\ Length[i] \in Nat
        BY <1>0, <1>3, <3>1, Constants DEF Node
      <3>3. rpc'[s] = "data" /\ cur'[s] = i
        BY <2>2, <2>7
      <3>. QED
        BY <3>1, <3>2, <3>3 DEF FileAt
    <2>9. PICK log \in Seq(Entries), c \in Nat : StreamInv(s, log, c)
      BY InvParts
    <2>10. /\ c \in 1 .. Len(log) /\ log[c].k \in 1 .. Len(parts[s]) /\ Len(parts[s]) \in Nat
           /\ Fits(s, log[c]) /\ log[c] \in Entries
      BY <1>3, <2>9, WorkPlace
    <2>11. /\ parts[s][log[c].k] = i
           /\ \A j \in 1 .. Len(parts[s]) : parts[s][j] = i => j = log[c].k
           /\ ~lost /\ ~LinkLostAnItem => Got(s, log[c].k - 1)
      BY <1>0, <1>3, <2>9, WorkPlace
    <2>12. /\ \A j \in 1 .. Len(parts[s]) : j # log[c].k /\ parts[s][j] \in Paths => Gentle(parts[s][j])
           /\ Got(s, log[c].k - 1) => Got(s, log[c].k - 1)'
           /\ parts' = parts /\ log[c].k \in Nat
      BY <1>0, <1>2, <2>5, <2>10, <2>11, WorkKeeps
    <2>13. log[c].at = HeadUnits /\ Carried(s, log[c]) = i
      BY <1>0, <1>3, <2>9 DEF StreamInv, ReadInv, Reading
    <2>14. Recorded(s, log)' /\ c \in 0 .. Len(log) /\ InFlight(s, log, c)'
      BY <1>2, <1>3, <2>9, WireStays
    <2>15. (Single' <=> Single) /\ (LinkLostAnItem' <=> LinkLostAnItem) /\ Carried(s, log[c])' = i
           /\ (Ends(s, log[c])' <=> Ends(s, log[c]))
      BY <1>2, <2>13, SentStays
    <2>16. c > 0 /\ c # 0
      BY <2>10
    <2>17. Reading(s, log, c)'
      <3>1. \E k \in 1 .. log[c].k : parts'[s][k] = cur'[s]
        BY <2>7, <2>10, <2>11, <2>12
      <3>2. ASSUME pc = "data"
            PROVE  /\ cur'[s] \in Files
                   /\ log[c].at = HeadUnits + Len(tree'[cur'[s]].data)
                   /\ tree'[cur'[s]] = Node("file", Payload(cur'[s], NoTarget, Len(tree'[cur'[s]].data)), "rw")
                   /\ buf'[s] = tree'[cur'[s]].data
        <4>1. i \in Files /\ tree'[i] = Node("file", <<>>, "rw") /\ tree'[i].data = <<>> /\ Len(tree'[i].data) = 0
          BY <2>2, <2>8, <3>2
        <4>2. Payload(i, NoTarget, 0) = <<>>
          <5>1. i \in Items /\ NoTarget \in Nat /\ 0 \in Nat
            BY <1>0, <1>3 DEF Items, NoTarget
          <5>2. Payload(i, NoTarget, 0) \in Seq(AllUnits) /\ Len(Payload(i, NoTarget, 0)) = 0
            BY <5>1, PayloadFacts
          <5>. QED
            BY <5>2
        <4>. QED
          BY <2>7, <2>13, <4>1, <4>2 DEF HeadUnits
      <3>3. ASSUME pc = "text"
            PROVE  cur'[s] \in Links /\ TextRead(s, log[c])'
        BY <2>2, <2>7, <2>13, <2>15, <3>3 DEF TextRead
      <3>. QED
        BY <1>3, <2>2, <2>7, <2>15, <2>16, <3>1, <3>2, <3>3 DEF Reading
    <2>18. ClearFrom(s, Begun(s, log, c))'
      <3>1. Begun(s, log, c)' = log[c].k /\ Begun(s, log, c) = log[c].k - 1
        BY <1>3, <2>2, <2>7, <2>16 DEF Begun
      <3>2. ClearFrom(s, log[c].k - 1)
        BY <1>3, <2>9, <3>1 DEF StreamInv, ReadInv
      <3>3. ClearFrom(s, log[c].k)'
        <4>1. log[c].k - 1 \in Int /\ log[c].k \in Int /\ log[c].k - 1 <= log[c].k
          BY <2>10
        <4>2. \A j \in 1 .. Len(parts[s]) : j > log[c].k /\ parts[s][j] \in Paths => Gentle(parts[s][j])
          BY <2>10, <2>12
        <4>. QED
          BY <1>1, <2>12, <3>2, <4>1, <4>2, ClearMore
      <3>. QED
        BY <3>1, <3>3 DEF ClearFrom
    <2>19. ASSUME ~lost, ~LinkLostAnItem
           PROVE  Progress(s, log, c)'
      <3>1. Got(s, log[c].k - 1)'
        BY <2>11, <2>12, <2>19
      <3>2. \A k \in 1 .. Len(parts'[s]) : parts'[s][k] = cur'[s] => k = log[c].k
        BY <2>7, <2>11, <2>12
      <3>3. pc = "header" => Got(s, log[c].k)'
        <4>. SUFFICES ASSUME pc = "header" PROVE Got(s, log[c].k)'
          OBVIOUS
        <4>1. i \notin Files \cup Links /\ Kind[i] = "DirectoryEntry" /\ i \in Paths
          BY <1>0, <1>3, <2>2, TreeAssumption DEF Files, Links, Kinds
        <4>2. i \in Needed(i)
          BY <4>1 DEF Needed
        <4>3. tree'[i] = Dir
          BY <2>4, <4>1, <4>2
        <4>4. There(i)'
          <5>1. NoTarget \in Nat
            BY DEF NoTarget
          <5>2. Copy(i, NoTarget) = Dir
            BY <4>1, <5>1, CopyFacts
          <5>. QED
            BY <4>1, <4>3, <5>2 DEF There
        <4>. QED
          BY <2>11, <2>12, <3>1, <4>1, <4>4, GotOneMore
      <3>. QED
        BY <2>2, <2>7, <3>1, <3>2, <3>3 DEF Progress
    <2>20. StreamInv(s, log, c)'
      BY <1>3, <2>14, <2>15, <2>17, <2>18, <2>19 DEF StreamInv, ReadInv
    <2>21. \A p \in Paths \ {cur[s]} : Gentle(p)
      BY <1>0, <2>5
    <2>22. lost' \in BOOLEAN /\ (lost => lost')
      BY <1>1, <1>3 DEF TypeInv
    <2>23. \E l \in Seq(Entries), d \in Nat : StreamInv(s, l, d)'
      BY <2>9, <2>20
    <2>24. cur[s] \in Files => FileAt(cur[s])'
      BY <1>0, <1>3, <2>8
    <2>25. <<>> \in Seq(AllUnits) /\ Len(<<>>) <= Length[cur[s]]
      <3>1. Len(<<>>) = 0 /\ Length[i] \in Nat
        BY <1>3, Constants
      <3>. QED
        BY <1>0, <3>1
    <2>. QED
      BY <1>1, <1>3, <2>2, <2>6, <2>7, <2>21, <2>22, <2>23, <2>24, <2>25, WorkSteps
  <1>. QED
    BY <1>4, <1>5

\* The unit that a file lacks is the next one on the wire.
LEMMA DataUnit ==
  ASSUME IInv, NEW s \in Streams, NEW log, NEW c, StreamInv(s, log, c), rpc[s] = "data", NEW i, i = cur[s],
         Len(tree[i].data) < Length[i], c + 1 \in 1 .. Len(log)
  PROVE  /\ i \in Files /\ i \in Items /\ Length[i] \in Nat /\ Len(tree[i].data) \in Nat
         /\ tree[i] = Node("file", Payload(i, NoTarget, Len(tree[i].data)), "rw")
         /\ log[c + 1].k = log[c].k /\ Carried(s, log[c + 1]) = i
         /\ log[c + 1].at = HeadUnits + (Len(tree[i].data) + 1)
         /\ OnWire(s, log[c + 1]) = Unit(i, HeadUnits + Len(tree[i].data) + 1, NoTarget)
  <1>1. TypeInv
    BY InvParts
  <1>2. /\ c \in 1 .. Len(log) /\ Fits(s, log[c]) /\ log[c] \in Entries
    BY WorkPlace
  <1>3. /\ i \in Files /\ Carried(s, log[c]) = i
        /\ log[c].at = HeadUnits + Len(tree[i].data)
        /\ tree[i] = Node("file", Payload(i, NoTarget, Len(tree[i].data)), "rw")
    BY DEF StreamInv, ReadInv, Reading
  <1>4. i \in Paths /\ i \in Items /\ Length[i] \in Nat /\ i \notin Links /\ i # Archive
    BY <1>3, Constants DEF Items
  <1>5. Len(tree[i].data) \in Nat
    BY <1>1, <1>4 DEF TypeInv, Nodes
  <1>6. ~Ends(s, log[c])
    <2>1. \A t : UnitsOf(i, t) = Length[i]
      BY <1>4 DEF UnitsOf
    <2>. QED
      BY <1>3, <1>4, <1>5, <2>1 DEF Ends, HeadUnits
  <1>7. /\ log[c + 1].k = log[c].k /\ log[c + 1].at = log[c].at + 1 /\ Carried(s, log[c + 1]) = i
    <2>1. c > 0
      BY <1>2
    <2>. QED
      BY <1>1, <1>3, <1>6, <2>1, NextEntry
  <1>8. Fits(s, log[c + 1])
    BY <1>1, LogFacts
  <1>9. log[c + 1].target = NoTarget
    BY <1>3, <1>4, <1>5, <1>7, <1>8 DEF Fits, HeadUnits
  <1>10. /\ log[c + 1].at = HeadUnits + (Len(tree[i].data) + 1)
         /\ log[c + 1].at = HeadUnits + Len(tree[i].data) + 1
    BY <1>3, <1>5, <1>7 DEF HeadUnits
  <1>. QED
    BY <1>3, <1>4, <1>5, <1>7, <1>9, <1>10 DEF OnWire

\* A unit written behind the others.
LEMMA WrittenLast ==
  ASSUME NEW q \in Seq(AllUnits), NEW u \in AllUnits
  PROVE  Written(q, Len(q) + 1, u) = Append(q, u)
  <1>1. PICK n \in Nat : n = Len(q)
    OBVIOUS
  <1>2. PICK m \in Nat : m = n + 1 /\ m > Len(q)
    BY <1>1
  <1>3. Written(q, m, u) = [k \in 1 .. m |-> IF k = m THEN u ELSE IF k <= Len(q) THEN q[k] ELSE Hole]
    <2>1. (IF m > Len(q) THEN m ELSE Len(q)) = m
      BY <1>2
    <2>. QED
      BY <2>1 DEF Written
  <1>4. PICK w : w = Written(q, m, u)
    OBVIOUS
  <1>5. DOMAIN w = 1 .. m /\ w = [k \in 1 .. m |-> w[k]]
    BY <1>3, <1>4
  <1>6. ASSUME NEW k \in 1 .. m
        PROVE  w[k] = Append(q, u)[k]
    <2>1. CASE k = m
      <3>1. w[k] = u
        BY <1>3, <1>4, <2>1
      <3>2. Append(q, u)[Len(q) + 1] = u
        OBVIOUS
      <3>. QED
        BY <1>1, <1>2, <2>1, <3>1, <3>2
    <2>2. CASE k # m
      <3>1. k \in 1 .. Len(q) /\ k <= Len(q)
        BY <1>1, <1>2, <2>2
      <3>2. w[k] = q[k]
        BY <1>3, <1>4, <2>2, <3>1
      <3>3. Append(q, u)[k] = q[k]
        BY <3>1
      <3>. QED
        BY <3>2, <3>3
    <2>. QED
      BY <2>1, <2>2
  <1>7. Append(q, u) \in Seq(AllUnits) /\ Len(Append(q, u)) = m
    BY <1>1, <1>2
  <1>8. PICK a : a = Append(q, u)
    OBVIOUS
  <1>9. \A k \in 1 .. m : w[k] = a[k] /\ a[k] \in AllUnits
    BY <1>6, <1>7, <1>8
  <1>10. w \in [1 .. m -> AllUnits]
    BY <1>5, <1>9
  <1>11. w \in Seq(AllUnits) /\ Len(w) = m
    BY <1>10
  <1>12. w = a
    BY <1>7, <1>8, <1>9, <1>11
  <1>. QED
    BY <1>1, <1>2, <1>4, <1>8, <1>12

\* A thread at work on a file: what it has received is what is in the file.
LEMMA DataFacts ==
  ASSUME IInv, Straight, NEW s \in Streams, rpc[s] = "data"
  PROVE  /\ cur[s] \in Files /\ cur[s] \in Paths /\ ~Single /\ Place(cur[s]) = cur[s]
         /\ buf[s] = tree[cur[s]].data /\ tree[cur[s]].data \in Seq(AllUnits)
  <1>1. cur[s] \in Files /\ cur[s] \in Paths /\ ~Single
    BY AtWork
  <1>2. PICK log \in Seq(Entries), c \in Nat : StreamInv(s, log, c)
    BY InvParts
  <1>3. buf[s] = tree[cur[s]].data
    BY <1>2 DEF StreamInv, ReadInv, Reading
  <1>4. buf[s] \in Seq(AllUnits)
    BY InvParts DEF TypeInv
  <1>. QED
    BY <1>1, <1>3, <1>4 DEF Straight

LEMMA TakeDataSteps ==
  ASSUME IInv, Straight, NEW s \in Streams, TakeData(s)
  PROVE  IInv'
  <1>1. TypeInv /\ FileInv /\ SendAt(s) /\ ReceiverStep(s)
    BY InvParts DEF ReceiverStep, ReceiveThread
  <1>2. UNCHANGED <<setup, sendVars, links>>
    BY <1>1, ReceiverFrame
  <1>3. PICK i : i = cur[s]
    OBVIOUS
  <1>4. /\ rpc[s] = "data" /\ ~Single /\ i \in Paths /\ UNCHANGED <<cur, extractor, lost>>
        /\ Len(tree[i].data) < Length[i] /\ Receives(s)
    BY <1>3, AtWork, DataFacts DEF TakeData, Step
  <1>5. CASE UNCHANGED tree /\ ReceiverFails(s)
    BY <1>1, <1>4, <1>5, FailedSteps DEF ReceiverFails
  <1>6. CASE ~(UNCHANGED tree /\ ReceiverFails(s))
    <2>1. /\ tree' = [tree EXCEPT ![i].data = Append(tree[i].data, Head(wire[s]))]
          /\ ReceiverGoes(s, "data", Append(tree[i].data, Head(wire[s])))
      <3>1. Head(wire[s]) \in AllUnits
        <4>1. wire[s] \in Seq(AllUnits) /\ wire[s] # <<>>
          BY <1>1, <1>4 DEF TypeInv, Receives
        <4>. QED
          BY <4>1
      <3>2. buf[s] = tree[i].data /\ tree[i].data \in Seq(AllUnits) /\ Place(cur[s]) = i
        BY <1>3, <1>4, DataFacts
      <3>3. Written(tree[i].data, Len(buf[s]) + 1, Head(wire[s])) = Append(tree[i].data, Head(wire[s]))
        BY <3>1, <3>2, WrittenLast
      <3>4. /\ tree' = [tree EXCEPT ![i].data = Written(tree[i].data, Len(buf[s]) + 1, Head(wire[s]))]
            /\ ReceiverGoes(s, "data", Arrived(s))
        BY <1>3, <1>6, <3>2 DEF TakeData
      <3>. QED
        BY <3>2, <3>3, <3>4 DEF Arrived
    <2>2. PICK log \in Seq(Entries), c \in Nat : StreamInv(s, log, c)
      BY InvParts
    <2>3. parts' = parts
      BY <1>2, SentStays
    <2>4. /\ c + 1 \in 1 .. Len(log) /\ c + 1 \in 0 .. Len(log)
          /\ Head(wire[s]) = OnWire(s, log[c + 1]) /\ InFlight(s, log, c + 1)'
      BY <1>1, <1>4, <2>2, <2>3, TakeOne
    <2>0. PICK n : n = Len(tree[i].data)
      OBVIOUS
    <2>5. /\ i \in Files /\ i \in Items /\ Length[i] \in Nat /\ n \in Nat
          /\ tree[i] = Node("file", Payload(i, NoTarget, n), "rw")
          /\ log[c + 1].k = log[c].k /\ Carried(s, log[c + 1]) = i
          /\ log[c + 1].at = HeadUnits + (n + 1)
          /\ OnWire(s, log[c + 1]) = Unit(i, HeadUnits + n + 1, NoTarget)
      BY <1>3, <1>4, <2>0, <2>2, <2>4, DataUnit
    <2>6. PICK m \in Nat : m = n + 1
      BY <2>5
    <2>7. tree'[i] = Node("file", Payload(i, NoTarget, m), "rw")
      <3>1. tree[i].data = Payload(i, NoTarget, n) /\ NoTarget \in Nat
        BY <2>5 DEF Node, NoTarget
      <3>2. Append(tree[i].data, Head(wire[s])) = Payload(i, NoTarget, m)
        <4>1. Append(Payload(i, NoTarget, n), Unit(i, HeadUnits + n + 1, NoTarget)) = Payload(i, NoTarget, n + 1)
          BY <2>5, <3>1, PayloadGrows
        <4>. QED
          BY <2>4, <2>5, <2>6, <3>1, <4>1
      <3>3. tree'[i] = [tree[i] EXCEPT !.data = Payload(i, NoTarget, m)]
        BY <1>1, <1>4, <2>1, <3>2 DEF TypeInv
      <3>. QED
        BY <2>5, <3>3 DEF Node
    <2>8. /\ Payload(i, NoTarget, m) \in Seq(AllUnits) /\ Len(tree'[i].data) = m
          /\ tree'[i].is = "file" /\ tree'[i].data = Payload(i, NoTarget, m)
      <3>1. NoTarget \in Nat
        BY DEF NoTarget
      <3>2. Payload(i, NoTarget, m) \in Seq(AllUnits) /\ Len(Payload(i, NoTarget, m)) = m
        BY <2>5, <3>1, PayloadFacts
      <3>. QED
        BY <2>7, <3>2 DEF Node
    <2>9. tree' \in [Paths -> Nodes] /\ \A p \in Paths : p # i => tree'[p] = tree[p]
      <3>1. tree'[i] \in Nodes
        BY <2>7, <2>8 DEF Node, Nodes
      <3>2. \A p \in Paths : p # i => tree'[p] = tree[p]
        BY <1>1, <2>1 DEF TypeInv
      <3>3. DOMAIN tree' = Paths /\ tree' = [p \in Paths |-> tree'[p]]
        BY <1>1, <2>1 DEF TypeInv
      <3>4. \A p \in Paths : tree'[p] \in Nodes
        BY <1>1, <3>1, <3>2 DEF TypeInv
      <3>. QED
        BY <3>2, <3>3, <3>4
    <2>10. \A p \in Paths \ {cur[s]} : Gentle(p)
      BY <1>3, <2>9 DEF Gentle
    <2>11. /\ rpc' = [rpc EXCEPT ![s] = "data"] /\ buf' = [buf EXCEPT ![s] = tree'[i].data] /\ rmain' = rmain
           /\ rpc'[s] = "data" /\ buf'[s] = tree'[i].data /\ cur'[s] = i
      <3>1. tree'[i].data = Append(tree[i].data, Head(wire[s]))
        BY <1>1, <1>4, <2>1 DEF TypeInv, Nodes
      <3>. QED
        BY <1>1, <1>3, <1>4, <2>1, <3>1 DEF ReceiverGoes, TypeInv
    <2>12. FileAt(i)'
      <3>1. m <= Length[i]
        <4>1. n < Length[i]
          BY <1>4, <2>0
        <4>2. n \in Nat /\ Length[i] \in Nat
          BY <2>5
        <4>. QED
          BY <2>6, <4>1, <4>2
      <3>. QED
        BY <2>8, <2>11, <3>1 DEF FileAt
    <2>13. /\ c \in 1 .. Len(log) /\ log[c].k \in 1 .. Len(parts[s]) /\ Len(parts[s]) \in Nat
           /\ parts[s][log[c].k] = i
           /\ \A j \in 1 .. Len(parts[s]) : parts[s][j] = i => j = log[c].k
           /\ ~lost /\ ~LinkLostAnItem => Got(s, log[c].k - 1)
      BY <1>3, <1>4, <2>2, WorkPlace
    <2>14. /\ \A j \in 1 .. Len(parts[s]) : j # log[c].k /\ parts[s][j] \in Paths => Gentle(parts[s][j])
           /\ Got(s, log[c].k - 1) => Got(s, log[c].k - 1)'
           /\ log[c].k \in Nat
      BY <1>2, <1>3, <2>10, <2>13, WorkKeeps
    <2>15. Recorded(s, log)' /\ (Single' <=> Single) /\ (LinkLostAnItem' <=> LinkLostAnItem)
           /\ Carried(s, log[c + 1])' = i
      BY <1>2, <2>2, <2>5, SentStays DEF StreamInv
    <2>16. c + 1 # 0 /\ c + 1 > 0 /\ c + 1 \in Nat /\ c # 0
      BY <2>2, <2>13
    <2>17. Reading(s, log, c + 1)'
      <3>1. \E k \in 1 .. log[c + 1].k : parts'[s][k] = cur'[s]
        BY <2>3, <2>5, <2>11, <2>13
      <3>2. /\ log[c + 1].at = HeadUnits + Len(tree'[cur'[s]].data)
            /\ tree'[cur'[s]] = Node("file", Payload(cur'[s], NoTarget, Len(tree'[cur'[s]].data)), "rw")
            /\ buf'[s] = tree'[cur'[s]].data
        BY <2>5, <2>6, <2>7, <2>8, <2>11
      <3>. QED
        BY <2>5, <2>11, <2>15, <2>16, <3>1, <3>2 DEF Reading
    <2>18. ClearFrom(s, Begun(s, log, c + 1))'
      <3>1. Begun(s, log, c + 1)' = log[c].k /\ Begun(s, log, c) = log[c].k
        BY <1>4, <2>5, <2>11, <2>16 DEF Begun
      <3>2. ClearFrom(s, log[c].k)
        BY <1>4, <2>2, <3>1 DEF StreamInv, ReadInv
      <3>3. ClearFrom(s, log[c].k)'
        <4>1. log[c].k \in Int /\ log[c].k <= log[c].k
          BY <2>13
        <4>2. \A j \in 1 .. Len(parts[s]) : j > log[c].k /\ parts[s][j] \in Paths => Gentle(parts[s][j])
          BY <2>13, <2>14
        <4>. QED
          BY <1>1, <2>3, <3>2, <4>1, <4>2, ClearMore
      <3>. QED
        BY <3>1, <3>3 DEF ClearFrom
    <2>19. ASSUME ~lost, ~LinkLostAnItem
           PROVE  Progress(s, log, c + 1)'
      <3>1. Got(s, log[c].k - 1)'
        BY <2>13, <2>14, <2>19
      <3>2. \A k \in 1 .. Len(parts'[s]) : parts'[s][k] = cur'[s] => k = log[c].k
        BY <2>3, <2>11, <2>13
      <3>. QED
        BY <2>11, <3>1, <3>2 DEF Progress
    <2>20. StreamInv(s, log, c + 1)'
      BY <1>4, <2>4, <2>15, <2>17, <2>18, <2>19 DEF StreamInv, ReadInv
    <2>21. \E l \in Seq(Entries), d \in Nat : StreamInv(s, l, d)'
      BY <2>2, <2>16, <2>20
    <2>22. lost' \in BOOLEAN /\ (lost => lost') /\ FileAt(cur[s])'
      BY <1>1, <1>3, <1>4, <2>12 DEF TypeInv
    <2>23. tree'[i].data \in Seq(AllUnits) /\ Len(tree'[i].data) <= Length[cur[s]]
      BY <1>3, <2>8, <2>12 DEF FileAt
    <2>. QED
      BY <1>1, <1>4, <2>9, <2>10, <2>11, <2>21, <2>22, <2>23, WorkSteps
  <1>. QED
    BY <1>5, <1>6

\* apply_permissions and the end of the output stream, done or not.
LEMMA CloseFileSteps ==
  ASSUME IInv, Straight, NEW s \in Streams, CloseFile(s) \/ CloseFileBadly(s)
  PROVE  IInv'
  <1>1. TypeInv /\ FileInv /\ SendAt(s) /\ ReceiverStep(s)
    BY InvParts DEF ReceiverStep, ReceiveThread
  <1>2. UNCHANGED <<setup, sendVars, links>>
    BY <1>1, ReceiverFrame
  <1>3. PICK i : i = cur[s]
    OBVIOUS
  <1>4. /\ rpc[s] = "data" /\ ~Single /\ i \in Files /\ i \in Paths /\ UNCHANGED <<rmain, cur, extractor, wire>>
        /\ Len(tree[i].data) = Length[i] /\ i \notin Links /\ Length[i] \in Nat /\ i \in Items /\ i # Archive
    BY <1>3, AtWork, DataFacts, Constants DEF CloseFile, CloseFileBadly, GoesBadly, Step, ReceiverGoes, Items
  <1>5. PICK log \in Seq(Entries), c \in Nat : StreamInv(s, log, c)
    BY InvParts
  <1>6. /\ Carried(s, log[c]) = i /\ log[c].at = HeadUnits + Length[i]
        /\ tree[i] = Node("file", Payload(i, NoTarget, Length[i]), "rw")
    BY <1>3, <1>4, <1>5 DEF StreamInv, ReadInv, Reading
  <1>7. /\ rpc' = [rpc EXCEPT ![s] = "header"] /\ buf' = [buf EXCEPT ![s] = <<>>]
        /\ rpc'[s] = "header" /\ buf'[s] = <<>> /\ cur'[s] = i
    BY <1>1, <1>3, <1>4 DEF CloseFile, CloseFileBadly, GoesBadly, ReceiverGoes, TypeInv
  <1>8. \/ lost' = lost /\ tree' = [tree EXCEPT ![i].mode = Mode[i]]
        \/ lost' = TRUE /\ \E n \in 0 .. Length[i] : tree' = [tree EXCEPT ![i].data = SubSeq(tree[i].data, 1, n)]
    <2>1. Place(cur[s]) = i
      BY <1>3, <1>4, DataFacts
    <2>. QED
      BY <1>3, <1>4, <2>1 DEF CloseFile, CloseFileBadly, GoesBadly
  <1>9. tree[i].data = Payload(i, NoTarget, Length[i]) /\ tree[i].data \in Seq(AllUnits) /\ Mode[i] \in {"rw", "ro"}
    BY <1>1, <1>4, <1>6, TreeAssumption DEF Node, TypeInv, Nodes
  <1>10. /\ tree'[i] \in Nodes /\ tree'[i].is = "file" /\ Len(tree'[i].data) <= Length[i]
         /\ ~lost' => tree'[i] = Node("file", Payload(i, NoTarget, Length[i]), Mode[i])
    <2>1. CASE lost' = lost /\ tree' = [tree EXCEPT ![i].mode = Mode[i]]
      <3>1. tree'[i] = [tree[i] EXCEPT !.mode = Mode[i]]
        BY <1>1, <1>4, <2>1 DEF TypeInv
      <3>2. tree'[i] = Node("file", Payload(i, NoTarget, Length[i]), Mode[i])
        BY <1>6, <3>1 DEF Node
      <3>3. tree'[i].data = tree[i].data /\ tree'[i].is = "file"
        BY <1>9, <3>2 DEF Node
      <3>4. tree'[i] \in Nodes
        BY <1>9, <3>2 DEF Node, Nodes
      <3>. QED
        BY <1>4, <3>2, <3>3, <3>4
    <2>2. CASE lost' = TRUE /\ \E n \in 0 .. Length[i] : tree' = [tree EXCEPT ![i].data = SubSeq(tree[i].data, 1, n)]
      <3>1. PICK n \in 0 .. Length[i] : tree' = [tree EXCEPT ![i].data = SubSeq(tree[i].data, 1, n)]
        BY <2>2
      <3>2. PICK q : q = SubSeq(tree[i].data, 1, n)
        OBVIOUS
      <3>3. q \in Seq(AllUnits) /\ Len(q) = n
        BY <1>4, <1>9, <3>2
      <3>4. tree'[i] = [tree[i] EXCEPT !.data = q]
        BY <1>1, <1>4, <3>1, <3>2 DEF TypeInv
      <3>5. tree'[i] = Node("file", q, "rw")
        BY <1>6, <3>4 DEF Node
      <3>6. tree'[i].data = q /\ tree'[i].is = "file" /\ tree'[i] \in Nodes
        BY <3>3, <3>5 DEF Node, Nodes
      <3>. QED
        BY <1>4, <2>2, <3>3, <3>6
    <2>. QED
      BY <1>8, <2>1, <2>2
  <1>11. tree' \in [Paths -> Nodes] /\ \A p \in Paths : p # i => tree'[p] = tree[p]
    <2>1. \A p \in Paths : p # i => tree'[p] = tree[p]
      BY <1>1, <1>8 DEF TypeInv
    <2>2. DOMAIN tree' = Paths /\ tree' = [p \in Paths |-> tree'[p]]
      BY <1>1, <1>8 DEF TypeInv
    <2>3. \A p \in Paths : tree'[p] \in Nodes
      BY <1>1, <1>10, <2>1 DEF TypeInv
    <2>. QED
      BY <2>1, <2>2, <2>3
  <1>12. ~lost' => There(i)'
    <2>1. NoTarget \in Nat
      BY DEF NoTarget
    <2>2. Copy(i, NoTarget) = Node("file", Payload(i, NoTarget, Length[i]), Mode[i])
      BY <1>4, <2>1, CopyFacts
    <2>. QED
      BY <1>4, <1>10, <2>2 DEF There
  <1>13. FileAt(i)'
    BY <1>10, <1>12 DEF FileAt
  <1>14. \A p \in Paths \ {cur[s]} : Gentle(p)
    BY <1>3, <1>11 DEF Gentle
  <1>15. /\ c \in 1 .. Len(log) /\ log[c].k \in 1 .. Len(parts[s]) /\ Len(parts[s]) \in Nat
         /\ parts[s][log[c].k] = i
         /\ \A j \in 1 .. Len(parts[s]) : parts[s][j] = i => j = log[c].k
         /\ ~lost /\ ~LinkLostAnItem => Got(s, log[c].k - 1)
    BY <1>3, <1>4, <1>5, WorkPlace
  <1>16. /\ \A j \in 1 .. Len(parts[s]) : j # log[c].k /\ parts[s][j] \in Paths => Gentle(parts[s][j])
         /\ Got(s, log[c].k - 1) => Got(s, log[c].k - 1)'
         /\ parts' = parts /\ log[c].k \in Nat
    BY <1>2, <1>3, <1>14, <1>15, WorkKeeps
  <1>17. Recorded(s, log)' /\ c \in 0 .. Len(log) /\ InFlight(s, log, c)'
    BY <1>2, <1>4, <1>5, WireStays
  <1>18. (Single' <=> Single) /\ (LinkLostAnItem' <=> LinkLostAnItem) /\ (lost => lost') /\ lost' \in BOOLEAN
    BY <1>1, <1>2, <1>8, SentStays DEF TypeInv
  <1>19. Reading(s, log, c)'
    BY <1>4, <1>7, <1>18 DEF Reading
  <1>20. ClearFrom(s, Begun(s, log, c))'
    <2>1. Begun(s, log, c)' = log[c].k /\ Begun(s, log, c) = log[c].k
      BY <1>4, <1>7, <1>15 DEF Begun
    <2>2. ClearFrom(s, log[c].k)
      BY <1>4, <1>5, <2>1 DEF StreamInv, ReadInv
    <2>3. ClearFrom(s, log[c].k)'
      <3>1. log[c].k \in Int /\ log[c].k <= log[c].k
        BY <1>15
      <3>2. \A j \in 1 .. Len(parts[s]) : j > log[c].k /\ parts[s][j] \in Paths => Gentle(parts[s][j])
        BY <1>15, <1>16
      <3>. QED
        BY <1>1, <1>16, <2>2, <3>1, <3>2, ClearMore
    <2>. QED
      BY <2>1, <2>3 DEF ClearFrom
  <1>21. ASSUME ~lost', ~LinkLostAnItem
         PROVE  Progress(s, log, c)'
    <2>1. Got(s, log[c].k - 1)'
      BY <1>15, <1>16, <1>18, <1>21
    <2>2. Got(s, log[c].k)'
      BY <1>4, <1>12, <1>15, <1>16, <1>21, <2>1, GotOneMore
    <2>. QED
      BY <1>7, <2>2 DEF Progress
  <1>22. StreamInv(s, log, c)'
    BY <1>4, <1>17, <1>18, <1>19, <1>20, <1>21 DEF StreamInv, ReadInv
  <1>23. \E l \in Seq(Entries), d \in Nat : StreamInv(s, l, d)'
    BY <1>5, <1>22
  <1>24. FileAt(cur[s])'
    BY <1>3, <1>4, <1>13
  <1>25. <<>> \in Seq(AllUnits)
    OBVIOUS
  <1>. QED
    BY <1>1, <1>4, <1>7, <1>11, <1>14, <1>18, <1>23, <1>24, <1>25, WorkSteps

\* A unit of a link's target, or what is taken for one.
LEMMA TakeTextSteps ==
  ASSUME IInv, NEW s \in Streams, TakeText(s)
  PROVE  IInv'
  <1>1. TypeInv /\ LinkInv /\ SendAt(s) /\ ReceiverStep(s)
    BY InvParts DEF ReceiverStep, ReceiveThread
  <1>2. UNCHANGED <<setup, sendVars, links>>
    BY <1>1, ReceiverFrame
  <1>3. PICK i, b : i = cur[s] /\ b = Arrived(s)
    OBVIOUS
  <1>4. /\ rpc[s] = "text" /\ ~Single /\ i \in Links /\ i \in Paths /\ i \in Items /\ Length[i] \in Nat
        /\ UNCHANGED <<rmain, cur, tree, extractor, lost>>
        /\ Len(buf[s]) < Length[i] /\ Receives(s) /\ ReceiverGoes(s, "text", b)
    BY <1>3, AtWork, Constants DEF TakeText, Step, ReceiverGoes, Items
  <1>5. PICK log \in Seq(Entries), c \in Nat : StreamInv(s, log, c)
    BY InvParts
  <1>6. parts' = parts /\ (Single' <=> Single) /\ (LinkLostAnItem' <=> LinkLostAnItem) /\ Recorded(s, log)'
        /\ Carried(s, log[c + 1])' = Carried(s, log[c + 1]) /\ links' = links
    BY <1>2, <1>5, SentStays DEF StreamInv
  <1>7. /\ c + 1 \in 1 .. Len(log) /\ c + 1 \in 0 .. Len(log)
        /\ Head(wire[s]) = OnWire(s, log[c + 1]) /\ InFlight(s, log, c + 1)'
        /\ Head(wire[s]) \in AllUnits
    BY <1>1, <1>4, <1>5, <1>6, TakeOne
  <1>8. /\ c \in 1 .. Len(log) /\ log[c].k \in 1 .. Len(parts[s]) /\ Len(parts[s]) \in Nat
        /\ Fits(s, log[c]) /\ log[c] \in Entries
        /\ \E k \in 1 .. log[c].k :
             /\ parts[s][k] = i
             /\ \A j \in 1 .. Len(parts[s]) : parts[s][j] = i => j = k
             /\ ~lost /\ ~LinkLostAnItem => Got(s, k - 1)
    BY <1>3, <1>4, <1>5, WorkPlace
  <1>9. c + 1 # 0 /\ c + 1 > 0 /\ c + 1 \in Nat /\ c # 0 /\ c > 0
    BY <1>5, <1>8
  <1>10. /\ log[c].k \in Nat /\ log[c].at \in Nat /\ log[c + 1].k \in Nat
         /\ log[c].k <= log[c + 1].k
         /\ Ends(s, log[c]) => log[c + 1].at = 1
         /\ ~Ends(s, log[c]) => /\ log[c + 1].at = log[c].at + 1
                                /\ Carried(s, log[c + 1]) = Carried(s, log[c])
                                /\ log[c].at > HeadUnits => log[c + 1].target = log[c].target
    BY <1>1, <1>5, <1>7, <1>9, NextEntry
  <1>11. Fits(s, log[c + 1]) /\ log[c + 1] \in Entries /\ log[c + 1].target \in Nat /\ log[c].target \in Nat
    BY <1>1, <1>5, <1>7, <1>8, LogFacts DEF Entries
  <1>12. /\ buf[s] \in Seq(AllUnits) /\ Len(buf[s]) \in Nat
         /\ b = Append(buf[s], OnWire(s, log[c + 1])) /\ b \in Seq(AllUnits) /\ Len(b) = Len(buf[s]) + 1
    BY <1>1, <1>3, <1>7 DEF TypeInv, Arrived
  <1>13. /\ rpc' = [rpc EXCEPT ![s] = "text"] /\ buf' = [buf EXCEPT ![s] = b]
         /\ rpc'[s] = "text" /\ buf'[s] = b /\ cur'[s] = i /\ b # <<>>
    <2>1. rpc' = [rpc EXCEPT ![s] = "text"] /\ buf' = [buf EXCEPT ![s] = b] /\ cur'[s] = i
      BY <1>3, <1>4 DEF ReceiverGoes
    <2>2. rpc'[s] = "text" /\ buf'[s] = b
      BY <1>1, <2>1 DEF TypeInv
    <2>3. b # <<>>
      BY <1>12
    <2>. QED
      BY <2>1, <2>2, <2>3
  <1>14. TextRead(s, log[c + 1])'
    <2>1. TextRead(s, log[c])
      BY <1>4, <1>5 DEF StreamInv, ReadInv, Reading
    <2>2. CASE LinkLostAnItem
      BY <1>6, <2>2 DEF TextRead
    <2>3. CASE Carried(s, log[c]) = i /\ log[c].at = HeadUnits /\ buf[s] = <<>>
      <3>1. ~Ends(s, log[c])
        BY <1>4, <1>8, <2>3 DEF Fits, Ends, HeadUnits
      <3>2. log[c + 1].at = HeadUnits + 1 /\ Carried(s, log[c + 1]) = i /\ Len(b) = 1
        <4>1. Len(buf[s]) = 0
          BY <2>3
        <4>. QED
          BY <1>10, <1>12, <2>3, <3>1, <4>1
      <3>3. b = Payload(i, log[c + 1].target, 1)
        <4>. DEFINE t == log[c + 1].target
                    q == Payload(i, t, 1)
        <4>1. q \in Seq(AllUnits) /\ Len(q) = 1 /\ q[1] = Unit(i, HeadUnits + 1, t)
          <5>1. 1 \in Nat /\ 1 \in 1 .. 1
            OBVIOUS
          <5>2. t \in Nat
            BY <1>11
          <5>. HIDE DEF t
          <5>. QED
            BY <1>4, <5>1, <5>2, PayloadFacts
        <4>2. b[1] = OnWire(s, log[c + 1])
          BY <1>12, <2>3
        <4>3. OnWire(s, log[c + 1]) = Unit(i, HeadUnits + 1, t)
          BY <3>2 DEF OnWire
        <4>. HIDE DEF q
        <4>4. b = q
          BY <1>12, <3>2, <4>1, <4>2, <4>3
        <4>. QED
          BY <4>4 DEF q
      <3>. QED
        BY <1>6, <1>13, <3>2, <3>3 DEF TextRead
    <2>4. CASE /\ Carried(s, log[c]) = i /\ log[c].at = HeadUnits + Len(buf[s]) /\ buf[s] # <<>>
               /\ buf[s] = Payload(i, log[c].target, Len(buf[s]))
      <3>1. Len(buf[s]) > 0 /\ log[c].at > HeadUnits
        BY <1>12, <2>4 DEF HeadUnits
      <3>2. CASE Ends(s, log[c])
        <4>1. UnitsOf(i, log[c].target) = log[c].target
          BY <1>4, Constants DEF UnitsOf
        <4>2. Len(buf[s]) = log[c].target
          BY <1>10, <1>11, <1>12, <2>4, <3>2, <4>1 DEF Ends, HeadUnits
        <4>3. log[c].target \in {Length[i], links[i]}
          BY <1>4, <1>8, <2>4, <3>1 DEF Fits
        <4>4. log[c + 1].at = 1 /\ Len(b) = log[c].target + 1
          BY <1>10, <1>12, <3>2, <4>2
        <4>5. \E t \in {Length[cur'[s]], links'[cur'[s]]} : Len(buf'[s]) = t + 1
          BY <1>6, <1>13, <4>3, <4>4
        <4>. QED
          BY <4>4, <4>5 DEF TextRead
      <3>3. CASE ~Ends(s, log[c])
        <4>1. PICK n \in Nat : n = Len(buf[s])
          BY <1>12
        <4>2. PICK t \in Nat : t = log[c].target
          BY <1>11
        <4>3. log[c + 1].target = t /\ Carried(s, log[c + 1]) = i /\ log[c + 1].at = HeadUnits + n + 1
          BY <1>10, <2>4, <3>1, <3>3, <4>1, <4>2
        <4>4. OnWire(s, log[c + 1]) = Unit(i, HeadUnits + n + 1, t)
          BY <4>3 DEF OnWire
        <4>5. b = Payload(i, t, n + 1)
          <5>1. Append(Payload(i, t, n), Unit(i, HeadUnits + n + 1, t)) = Payload(i, t, n + 1)
            BY <1>4, PayloadGrows
          <5>2. buf[s] = Payload(i, t, n)
            BY <2>4, <4>1, <4>2
          <5>. QED
            BY <1>12, <4>4, <5>1, <5>2
        <4>6. Len(b) = n + 1 /\ log[c + 1].at = HeadUnits + Len(b)
          BY <1>12, <4>1, <4>3 DEF HeadUnits
        <4>. QED
          BY <1>6, <1>13, <4>3, <4>5, <4>6 DEF TextRead
      <3>. QED
        BY <3>2, <3>3
    <2>5. CASE log[c].at = 1 /\ \E t \in {Length[i], links[i]} : Len(buf[s]) = t + 1
      <3>1. links[i] \in Nat /\ Len(buf[s]) = links[i] + 1
        BY <1>1, <1>4, <1>12, <2>5 DEF TypeInv
      <3>2. LinkLostAnItem
        BY <1>4, <3>1 DEF LinkLostAnItem, HeadUnits
      <3>. QED
        BY <2>2, <3>2
    <2>. QED
      BY <1>3, <2>1, <2>2, <2>3, <2>4, <2>5 DEF TextRead
  <1>15. Reading(s, log, c + 1)'
    <2>1. \E k \in 1 .. log[c + 1].k : parts'[s][k] = cur'[s]
      <3>1. PICK k \in 1 .. log[c].k : parts[s][k] = i
        BY <1>8
      <3>2. k \in 1 .. log[c + 1].k
        BY <1>10, <3>1
      <3>. QED
        BY <1>6, <1>13, <3>1, <3>2
    <2>. QED
      BY <1>4, <1>6, <1>9, <1>13, <1>14, <2>1 DEF Reading
  <1>16. ClearFrom(s, Begun(s, log, c + 1))'
    <2>1. Begun(s, log, c + 1)' = log[c + 1].k /\ Begun(s, log, c) = log[c].k
      BY <1>4, <1>9, <1>13 DEF Begun
    <2>2. ClearFrom(s, log[c].k)
      BY <1>4, <1>5, <2>1 DEF StreamInv, ReadInv
    <2>3. \A p : Gentle(p)
      BY <1>4 DEF Gentle
    <2>4. ClearFrom(s, log[c + 1].k)'
      BY <1>1, <1>6, <1>10, <2>2, <2>3, ClearMore
    <2>. QED
      BY <2>1, <2>4 DEF ClearFrom
  <1>17. ASSUME ~lost, ~LinkLostAnItem
         PROVE  Progress(s, log, c + 1)'
    <2>1. \A k \in 1 .. Len(parts[s]) : parts[s][k] = i => Got(s, k - 1)
      BY <1>8, <1>17
    <2>2. \A n : Got(s, n) => Got(s, n)'
      BY <1>4, <1>6 DEF Got, There
    <2>. QED
      BY <1>6, <1>13, <2>1, <2>2 DEF Progress
  <1>18. StreamInv(s, log, c + 1)'
    BY <1>4, <1>6, <1>7, <1>15, <1>16, <1>17 DEF StreamInv, ReadInv
  <1>19. \E l \in Seq(Entries), d \in Nat : StreamInv(s, l, d)'
    BY <1>5, <1>9, <1>18
  <1>20. "text" \in RecvPcs /\ spc[s] \notin {"start", "refused"}
    BY <1>1, <1>4 DEF RecvPcs, SendAt
  <1>21. Len(b) <= Length[cur'[s]]
    BY <1>4, <1>12, <1>13
  <1>. QED
    BY <1>1, <1>4, <1>12, <1>13, <1>19, <1>20, <1>21, TreeStays

\* A link is made, or a note in its place, complete or not.
LEMMA MakeLinkSteps ==
  ASSUME IInv, Straight, NEW s \in Streams, MakeLink(s) \/ MakeNoteBadly(s)
  PROVE  IInv'
  <1>1. TypeInv /\ LinkInv /\ SendAt(s) /\ ReceiverStep(s)
    BY InvParts DEF ReceiverStep, ReceiveThread
  <1>2. UNCHANGED <<setup, sendVars, links>>
    BY <1>1, ReceiverFrame
  <1>3. PICK i, b : i = cur[s] /\ b = buf[s]
    OBVIOUS
  <1>4. /\ rpc[s] = "text" /\ ~Single /\ i \in Links /\ i \in Paths /\ i \in Items /\ i \notin Files
        /\ Length[i] \in Nat \ {0} /\ i # Archive
        /\ UNCHANGED <<rmain, cur, wire, extractor>> /\ Len(b) = Length[i]
        /\ b \in Seq(AllUnits) /\ Place(cur[s]) = i /\ smain # "start"
    <2>1. rpc[s] = "text" /\ Len(buf[s]) = Length[cur[s]] /\ UNCHANGED <<rmain, cur, wire, extractor>>
      BY DEF MakeLink, MakeNoteBadly, GoesBadly, Step, ReceiverGoes
    <2>2. ~Single /\ i \in Links /\ i \in Paths /\ smain # "start"
      BY <1>3, <2>1, AtWork
    <2>3. b \in Seq(AllUnits)
      BY <1>1, <1>3 DEF TypeInv
    <2>. QED
      BY <1>3, <2>1, <2>2, <2>3, Constants DEF Items, Straight
  <1>5. CASE MakeLink(s) /\ ReceiverGoes(s, "failed", <<>>)
    <2>1. tree' = tree \/ tree' = [tree EXCEPT ![i] = Absent]
      <3>1. ~ReceiverGoes(s, "header", <<>>)
        BY <1>1, <1>5 DEF ReceiverGoes, TypeInv
      <3>. QED
        BY <1>4, <1>5, <3>1 DEF MakeLink
    <2>2. <<>> \in Seq(AllUnits)
      OBVIOUS
    <2>3. Absent \in Nodes
      BY <2>2 DEF Absent, Node, Nodes
    <2>4. tree' \in [Paths -> Nodes]
      BY <1>1, <2>1, <2>3 DEF TypeInv
    <2>5. \A p \in Paths : Gentle(p) \/ (rpc[s] = "text" /\ p = cur[s] /\ tree'[p] = Absent)
      BY <1>1, <1>3, <1>4, <2>1 DEF TypeInv, Gentle
    <2>6. /\ rpc' = [rpc EXCEPT ![s] = "failed"] /\ buf' = [buf EXCEPT ![s] = <<>>]
          /\ lost' = lost
      BY <1>5 DEF MakeLink, ReceiverGoes
    <2>. QED
      BY <1>1, <1>4, <2>4, <2>5, <2>6, FailedGently
  <1>6. CASE ~(MakeLink(s) /\ ReceiverGoes(s, "failed", <<>>))
    <2>1. PICK is \in {"link", "note"}, q \in Seq(AllUnits) :
             tree' = [tree EXCEPT ![i] = Node(is, q, "rw")] /\ ((q = b /\ lost' = lost) \/ lost' = TRUE)
      <3>1. CASE MakeLink(s)
        BY <1>3, <1>4, <1>6, <3>1 DEF MakeLink
      <3>2. CASE MakeNoteBadly(s)
        <4>1. PICK n \in 0 .. Len(b) : tree' = [tree EXCEPT ![i] = Node("note", SubSeq(b, 1, n), "rw")]
          BY <1>3, <1>4, <3>2 DEF MakeNoteBadly
        <4>2. SubSeq(b, 1, n) \in Seq(AllUnits)
          BY <1>4, <4>1
        <4>3. lost' = TRUE
          BY <3>2 DEF MakeNoteBadly, GoesBadly
        <4>. QED
          BY <4>1, <4>2, <4>3
      <3>. QED
        BY <3>1, <3>2
    <2>2. /\ rpc' = [rpc EXCEPT ![s] = "header"] /\ buf' = [buf EXCEPT ![s] = <<>>]
      BY <1>6 DEF MakeLink, MakeNoteBadly, GoesBadly, ReceiverGoes
    <2>3. Node(is, q, "rw") \in Nodes
      BY DEF Node, Nodes
    <2>4. /\ tree' \in [Paths -> Nodes] /\ tree'[i] = Node(is, q, "rw")
          /\ \A p \in Paths \ {cur[s]} : Gentle(p)
      BY <1>1, <1>3, <1>4, <2>1, <2>3 DEF TypeInv, Gentle
    <2>5. /\ rpc' = [rpc EXCEPT ![s] = "header"] /\ buf' = [buf EXCEPT ![s] = <<>>]
          /\ rpc'[s] = "header" /\ buf'[s] = <<>> /\ cur'[s] = i
      BY <1>1, <1>3, <1>4, <2>2 DEF TypeInv
    <2>6. PICK log \in Seq(Entries), c \in Nat : StreamInv(s, log, c)
      BY InvParts
    <2>7. /\ c \in 1 .. Len(log) /\ log[c].k \in 1 .. Len(parts[s]) /\ Len(parts[s]) \in Nat
          /\ Fits(s, log[c]) /\ log[c] \in Entries
      BY <1>4, <2>6, WorkPlace
    <2>8. PICK k \in 1 .. log[c].k :
            /\ parts[s][k] = i
            /\ \A j \in 1 .. Len(parts[s]) : parts[s][j] = i => j = k
            /\ ~lost /\ ~LinkLostAnItem => Got(s, k - 1)
      BY <1>3, <1>4, <2>6, WorkPlace
    <2>9. k \in 1 .. Len(parts[s]) /\ c # 0 /\ c > 0
      BY <2>7, <2>8
    <2>10. /\ \A j \in 1 .. Len(parts[s]) : j # k /\ parts[s][j] \in Paths => Gentle(parts[s][j])
           /\ Got(s, k - 1) => Got(s, k - 1)'
           /\ parts' = parts /\ k \in Nat
      BY <1>2, <1>3, <2>4, <2>8, <2>9, WorkKeeps
    <2>11. Recorded(s, log)' /\ c \in 0 .. Len(log) /\ InFlight(s, log, c)'
      BY <1>2, <1>4, <2>6, WireStays
    <2>12. (Single' <=> Single) /\ (LinkLostAnItem' <=> LinkLostAnItem)
           /\ (Ends(s, log[c])' <=> Ends(s, log[c]))
      BY <1>2, SentStays
    <2>13. Reading(s, log, c)'
      BY <1>4, <2>5, <2>12 DEF Reading
    <2>14. ClearFrom(s, Begun(s, log, c))'
      <3>1. Begun(s, log, c)' = log[c].k /\ Begun(s, log, c) = log[c].k
        BY <1>4, <2>5, <2>9 DEF Begun
      <3>2. ClearFrom(s, log[c].k)
        BY <1>4, <2>6, <3>1 DEF StreamInv, ReadInv
      <3>3. ClearFrom(s, log[c].k)'
        <4>1. log[c].k \in Int /\ log[c].k <= log[c].k
          BY <2>7
        <4>2. \A j \in 1 .. Len(parts[s]) : j > log[c].k /\ parts[s][j] \in Paths => Gentle(parts[s][j])
          BY <2>7, <2>8, <2>10
        <4>. QED
          BY <1>1, <2>10, <3>2, <4>1, <4>2, ClearMore
      <3>. QED
        BY <3>1, <3>3 DEF ClearFrom
    <2>15. ASSUME ~lost', ~LinkLostAnItem, Ends(s, log[c])
           PROVE  Got(s, log[c].k)'
      <3>0. q = b /\ ~lost
        BY <2>1, <2>15
      <3>1. TextRead(s, log[c])
        BY <1>4, <2>6 DEF StreamInv, ReadInv, Reading
      <3>2. log[c].at >= 2 /\ log[c].at \in Nat /\ log[c].target \in Nat
        BY <2>7, <2>15 DEF Ends, HeadUnits, Entries
      <3>3. b # <<>>
        BY <1>4
      <3>4. /\ Carried(s, log[c]) = i /\ log[c].at = HeadUnits + Len(b)
            /\ b = Payload(i, log[c].target, Len(b))
        BY <1>3, <2>15, <3>1, <3>2, <3>3 DEF TextRead
      <3>5. k = log[c].k
        BY <2>7, <2>8, <3>4 DEF Carried
      <3>6. PICK t \in Nat : t = log[c].target
        BY <3>2
      <3>7. Len(b) = t /\ b = Payload(i, t, t)
        <4>1. UnitsOf(i, log[c].target) = t
          BY <1>4, <3>6 DEF UnitsOf
        <4>2. log[c].at = HeadUnits + t
          BY <2>15, <3>4, <4>1 DEF Ends
        <4>3. Len(b) = t
          BY <1>4, <3>4, <4>2 DEF HeadUnits
        <4>. QED
          BY <3>4, <3>6, <4>3
      <3>8. t \in Targets
        <4>1. log[c].target \in {Length[i], links[i]}
          <5>1. log[c].at > HeadUnits
            BY <1>4, <3>4 DEF HeadUnits
          <5>. QED
            BY <1>4, <2>7, <3>4, <5>1 DEF Fits
        <4>2. links[i] \in {Length[i]} \cup NewLengths
          BY <1>1, <1>4 DEF LinkInv
        <4>. QED
          BY <1>4, <3>6, <4>1, <4>2 DEF Targets
      <3>9. There(i)'
        <4>1. Copy(i, t) = Node("link", b, "rw")
          BY <1>4, <3>7, CopyFacts
        <4>2. [Copy(i, t) EXCEPT !.is = "note"] = Node("note", b, "rw")
          BY <4>1 DEF Node
        <4>3. tree'[i] \in {Copy(i, t), [Copy(i, t) EXCEPT !.is = "note"]}
          BY <2>1, <2>4, <3>0, <4>1, <4>2
        <4>. QED
          BY <1>4, <3>8, <4>3 DEF There
      <3>10. Got(s, k - 1)'
        BY <2>8, <2>10, <2>15, <3>0
      <3>. QED
        BY <1>4, <2>8, <2>10, <3>5, <3>9, <3>10, GotOneMore
    <2>16. ASSUME ~lost', ~LinkLostAnItem
           PROVE  Progress(s, log, c)'
      BY <2>5, <2>12, <2>15, <2>16 DEF Progress
    <2>17. StreamInv(s, log, c)'
      BY <1>4, <2>11, <2>12, <2>13, <2>14, <2>16 DEF StreamInv, ReadInv
    <2>18. \E l \in Seq(Entries), d \in Nat : StreamInv(s, l, d)'
      BY <2>6, <2>17
    <2>19. lost' \in BOOLEAN /\ (lost => lost') /\ cur[s] \notin Files
      BY <1>1, <1>3, <1>4, <2>1 DEF TypeInv
    <2>20. <<>> \in Seq(AllUnits)
      OBVIOUS
    <2>. QED
      BY <1>1, <1>4, <2>4, <2>5, <2>18, <2>19, <2>20, WorkSteps
  <1>. QED
    BY <1>5, <1>6

\* What tar makes of the next unit of the archive.
LEMMA ExtractedMember ==
  ASSUME TypeInv, LinkInv, NEW i \in Paths, ExtractMember(i)
  PROVE  /\ extractor' \in {"fine", "inside", "failed"} /\ (extractor' # "failed" => extractor # "failed")
         /\ \/ tree' = tree /\ extractor' = "failed"
            \/ /\ tree' \in [Paths -> Nodes] /\ \A p \in Paths \ {i} : tree'[p] = tree[p]
               /\ There(i)'
               /\ i \in Files => tree'[i].is = "file" /\ Len(tree'[i].data) = Length[i]
  <1>1. TypeInv /\ LinkInv
    OBVIOUS
  <1>2. extractor' \in {"fine", "inside", "failed"} /\ (extractor' # "failed" => extractor # "failed")
    BY DEF ExtractMember
  <1>3. CASE ~(tree' = tree /\ extractor' = "failed")
    <2>1. PICK t \in IF i \in Links THEN {Length[i], links[i]} ELSE {NoTarget} :
             tree' = [tree EXCEPT ![i] = Copy(i, t)]
      BY <1>3 DEF ExtractMember
    <2>2. t \in Nat /\ (i \in Links => t \in Targets) /\ (i \notin Links => t = NoTarget)
      <3>1. CASE i \in Links
        <4>1. t \in {Length[i], links[i]} /\ links[i] \in {Length[i]} \cup NewLengths
          BY <1>1, <2>1, <3>1 DEF LinkInv
        <4>2. t \in Targets
          BY <3>1, <4>1 DEF Targets
        <4>. QED
          BY <3>1, <4>2, Constants
      <3>2. CASE i \notin Links
        BY <2>1, <3>2 DEF NoTarget
      <3>. QED
        BY <3>1, <3>2
    <2>3. Copy(i, t) \in Nodes
      BY <2>2, CopyFacts
    <2>4. tree'[i] = Copy(i, t) /\ tree' \in [Paths -> Nodes] /\ \A p \in Paths \ {i} : tree'[p] = tree[p]
      BY <1>1, <2>1, <2>3 DEF TypeInv
    <2>5. There(i)'
      BY <2>2, <2>4 DEF There
    <2>6. i \in Files => tree'[i].is = "file" /\ Len(tree'[i].data) = Length[i]
      <3>. SUFFICES ASSUME i \in Files PROVE tree'[i].is = "file" /\ Len(tree'[i].data) = Length[i]
        OBVIOUS
      <3>1. tree'[i] = Node("file", Payload(i, NoTarget, Length[i]), Mode[i])
        BY <2>2, <2>4, CopyFacts
      <3>2. Len(Payload(i, NoTarget, Length[i])) = Length[i]
        <4>1. i \in Items /\ NoTarget \in Nat /\ Length[i] \in Nat
          BY Constants DEF Items, NoTarget
        <4>. QED
          BY <4>1, PayloadFacts
      <3>. QED
        BY <3>1, <3>2 DEF Node
    <2>. QED
      BY <1>2, <2>4, <2>5, <2>6
  <1>. QED
    BY <1>2, <1>3

LEMMA ExtractSteps ==
  ASSUME IInv, NEW s \in Streams, Extract(s)
  PROVE  IInv'
  <1>1. TypeInv /\ PartsInv /\ FileInv /\ SendAt(s) /\ ReceiverStep(s)
    BY InvParts DEF ReceiverStep, ReceiveThread
  <1>2. UNCHANGED <<setup, sendVars, links>> /\ s < setup.recv
    BY <1>1, ReceiverFrame
  <1>3. UNCHANGED <<setup, smain, spc, parts, done, sent, target, links>>
    BY <1>2, SentStays
  <1>4. /\ Step(s, "extract") /\ rpc[s] = "extract" /\ Single /\ Receives(s)
        /\ UNCHANGED <<rmain, cur, lost>> /\ ReceiverGoes(s, "extract", <<>>)
    BY <1>1 DEF Extract, Step, SendAt, ReceiverGoes
  <1>5. PICK log \in Seq(Entries), c \in Nat : StreamInv(s, log, c)
    BY InvParts
  <1>6. /\ c + 1 \in 1 .. Len(log) /\ c + 1 \in 0 .. Len(log)
        /\ Head(wire[s]) = OnWire(s, log[c + 1]) /\ InFlight(s, log, c + 1)'
        /\ wire' \in [Streams -> Seq(AllUnits)] /\ Len(wire'[s]) = Len(wire[s]) - 1
    BY <1>1, <1>3, <1>4, <1>5, TakeOne
  <1>7. PICK a, x : a = log[c + 1].at /\ x = Carried(s, log[c + 1])
    OBVIOUS
  <1>8. Head(wire[s]).item = x /\ Head(wire[s]).at = a
    BY <1>6, <1>7 DEF OnWire, Unit
  <1>9. /\ rpc' = [rpc EXCEPT ![s] = "extract"] /\ buf' = [buf EXCEPT ![s] = <<>>]
        /\ rpc'[s] = "extract" /\ buf'[s] = <<>>
    BY <1>1, <1>4 DEF ReceiverGoes, TypeInv
  <1>10. log[c + 1].k \in 1 .. Len(parts[s]) /\ Len(parts[s]) \in Nat /\ parts[s][log[c + 1].k] = x
    BY <1>1, <1>5, <1>6, <1>7, LogFacts DEF Carried
  <1>11. (setup.send = 1 => x = Archive) /\ smain # "start"
    BY <1>1, <1>10 DEF PartsInv
  <1>12. x = Archive =>
           /\ s = 0 /\ setup.send = 1 /\ c \in 1 .. Len(log)
           /\ a >= HeadUnits
           /\ (a - HeadUnits) % 2 = 0 =>
                (a - HeadUnits) \div 2 \in 1 .. Len(Members) /\ Had(log, c + 1) = Had(log, c) + 1
           /\ (a - HeadUnits) % 2 # 0 => Had(log, c + 1) = Had(log, c)
    <2>. SUFFICES ASSUME x = Archive
                  PROVE  /\ s = 0 /\ setup.send = 1 /\ c \in 1 .. Len(log)
                         /\ a >= HeadUnits
                         /\ (a - HeadUnits) % 2 = 0 =>
                              (a - HeadUnits) \div 2 \in 1 .. Len(Members) /\ Had(log, c + 1) = Had(log, c) + 1
                         /\ (a - HeadUnits) % 2 # 0 => Had(log, c + 1) = Had(log, c)
      OBVIOUS
    <2>1. /\ s = 0 /\ setup.send = 1 /\ c \in 1 .. Len(log)
          /\ log[c].at \in Nat /\ log[c].at >= HeadUnits /\ a = log[c].at + 1
          /\ (a - HeadUnits) % 2 = 0 =>
               (a - HeadUnits) \div 2 \in 1 .. Len(Members) /\ Had(log, c + 1) = Had(log, c) + 1
          /\ (a - HeadUnits) % 2 # 0 => Had(log, c + 1) = Had(log, c)
      BY <1>4, <1>5, <1>6, <1>7, ArchiveUnit
    <2>2. a >= HeadUnits
      BY <2>1 DEF HeadUnits
    <2>. QED
      BY <2>1, <2>2
  <1>13. /\ Members' = Members /\ Members \in Seq(Paths) /\ Len(Members) \in Nat
         /\ \A m, n \in 1 .. Len(Members) : m < n => Members[m] < Members[n]
         /\ Paths \in SUBSET Nat
    <2>1. Members \in Seq(Archived) /\ Archived \in SUBSET Paths
      BY <1>1, MembersFacts DEF TypeInv
    <2>2. Members \in Seq(Paths)
      BY <2>1
    <2>. QED
      BY <1>1, <1>2, <2>2, SentStays, MembersFacts, Constants DEF TypeInv
  \* The member that is complete by now.
  <1>14. PICK h, i : h = (a - HeadUnits) \div 2 /\ i = Members[h]
    OBVIOUS
  <1>15. /\ extractor' \in {"fine", "inside", "failed"}
         /\ extractor' # "failed" => extractor # "failed"
         /\ \/ /\ tree' = tree
               /\ x = Archive /\ (a - HeadUnits) % 2 = 0 => extractor' = "failed"
            \/ /\ x = Archive /\ (a - HeadUnits) % 2 = 0 /\ i \in Paths /\ There(i)'
               /\ tree' \in [Paths -> Nodes] /\ \A p \in Paths \ {i} : tree'[p] = tree[p]
               /\ i \in Files => tree'[i].is = "file" /\ Len(tree'[i].data) = Length[i]
    <2>1. CASE x # Archive
      BY <1>1, <1>8, <2>1 DEF Extract, TypeInv
    <2>2. CASE x = Archive /\ (a - HeadUnits) % 2 # 0
      BY <1>1, <1>8, <2>2 DEF Extract, TypeInv
    <2>3. CASE x = Archive /\ (a - HeadUnits) % 2 = 0
      <3>1. Member(Head(wire[s])) = i
        BY <1>8, <1>14 DEF Member
      <3>2. ExtractMember(i)
        BY <1>8, <2>3, <3>1 DEF Extract
      <3>3. i \in Paths
        BY <1>12, <1>13, <1>14, <2>3
      <3>. QED
        BY <2>3, <3>2, <3>3, ExtractedMember, InvParts
    <2>. QED
      BY <2>1, <2>2, <2>3
  <1>16. TypeInv'
    <2>1. rpc' \in [Streams -> RecvPcs] /\ buf' \in [Streams -> Seq(AllUnits)]
      <3>1. "extract" \in RecvPcs /\ <<>> \in Seq(AllUnits)
        BY DEF RecvPcs
      <3>. QED
        BY <1>1, <1>9, <3>1 DEF TypeInv
    <2>2. tree' \in [Paths -> Nodes]
      BY <1>1, <1>15 DEF TypeInv
    <2>. QED
      BY <1>1, <1>3, <1>4, <1>6, <1>15, <2>1, <2>2 DEF TypeInv
  <1>17. SendAt(s)'
    <2>1. spc[s] \notin {"start", "refused"}
      BY <1>1, <1>4 DEF SendAt
    <2>. QED
      BY <1>1, <1>4, <1>6, <1>9, <1>16, <2>1, ThreadAt
  <1>18. FileInv'
    <2>. SUFFICES ASSUME NEW p \in Files PROVE FileAt(p)'
      BY DEF FileInv
    <2>1. p \in Paths /\ Length[p] \in Nat
      BY Constants
    <2>2. CASE tree'[p] = tree[p]
      <3>1. \A t \in Streams : rpc[t] = "failed" \/ (rpc[t] = "data" /\ cur[t] = p) =>
                                rpc'[t] = "failed" \/ (rpc'[t] = "data" /\ cur'[t] = p)
        BY <1>1, <1>4, <1>9 DEF TypeInv
      <3>2. Gentle(p)
        BY <2>2 DEF Gentle
      <3>. QED
        BY <1>1, <1>4, <3>1, <3>2, FileKept DEF FileInv
    <2>3. CASE tree'[p] # tree[p]
      <3>1. p = i /\ There(i)' /\ tree'[i].is = "file" /\ Len(tree'[i].data) = Length[i]
        BY <1>15, <2>1, <2>3
      <3>2. tree'[p].is = "file" /\ Len(tree'[p].data) <= Length[p]
        BY <2>1, <3>1
      <3>3. There(p)'
        BY <3>1
      <3>. QED
        BY <3>2, <3>3 DEF FileAt
    <2>. QED
      BY <2>2, <2>3
  <1>19. c + 1 > 0 /\ c + 1 \in Nat /\ c + 1 # 0
    BY <1>5
  <1>20. Reading(s, log, c + 1)'
    BY <1>9, <1>19 DEF Reading
  <1>21. ASSUME s = 0, setup.send = 1
         PROVE  Extracted(log, c + 1)'
    <2>1. x = Archive /\ Extracted(log, c) /\ a >= HeadUnits
      BY <1>4, <1>5, <1>11, <1>12, <1>21 DEF StreamInv, ReadInv
    <2>2. Had(log, c + 1) = h
      BY <1>7, <1>14, <1>19 DEF Had
    <2>. DEFINE g == Had(log, c)
    <2>3. \A n \in 1 .. Len(Members) : IF n <= g THEN extractor # "failed" => There(Members[n])
                                                 ELSE Untouched(Members[n])
      BY <2>1 DEF Extracted
    <2>4. ASSUME NEW n \in 1 .. Len(Members)
          PROVE  IF n <= h THEN extractor' # "failed" => There(Members[n])' ELSE Untouched(Members[n])'
      <3>1. PICK p : p = Members[n]
        OBVIOUS
      <3>2. p \in Paths /\ Members'[n] = p
        BY <1>13, <3>1
      <3>3. /\ tree'[p] = tree[p] => (There(p) => There(p)')
            /\ tree'[p] = tree[p] => (Untouched(p) => Untouched(p)')
        BY DEF There, Untouched
      <3>4. IF n <= g THEN extractor # "failed" => There(p) ELSE Untouched(p)
        BY <2>3, <3>1
      <3>5. IF n <= h THEN extractor' # "failed" => There(p)' ELSE Untouched(p)'
        <4>1. CASE (a - HeadUnits) % 2 # 0
          <5>1. h = g /\ tree' = tree
            BY <1>12, <1>15, <2>1, <2>2, <4>1
          <5>. QED
            BY <1>15, <3>3, <3>4, <5>1
        <4>2. CASE (a - HeadUnits) % 2 = 0
          <5>1. h \in 1 .. Len(Members) /\ h = g + 1
            BY <1>12, <1>14, <2>1, <2>2, <4>2
          <5>2. g \in Int
            <6>1. c # 0 /\ log[c].at \in Nat
              BY <1>1, <1>5, <1>12, <2>1, LogFacts DEF Entries
            <6>2. g = (log[c].at - 2) \div 2
              BY <6>1 DEF Had, HeadUnits
            <6>. QED
              BY <6>1, <6>2
          <5>0. \/ tree' = tree /\ extractor' = "failed"
                \/ There(i)' /\ i \in Paths /\ \A q \in Paths \ {i} : tree'[q] = tree[q]
            BY <1>15, <2>1, <4>2
          <5>3. CASE tree' = tree /\ extractor' = "failed"
            BY <3>3, <3>4, <5>1, <5>2, <5>3
          <5>4. CASE There(i)' /\ i \in Paths /\ \A q \in Paths \ {i} : tree'[q] = tree[q]
            <6>1. There(i)' /\ i \in Paths /\ \A q \in Paths \ {i} : tree'[q] = tree[q]
              BY <5>4
            <6>2. CASE n = h
              <7>1. p = i
                BY <1>14, <3>1, <6>2
              <7>2. n <= h
                BY <5>1, <6>2
              <7>. QED
                BY <6>1, <7>1, <7>2
            <6>3. CASE n # h
              <7>1. p # i
                <8>0. n < h \/ h < n
                  BY <5>1, <6>3
                <8>1. Members[n] < Members[h] \/ Members[h] < Members[n]
                  BY <1>13, <5>1, <8>0
                <8>2. p \in Nat /\ i \in Nat
                  BY <1>13, <3>2, <6>1
                <8>. QED
                  BY <1>14, <3>1, <8>1, <8>2
              <7>2. tree'[p] = tree[p]
                BY <3>2, <6>1, <7>1
              <7>3. n <= g <=> n <= h
                BY <5>1, <5>2, <6>3
              <7>. QED
                BY <1>15, <3>3, <3>4, <7>2, <7>3
            <6>. QED
              BY <6>2, <6>3
          <5>. QED
            BY <5>0, <5>3, <5>4
        <4>. QED
          BY <4>1, <4>2
      <3>. QED
        BY <1>13, <3>1, <3>5
    <2>5. Had(log, c + 1)' = h /\ log[c + 1].at >= HeadUnits
      BY <1>7, <2>1, <2>2 DEF Had
    <2>. QED
      BY <1>13, <2>4, <2>5 DEF Extracted
  <1>22. StreamInv(s, log, c + 1)'
    <2>1. Recorded(s, log)' /\ (Single' <=> Single)
      BY <1>2, <1>5, SentStays DEF StreamInv
    <2>. QED
      BY <1>3, <1>4, <1>6, <1>20, <1>21, <2>1 DEF StreamInv, ReadInv
  <1>23. \E l \in Seq(Entries), d \in Nat : StreamInv(s, l, d)'
    BY <1>5, <1>19, <1>22
  <1>24. smain = "start" \/ (Single /\ setup.send > 1) => UNCHANGED tree
    <2>1. setup.send > 1 => x # Archive
      BY <1>12
    <2>. QED
      BY <1>11, <1>15, <2>1
  <1>. QED
    BY <1>1, <1>4, <1>16, <1>17, <1>18, <1>23, <1>24, OneReceives

-----------------------------------------------------------------------------
\* Every step preserves the invariant.
LEMMA ReceiverSteps ==
  ASSUME IInv, Straight, NEW s \in Streams, ReceiverStep(s)
  PROVE  IInv'
  <1>1. CASE Listen(s) \/ Accept(s)
    BY <1>1, ListenSteps
  <1>2. CASE Eof(s) \/ ReceiveError(s) \/ ExtractorGone(s) \/ CloseExtractor(s)
    BY <1>2, EndSteps
  <1>3. CASE TakeHeader(s)
    BY <1>3, MagicSteps, NameSteps
  <1>4. CASE Prepare(s)
    BY <1>4, PrepareSteps
  <1>5. CASE TakeData(s)
    BY <1>5, TakeDataSteps
  <1>6. CASE CloseFile(s) \/ CloseFileBadly(s)
    BY <1>6, CloseFileSteps
  <1>7. CASE TakeText(s)
    BY <1>7, TakeTextSteps
  <1>8. CASE MakeLink(s) \/ MakeNoteBadly(s)
    BY <1>8, MakeLinkSteps
  <1>9. CASE Extract(s)
    BY <1>9, ExtractSteps
  <1>. QED
    BY <1>1, <1>2, <1>3, <1>4, <1>5, <1>6, <1>7, <1>8, <1>9 DEF ReceiverStep, ReceiveThread

LEMMA Preserved == IInv /\ Straight /\ [Next]_vars => IInv'
  <1>. SUFFICES ASSUME IInv, Straight, [Next]_vars PROVE IInv'
    OBVIOUS
  <1>1. CASE StartSend
    BY <1>1, StartSteps
  <1>2. CASE JoinSend \/ KillSender \/ JoinReceive \/ UNCHANGED vars
    BY <1>2, JoinSteps
  <1>3. CASE \E s \in Streams : SenderStep(s)
    BY <1>3, SenderSteps
  <1>4. CASE \E s \in Streams : ReceiverStep(s)
    BY <1>4, ReceiverSteps
  <1>5. CASE \E i \in Links : ReplaceLink(i)
    BY <1>5, ReplaceSteps
  <1>. QED
    BY <1>1, <1>2, <1>3, <1>4, <1>5 DEF Next, SenderStep, ReceiverStep

\* What the threads have sent, read and made is in step with the logs of
\* their streams, whatever the trees, the setups, the faults and the
\* interleaving of send_directory_items and receive_file_part, as long as
\* older links do not lead the threads of receive_file_part to each other.
THEOREM Invariance == Spec => [](Straight => IInv)
  <1>1. Init => (Straight => IInv)
    BY InitInv
  <1>2. (Straight => IInv) /\ [Next]_vars => (Straight => IInv)'
    BY Preserved, StraightStays
  <1>. QED
    BY <1>1, <1>2, PTL DEF Spec

-----------------------------------------------------------------------------
(***************************************************************************)
(* The types, and what there is room for: with older links too.            *)
(***************************************************************************)
\* What a thread at pc has of item x: no more than a header, or than x is long.
RoomFor(pc, x, b) ==
    /\ pc \in {"make", "data", "text"} => x \in Paths
    /\ pc = "data" => x \in Files
    /\ pc = "text" => x \in Links
    /\ pc = "extract" => Single
    /\ pc = "header" => Len(b) < HeadUnits
    /\ pc \in {"data", "text"} => Len(b) <= Length[x]
    /\ pc \notin {"header", "data", "text"} => b = <<>>

\* A file is no longer than one of those that are written to it.
Roomy(i) == \/ tree[i].data = <<>>
            \/ \E j \in Files : Place(j) = i /\ Len(tree[i].data) <= Length[j]

StreamRoom(s) ==
    /\ smain = "start" => done[s] = 0 /\ target[s] = NoTarget
    /\ done[s] <= Len(parts[s]) /\ Len(wire[s]) <= Window
    /\ RoomFor(rpc[s], cur[s], buf[s])

RoomInv ==
    /\ TypeInv /\ LinkInv
    /\ \A s \in Streams : StreamRoom(s)
    /\ \A i \in Files : Roomy(i)

\* Older links lead from a path to one of its kind.
LEMMA PlaceFacts ==
  ASSUME TypeInv, NEW i \in Paths
  PROVE  /\ Place(i) \in Paths /\ Kind[Place(i)] = Kind[i]
         /\ i \in Files => Place(i) \in Files
         /\ i \in Links => Place(i) \in Links
  <1>1. setup.leads \in [Paths -> Paths] /\ \A j \in Paths : Kind[setup.leads[j]] = Kind[j]
    BY SetupFacts DEF TypeInv
  <1>2. Place(i) \in Paths /\ Kind[Place(i)] = Kind[i]
    BY <1>1 DEF Place
  <1>. QED
    BY <1>2 DEF Files, Links

LEMMA RoomAtFirst == Init => RoomInv
  <1>. SUFFICES ASSUME Init PROVE RoomInv
    OBVIOUS
  <1>1. TypeInv /\ LinkInv
    BY InitInv, InvParts
  <1>2. ASSUME NEW s \in Streams PROVE StreamRoom(s)
    <2>1. Window \in Nat /\ Len(<<>>) = 0
      BY SetupAssumption
    <2>2. /\ done[s] = 0 /\ target[s] = NoTarget /\ parts[s] = <<>> /\ wire[s] = <<>>
          /\ rpc[s] = "start" /\ buf[s] = <<>>
      BY DEF Init
    <2>. QED
      BY <2>1, <2>2 DEF StreamRoom, RoomFor
  <1>3. \A i \in Files : Roomy(i)
    <2>1. tree \in OldTrees(setup.leads)
      BY DEF Init
    <2>. QED
      BY <2>1, OldTree, Constants DEF Roomy
  <1>. QED
    BY <1>1, <1>2, <1>3 DEF RoomInv

LEMMA RoomToSend ==
  ASSUME RoomInv, NEW s \in Streams, SenderStep(s)
  PROVE  RoomInv'
  <1>1. TypeInv /\ LinkInv /\ \A t \in Streams : StreamRoom(t)
    BY DEF RoomInv
  <1>2. TypeInv' /\ LinkInv'
    BY <1>1, SenderTypes
  <1>3. /\ UNCHANGED <<setup, smain, parts, links, recvVars>> /\ smain = "run"
        /\ \A t \in Streams \ {s} : SameSender(t)
    BY <1>1, SenderFrame
  <1>4. UNCHANGED <<rpc, cur, buf, tree>> /\ (Single' <=> Single)
    BY <1>3 DEF recvVars, Single
  <1>5. ASSUME NEW t \in Streams PROVE StreamRoom(t)'
    <2>1. done'[t] <= Len(parts[t])
      <3>1. done[t] \in Nat /\ Len(parts[t]) \in Nat /\ done[t] <= Len(parts[t])
        BY <1>1 DEF StreamRoom, TypeInv
      <3>2. CASE t = s /\ EndItem(s)
        <4>1. done'[s] = done[s] + 1 /\ done[s] < Len(parts[s])
          BY <1>1, <3>2 DEF EndItem, Busy, TypeInv
        <4>. QED
          BY <3>1, <3>2, <4>1
      <3>3. CASE ~(t = s /\ EndItem(s))
        <4>1. done'[t] = done[t]
          BY <1>3, <3>3 DEF SameSender, SenderStep, SendThread, Connect, Send, ReadLink, ReadFail,
                            CloseSend, SendFail, SenderFails
        <4>. QED
          BY <3>1, <4>1
      <3>. QED
        BY <3>2, <3>3
    <2>2. Len(wire'[t]) <= Window
      <3>1. wire[t] \in Seq(AllUnits) /\ Len(wire[t]) \in Nat /\ Len(wire[t]) <= Window /\ Window \in Nat
        BY <1>1, SetupAssumption DEF StreamRoom, TypeInv
      <3>2. CASE t = s /\ Send(s)
        <4>1. PICK u : wire' = [wire EXCEPT ![s] = Append(wire[s], u)]
          BY <3>2 DEF Send
        <4>2. wire'[s] = Append(wire[s], u) /\ Len(wire[s]) < Window
          BY <1>1, <3>2, <4>1 DEF Send, TypeInv
        <4>3. Len(Append(wire[s], u)) = Len(wire[s]) + 1
          BY <3>1, <3>2
        <4>. QED
          BY <3>1, <3>2, <4>2, <4>3
      <3>3. CASE ~(t = s /\ Send(s))
        <4>1. wire'[t] = wire[t]
          BY <1>3, <3>3 DEF SameSender, SenderStep, SendThread, Connect, EndItem, ReadLink, ReadFail,
                            CloseSend, SendFail, SenderFails
        <4>. QED
          BY <3>1, <4>1
      <3>. QED
        BY <3>2, <3>3
    <2>3. RoomFor(rpc[t], cur[t], buf[t])'
      BY <1>1, <1>4 DEF StreamRoom, RoomFor
    <2>. QED
      BY <1>3, <2>1, <2>2, <2>3 DEF StreamRoom
  <1>6. \A i \in Files : Roomy(i)'
    BY <1>3, <1>4 DEF RoomInv, Roomy, Place
  <1>. QED
    BY <1>2, <1>5, <1>6 DEF RoomInv

\* A step that leaves the streams alone, or deals the items out.
LEMMA RoomStays ==
  ASSUME RoomInv, StartSend \/ JoinSend \/ KillSender \/ JoinReceive \/ UNCHANGED vars
  PROVE  RoomInv'
  <1>1. TypeInv /\ LinkInv /\ \A t \in Streams : StreamRoom(t)
    BY DEF RoomInv
  <1>2. /\ UNCHANGED <<setup, done, sent, target, links, wire>> /\ (smain' = "start" => smain = "start")
        /\ UNCHANGED <<rpc, cur, buf, tree, extractor, lost>>
        /\ ~StartSend => parts' = parts
    BY DEF StartSend, JoinSend, KillSender, JoinReceive, vars, sendVars, recvVars
  <1>3. Single' <=> Single
    BY <1>2 DEF Single
  <1>4. /\ smain' \in {"start", "run", "ok", "error", "killed"} /\ rmain' \in {"run", "ok", "error", "killed"}
        /\ spc' = spc
    BY <1>1 DEF StartSend, JoinSend, KillSender, JoinReceive, vars, sendVars, recvVars, TypeInv
  <1>5. parts' = parts \/ (StartSend /\ smain' = "run")
    BY <1>2 DEF StartSend
  <1>6. parts' \in [Streams -> Seq(Items)]
    BY <1>1, <1>5, PartsDealt DEF TypeInv
  <1>7. TypeInv'
    BY <1>1, <1>2, <1>4, <1>6 DEF TypeInv
  <1>8. \A t \in Streams : parts' = parts \/ (done[t] = 0 /\ target[t] = NoTarget)
    BY <1>1, <1>5 DEF StartSend, StreamRoom
  <1>9. LinkInv'
    <2>1. \A i \in Links : links'[i] \in {Length[i]} \cup NewLengths
      BY <1>1, <1>2 DEF LinkInv
    <2>2. ASSUME NEW t \in Streams, target'[t] # NoTarget
          PROVE  /\ done'[t] < Len(parts'[t]) /\ Item(t)' \in Links
                 /\ target'[t] \in {Length[Item(t)'], links'[Item(t)']} /\ sent'[t] >= HeadUnits
      BY <1>1, <1>2, <1>8, <2>2 DEF LinkInv, Item
    <2>. QED
      BY <2>1, <2>2 DEF LinkInv
  <1>10. ASSUME NEW t \in Streams PROVE StreamRoom(t)'
    <2>1. parts'[t] \in Seq(Items) /\ Len(parts'[t]) \in Nat
      BY <1>6
    <2>2. done'[t] <= Len(parts'[t])
      BY <1>1, <1>2, <1>8, <2>1 DEF StreamRoom
    <2>3. RoomFor(rpc[t], cur[t], buf[t])'
      BY <1>1, <1>2, <1>3 DEF StreamRoom, RoomFor
    <2>. QED
      BY <1>1, <1>2, <2>2, <2>3 DEF StreamRoom
  <1>11. \A i \in Files : Roomy(i)'
    BY <1>2, <1>3 DEF RoomInv, Roomy, Place
  <1>. QED
    BY <1>7, <1>9, <1>10, <1>11 DEF RoomInv

LEMMA RoomWhenReplaced ==
  ASSUME RoomInv, NEW i \in Links, ReplaceLink(i)
  PROVE  RoomInv'
  <1>1. TypeInv /\ LinkInv /\ \A t \in Streams : StreamRoom(t)
    BY DEF RoomInv
  <1>2. /\ UNCHANGED <<setup, smain, spc, parts, done, sent, target, wire>>
        /\ UNCHANGED <<rmain, rpc, cur, buf, tree, extractor, lost>>
    BY DEF ReplaceLink, sendVars, recvVars
  <1>3. TypeInv' /\ LinkInv'
    BY <1>1, ReplacedLink
  <1>4. Single' <=> Single
    BY <1>2 DEF Single
  <1>5. \A t \in Streams : StreamRoom(t)'
    BY <1>1, <1>2, <1>4 DEF StreamRoom, RoomFor
  <1>6. \A j \in Files : Roomy(j)'
    BY <1>2, <1>4 DEF RoomInv, Roomy, Place
  <1>. QED
    BY <1>3, <1>5, <1>6 DEF RoomInv

\* A receiver's thread goes on: what is left to show is its own part.
LEMMA OneHasRoom ==
  ASSUME RoomInv, NEW s \in Streams, ReceiverStep(s),
         NEW pc \in RecvPcs, rpc' = [rpc EXCEPT ![s] = pc],
         NEW b \in Seq(AllUnits), buf' = [buf EXCEPT ![s] = b],
         NEW x \in Items, cur' = [cur EXCEPT ![s] = x], RoomFor(pc, x, b),
         wire' = wire \/ Receives(s),
         extractor' \in {"fine", "inside", "failed"}, lost' \in BOOLEAN,
         tree' \in [Paths -> Nodes], \A i \in Files : Roomy(i)'
  PROVE  RoomInv'
  <1>1. TypeInv /\ LinkInv /\ \A t \in Streams : StreamRoom(t)
    BY DEF RoomInv
  <1>2. /\ UNCHANGED <<setup, sendVars, links>> /\ rmain' \in {"run", "killed"}
        /\ \A t \in Streams \ {s} : SameReceiver(t)
    BY <1>1, ReceiverFrame
  <1>3. UNCHANGED <<setup, smain, spc, parts, done, sent, target, links>> /\ (Single' <=> Single)
    BY <1>2, SentStays
  <1>4. /\ wire' \in [Streams -> Seq(AllUnits)]
        /\ \A t \in Streams : Len(wire'[t]) <= Window
    <2>1. \A t \in Streams : wire[t] \in Seq(AllUnits) /\ Len(wire[t]) \in Nat /\ Len(wire[t]) <= Window
      BY <1>1 DEF TypeInv, StreamRoom
    <2>2. CASE wire' = wire
      BY <1>1, <2>1, <2>2 DEF TypeInv
    <2>3. CASE Receives(s)
      <3>1. wire[s] # <<>> /\ wire' = [wire EXCEPT ![s] = Tail(wire[s])]
        BY <2>3 DEF Receives
      <3>2. Tail(wire[s]) \in Seq(AllUnits) /\ Len(Tail(wire[s])) = Len(wire[s]) - 1
        BY <2>1, <3>1
      <3>3. wire' \in [Streams -> Seq(AllUnits)] /\ wire'[s] = Tail(wire[s])
            /\ \A t \in Streams : t # s => wire'[t] = wire[t]
        BY <1>1, <3>1, <3>2 DEF TypeInv
      <3>4. Window \in Nat
        BY SetupAssumption
      <3>5. Len(wire'[s]) <= Window
        BY <2>1, <3>2, <3>3, <3>4
      <3>. QED
        BY <2>1, <3>3, <3>5
    <2>. QED
      BY <2>2, <2>3
  <1>5. TypeInv'
    <2>1. rpc' \in [Streams -> RecvPcs] /\ buf' \in [Streams -> Seq(AllUnits)] /\ cur' \in [Streams -> Items]
      BY <1>1 DEF TypeInv
    <2>. QED
      BY <1>1, <1>2, <1>3, <1>4, <2>1 DEF TypeInv
  <1>6. LinkInv'
    BY <1>1, <1>3 DEF LinkInv, Item
  <1>7. ASSUME NEW t \in Streams PROVE StreamRoom(t)'
    <2>1. CASE t = s
      <3>1. rpc'[s] = pc /\ cur'[s] = x /\ buf'[s] = b
        BY <1>1 DEF TypeInv
      <3>2. RoomFor(rpc[t], cur[t], buf[t])'
        BY <1>3, <2>1, <3>1 DEF RoomFor
      <3>. QED
        BY <1>1, <1>3, <1>4, <3>2 DEF StreamRoom
    <2>2. CASE t # s
      <3>1. rpc'[t] = rpc[t] /\ cur'[t] = cur[t] /\ buf'[t] = buf[t]
        BY <1>2, <2>2 DEF SameReceiver
      <3>2. RoomFor(rpc[t], cur[t], buf[t])'
        BY <1>1, <1>3, <3>1 DEF StreamRoom, RoomFor
      <3>. QED
        BY <1>1, <1>3, <1>4, <3>2 DEF StreamRoom
    <2>. QED
      BY <2>1, <2>2
  <1>. QED
    BY <1>5, <1>6, <1>7 DEF RoomInv

\* The same with nothing of the item in the buffer any more.
LEMMA NoMoreRoomNeeded ==
  ASSUME RoomInv, NEW s \in Streams, ReceiverStep(s),
         NEW pc \in {"accept", "header", "done", "failed"}, rpc' = [rpc EXCEPT ![s] = pc],
         buf' = [buf EXCEPT ![s] = <<>>],
         cur' = cur \/ \E x \in Items : cur' = [cur EXCEPT ![s] = x],
         wire' = wire \/ Receives(s),
         extractor' \in {"fine", "inside", "failed"}, lost' \in BOOLEAN,
         tree' \in [Paths -> Nodes], \A i \in Files : Roomy(i)'
  PROVE  RoomInv'
  <1>1. PICK x \in Items : cur' = [cur EXCEPT ![s] = x]
    <2>1. cur \in [Streams -> Items]
      BY DEF RoomInv, TypeInv
    <2>. QED
      BY <2>1
  <1>2. <<>> \in Seq(AllUnits) /\ Len(<<>>) = 0 /\ pc \in RecvPcs
    BY DEF RecvPcs
  <1>3. RoomFor(pc, x, <<>>)
    BY <1>2 DEF RoomFor, HeadUnits
  <1>. QED
    BY <1>1, <1>2, <1>3, OneHasRoom

\* The tree stays, or only directories are made and files emptied.
LEMMA TreeHasRoom ==
  ASSUME RoomInv, setup' = setup, tree' \in [Paths -> Nodes],
         \A i \in Files : tree'[i].data = <<>> \/ tree'[i].data = tree[i].data
  PROVE  \A i \in Files : Roomy(i)'
  <1>1. \A j \in Files : Place(j)' = Place(j)
    BY DEF Place, Single
  <1>. QED
    BY <1>1 DEF RoomInv, Roomy

\* The end of a connection, errors, and what comes before the first header.
LEMMA RoomAtEnds ==
  ASSUME RoomInv, NEW s \in Streams,
         Listen(s) \/ Accept(s) \/ Eof(s) \/ ReceiveError(s) \/ CloseExtractor(s) \/ ExtractorGone(s)
  PROVE  RoomInv'
  <1>1. ReceiverStep(s) /\ TypeInv
    BY DEF RoomInv, ReceiverStep, ReceiveThread
  <1>2. UNCHANGED <<setup, wire, cur, tree, extractor, lost>>
    BY DEF Listen, Accept, Eof, ReceiveError, CloseExtractor, ExtractorGone, ReceiverGoes, ReceiverFails
  <1>3. /\ extractor' \in {"fine", "inside", "failed"} /\ lost' \in BOOLEAN
        /\ tree' \in [Paths -> Nodes]
    BY <1>1, <1>2 DEF TypeInv
  <1>4. \A i \in Files : Roomy(i)'
    BY <1>2, <1>3, TreeHasRoom
  <1>5. CASE rpc' = rpc /\ buf' = buf
    <2>1. /\ rpc[s] \in RecvPcs /\ rpc' = [rpc EXCEPT ![s] = rpc[s]]
          /\ buf[s] \in Seq(AllUnits) /\ buf' = [buf EXCEPT ![s] = buf[s]]
          /\ cur[s] \in Items /\ cur' = [cur EXCEPT ![s] = cur[s]]
      BY <1>1, <1>2, <1>5 DEF TypeInv
    <2>2. RoomFor(rpc[s], cur[s], buf[s])
      BY DEF RoomInv, StreamRoom
    <2>. QED
      BY <1>1, <1>2, <1>3, <1>4, <2>1, <2>2, OneHasRoom
  <1>6. CASE ~(rpc' = rpc /\ buf' = buf)
    <2>1. PICK pc \in {"accept", "header", "done", "failed"} :
            rpc' = [rpc EXCEPT ![s] = pc] /\ buf' = [buf EXCEPT ![s] = <<>>]
      BY <1>6 DEF Listen, Accept, Eof, ReceiveError, CloseExtractor, ExtractorGone, ReceiverGoes, ReceiverFails
    <2>. QED
      BY <1>1, <1>2, <1>3, <1>4, <2>1, NoMoreRoomNeeded
  <1>. QED
    BY <1>5, <1>6

\* One unit more in the buffer.
LEMMA OneMore ==
  ASSUME RoomInv, NEW s \in Streams, Receives(s)
  PROVE  /\ Head(wire[s]) \in AllUnits
         /\ Arrived(s) \in Seq(AllUnits) /\ Len(buf[s]) \in Nat /\ Len(Arrived(s)) = Len(buf[s]) + 1
         /\ \A k \in 1 .. Len(buf[s]) + 1 : Arrived(s)[k] \in AllUnits
  <1>1. wire[s] \in Seq(AllUnits) /\ buf[s] \in Seq(AllUnits) /\ wire[s] # <<>>
    BY DEF RoomInv, TypeInv, Receives
  <1>2. Head(wire[s]) \in AllUnits
    BY <1>1
  <1>3. /\ Arrived(s) \in Seq(AllUnits) /\ Len(buf[s]) \in Nat
        /\ Len(Arrived(s)) = Len(buf[s]) + 1
    BY <1>1, <1>2 DEF Arrived
  <1>. QED
    BY <1>2, <1>3

LEMMA RoomForHeader ==
  ASSUME RoomInv, NEW s \in Streams, TakeHeader(s)
  PROVE  RoomInv'
  <1>1. ReceiverStep(s) /\ TypeInv /\ Receives(s)
    BY DEF RoomInv, ReceiverStep, ReceiveThread, TakeHeader
  <1>2. UNCHANGED <<setup, tree, extractor, lost>>
    BY DEF TakeHeader, ReceiverGoes
  <1>3. /\ extractor' \in {"fine", "inside", "failed"} /\ lost' \in BOOLEAN
        /\ tree' \in [Paths -> Nodes]
    BY <1>1, <1>2 DEF TypeInv
  <1>4. \A i \in Files : Roomy(i)'
    BY <1>2, <1>3, TreeHasRoom
  <1>5. /\ Arrived(s) \in Seq(AllUnits) /\ Len(buf[s]) \in Nat /\ Len(Arrived(s)) = Len(buf[s]) + 1
        /\ \A k \in 1 .. Len(buf[s]) + 1 : Arrived(s)[k] \in AllUnits
    BY <1>1, OneMore
  <1>6. cur[s] \in Items /\ cur = [cur EXCEPT ![s] = cur[s]] /\ <<>> \in Seq(AllUnits)
    BY <1>1 DEF TypeInv
  <1>7. CASE Len(Arrived(s)) < HeadUnits
    <2>1. /\ rpc' = [rpc EXCEPT ![s] = "header"] /\ buf' = [buf EXCEPT ![s] = Arrived(s)]
          /\ cur' = [cur EXCEPT ![s] = cur[s]] /\ "header" \in RecvPcs
      BY <1>6, <1>7 DEF TakeHeader, ReceiverGoes, RecvPcs
    <2>2. RoomFor("header", cur[s], Arrived(s))
      BY <1>7 DEF RoomFor
    <2>. QED
      BY <1>1, <1>3, <1>4, <1>5, <1>6, <2>1, <2>2, OneHasRoom
  <1>8. CASE ~(Len(Arrived(s)) < HeadUnits) /\ IsHeader(Arrived(s))
    <2>1. PICK i : i = Arrived(s)[2].item
      OBVIOUS
    <2>2. i \in Items
      <3>1. 2 \in 1 .. Len(buf[s]) + 1
        BY <1>5, <1>8 DEF HeadUnits
      <3>2. Arrived(s)[2] \in AllUnits
        BY <1>5, <3>1
      <3>. QED
        BY <2>1, <3>2 DEF AllUnits
    <2>3. /\ rpc' = [rpc EXCEPT ![s] = AfterName(i)] /\ buf' = [buf EXCEPT ![s] = <<>>]
          /\ cur' = [cur EXCEPT ![s] = i]
      BY <1>8, <2>1 DEF TakeHeader, ReceiverGoes
    <2>4. /\ AfterName(i) \in {"extract", "failed", "make"}
          /\ AfterName(i) = "extract" => Single
          /\ AfterName(i) = "make" => i \in Paths
      BY <2>2 DEF AfterName, Items
    <2>5. RoomFor(AfterName(i), i, <<>>) /\ AfterName(i) \in RecvPcs
      BY <2>4 DEF RoomFor, RecvPcs
    <2>. QED
      BY <1>1, <1>3, <1>4, <1>6, <2>2, <2>3, <2>5, OneHasRoom
  <1>9. CASE ~(Len(Arrived(s)) < HeadUnits) /\ ~IsHeader(Arrived(s))
    <2>1. rpc' = [rpc EXCEPT ![s] = "failed"] /\ buf' = [buf EXCEPT ![s] = <<>>] /\ cur' = cur
      BY <1>9 DEF TakeHeader, ReceiverGoes
    <2>. QED
      BY <1>1, <1>3, <1>4, <2>1, NoMoreRoomNeeded
  <1>. QED
    BY <1>7, <1>8, <1>9

LEMMA RoomToPrepare ==
  ASSUME RoomInv, NEW s \in Streams, Prepare(s)
  PROVE  RoomInv'
  <1>1. ReceiverStep(s) /\ TypeInv
    BY DEF RoomInv, ReceiverStep, ReceiveThread
  <1>2. UNCHANGED <<setup, wire, cur, extractor, lost>>
    BY DEF Prepare, ReceiverGoes, ReceiverFails
  <1>3. PICK i : i = cur[s]
    OBVIOUS
  <1>4. i \in Paths /\ i \in Items /\ Length[i] \in Nat
    BY <1>3, Constants DEF Prepare, Step, RoomInv, StreamRoom, RoomFor, Items
  <1>5. <<>> \in Seq(AllUnits) /\ Len(<<>>) = 0
    OBVIOUS
  <1>6. Dir \in Nodes /\ Node("file", <<>>, "rw") \in Nodes
        /\ Dir.data = <<>> /\ Node("file", <<>>, "rw").data = <<>>
    BY <1>5 DEF Dir, Node, Nodes
  <1>7. \A dirs : \A p \in Paths : Made(dirs)[p] = Dir \/ Made(dirs)[p] = tree[p]
    BY DEF Made
  <1>8. /\ tree' \in [Paths -> Nodes]
        /\ \A p \in Files : tree'[p].data = <<>> \/ tree'[p].data = tree[p].data
    <2>1. /\ tree' = [p \in Paths |-> tree'[p]]
          /\ \A p \in Paths : \/ tree'[p] = Dir \/ tree'[p] = tree[p]
                              \/ tree'[p] = Node("file", <<>>, "rw")
      <3>1. CASE \E dirs : tree' = Made(dirs)
        <4>1. PICK dirs : tree' = Made(dirs)
          BY <3>1
        <4>2. Made(dirs) = [p \in Paths |-> Made(dirs)[p]]
          BY DEF Made
        <4>. QED
          BY <1>7, <4>1, <4>2
      <3>2. CASE tree' = [p \in Paths |-> IF p = Place(i) /\ i \in Files
                                            THEN Node("file", <<>>, "rw") ELSE Made(Needed(i))[p]]
        BY <1>7, <3>2
      <3>. QED
        BY <1>3, <3>1, <3>2 DEF Prepare
    <2>2. tree \in [Paths -> Nodes]
      BY <1>1 DEF TypeInv
    <2>3. Files \in SUBSET Paths
      BY Constants
    <2>. QED
      BY <1>6, <2>1, <2>2, <2>3
  <1>9. \A p \in Files : Roomy(p)'
    BY <1>2, <1>8, TreeHasRoom
  <1>10. extractor' \in {"fine", "inside", "failed"} /\ lost' \in BOOLEAN
    BY <1>1, <1>2 DEF TypeInv
  <1>11. PICK pc \in {"data", "text", "header", "failed"} :
           /\ rpc' = [rpc EXCEPT ![s] = pc] /\ buf' = [buf EXCEPT ![s] = <<>>]
           /\ pc = "data" => i \in Files
           /\ pc = "text" => i \in Links
    BY <1>3 DEF Prepare, ReceiverGoes, ReceiverFails
  <1>12. cur' = [cur EXCEPT ![s] = i] /\ pc \in RecvPcs
    BY <1>1, <1>2, <1>3 DEF TypeInv, RecvPcs
  <1>13. RoomFor(pc, i, <<>>)
    BY <1>4, <1>5, <1>11 DEF RoomFor, HeadUnits
  <1>. QED
    BY <1>1, <1>2, <1>4, <1>5, <1>8, <1>9, <1>10, <1>11, <1>12, <1>13, OneHasRoom

\* What another thread has truncated meanwhile is filled up.
LEMMA WrittenFacts ==
  ASSUME NEW q \in Seq(AllUnits), NEW n \in Nat \ {0}, NEW u \in AllUnits
  PROVE  /\ Written(q, n, u) \in Seq(AllUnits)
         /\ Len(Written(q, n, u)) = IF n > Len(q) THEN n ELSE Len(q)
  <1>1. PICK m \in Nat : m = IF n > Len(q) THEN n ELSE Len(q)
    OBVIOUS
  <1>2. Hole \in AllUnits
    BY DEF Hole, Unit, AllUnits, Items, NoTarget
  <1>3. Written(q, n, u) = [k \in 1 .. m |-> IF k = n THEN u ELSE IF k <= Len(q) THEN q[k] ELSE Hole]
    BY <1>1 DEF Written
  <1>4. \A k \in 1 .. m : (IF k = n THEN u ELSE IF k <= Len(q) THEN q[k] ELSE Hole) \in AllUnits
    <2>1. \A k \in 1 .. m : k <= Len(q) => q[k] \in AllUnits
      BY <1>1
    <2>. QED
      BY <1>2, <2>1
  <1>5. Written(q, n, u) \in [1 .. m -> AllUnits]
    BY <1>3, <1>4
  <1>. QED
    BY <1>1, <1>5

\* Path p gets another node.
LEMMA OneNodeHasRoom ==
  ASSUME RoomInv, setup' = setup, NEW p \in Paths, NEW n \in Nodes, tree' = [tree EXCEPT ![p] = n],
         p \in Files => \/ n.data = <<>>
                        \/ \E j \in Files : Place(j) = p /\ Len(n.data) <= Length[j]
  PROVE  tree' \in [Paths -> Nodes] /\ \A i \in Files : Roomy(i)'
  <1>1. tree \in [Paths -> Nodes]
    BY DEF RoomInv, TypeInv
  <1>2. tree' \in [Paths -> Nodes] /\ tree'[p] = n /\ \A i \in Paths : i # p => tree'[i] = tree[i]
    BY <1>1
  <1>3. (\A j \in Files : Place(j)' = Place(j)) /\ Files \in SUBSET Paths
    BY Constants DEF Place, Single
  <1>4. ASSUME NEW i \in Files PROVE Roomy(i)'
    <2>1. CASE i = p
      BY <1>2, <1>3, <2>1 DEF Roomy
    <2>2. CASE i # p
      <3>1. Roomy(i) /\ tree'[i] = tree[i]
        BY <1>2, <1>3, <2>2 DEF RoomInv
      <3>. QED
        BY <1>3, <3>1 DEF Roomy
    <2>. QED
      BY <2>1, <2>2
  <1>. QED
    BY <1>2, <1>4

\* A thread that has a file open.
LEMMA AtFile ==
  ASSUME RoomInv, NEW s \in Streams, rpc[s] = "data"
  PROVE  /\ cur[s] \in Files /\ cur[s] \in Items /\ Length[cur[s]] \in Nat
         /\ Place(cur[s]) \in Files /\ Place(cur[s]) \in Paths
         /\ tree[Place(cur[s])] \in Nodes /\ tree[Place(cur[s])].data \in Seq(AllUnits)
         /\ Roomy(Place(cur[s]))
  <1>1. TypeInv /\ cur[s] \in Files
    BY DEF RoomInv, StreamRoom, RoomFor
  <1>2. cur[s] \in Paths /\ cur[s] \in Items /\ Length[cur[s]] \in Nat
    BY <1>1, Constants DEF Items
  <1>3. Place(cur[s]) \in Paths /\ Place(cur[s]) \in Files
    BY <1>1, <1>2, PlaceFacts
  <1>4. tree[Place(cur[s])] \in Nodes
    BY <1>1, <1>3 DEF TypeInv
  <1>5. tree[Place(cur[s])].data \in Seq(AllUnits)
    BY <1>4 DEF Nodes
  <1>. QED
    BY <1>1, <1>2, <1>3, <1>4, <1>5 DEF RoomInv

LEMMA RoomForData ==
  ASSUME RoomInv, NEW s \in Streams, TakeData(s)
  PROVE  RoomInv'
  <1>1. ReceiverStep(s) /\ TypeInv /\ Receives(s)
    BY DEF RoomInv, ReceiverStep, ReceiveThread, TakeData
  <1>2. UNCHANGED <<setup, cur, extractor, lost>> /\ rpc[s] = "data" /\ Len(buf[s]) < Length[cur[s]]
    BY DEF TakeData, ReceiverGoes, ReceiverFails, Step
  <1>3. extractor' \in {"fine", "inside", "failed"} /\ lost' \in BOOLEAN
    BY <1>1, <1>2 DEF TypeInv
  <1>4. PICK i, p : i = cur[s] /\ p = Place(cur[s])
    OBVIOUS
  <1>5. /\ i \in Files /\ i \in Items /\ Length[i] \in Nat /\ p \in Files /\ p \in Paths
        /\ tree[p] \in Nodes /\ tree[p].data \in Seq(AllUnits) /\ Roomy(p)
    BY <1>2, <1>4, AtFile
  <1>6. CASE UNCHANGED tree /\ ReceiverFails(s)
    <2>1. tree' \in [Paths -> Nodes]
      BY <1>1, <1>6 DEF TypeInv
    <2>2. \A j \in Files : Roomy(j)'
      BY <1>2, <1>6, <2>1, TreeHasRoom
    <2>3. rpc' = [rpc EXCEPT ![s] = "failed"] /\ buf' = [buf EXCEPT ![s] = <<>>]
      BY <1>6 DEF ReceiverFails
    <2>. QED
      BY <1>1, <1>2, <1>3, <2>1, <2>2, <2>3, NoMoreRoomNeeded
  <1>7. CASE ~(UNCHANGED tree /\ ReceiverFails(s))
    <2>1. PICK n, q, u : n = Len(buf[s]) + 1 /\ q = tree[p].data /\ u = Head(wire[s])
      OBVIOUS
    <2>2. /\ u \in AllUnits /\ Arrived(s) \in Seq(AllUnits)
          /\ Len(buf[s]) \in Nat /\ Len(Arrived(s)) = Len(buf[s]) + 1
      BY <1>1, <2>1, OneMore
    <2>3. n \in Nat \ {0} /\ n <= Length[i] /\ q \in Seq(AllUnits) /\ Len(q) \in Nat
      BY <1>2, <1>4, <1>5, <2>1, <2>2
    <2>4. PICK w : w = Written(q, n, u)
      OBVIOUS
    <2>5. w \in Seq(AllUnits) /\ Len(w) = IF n > Len(q) THEN n ELSE Len(q)
      BY <2>2, <2>3, <2>4, WrittenFacts
    <2>6. /\ tree' = [tree EXCEPT ![p].data = Written(tree[p].data, Len(buf[s]) + 1, Head(wire[s]))]
          /\ ReceiverGoes(s, "data", Arrived(s))
      BY <1>4, <1>7 DEF TakeData
    <2>7. PICK node : node = [tree[p] EXCEPT !.data = w]
      OBVIOUS
    <2>8. tree' = [tree EXCEPT ![p] = node]
      BY <2>1, <2>4, <2>6, <2>7
    <2>9. node \in Nodes /\ node.data = w
      BY <1>5, <2>5, <2>7 DEF Nodes
    <2>10. \E j \in Files : Place(j) = p /\ Len(w) <= Length[j]
      <3>1. CASE n > Len(q)
        BY <1>4, <1>5, <2>3, <2>5, <3>1
      <3>2. CASE ~(n > Len(q))
        <4>1. q # <<>>
          <5>1. Len(q) # 0
            BY <2>3, <3>2
          <5>. QED
            BY <5>1
        <4>2. \E j \in Files : Place(j) = p /\ Len(q) <= Length[j]
          BY <1>5, <2>1, <4>1 DEF Roomy
        <4>. QED
          BY <2>5, <3>2, <4>2
      <3>. QED
        BY <3>1, <3>2
    <2>11. tree' \in [Paths -> Nodes] /\ \A j \in Files : Roomy(j)'
      BY <1>2, <1>5, <2>8, <2>9, <2>10, OneNodeHasRoom
    <2>12. /\ rpc' = [rpc EXCEPT ![s] = "data"] /\ buf' = [buf EXCEPT ![s] = Arrived(s)]
           /\ cur' = [cur EXCEPT ![s] = i] /\ "data" \in RecvPcs
      BY <1>1, <1>2, <1>4, <2>6 DEF ReceiverGoes, RecvPcs, TypeInv
    <2>13. RoomFor("data", i, Arrived(s))
      <3>1. i \in Paths
        BY <1>5, Constants
      <3>2. Len(Arrived(s)) <= Length[i]
        BY <2>1, <2>2, <2>3
      <3>. QED
        BY <1>5, <3>1, <3>2 DEF RoomFor
    <2>. QED
      BY <1>1, <1>3, <1>5, <2>2, <2>11, <2>12, <2>13, OneHasRoom
  <1>. QED
    BY <1>6, <1>7

LEMMA RoomWhenClosed ==
  ASSUME RoomInv, NEW s \in Streams, CloseFile(s) \/ CloseFileBadly(s)
  PROVE  RoomInv'
  <1>1. ReceiverStep(s) /\ TypeInv
    BY DEF RoomInv, ReceiverStep, ReceiveThread
  <1>2. /\ UNCHANGED <<setup, wire, cur, extractor>> /\ rpc[s] = "data" /\ lost' \in {lost, TRUE}
        /\ rpc' = [rpc EXCEPT ![s] = "header"] /\ buf' = [buf EXCEPT ![s] = <<>>]
    BY DEF CloseFile, CloseFileBadly, GoesBadly, ReceiverGoes, Step
  <1>3. extractor' \in {"fine", "inside", "failed"} /\ lost' \in BOOLEAN
    BY <1>1, <1>2 DEF TypeInv
  <1>4. PICK i, p : i = cur[s] /\ p = Place(cur[s])
    OBVIOUS
  <1>5. /\ i \in Files /\ p \in Files /\ p \in Paths
        /\ tree[p] \in Nodes /\ tree[p].data \in Seq(AllUnits) /\ Roomy(p)
    BY <1>2, <1>4, AtFile
  <1>6. PICK node \in Nodes :
          /\ tree' = [tree EXCEPT ![p] = node]
          /\ node.data = <<>> \/ \E j \in Files : Place(j) = p /\ Len(node.data) <= Length[j]
    <2>1. CASE CloseFile(s)
      <3>1. tree' = [tree EXCEPT ![p].mode = Mode[i]]
        BY <1>4, <2>1 DEF CloseFile
      <3>2. Mode[i] \in {"rw", "ro"}
        BY <1>5, TreeAssumption
      <3>3. PICK node : node = [tree[p] EXCEPT !.mode = Mode[i]]
        OBVIOUS
      <3>4. node \in Nodes /\ node.data = tree[p].data
        BY <1>5, <3>2, <3>3 DEF Nodes
      <3>5. tree' = [tree EXCEPT ![p] = node]
        BY <3>1, <3>3
      <3>. QED
        BY <1>5, <3>4, <3>5 DEF Roomy
    <2>2. CASE CloseFileBadly(s)
      <3>1. PICK n \in 0 .. Len(tree[p].data) :
              tree' = [tree EXCEPT ![p].data = SubSeq(tree[p].data, 1, n)]
        BY <1>4, <2>2 DEF CloseFileBadly
      <3>2. PICK q, w : q = tree[p].data /\ w = SubSeq(tree[p].data, 1, n)
        OBVIOUS
      <3>3. w \in Seq(AllUnits) /\ Len(w) = n /\ Len(q) \in Nat /\ n <= Len(q) /\ n \in Nat
        BY <1>5, <3>1, <3>2
      <3>4. PICK node : node = [tree[p] EXCEPT !.data = w]
        OBVIOUS
      <3>5. node \in Nodes /\ node.data = w
        BY <1>5, <3>3, <3>4 DEF Nodes
      <3>6. tree' = [tree EXCEPT ![p] = node]
        BY <3>1, <3>2, <3>4
      <3>7. w = <<>> \/ \E j \in Files : Place(j) = p /\ Len(w) <= Length[j]
        <4>1. CASE q = <<>>
          <5>1. Len(w) = 0
            BY <3>3, <4>1
          <5>. QED
            BY <3>3, <5>1
        <4>2. CASE q # <<>>
          <5>1. PICK j \in Files : Place(j) = p /\ Len(q) <= Length[j]
            BY <1>5, <3>2, <4>2 DEF Roomy
          <5>2. Length[j] \in Nat
            BY Constants
          <5>3. Len(w) <= Length[j]
            BY <3>3, <5>1, <5>2
          <5>. QED
            BY <5>1, <5>3
        <4>. QED
          BY <4>1, <4>2
      <3>. QED
        BY <3>5, <3>6, <3>7
    <2>. QED
      BY <2>1, <2>2
  <1>7. tree' \in [Paths -> Nodes] /\ \A j \in Files : Roomy(j)'
    BY <1>2, <1>5, <1>6, OneNodeHasRoom
  <1>. QED
    BY <1>1, <1>2, <1>3, <1>7, NoMoreRoomNeeded

LEMMA RoomForText ==
  ASSUME RoomInv, NEW s \in Streams, TakeText(s)
  PROVE  RoomInv'
  <1>1. ReceiverStep(s) /\ TypeInv /\ Receives(s)
    BY DEF RoomInv, ReceiverStep, ReceiveThread, TakeText
  <1>2. /\ UNCHANGED <<setup, cur, tree, extractor, lost>>
        /\ rpc[s] = "text" /\ Len(buf[s]) < Length[cur[s]]
        /\ rpc' = [rpc EXCEPT ![s] = "text"] /\ buf' = [buf EXCEPT ![s] = Arrived(s)]
    BY DEF TakeText, ReceiverGoes, Step
  <1>3. /\ extractor' \in {"fine", "inside", "failed"} /\ lost' \in BOOLEAN
        /\ tree' \in [Paths -> Nodes]
    BY <1>1, <1>2 DEF TypeInv
  <1>4. \A i \in Files : Roomy(i)'
    BY <1>2, <1>3, TreeHasRoom
  <1>5. /\ Arrived(s) \in Seq(AllUnits)
        /\ Len(buf[s]) \in Nat /\ Len(Arrived(s)) = Len(buf[s]) + 1
    BY <1>1, OneMore
  <1>6. cur[s] \in Links /\ cur[s] \in Paths
    BY <1>2 DEF RoomInv, StreamRoom, RoomFor
  <1>7. Length[cur[s]] \in Nat /\ cur[s] \in Items
    BY <1>6, Constants DEF Items
  <1>8. Len(Arrived(s)) <= Length[cur[s]]
    BY <1>2, <1>5, <1>7
  <1>9. RoomFor("text", cur[s], Arrived(s)) /\ "text" \in RecvPcs
    BY <1>6, <1>8 DEF RoomFor, RecvPcs
  <1>10. cur' = [cur EXCEPT ![s] = cur[s]]
    BY <1>1, <1>2 DEF TypeInv
  <1>. QED
    BY <1>1, <1>2, <1>3, <1>4, <1>5, <1>7, <1>9, <1>10, OneHasRoom

LEMMA RoomForLink ==
  ASSUME RoomInv, NEW s \in Streams, MakeLink(s) \/ MakeNoteBadly(s)
  PROVE  RoomInv'
  <1>1. ReceiverStep(s) /\ TypeInv
    BY DEF RoomInv, ReceiverStep, ReceiveThread
  <1>2. /\ UNCHANGED <<setup, wire, cur, extractor>> /\ rpc[s] = "text" /\ lost' \in {lost, TRUE}
        /\ buf' = [buf EXCEPT ![s] = <<>>]
        /\ \E pc \in {"header", "failed"} : rpc' = [rpc EXCEPT ![s] = pc]
    BY DEF MakeLink, MakeNoteBadly, GoesBadly, ReceiverGoes, Step
  <1>3. extractor' \in {"fine", "inside", "failed"} /\ lost' \in BOOLEAN
    BY <1>1, <1>2 DEF TypeInv
  <1>4. PICK p : p = Place(cur[s])
    OBVIOUS
  <1>5. p \in Paths /\ p \notin Files
    <2>1. cur[s] \in Links /\ cur[s] \in Paths
      BY <1>2 DEF RoomInv, StreamRoom, RoomFor
    <2>2. p \in Links
      BY <1>1, <1>4, <2>1, PlaceFacts
    <2>. QED
      BY <2>2, Constants
  <1>6. tree' = tree \/ \E node \in Nodes : tree' = [tree EXCEPT ![p] = node]
    <2>1. PICK b \in Seq(AllUnits) : b = buf[s]
      BY <1>1 DEF TypeInv
    <2>2. \A q \in Seq(AllUnits) :
            Absent \in Nodes /\ Node("link", q, "rw") \in Nodes /\ Node("note", q, "rw") \in Nodes
      <3>1. <<>> \in Seq(AllUnits)
        OBVIOUS
      <3>. QED
        BY <3>1 DEF Absent, Node, Nodes
    <2>3. \A n \in 0 .. Len(b) : SubSeq(b, 1, n) \in Seq(AllUnits)
      OBVIOUS
    <2>4. CASE MakeLink(s)
      BY <1>4, <2>1, <2>2, <2>4 DEF MakeLink
    <2>5. CASE MakeNoteBadly(s)
      BY <1>4, <2>1, <2>2, <2>3, <2>5 DEF MakeNoteBadly
    <2>. QED
      BY <2>4, <2>5
  <1>7. tree' \in [Paths -> Nodes] /\ \A j \in Files : Roomy(j)'
    <2>1. CASE tree' = tree
      <3>1. tree' \in [Paths -> Nodes]
        BY <1>1, <2>1 DEF TypeInv
      <3>. QED
        BY <1>2, <2>1, <3>1, TreeHasRoom
    <2>2. CASE \E node \in Nodes : tree' = [tree EXCEPT ![p] = node]
      BY <1>2, <1>5, <2>2, OneNodeHasRoom
    <2>. QED
      BY <1>6, <2>1, <2>2
  <1>. QED
    BY <1>1, <1>2, <1>3, <1>7, NoMoreRoomNeeded

LEMMA RoomToExtract ==
  ASSUME RoomInv, NEW s \in Streams, Extract(s)
  PROVE  RoomInv'
  <1>1. ReceiverStep(s) /\ TypeInv /\ LinkInv /\ Receives(s)
    BY DEF RoomInv, ReceiverStep, ReceiveThread, Extract
  <1>2. /\ UNCHANGED <<setup, cur, lost>> /\ rpc[s] = "extract"
        /\ rpc' = [rpc EXCEPT ![s] = "extract"] /\ buf' = [buf EXCEPT ![s] = <<>>]
    BY DEF Extract, ReceiverGoes, Step
  <1>3. Single /\ lost' \in BOOLEAN /\ \A j \in Paths : Place(j) = j
    BY <1>1, <1>2 DEF RoomInv, StreamRoom, RoomFor, TypeInv, Place
  <1>4. /\ extractor' \in {"fine", "inside", "failed"}
        /\ tree' \in [Paths -> Nodes] /\ \A j \in Files : Roomy(j)'
    <2>1. CASE tree' = tree /\ extractor' \in {"fine", "inside", "failed"}
      <3>1. tree' \in [Paths -> Nodes]
        BY <1>1, <2>1 DEF TypeInv
      <3>. QED
        BY <1>2, <2>1, <3>1, TreeHasRoom
    <2>2. CASE ~(tree' = tree /\ extractor' \in {"fine", "inside", "failed"})
      <3>1. PICK i : ExtractMember(i)
        BY <1>1, <2>2 DEF Extract, TypeInv
      <3>2. i \in Paths
        <4>1. CASE i \notin Paths
          <5>1. tree' = tree
            BY <1>1, <3>1, <4>1 DEF ExtractMember, TypeInv
          <5>2. extractor' \in {"fine", "failed"}
            BY <3>1 DEF ExtractMember
          <5>. QED
            BY <2>2, <5>1, <5>2
        <4>. QED
          BY <4>1
      <3>3. /\ extractor' \in {"fine", "inside", "failed"}
            /\ \/ tree' = tree
               \/ /\ tree' \in [Paths -> Nodes] /\ \A p \in Paths \ {i} : tree'[p] = tree[p]
                  /\ i \in Files => Len(tree'[i].data) = Length[i]
        BY <1>1, <3>1, <3>2, ExtractedMember
      <3>4. tree' \in [Paths -> Nodes]
        BY <1>1, <3>3 DEF TypeInv
      <3>5. Files \in SUBSET Paths /\ \A j \in Files : Place(j)' = j /\ Place(j) = j /\ Length[j] \in Nat
        BY <1>2, <1>3, Constants DEF Place, Single
      <3>6. ASSUME NEW j \in Files PROVE Roomy(j)'
        <4>1. CASE tree'[j] = tree[j]
          BY <3>5, <4>1 DEF RoomInv, Roomy
        <4>2. CASE tree'[j] # tree[j]
          <5>1. j = i /\ Len(tree'[j].data) = Length[j]
            BY <3>3, <3>5, <4>2
          <5>2. Len(tree'[j].data) <= Length[j]
            BY <3>5, <5>1
          <5>. QED
            BY <3>5, <5>2 DEF Roomy
        <4>. QED
          BY <4>1, <4>2
      <3>. QED
        BY <3>3, <3>4, <3>6
    <2>. QED
      BY <2>1, <2>2
  <1>5. /\ cur[s] \in Items /\ cur' = [cur EXCEPT ![s] = cur[s]]
        /\ <<>> \in Seq(AllUnits) /\ "extract" \in RecvPcs
    BY <1>1, <1>2 DEF TypeInv, RecvPcs
  <1>6. RoomFor("extract", cur[s], <<>>)
    BY <1>3 DEF RoomFor
  <1>. QED
    BY <1>1, <1>2, <1>3, <1>4, <1>5, <1>6, OneHasRoom

LEMMA RoomPreserved == RoomInv /\ [Next]_vars => RoomInv'
  <1>. SUFFICES ASSUME RoomInv, [Next]_vars PROVE RoomInv'
    OBVIOUS
  <1>1. CASE StartSend \/ JoinSend \/ KillSender \/ JoinReceive \/ UNCHANGED vars
    BY <1>1, RoomStays
  <1>2. CASE \E s \in Streams : SenderStep(s)
    BY <1>2, RoomToSend
  <1>3. CASE \E i \in Links : ReplaceLink(i)
    BY <1>3, RoomWhenReplaced
  <1>4. CASE \E s \in Streams : ReceiverStep(s)
    <2>1. PICK s \in Streams : ReceiverStep(s)
      BY <1>4
    <2>2. CASE \/ Listen(s) \/ Accept(s) \/ Eof(s) \/ ReceiveError(s) \/ CloseExtractor(s)
               \/ ExtractorGone(s)
      BY <2>2, RoomAtEnds
    <2>3. CASE TakeHeader(s)
      BY <2>3, RoomForHeader
    <2>4. CASE Prepare(s)
      BY <2>4, RoomToPrepare
    <2>5. CASE TakeData(s)
      BY <2>5, RoomForData
    <2>6. CASE CloseFile(s) \/ CloseFileBadly(s)
      BY <2>6, RoomWhenClosed
    <2>7. CASE TakeText(s)
      BY <2>7, RoomForText
    <2>8. CASE MakeLink(s) \/ MakeNoteBadly(s)
      BY <2>8, RoomForLink
    <2>9. CASE Extract(s)
      BY <2>9, RoomToExtract
    <2>. QED
      BY <2>1, <2>2, <2>3, <2>4, <2>5, <2>6, <2>7, <2>8, <2>9 DEF ReceiverStep, ReceiveThread
  <1>. QED
    BY <1>1, <1>2, <1>3, <1>4 DEF Next, SenderStep, ReceiverStep

LEMMA TypesHold == RoomInv => TypeOK
  <1>. SUFFICES ASSUME RoomInv PROVE TypeOK
    OBVIOUS
  <1>1. TypeInv /\ LinkInv /\ \A s \in Streams : StreamRoom(s)
    BY DEF RoomInv
  <1>2. target \in [Streams -> Targets \cup {NoTarget}]
    <2>. SUFFICES ASSUME NEW s \in Streams PROVE target[s] \in Targets \cup {NoTarget}
      BY <1>1 DEF TypeInv
    <2>. SUFFICES ASSUME target[s] # NoTarget PROVE target[s] \in Targets
      OBVIOUS
    <2>1. PICK i : i = Item(s)
      OBVIOUS
    <2>2. i \in Links /\ target[s] \in {Length[i], links[i]}
      BY <1>1, <2>1 DEF LinkInv
    <2>3. links[i] \in {Length[i]} \cup NewLengths
      BY <1>1, <2>2 DEF LinkInv
    <2>. QED
      BY <2>2, <2>3 DEF Targets
  <1>3. ASSUME NEW s \in Streams
        PROVE  /\ done[s] \in 0 .. Len(parts[s])
               /\ Len(wire[s]) <= Window
               /\ Len(buf[s]) <= IF rpc[s] \in {"text", "data"} THEN Length[cur[s]] ELSE HeadUnits
    <2>1. /\ done[s] \in Nat /\ parts[s] \in Seq(Items) /\ Len(parts[s]) \in Nat
          /\ done[s] <= Len(parts[s]) /\ Len(wire[s]) <= Window
          /\ buf[s] \in Seq(AllUnits) /\ Len(buf[s]) \in Nat
          /\ RoomFor(rpc[s], cur[s], buf[s])
      BY <1>1 DEF TypeInv, StreamRoom
    <2>2. CASE rpc[s] \in {"text", "data"}
      BY <2>1, <2>2 DEF RoomFor
    <2>3. CASE rpc[s] = "header"
      <3>1. Len(buf[s]) < HeadUnits
        BY <2>1, <2>3 DEF RoomFor
      <3>. QED
        BY <2>1, <2>3, <3>1 DEF HeadUnits
    <2>4. CASE rpc[s] \notin {"text", "data", "header"}
      <3>1. buf[s] = <<>> /\ Len(<<>>) = 0
        BY <2>1, <2>4 DEF RoomFor
      <3>. QED
        BY <2>1, <2>4, <3>1 DEF HeadUnits
    <2>. QED
      BY <2>2, <2>3, <2>4
  <1>4. \A i \in Files : \/ tree[i].data = <<>>
                         \/ \E j \in Files : Place(j) = i /\ Len(tree[i].data) <= Length[j]
    BY DEF RoomInv, Roomy
  <1>. QED
    BY <1>1, <1>2, <1>3, <1>4 DEF TypeOK, TypeInv

\* The variables of run_send, run_receive and their threads have the types of
\* the program's; a thread is never past the items of its stream, and neither
\* the header, nor the text of a link, nor a file takes more than was made
\* room for: also when older links lead several threads to one file.
THEOREM TypeCorrect == Spec => []TypeOK
  <1>1. Init => RoomInv
    BY RoomAtFirst
  <1>2. RoomInv /\ [Next]_vars => RoomInv'
    BY RoomPreserved
  <1>. QED
    BY <1>1, <1>2, TypesHold, PTL DEF Spec

-----------------------------------------------------------------------------

\* A receiver that reports success has cut no file.
LEMMA NoneCut == (Straight => IInv) => NoFileCut
  <1>. SUFFICES ASSUME IInv, Straight, rmain = "ok", ~lost, NEW i \in Files, tree[i].is = "file"
                PROVE  There(i)
    BY WholeIsThere, Constants DEF NoFileCut
  <1>1. TypeInv /\ MainInv /\ FileInv /\ \A s \in Streams : SendAt(s)
    BY InvParts
  <1>2. \A s \in Streams : rpc[s] \in {"start", "done"}
    <2>. SUFFICES ASSUME NEW s \in Streams, rpc[s] # "start" PROVE rpc[s] = "done"
      OBVIOUS
    <2>1. s < setup.recv /\ setup.recv \in Nat /\ s \in Nat
      BY <1>1, SetupFacts DEF SendAt, TypeInv
    <2>2. s \in 0 .. setup.recv - 1
      BY <2>1
    <2>. QED
      BY <1>1, <2>2 DEF MainInv
  <1>3. \A s \in Streams : rpc[s] # "failed" /\ rpc[s] # "data"
    BY <1>2
  <1>. QED
    BY <1>1, <1>3 DEF FileInv, FileAt

\* When run_receive reports success, every regular file that a thread of
\* receive_file_part has begun is complete and has its mode, however the
\* streams were cut or interleaved, if no older link leads one to another.
THEOREM NoCutFile == Spec => []NoFileCut
  BY Invariance, NoneCut, PTL

\* A stream that was read to its end and closed by its sender.
LEMMA ReadToTheEnd ==
  ASSUME IInv, smain = "ok", rmain = "ok", NEW s \in 0 .. setup.send - 1
  PROVE  /\ s \in Streams /\ s < setup.recv /\ rpc[s] = "done" /\ spc[s] = "closed"
         /\ done[s] = Len(parts[s]) /\ sent[s] = 0 /\ Len(parts[s]) \in Nat
         /\ \E log \in Seq(Entries), c \in Nat :
              /\ StreamInv(s, log, c) /\ c = Len(log) /\ buf[s] = <<>>
              /\ Len(parts[s]) > 0 =>
                   c \in 1 .. Len(log) /\ log[c].k = Len(parts[s]) /\ Ends(s, log[c])
  <1>1. TypeInv /\ MainInv /\ \A t \in Streams : SendAt(t)
    BY InvParts
  <1>2. s \in Streams /\ spc[s] = "closed" /\ setup.recv \in Nat /\ s \in Nat
    BY <1>1, SetupFacts DEF MainInv, TypeInv
  <1>3. s < setup.recv /\ done[s] = Len(parts[s]) /\ (sent[s] > 0 => done[s] < Len(parts[s]))
    BY <1>1, <1>2 DEF SendAt
  <1>4. Len(parts[s]) \in Nat /\ sent[s] \in Nat
    BY <1>1, <1>2 DEF TypeInv
  <1>5. sent[s] = 0
    BY <1>3, <1>4
  <1>6. rpc[s] = "done"
    <2>1. s \in 0 .. setup.recv - 1
      BY <1>2, <1>3
    <2>. QED
      BY <1>1, <2>1 DEF MainInv
  <1>7. PICK log \in Seq(Entries), c \in Nat : StreamInv(s, log, c)
    BY <1>2, InvParts
  <1>8. Reading(s, log, c) /\ Recorded(s, log)
    BY <1>7 DEF StreamInv, ReadInv
  <1>9. buf[s] = <<>> /\ wire[s] = <<>>
    BY <1>6, <1>8 DEF Reading, AtEof
  <1>10. c = Len(log) /\ Len(log) \in Nat
    BY <1>1, <1>2, <1>7, <1>9, LogFacts
  <1>11. Len(parts[s]) > 0 => c \in 1 .. Len(log) /\ log[c].k = Len(parts[s]) /\ Ends(s, log[c])
    <2>. SUFFICES ASSUME Len(parts[s]) > 0
                  PROVE  c \in 1 .. Len(log) /\ log[c].k = Len(parts[s]) /\ Ends(s, log[c])
      OBVIOUS
    <2>1. log # <<>>
      BY <1>3, <1>4, <1>8 DEF Recorded
    <2>2. log[Len(log)].k = Len(parts[s]) /\ Ends(s, log[Len(log)])
      BY <1>3, <1>5, <1>8, <2>1 DEF Recorded, Newest
    <2>3. Len(log) \in 1 .. Len(log)
      BY <1>7, <1>10, <2>1
    <2>. QED
      BY <1>10, <2>2, <2>3
  <1>. QED
    BY <1>2, <1>3, <1>4, <1>5, <1>6, <1>7, <1>9, <1>10, <1>11

\* The members of the archive are all there.
LEMMA WholeArchive ==
  ASSUME IInv, smain = "ok", rmain = "ok", Single, setup.send = 1,
         NEW i \in Paths, Kind[i] # "Socket"
  PROVE  There(i)
  <1>1. TypeInv /\ PartsInv /\ \A s \in Streams : SendAt(s)
    BY InvParts
  <1>2. 0 \in 0 .. setup.send - 1
    OBVIOUS
  <1>3. /\ 0 \in Streams /\ rpc[0] = "done" /\ spc[0] = "closed" /\ done[0] = Len(parts[0])
        /\ \E log \in Seq(Entries), c \in Nat :
             /\ StreamInv(0, log, c) /\ c = Len(log)
             /\ Len(parts[0]) > 0 =>
                  c \in 1 .. Len(log) /\ log[c].k = Len(parts[0]) /\ Ends(0, log[c])
    BY <1>2, ReadToTheEnd
  <1>4. Len(parts[0]) = 1 /\ parts[0][1] = Archive
    BY <1>1, <1>3 DEF PartsInv
  <1>5. setup.hidden = {} /\ extractor = "fine"
    BY <1>1, <1>3, <1>4 DEF SendAt
  <1>6. PICK log \in Seq(Entries), c \in Nat :
          StreamInv(0, log, c) /\ c \in 1 .. Len(log) /\ log[c].k = 1 /\ Ends(0, log[c])
    BY <1>3, <1>4
  <1>7. Len(Members) \in Nat /\ \E n \in 1 .. Len(Members) : Members[n] = i
    <2>1. i \in Archived
      BY <1>5 DEF Archived
    <2>. QED
      BY <1>1, <2>1, MembersFacts DEF TypeInv
  <1>8. PICK n \in 1 .. Len(Members) : Members[n] = i
    BY <1>7
  <1>9. log[c].at = 2 + 2 * Len(Members)
    <2>1. Carried(0, log[c]) = Archive
      BY <1>4, <1>6 DEF Carried
    <2>. QED
      BY <1>6, <2>1 DEF Ends, UnitsOf, HeadUnits
  <1>10. Had(log, c) = Len(Members)
    <2>1. c # 0
      BY <1>6
    <2>2. (2 + 2 * Len(Members) - 2) \div 2 = Len(Members)
      BY <1>7
    <2>. QED
      BY <1>9, <2>1, <2>2 DEF Had, HeadUnits
  <1>11. Extracted(log, c)
    BY <1>6 DEF StreamInv, ReadInv
  <1>12. n <= Had(log, c)
    BY <1>7, <1>10
  <1>. QED
    BY <1>5, <1>8, <1>11, <1>12 DEF Extracted

\* The items of the streams are all there.
LEMMA WholeStreams ==
  ASSUME IInv, smain = "ok", rmain = "ok", ~Single, ~lost, ~LinkLostAnItem, setup.send > 1,
         NEW i \in collect_directory_items
  PROVE  There(i)
  <1>1. TypeInv /\ PartsInv
    BY InvParts
  <1>2. PICK s \in Streams : \E k \in 1 .. Len(parts[s]) : parts[s][k] = i
    BY <1>1 DEF PartsInv
  <1>3. PICK k \in 1 .. Len(parts[s]) : parts[s][k] = i
    BY <1>2
  <1>4. Len(parts[s]) \in Nat /\ Len(parts[s]) > 0 /\ parts[s] # <<>>
    BY <1>1, <1>3 DEF TypeInv
  <1>5. s \in 0 .. setup.send - 1
    <2>1. s < setup.send /\ s \in Nat /\ setup.send \in Nat
      BY <1>1, <1>4, SetupFacts DEF PartsInv, TypeInv
    <2>. QED
      BY <2>1
  <1>6. rpc[s] = "done"
    BY <1>5, ReadToTheEnd
  <1>7. PICK log \in Seq(Entries), c \in Nat :
          /\ StreamInv(s, log, c) /\ buf[s] = <<>> /\ c \in 1 .. Len(log)
          /\ log[c].k = Len(parts[s]) /\ Ends(s, log[c])
    BY <1>4, <1>5, ReadToTheEnd
  <1>8. Progress(s, log, c) /\ c > 0
    BY <1>7 DEF StreamInv, ReadInv
  <1>9. Got(s, Len(parts[s]))
    BY <1>6, <1>7, <1>8 DEF Progress
  <1>. QED
    BY <1>3, <1>9 DEF Got

LEMMA AllArrive == (Straight => IInv) => WholeTree
  <1>. SUFFICES ASSUME IInv, Straight, smain = "ok", rmain = "ok", ~lost, ~LinkLostAnItem,
                       NEW i \in Paths, Promised(i)
                PROVE  There(i)
    BY WholeIsThere DEF WholeTree, Recreated
  <1>1. TypeInv /\ PartsInv /\ setup.send \in Nat \ {0} /\ setup.recv \in Nat \ {0}
    BY InvParts, SetupFacts DEF TypeInv
  <1>2. CASE Single /\ setup.send = 1
    BY <1>2, WholeArchive DEF Promised
  <1>3. ~(Single /\ setup.send > 1)
    <2>. SUFFICES ASSUME Single, setup.send > 1 PROVE FALSE
      OBVIOUS
    <2>1. 1 \in 0 .. setup.send - 1
      BY <1>1
    <2>2. 1 < setup.recv
      BY <2>1, ReadToTheEnd
    <2>. QED
      BY <1>1, <2>2 DEF Single
  <1>4. CASE ~Single /\ setup.send > 1
    <2>1. i \in collect_directory_items
      BY <1>4 DEF Promised, collect_directory_items
    <2>. QED
      BY <1>4, <2>1, WholeStreams
  \* The archive has no place in a parallel receiver.
  <1>5. ~(~Single /\ setup.send = 1)
    <2>. SUFFICES ASSUME ~Single, setup.send = 1 PROVE FALSE
      OBVIOUS
    <2>1. 0 \in 0 .. setup.send - 1
      OBVIOUS
    <2>2. 0 \in Streams /\ rpc[0] = "done"
      BY <2>1, ReadToTheEnd
    <2>3. Len(parts[0]) = 1 /\ parts[0][1] = Archive
      BY <1>1, <2>2 DEF PartsInv
    <2>4. PICK log \in Seq(Entries), c \in Nat :
            /\ StreamInv(0, log, c) /\ buf[0] = <<>> /\ c \in 1 .. Len(log)
            /\ log[c].k = Len(parts[0]) /\ Ends(0, log[c])
      <3>1. Len(parts[0]) > 0
        BY <2>3
      <3>2. \E log \in Seq(Entries), c \in Nat :
              /\ StreamInv(0, log, c) /\ c = Len(log) /\ buf[0] = <<>>
              /\ Len(parts[0]) > 0 =>
                   c \in 1 .. Len(log) /\ log[c].k = Len(parts[0]) /\ Ends(0, log[c])
        BY <2>1, ReadToTheEnd
      <3>. QED
        BY <3>1, <3>2
    <2>5. Progress(0, log, c) /\ c > 0
      BY <2>4 DEF StreamInv, ReadInv
    <2>6. Got(0, 1)
      BY <2>2, <2>3, <2>4, <2>5 DEF Progress
    <2>7. Archive \in Paths
      BY <2>3, <2>6 DEF Got
    <2>. QED
      BY <2>7, Constants
  <1>. QED
    BY <1>1, <1>2, <1>3, <1>4, <1>5

\* When run_send and run_receive both report success, whatever --parallel
\* each was given, every path that the sender's mode undertakes to send is at
\* the receiver: for any tree, any files and directories in the way, any faults
\* and any links that were replaced, but for a link shortened by the length of
\* another item and for older links that lead one path of the tree to another.
THEOREM WholeTreeArrives == Spec => []WholeTree
  BY Invariance, AllArrive, PTL

LEMMA ArchiveInOrder == (Straight => IInv) => ArchivePrefix
  <1>. SUFFICES ASSUME IInv, Single, rmain = "ok", ~lost,
                       NEW i \in Archived, NEW j \in Archived,
                       i < j, There(j), Kind[j] # "DirectoryEntry"
                PROVE  There(i)
    <2>1. Archived \in SUBSET Paths
      BY DEF Archived
    <2>. QED
      BY <2>1, WholeIsThere, StraightStays DEF ArchivePrefix
  <1>0. i \in Paths /\ j \in Paths
    BY DEF Archived
  <1>1. TypeInv /\ MainInv /\ \A s \in Streams : SendAt(s)
    BY InvParts
  <1>2. setup.send \in Nat \ {0} /\ setup.recv = 1 /\ 0 \in Streams /\ i \in Nat /\ j \in Nat
    <2>1. i \in Nat /\ j \in Nat
      BY <1>0, Constants
    <2>2. setup.send \in Nat \ {0} /\ 0 \in Streams
      BY <1>1, SetupFacts DEF TypeInv
    <2>3. setup.recv = 1
      BY DEF Single
    <2>. QED
      BY <2>1, <2>2, <2>3
  <1>3. ~Untouched(j)
    BY <1>0, UntouchedIsNotWhole
  <1>4. setup.send = 1
    BY <1>0, <1>1, <1>2, <1>3 DEF MainInv
  <1>5. rpc[0] = "done" /\ extractor = "fine"
    <2>1. 0 \in 0 .. setup.recv - 1
      BY <1>2
    <2>2. rpc[0] = "done"
      BY <1>1, <2>1 DEF MainInv
    <2>. QED
      BY <1>1, <1>2, <2>2 DEF SendAt
  <1>6. PICK log \in Seq(Entries), c \in Nat : StreamInv(0, log, c)
    BY <1>2, InvParts
  <1>7. \A n \in 1 .. Len(Members) : IF n <= Had(log, c) THEN There(Members[n]) ELSE Untouched(Members[n])
    BY <1>4, <1>5, <1>6 DEF StreamInv, ReadInv, Extracted
  <1>8. PICK m \in 1 .. Len(Members), n \in 1 .. Len(Members) : Members[m] = i /\ Members[n] = j
    BY <1>1, MembersFacts DEF TypeInv
  <1>9. m < n
    <2>1. Len(Members) \in Nat /\ \A q, r \in 1 .. Len(Members) : q < r => Members[q] < Members[r]
      BY <1>1, MembersFacts DEF TypeInv
    <2>2. ~(n < m)
      BY <1>2, <1>8, <2>1
    <2>3. n # m
      BY <1>2, <1>8
    <2>. QED
      BY <2>1, <2>2, <2>3
  <1>10. n <= Had(log, c)
    BY <1>3, <1>7, <1>8
  <1>11. c # 0 /\ Had(log, c) \in Int
    <2>1. c # 0
      BY <1>10 DEF Had
    <2>2. log[c].at \in Nat
      BY <1>1, <1>2, <1>6, <2>1, LogFacts DEF Entries
    <2>3. Had(log, c) = (log[c].at - 2) \div 2
      BY <2>1 DEF Had, HeadUnits
    <2>. QED
      BY <2>1, <2>2, <2>3
  <1>12. m <= Had(log, c)
    BY <1>9, <1>10, <1>11
  <1>. QED
    BY <1>7, <1>8, <1>12

\* A single-stream run_receive that reports success has the paths that the
\* archive of run_send begins with: what tar could not send or the connection
\* lost is missing at the end of the archive and nowhere else.
THEOREM ArchivePrefixArrives == Spec => []ArchivePrefix
  BY Invariance, ArchiveInOrder, PTL

-----------------------------------------------------------------------------
\* A complete file and the steps that change the tree.
LEMMA FileStays ==
  ASSUME IInv, Straight, NEW i \in Files, There(i), ~lost', [Next]_vars
  PROVE  There(i)'
  <1>1. TypeInv
    BY InvParts
  <1>2. i \in Paths /\ i \notin Links /\ Kind[i] # "DirectoryEntry" /\ Length[i] \in Nat
    BY Constants DEF Files
  <1>3. tree[i] = Copy(i, NoTarget) /\ ~Untouched(i)
    BY <1>2, UntouchedIsNotWhole DEF There
  <1>4. tree[i] = Node("file", Payload(i, NoTarget, Length[i]), Mode[i])
    <2>1. NoTarget \in Nat
      BY DEF NoTarget
    <2>. QED
      BY <1>2, <1>3, <2>1, CopyFacts
  <1>5. tree'[i] = tree[i] => There(i)'
    BY <1>2, <1>3 DEF There
  <1>6. CASE UNCHANGED tree
    BY <1>5, <1>6
  <1>7. ASSUME NEW s \in Streams, Prepare(s)
        PROVE  There(i)'
    <2>1. PICK j : j = cur[s]
      OBVIOUS
    <2>2. rpc[s] = "make"
      BY <1>7 DEF Prepare, Step
    <2>3. CASE i = j
      <3>1. PICK log \in Seq(Entries), c \in Nat : StreamInv(s, log, c)
        BY InvParts
      <3>2. PICK k \in 1 .. log[c].k : parts[s][k] = i /\ k = log[c].k
        BY <2>1, <2>2, <2>3, <3>1, WorkPlace
      <3>3. c \in 1 .. Len(log) /\ log[c].k \in 1 .. Len(parts[s]) /\ ~Single
        BY <2>2, <3>1, WorkPlace, AtWork
      <3>4. ClearFrom(s, log[c].k - 1)
        BY <2>2, <3>1, <3>3 DEF StreamInv, ReadInv, Begun
      <3>5. k \in 1 .. Len(parts[s]) /\ k > log[c].k - 1
        BY <3>2, <3>3
      <3>6. Untouched(i)
        BY <1>2, <3>2, <3>4, <3>5 DEF ClearFrom
      <3>. QED
        BY <1>3, <3>6
    <2>4. CASE i # j
      <3>1. CASE PrepareFails(s)
        BY <1>2, <3>1, GentleKeeps DEF PrepareFails
      <3>2. CASE ~PrepareFails(s)
        <4>0. j \in Paths
          BY <2>1, <2>2, AtWork
        <4>1. /\ CanMake(Needed(j))
              /\ tree' = [p \in Paths |-> IF p = j /\ j \in Files
                                            THEN Node("file", <<>>, "rw") ELSE Made(Needed(j))[p]]
          <5>1. Place(j) = j
            BY <4>0 DEF Straight
          <5>. QED
            BY <1>1, <1>7, <2>1, <3>2, <5>1, PrepareFailsGently DEF CanPrepare
        <4>2. i \notin Needed(j)
          <5>1. i \in Needed(j) => tree[i] \in {Absent, Dir}
            BY <1>2, <4>1, CanBeMade
          <5>. QED
            BY <1>4, <5>1 DEF Absent, Dir, Node
        <4>3. tree'[i] = Made(Needed(j))[i]
          BY <1>2, <2>4, <4>1
        <4>4. tree'[i] = tree[i]
          BY <1>2, <4>2, <4>3 DEF Made, Straight
        <4>. QED
          BY <1>5, <4>4
      <3>. QED
        BY <3>1, <3>2
    <2>. QED
      BY <2>3, <2>4
  <1>8. ASSUME NEW s \in Streams, TakeData(s)
        PROVE  There(i)'
    <2>0. Place(cur[s]) = cur[s]
      BY <1>8, DataFacts DEF TakeData, Step
    <2>1. CASE i = cur[s]
      <3>1. Len(tree[i].data) < Length[i]
        BY <1>8, <2>1, DataFacts DEF TakeData, Step
      <3>2. Len(Payload(i, NoTarget, Length[i])) = Length[i]
        <4>1. i \in Items /\ NoTarget \in Nat
          BY <1>2 DEF Items, NoTarget
        <4>. QED
          BY <1>2, <4>1, PayloadFacts
      <3>3. Len(tree[i].data) = Length[i]
        BY <1>4, <3>2 DEF Node
      <3>. QED
        BY <1>2, <3>1, <3>3
    <2>2. CASE i # cur[s]
      <3>1. tree'[i] = tree[i]
        BY <1>1, <1>2, <1>8, <2>0, <2>2 DEF TakeData, TypeInv
      <3>. QED
        BY <1>5, <3>1
    <2>. QED
      BY <2>1, <2>2
  <1>9. ASSUME NEW s \in Streams, CloseFile(s)
        PROVE  There(i)'
    <2>0. Place(cur[s]) = cur[s]
      BY <1>9, DataFacts DEF CloseFile, Step
    <2>1. CASE i = cur[s]
      <3>1. tree'[i] = [tree[i] EXCEPT !.mode = Mode[i]]
        BY <1>1, <1>2, <1>9, <2>0, <2>1 DEF CloseFile, TypeInv
      <3>2. tree'[i] = tree[i]
        BY <1>4, <3>1 DEF Node
      <3>. QED
        BY <1>5, <3>2
    <2>2. CASE i # cur[s]
      <3>1. tree'[i] = tree[i]
        BY <1>1, <1>2, <1>9, <2>0, <2>2 DEF CloseFile, TypeInv
      <3>. QED
        BY <1>5, <3>1
    <2>. QED
      BY <2>1, <2>2
  <1>10. ASSUME NEW s \in Streams, MakeLink(s)
         PROVE  There(i)'
    <2>1. cur[s] \in Links /\ Place(cur[s]) = cur[s]
      BY <1>10, AtWork DEF MakeLink, Step, Straight
    <2>2. tree'[i] = tree[i]
      BY <1>1, <1>2, <1>10, <2>1 DEF MakeLink, TypeInv
    <2>. QED
      BY <1>5, <2>2
  <1>11. ASSUME NEW s \in Streams, Extract(s)
         PROVE  There(i)'
    <2>1. CASE UNCHANGED tree
      BY <1>5, <2>1
    <2>2. CASE ~(UNCHANGED tree)
      <3>1. PICK j : ExtractMember(j)
        BY <1>11, <2>2 DEF Extract
      <3>2. PICK t \in IF j \in Links THEN {Length[j], links[j]} ELSE {NoTarget} :
              tree' = [tree EXCEPT ![j] = Copy(j, t)]
        BY <2>2, <3>1 DEF ExtractMember
      <3>3. CASE i = j
        <4>1. tree'[i] = Copy(i, NoTarget)
          BY <1>1, <1>2, <3>2, <3>3 DEF TypeInv
        <4>. QED
          BY <1>2, <4>1 DEF There
      <3>4. CASE i # j
        <4>1. tree'[i] = tree[i]
          BY <1>1, <1>2, <3>2, <3>4 DEF TypeInv
        <4>. QED
          BY <1>5, <4>1
      <3>. QED
        BY <3>3, <3>4
    <2>. QED
      BY <2>1, <2>2
  <1>12. ASSUME NEW s \in Streams, ReceiverStep(s)
         PROVE  There(i)'
    <2>1. ~CloseFileBadly(s) /\ ~MakeNoteBadly(s)
      BY DEF CloseFileBadly, MakeNoteBadly, GoesBadly
    <2>2. CASE Listen(s) \/ Accept(s) \/ TakeHeader(s) \/ Eof(s) \/ ReceiveError(s)
      BY <1>6, <2>2 DEF Listen, Accept, TakeHeader, Eof, ReceiveError
    <2>3. CASE TakeText(s) \/ ExtractorGone(s) \/ CloseExtractor(s)
      BY <1>6, <2>3 DEF TakeText, ExtractorGone, CloseExtractor
    <2>. QED
      BY <1>7, <1>8, <1>9, <1>10, <1>11, <1>12, <2>1, <2>2, <2>3 DEF ReceiverStep, ReceiveThread
  <1>13. ASSUME NEW s \in Streams, SenderStep(s)
         PROVE  There(i)'
    <2>1. UNCHANGED recvVars
      BY <1>1, <1>13, SenderFrame
    <2>. QED
      BY <1>6, <2>1 DEF recvVars
  <1>14. CASE StartSend \/ JoinSend \/ KillSender \/ JoinReceive \/ UNCHANGED vars
    BY <1>6, <1>14 DEF StartSend, JoinSend, KillSender, JoinReceive, vars, recvVars
  <1>15. CASE \E j \in Links : ReplaceLink(j)
    BY <1>6, <1>15 DEF ReplaceLink, recvVars
  <1>. QED
    BY <1>12, <1>13, <1>14, <1>15 DEF Next, SenderStep, ReceiverStep

\* A file that receive_file_part or tar has completed is not written to, cut
\* or given another mode by any later step of any thread, if no older link
\* leads one path of the tree to another.
THEOREM FinishedFilesStay == Spec => FinishedStays
  <1>1. (Straight => IInv) /\ [Next]_vars =>
          [\A i \in Files : Straight /\ Whole(i) /\ ~lost' => Whole(i)']_vars
    <2>. SUFFICES ASSUME IInv, Straight, [Next]_vars, NEW i \in Files, Whole(i), ~lost'
                  PROVE  Whole(i)'
      OBVIOUS
    <2>1. Straight' /\ i \in Paths
      BY StraightStays, Constants
    <2>2. There(i)'
      BY <2>1, WholeIsThere, FileStays
    <2>. QED
      BY <2>1, <2>2 DEF Whole, There, Straight
  <1>. QED
    BY <1>1, Invariance, PTL DEF Spec, FinishedStays
=============================================================================
