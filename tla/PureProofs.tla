----------------------------- MODULE PureProofs -----------------------------
(***************************************************************************)
(* Proofs about the pure functions, for arguments of any size: the states  *)
(* of MCPure are the arguments, and no bound of it is fixed here. First    *)
(* the layout, the listing and the configuration, then what the helpers    *)
(* make of a front end's command line, and then what /bin/sh makes of it.  *)
(***************************************************************************)
EXTENDS MCPure, LayoutProofs

\* The words of a command line.
Word == UNION { { q[i] : i \in 1 .. Len(q) } : q \in Phrases \cup Commands }

\* The arguments are of the types that the functions take.
Arguments ==
    /\ total \in Nat /\ parallel \in Nat \ {0}
    /\ port \in 1 .. MaxPort /\ probe \in 1 .. MaxPort
    /\ here \in Options /\ there \in Options
    /\ argv \in Seq(Word) /\ words \in Seq(Seq(Chars)) /\ Len(words) = 2
    /\ listing \in Seq(Items)

LEMMA FirstWordsType == FirstWords \in Seq(Seq(Chars)) /\ Len(FirstWords) = 2
  <1>1. \A S : \A a, b \in S : <<a, b>> \in Seq(S) /\ Len(<<a, b>>) = 2
    OBVIOUS
  <1>2. <<>> \in Seq(Chars)
    OBVIOUS
  <1>. QED
    BY <1>1, <1>2 DEF FirstWords

\* What is typed is a sequence of words.
LEMMA TypedWords == Phrases \subseteq Seq(Word) /\ Commands \subseteq Seq(Word)
  <1>. DEFINE W(q) == { q[i] : i \in 1 .. Len(q) }
  <1>1. ASSUME NEW q \in Phrases \cup Commands PROVE q \in Seq(W(q))
    <2>1. \A S : \A s \in Seq(S) : s \in Seq(W(s))
      OBVIOUS
    <2>2. \/ \E a, b, c : q = <<a, b, c>>
          \/ \E a, b : q = <<a, b>>
          \/ \E a : q = <<a>>
      <3>1. ASSUME q \in Phrases PROVE (\E a, b : q = <<a, b>>) \/ (\E a : q = <<a>>)
        <4>1. CASE q \in WithValue
          <5>1. PICK o \in DOMAIN Values : q \in {o} \X Values[o]
            BY <4>1 DEF WithValue
          <5>2. q = <<q[1], q[2]>>
            BY <5>1
          <5>. QED
            BY <5>2, Zenon
        <4>2. CASE q \in Alone
          <5>1. PICK w \in Lone : q = <<w>>
            BY <4>2 DEF Alone
          <5>. QED
            BY <5>1
        <4>. QED
          BY <3>1, <4>1, <4>2 DEF Phrases
      <3>2. q \in Commands => \/ \E a, b, c : q = <<a, b, c>>
                              \/ \E a, b : q = <<a, b>>
                              \/ \E a : q = <<a>>
        BY Zenon DEF Commands
      <3>. QED
        BY <3>1, <3>2
    <2>3. CASE \E a, b, c : q = <<a, b, c>>
      <3>1. PICK a, b, c : q = <<a, b, c>>
        BY <2>3
      <3>2. q \in Seq({a, b, c})
        BY <3>1
      <3>. QED
        BY <2>1, <3>2
    <2>4. CASE \E a, b : q = <<a, b>>
      <3>1. PICK a, b : q = <<a, b>>
        BY <2>4
      <3>2. q \in Seq({a, b})
        BY <3>1
      <3>. QED
        BY <2>1, <3>2
    <2>5. CASE \E a : q = <<a>>
      <3>1. PICK a : q = <<a>>
        BY <2>5
      <3>2. q \in Seq({a})
        BY <3>1
      <3>. QED
        BY <2>1, <3>2
    <2>. QED
      BY <2>2, <2>3, <2>4, <2>5
  <1>2. \A q \in Phrases \cup Commands : W(q) \subseteq Word
    BY DEF Word
  <1>3. \A S, T : S \subseteq T => Seq(S) \subseteq Seq(T)
    OBVIOUS
  <1>. HIDE DEF W
  <1>. QED
    BY <1>1, <1>2, <1>3

LEMMA ArgumentsAlways == Spec => []Arguments
  <1>1. Init => Arguments
    <2>. SUFFICES ASSUME Init PROVE Arguments
      OBVIOUS
    <2>1. /\ total \in Nat /\ parallel \in Nat \ {0}
          /\ port \in 1 .. MaxPort /\ probe \in 1 .. MaxPort
          /\ here \in Options /\ there \in Options
      BY MaxPortAssumption, PacketAssumption DEF Init, Options, Default, Modes, Profiles
    <2>2. argv \in Seq(Word) /\ listing \in Seq(Items)
      BY DEF Init
    <2>3. words \in Seq(Seq(Chars)) /\ Len(words) = 2
      BY FirstWordsType DEF Init
    <2>. QED
      BY <2>1, <2>2, <2>3 DEF Arguments
  <1>2. Arguments /\ [Next]_vars => Arguments'
    <2>. SUFFICES ASSUME Arguments, [Next]_vars PROVE Arguments'
      OBVIOUS
    <2>1. CASE UNCHANGED vars
      BY <2>1 DEF Arguments, vars, layout, options, command
    <2>2. CASE /\ ChooseFile \/ ChooseStreams \/ ChoosePorts
               /\ UNCHANGED <<options, command, words, listing>>
      BY <2>2, SizesAssumption
         DEF Arguments, ChooseFile, ChooseStreams, ChoosePorts, layout, options, command
    <2>3. CASE (ChooseHere \/ ChooseThere) /\ UNCHANGED <<layout, parallel, command, words, listing>>
      BY <2>3 DEF Arguments, ChooseHere, ChooseThere, layout, command
    <2>4. CASE (TypeCommand \/ TypePhrase) /\ UNCHANGED <<layout, parallel, options, words, listing>>
      <3>1. argv' \in Seq(Word)
        <4>1. CASE TypeCommand
          BY <4>1, TypedWords DEF TypeCommand
        <4>2. CASE TypePhrase
          <5>1. PICK q \in Phrases : argv' = argv \o q
            BY <4>2 DEF TypePhrase
          <5>2. argv \in Seq(Word) /\ q \in Seq(Word)
            BY TypedWords DEF Arguments
          <5>. QED
            BY <5>1, <5>2
        <4>. QED
          BY <2>4, <4>1, <4>2
      <3>. QED
        BY <2>4, <3>1 DEF Arguments, layout, options
    <2>5. CASE TypeChar /\ UNCHANGED <<layout, parallel, options, command, listing>>
      <3>1. words' \in Seq(Seq(Chars)) /\ Len(words') = 2
        <4>1. CASE words' = FirstWords
          BY <4>1, FirstWordsType
        <4>2. CASE words' # FirstWords
          <5>1. PICK i \in 1 .. 2, c \in Chars : words' = [words EXCEPT ![i] = Append(@, c)]
            BY <2>5, <4>2 DEF TypeChar
          <5>2. words \in Seq(Seq(Chars)) /\ Len(words) = 2
            BY DEF Arguments
          <5>3. Append(words[i], c) \in Seq(Chars)
            <6>1. \A S : \A s \in Seq(S), x \in S : Append(s, x) \in Seq(S)
              OBVIOUS
            <6>2. \A S : \A s \in Seq(S) : \A j \in 1 .. Len(s) : s[j] \in S
              OBVIOUS
            <6>3. words[i] \in Seq(Chars)
              BY <5>2, <6>2
            <6>. QED
              BY <6>1, <6>3
          <5>4. \A S : \A s \in Seq(S), x \in S : \A j \in 1 .. Len(s) : [s EXCEPT ![j] = x] \in Seq(S)
            OBVIOUS
          <5>5. \A S : \A s \in Seq(S), x \in S : \A j \in 1 .. Len(s) : Len([s EXCEPT ![j] = x]) = Len(s)
            OBVIOUS
          <5>. QED
            BY <5>1, <5>2, <5>3, <5>4, <5>5
        <4>. QED
          BY <4>1, <4>2
      <3>. QED
        BY <2>5, <3>1 DEF Arguments, layout, options, command
    <2>6. CASE ListItem /\ UNCHANGED <<layout, parallel, options, command, words>>
      <3>1. listing' \in Seq(Items)
        <4>1. listing \in Seq(Items)
          BY DEF Arguments
        <4>2. CASE listing' = <<>>
          BY <4>2
        <4>3. CASE listing' # <<>>
          <5>1. PICK i \in Items : listing' = Append(listing, i)
            BY <2>6, <4>3 DEF ListItem
          <5>. QED
            BY <4>1, <5>1
        <4>. QED
          BY <4>2, <4>3
      <3>. QED
        BY <2>6, <3>1 DEF Arguments, layout, options, command
    <2>. QED
      BY <2>1, <2>2, <2>3, <2>4, <2>5, <2>6 DEF Next
  <1>. QED
    BY <1>1, <1>2, PTL DEF Spec

-----------------------------------------------------------------------------
\* byte_range_for_stream cuts any file into consecutive ranges of nearly equal
\* size, one for each of any number of streams.
THEOREM RangesAlways == Spec => []RangesPartition
  <1>1. ASSUME Arguments PROVE RangesPartition
    <2>1. total \in Nat /\ parallel \in Nat \ {0}
      BY <1>1 DEF Arguments
    <2>2. RangeOffset(total, 0, parallel) = 0 /\ RangeOffset(total, parallel, parallel) = total
      BY <2>1, OffsetEnds
    <2>3. \A s \in 0 .. parallel - 1 :
            RangeOffset(total, s, parallel) + RangeSize(total, s, parallel)
              = RangeOffset(total, s + 1, parallel)
      BY <2>1, RangesConsecutive
    <2>4. \A s \in 0 .. parallel - 1 :
            RangeOffset(total, s, parallel) + RangeSize(total, s, parallel)
              = IF s = parallel - 1 THEN total ELSE RangeOffset(total, s + 1, parallel)
      <3>. SUFFICES ASSUME NEW s \in 0 .. parallel - 1
                    PROVE  RangeOffset(total, s, parallel) + RangeSize(total, s, parallel)
                             = IF s = parallel - 1 THEN total ELSE RangeOffset(total, s + 1, parallel)
        OBVIOUS
      <3>1. s = parallel - 1 => s + 1 = parallel
        BY <2>1
      <3>. QED
        BY <2>2, <2>3, <3>1
    <2>5. \A s, t \in 0 .. parallel - 1 :
            RangeSize(total, s, parallel) <= RangeSize(total, t, parallel) + 1
      <3>1. Base(total, parallel) \in Nat
        BY <2>1, BaseExtra
      <3>. QED
        BY <3>1 DEF RangeSize
    <2>. QED
      BY <2>2, <2>4, <2>5 DEF RangesPartition
  <1>. QED
    BY <1>1, ArgumentsAlways, PTL

\* The port that the responder's start() chooses for its probe is valid and no
\* stream's, and it refuses only when the streams take every port there is.
THEOREM ProbePortAlways == Spec => []ProbePortIsFree
  <1>1. ASSUME Arguments PROVE ProbePortIsFree
    <2>. DEFINE chosen == SelectedProbePort(probe, port, parallel)
    <2>. SUFFICES ASSUME PortsAccepted(port, parallel)
                  PROVE  IF chosen = NoPort
                           THEN { StreamPort(port, s) : s \in 0 .. parallel - 1 } = 1 .. MaxPort
                           ELSE /\ chosen \in 1 .. MaxPort
                                /\ \A s \in 0 .. parallel - 1 : chosen # StreamPort(port, s)
      BY DEF ProbePortIsFree
    <2>1. probe \in 1 .. MaxPort /\ port \in 1 .. MaxPort /\ parallel \in Nat \ {0}
      BY <1>1 DEF Arguments
    <2>2. \/ /\ chosen \in 1 .. MaxPort
             /\ \A s \in 0 .. parallel - 1 : chosen # StreamPort(port, s)
          \/ /\ chosen = NoPort
             /\ port = 1 /\ LastPort(port, parallel) = MaxPort
      BY <2>1, ProbePortClear
    <2>. HIDE DEF chosen
    <2>3. ASSUME port = 1, LastPort(port, parallel) = MaxPort
          PROVE  { StreamPort(port, s) : s \in 0 .. parallel - 1 } = 1 .. MaxPort
      <3>1. parallel = MaxPort
        BY <2>1, <2>3, MaxPortAssumption DEF LastPort
      <3>2. \A s \in 0 .. parallel - 1 : StreamPort(port, s) = 1 + s
        <4>. SUFFICES ASSUME NEW s \in 0 .. parallel - 1 PROVE (port + s) % (MaxPort + 1) = 1 + s
          BY DEF StreamPort
        <4>1. port + s = 1 + s /\ 1 + s \in 0 .. MaxPort
          BY <2>3, <3>1, MaxPortAssumption
        <4>2. (1 + s) % (MaxPort + 1) = 1 + s
          BY <4>1, MaxPortAssumption
        <4>. QED
          BY <4>1, <4>2
      <3>3. \A p \in 1 .. MaxPort : p - 1 \in 0 .. parallel - 1 /\ 1 + (p - 1) = p
        BY <3>1, MaxPortAssumption
      <3>4. \A s \in 0 .. parallel - 1 : 1 + s \in 1 .. MaxPort
        BY <3>1, MaxPortAssumption
      <3>. QED
        BY <3>2, <3>3, <3>4
    <2>4. NoPort \notin 1 .. MaxPort
      BY DEF NoPort
    <2>. QED
      BY <2>2, <2>3, <2>4
  <1>. QED
    BY <1>1, ArgumentsAlways, PTL

\* Two ends of a session that call negotiate with their options and the
\* other's settle on the same link or both refuse.
THEOREM EndsAlwaysAgree == Spec => []EndsAgree
  <1>1. ASSUME Arguments PROVE EndsAgree
    <2>1. \A o \in {here, there} :
            /\ o.mode \in Modes /\ o.profile \in Profiles /\ o.require_encryption \in BOOLEAN
            /\ o.preferred_packet_bytes \in Int
      BY <1>1, PacketAssumption DEF Arguments, Options
    <2>2. CASE ~Valid(here) \/ ~Valid(there)
      BY <2>2 DEF EndsAgree, mine, theirs, negotiate, Invalid
    <2>3. CASE Valid(here) /\ Valid(there)
      <3>. DEFINE packet == SmallerOf(here.preferred_packet_bytes, there.preferred_packet_bytes)
      <3>1. /\ mine = [is |-> "config", local_mode |-> Role(here.mode, there.mode),
                       profile |-> MeetProfile(here.profile, there.profile),
                       packet_bytes |-> packet,
                       encryption_enabled |-> here.require_encryption \/ there.require_encryption]
            /\ theirs = [is |-> "config", local_mode |-> Role(there.mode, here.mode),
                         profile |-> MeetProfile(there.profile, here.profile),
                         packet_bytes |-> SmallerOf(there.preferred_packet_bytes,
                                                    here.preferred_packet_bytes),
                         encryption_enabled |-> there.require_encryption \/ here.require_encryption]
        BY <2>3 DEF mine, theirs, negotiate
      <3>2. /\ packet = SmallerOf(there.preferred_packet_bytes, here.preferred_packet_bytes)
            /\ packet <= here.preferred_packet_bytes /\ packet <= there.preferred_packet_bytes
        BY <2>1 DEF SmallerOf
      <3>3. /\ MeetProfile(here.profile, there.profile) = MeetProfile(there.profile, here.profile)
            /\ \A o \in {here, there} :
                 profile_rank[MeetProfile(here.profile, there.profile)] <= profile_rank[o.profile]
        BY <2>1 DEF MeetProfile, profile_rank, Profiles
      <3>4. here.mode = "Auto" /\ there.mode # "Auto" =>
              { Role(here.mode, there.mode), Role(there.mode, here.mode) } = {"Host", "Device"}
        BY <2>1 DEF Role, Modes
      <3>5. /\ (here.require_encryption \/ there.require_encryption)
                 = (there.require_encryption \/ here.require_encryption)
            /\ \A o \in {here, there} :
                 o.require_encryption => here.require_encryption \/ there.require_encryption
        BY <2>1, Zenon
      <3>. HIDE DEF packet
      <3>. QED
        BY <3>1, <3>2, <3>3, <3>4, <3>5 DEF EndsAgree
    <2>. QED
      BY <2>2, <2>3
  <1>. QED
    BY <1>1, ArgumentsAlways, PTL

-----------------------------------------------------------------------------
(***************************************************************************)
(* partition_directory_items deals the payload out evenly.                 *)
(***************************************************************************)
\* The bytes of a stream, item after item.
Sums(at, items, size) ==
    /\ at \in [0 .. Len(items) -> Nat] /\ at[0] = 0 /\ at[Len(items)] = Load(items, size)
    /\ \A n \in 1 .. Len(items) : at[n] = at[n - 1] + size[items[n]]

LEMMA LoadStates ==
  ASSUME NEW I, NEW size, \A i \in I : size[i] \in Nat, NEW items \in Seq(I)
  PROVE  \E at : Sums(at, items, size)
  <1>. DEFINE N == Len(items)
              G == [x \in Nat \X (1 .. N) |-> x[1] + size[items[x[2]]]]
              Iter(f) == f = [s \in SUBSET (1 .. N) |->
                                IF s = {} THEN 0 ELSE f[s \ {Max(s)}] + size[items[Max(s)]]]
              g == CHOOSE f : Iter(f)
  <1>1. N \in Nat /\ DOMAIN items = 1 .. N /\ \A n \in 1 .. N : size[items[n]] \in Nat
    OBVIOUS
  <1>2. Load(items, size) = g[1 .. N]
    <2>1. Load(items, size) = g[DOMAIN items]
      BY <1>1 DEF Load, FoldLeft, MapThenFoldSet
    <2>. QED
      BY <1>1, <2>1
  <1>3. G \in [Nat \X (1 .. N) -> Nat]
    BY <1>1
  <1>4. PICK f : Recurs(f, N, Nat, 0, G)
    <2>. HIDE DEF G, N
    <2>. QED
      BY <1>1, <1>3, FoldRuns
  <1>5. Iter(f)
    <2>1. \A s \in SUBSET (1 .. N) :
            f[s] = IF s = {} THEN 0 ELSE f[s \ {Max(s)}] + size[items[Max(s)]]
      <3>. SUFFICES ASSUME NEW s \in SUBSET (1 .. N), s # {}
                    PROVE  G[<<f[s \ {Max(s)}], Max(s)>>] = f[s \ {Max(s)}] + size[items[Max(s)]]
        BY <1>4 DEF Recurs
      <3>1. Max(s) \in 1 .. N
        BY <1>1, MaxIndex
      <3>2. f[s \ {Max(s)}] \in Nat
        BY <1>4 DEF Recurs
      <3>. QED
        BY <3>1, <3>2
    <2>2. f = [s \in SUBSET (1 .. N) |-> f[s]]
      BY <1>4 DEF Recurs
    <2>. QED
      BY <2>1, <2>2
  <1>6. Iter(g)
    <2>. HIDE DEF Iter
    <2>. QED
      BY <1>5
  <1>. HIDE DEF g
  <1>7. g[{}] = 0
    BY <1>6
  <1>8. ASSUME NEW n \in 1 .. N, g[1 .. n - 1] \in Nat
        PROVE  g[1 .. n] = G[<<g[1 .. n - 1], n>>]
    <2>1. 1 .. n \in SUBSET (1 .. N) /\ n \in Nat \ {0}
      BY <1>1
    <2>2. Max(1 .. n) = n /\ (1 .. n) \ {n} = 1 .. n - 1 /\ 1 .. n # {}
      BY <2>1, LastIndex
    <2>3. g[1 .. n] = g[1 .. n - 1] + size[items[n]]
      BY <1>6, <2>1, <2>2
    <2>. QED
      BY <1>8, <2>3
  <1>. DEFINE at == [n \in 0 .. N |-> g[1 .. n]]
  <1>9. Steps(at, N, Nat, 0, G) /\ at[N] = g[1 .. N]
    <2>1. Iterates(g, N, Nat, 0, G)
      BY <1>7, <1>8 DEF Iterates
    <2>2. at[N] = g[1 .. N]
      BY <1>1
    <2>. HIDE DEF G, N
    <2>3. Steps(at, N, Nat, 0, G)
      BY <1>1, <1>3, <2>1, FoldStates
    <2>. QED
      BY <2>2, <2>3
  <1>. HIDE DEF at
  <1>10. \A n \in 1 .. N : at[n] = at[n - 1] + size[items[n]]
    <2>1. \A n \in 1 .. N : n - 1 \in 0 .. N /\ at[n - 1] \in Nat
      BY <1>1, <1>9 DEF Steps
    <2>. QED
      <3>1. \A n \in 1 .. N : at[n] = G[<<at[n - 1], n>>]
        BY <1>9 DEF Steps
      <3>2. \A n \in 1 .. N : G[<<at[n - 1], n>>] = at[n - 1] + size[items[n]]
        BY <2>1
      <3>. QED
        BY <3>1, <3>2
  <1>11. Sums(at, items, size)
    BY <1>2, <1>9, <1>10 DEF Steps, Sums
  <1>. QED
    BY <1>11

\* One more item.
LEMMA LoadAppend ==
  ASSUME NEW I, NEW size, \A i \in I : size[i] \in Nat, NEW items \in Seq(I), NEW x \in I
  PROVE  /\ Load(items, size) \in Nat
         /\ Load(Append(items, x), size) = Load(items, size) + size[x]
  <1>. DEFINE N == Len(items)
              more == Append(items, x)
  <1>1. /\ N \in Nat /\ more \in Seq(I) /\ Len(more) = N + 1 /\ more[N + 1] = x
        /\ \A n \in 1 .. N : more[n] = items[n]
    OBVIOUS
  <1>2. PICK a : Sums(a, items, size)
    BY LoadStates
  <1>. HIDE DEF more
  <1>3. PICK b : Sums(b, more, size)
    BY <1>1, LoadStates
  <1>. USE DEF Sums
  <1>. DEFINE S == { n \in 0 .. N : a[n] = b[n] }
  <1>4. 0 \in S
    BY <1>1, <1>2, <1>3
  <1>5. ASSUME NEW n \in 1 .. N, n - 1 \in S PROVE n \in S
    <2>1. n \in 1 .. Len(more) /\ n \in 0 .. N /\ a[n - 1] = b[n - 1] /\ more[n] = items[n]
      BY <1>1, <1>5
    <2>2. a[n] = a[n - 1] + size[items[n]]
      BY <1>2
    <2>3. b[n] = b[n - 1] + size[more[n]]
      BY <1>3, <2>1
    <2>. QED
      BY <2>1, <2>2, <2>3
  <1>6. \A n \in 0 .. N : n \in S
    <2>. HIDE DEF S, N
    <2>. QED
      BY <1>1, <1>4, <1>5, UpTo
  <1>7. a[N] = b[N]
    BY <1>1, <1>6
  <1>8. b[N + 1] = b[N] + size[x]
    <2>1. N + 1 \in 1 .. Len(more) /\ (N + 1) - 1 = N
      BY <1>1
    <2>2. b[N + 1] = b[(N + 1) - 1] + size[more[N + 1]]
      BY <1>3, <2>1
    <2>. QED
      BY <1>1, <2>1, <2>2
  <1>. QED
    BY <1>1, <1>2, <1>3, <1>7, <1>8 DEF more

\* Items without payload add nothing.
LEMMA LoadNone ==
  ASSUME NEW I, NEW size, NEW items \in Seq(I), \A i \in I : size[i] = 0
  PROVE  Load(items, size) = 0
  <1>1. PICK a : Sums(a, items, size)
    <2>1. \A i \in I : size[i] \in Nat
      OBVIOUS
    <2>. QED
      BY <2>1, LoadStates
  <1>. USE DEF Sums
  <1>. DEFINE S == { n \in 0 .. Len(items) : a[n] = 0 }
  <1>2. Len(items) \in Nat /\ 0 \in S
    BY <1>1
  <1>3. ASSUME NEW n \in 1 .. Len(items), n - 1 \in S PROVE n \in S
    <2>1. a[n - 1] = 0 /\ size[items[n]] = 0 /\ n \in 0 .. Len(items)
      BY <1>3
    <2>2. a[n] = a[n - 1] + size[items[n]]
      BY <1>1
    <2>. QED
      BY <2>1, <2>2
  <1>4. \A n \in 0 .. Len(items) : n \in S
    <2>. HIDE DEF S
    <2>. QED
      BY <1>2, <1>3, UpTo
  <1>. QED
    BY <1>1, <1>2, <1>4

\* The partitions open with the metadata, their bytes are their payload's, and
\* none is ahead of another by more than its last item.
Balanced(d, n, metadata, size) ==
    /\ \A j \in 1 .. Len(metadata) : j <= Len(d[1].items) /\ d[1].items[j] = metadata[j]
    /\ \A p \in 1 .. n : d[p].bytes = Load(d[p].items, size)
    /\ \A p, q \in 1 .. n :
         Len(d[p].items) # 0 =>
             d[p].bytes - size[d[p].items[Len(d[p].items)]] <= d[q].bytes

\* The item that goes to the smallest partition keeps them so.
LEMMA AssignBalanced ==
  ASSUME NEW I, NEW n \in Nat \ {0}, NEW d \in Deals(n, I), NEW metadata \in Seq(I),
         NEW size, \A i \in I : size[i] \in Nat, Balanced(d, n, metadata, size), NEW x \in I
  PROVE  /\ Assign(d, x, size) \in Deals(n, I)
         /\ Balanced(Assign(d, x, size), n, metadata, size)
  <1>. DEFINE p == Smallest(d)
              e == Assign(d, x, size)
  <1>1. p \in 1 .. n /\ \A q \in 1 .. n : d[p].bytes <= d[q].bytes
    BY SmallestExists
  <1>2. /\ e = [d EXCEPT ![p] = DirectoryPartition(Append(d[p].items, x), d[p].bytes + size[x])]
        /\ \A q \in 1 .. n : d[q].items \in Seq(I) /\ d[q].bytes \in Nat
    BY <1>1 DEF Assign, Deals
  <1>. HIDE DEF p, e
  <1>3. /\ Append(d[p].items, x) \in Seq(I) /\ d[p].bytes + size[x] \in Nat
        /\ size[x] \in Nat
    BY <1>1, <1>2
  <1>4. e \in Deals(n, I)
    BY <1>1, <1>2, <1>3 DEF Deals, DirectoryPartition
  <1>5. /\ e[p].items = Append(d[p].items, x) /\ e[p].bytes = d[p].bytes + size[x]
        /\ \A q \in 1 .. n : q # p => e[q] = d[q]
    BY <1>1, <1>2 DEF Deals, DirectoryPartition
  <1>6. /\ Len(e[p].items) = Len(d[p].items) + 1 /\ Len(d[p].items) \in Nat
        /\ e[p].items[Len(d[p].items) + 1] = x
        /\ \A j \in 1 .. Len(d[p].items) : e[p].items[j] = d[p].items[j]
    BY <1>1, <1>2, <1>5
  <1>7. ASSUME NEW j \in 1 .. Len(metadata)
        PROVE  j <= Len(e[1].items) /\ e[1].items[j] = metadata[j]
    <2>1. j <= Len(d[1].items) /\ d[1].items[j] = metadata[j] /\ 1 \in 1 .. n
      BY DEF Balanced
    <2>2. CASE p = 1
      <3>1. j \in 1 .. Len(d[p].items)
        BY <1>6, <2>1, <2>2
      <3>. QED
        BY <1>6, <2>1, <2>2, <3>1
    <2>3. CASE p # 1
      BY <1>5, <2>1, <2>3
    <2>. QED
      BY <2>2, <2>3
  <1>8. ASSUME NEW q \in 1 .. n PROVE e[q].bytes = Load(e[q].items, size)
    <2>1. \A r \in 1 .. n : d[r].bytes = Load(d[r].items, size)
      BY DEF Balanced
    <2>2. CASE q = p
      <3>1. d[p].items \in Seq(I)
        BY <1>1, <1>2
      <3>2. Load(Append(d[p].items, x), size) = Load(d[p].items, size) + size[x]
        BY <3>1, LoadAppend
      <3>. QED
        BY <1>1, <1>5, <2>1, <2>2, <3>2
    <2>3. CASE q # p
      BY <1>5, <2>1, <2>3
    <2>. QED
      BY <2>2, <2>3
  <1>9. \A q \in 1 .. n : d[q].bytes <= e[q].bytes /\ d[q].bytes \in Nat /\ e[q].bytes \in Nat
    <2>. SUFFICES ASSUME NEW q \in 1 .. n
                  PROVE  d[q].bytes <= e[q].bytes /\ d[q].bytes \in Nat /\ e[q].bytes \in Nat
      OBVIOUS
    <2>1. CASE q = p
      BY <1>1, <1>2, <1>3, <1>5, <2>1
    <2>2. CASE q # p
      BY <1>2, <1>5, <2>2
    <2>. QED
      BY <2>1, <2>2
  <1>10. ASSUME NEW r \in 1 .. n, NEW q \in 1 .. n, Len(e[r].items) # 0
         PROVE  e[r].bytes - size[e[r].items[Len(e[r].items)]] <= e[q].bytes
    <2>1. CASE r = p
      <3>1. e[r].items[Len(e[r].items)] = x /\ e[r].bytes = d[p].bytes + size[x]
        BY <1>5, <1>6, <2>1
      <3>2. d[p].bytes <= d[q].bytes /\ d[q].bytes <= e[q].bytes
        BY <1>1, <1>9
      <3>3. d[p].bytes \in Nat /\ d[q].bytes \in Nat /\ e[q].bytes \in Nat
        BY <1>1, <1>9
      <3>4. e[r].bytes - size[e[r].items[Len(e[r].items)]] = (d[p].bytes + size[x]) - size[x]
        BY <3>1
      <3>5. (d[p].bytes + size[x]) - size[x] = d[p].bytes
        BY <1>3, <3>3
      <3>6. d[p].bytes <= e[q].bytes
        BY <3>2, <3>3
      <3>. QED
        BY <3>4, <3>5, <3>6
    <2>2. CASE r # p
      <3>1. e[r] = d[r]
        BY <1>5, <2>2
      <3>2. d[r].bytes - size[d[r].items[Len(d[r].items)]] <= d[q].bytes
        BY <1>10, <3>1 DEF Balanced
      <3>3. d[r].items[Len(d[r].items)] \in I
        <4>1. d[r].items \in Seq(I) /\ Len(d[r].items) # 0
          BY <1>2, <1>10, <3>1
        <4>. QED
          BY <4>1
      <3>4. size[d[r].items[Len(d[r].items)]] \in Nat
        BY <3>3
      <3>5. d[q].bytes <= e[q].bytes /\ d[q].bytes \in Nat /\ e[q].bytes \in Nat /\ d[r].bytes \in Nat
        BY <1>9
      <3>6. \A a, b, c, m \in Nat : a - b <= c /\ c <= m => a - b <= m
        OBVIOUS
      <3>. QED
        BY <3>1, <3>2, <3>4, <3>5, <3>6
    <2>. QED
      BY <2>1, <2>2
  <1>11. Balanced(e, n, metadata, size)
    BY <1>7, <1>8, <1>10 DEF Balanced
  <1>. QED
    BY <1>4, <1>11 DEF e

\* So the result of the loop is balanced, if metadata has no bytes.
LEMMA PartitionedBalanced ==
  ASSUME NEW I, NEW n \in Nat \ {0}, NEW size, \A i \in I : size[i] \in Nat,
         NEW metadata \in Seq(I), NEW payload \in Seq(I),
         \A j \in 1 .. Len(metadata) : size[metadata[j]] = 0
  PROVE  Balanced(Partitioned(metadata, payload, size, n), n, metadata, size)
  <1>. DEFINE base == [p \in 1 .. n |-> DirectoryPartition(IF p = 1 THEN metadata ELSE <<>>, 0)]
              len == Len(payload)
  <1>1. len \in Nat /\ Len(metadata) \in Nat /\ \A j \in 1 .. len : payload[j] \in I
    OBVIOUS
  <1>2. PICK deal : DealsOut(deal, metadata, payload, size, n)
    BY PartitionedRuns
  <1>3. /\ deal[0] = base
        /\ \A m \in 1 .. len : deal[m] = Assign(deal[m - 1], payload[m], size)
        /\ deal[len] = Partitioned(metadata, payload, size, n)
    BY <1>2 DEF DealsOut
  <1>. DEFINE Good(m) == deal[m] \in Deals(n, I) /\ Balanced(deal[m], n, metadata, size)
              S == { m \in 0 .. len : Good(m) }
  <1>4. Good(0)
    <2>1. base \in Deals(n, I)
      <3>1. <<>> \in Seq(I)
        OBVIOUS
      <3>. QED
        BY <3>1 DEF Deals, DirectoryPartition
    <2>2. /\ 1 \in 1 .. n /\ base[1].items = metadata
          /\ \A p \in 1 .. n : base[p].bytes = 0 /\ (p # 1 => base[p].items = <<>>)
      BY DEF DirectoryPartition
    <2>3. Load(metadata, size) = 0 /\ Load(<<>>, size) = 0
      <3>. DEFINE M == { metadata[j] : j \in 1 .. Len(metadata) }
      <3>1. metadata \in Seq(M) /\ <<>> \in Seq(M)
        OBVIOUS
      <3>2. \A i \in M : size[i] = 0
        OBVIOUS
      <3>. HIDE DEF M
      <3>. QED
        BY <3>1, <3>2, LoadNone
    <2>. HIDE DEF base
    <2>4. \A p \in 1 .. n : base[p].bytes = Load(base[p].items, size)
      BY <2>2, <2>3
    <2>5. ASSUME NEW p \in 1 .. n, NEW q \in 1 .. n, Len(base[p].items) # 0
          PROVE  base[p].bytes - size[base[p].items[Len(base[p].items)]] <= base[q].bytes
      <3>1. base[p].items = metadata
        BY <2>2, <2>5
      <3>2. Len(metadata) \in 1 .. Len(metadata)
        BY <1>1, <2>5, <3>1
      <3>3. size[metadata[Len(metadata)]] = 0
        BY <3>2
      <3>. QED
        BY <2>2, <3>1, <3>3
    <2>6. \A j \in 1 .. Len(metadata) : j <= Len(base[1].items) /\ base[1].items[j] = metadata[j]
      BY <1>1, <2>2
    <2>. QED
      BY <1>3, <2>1, <2>4, <2>5, <2>6 DEF Balanced
  <1>5. ASSUME NEW m \in 1 .. len, Good(m - 1) PROVE Good(m)
    <2>1. PICK d, x : d = deal[m - 1] /\ x = payload[m]
      OBVIOUS
    <2>2. d \in Deals(n, I) /\ Balanced(d, n, metadata, size) /\ x \in I
      BY <1>1, <1>5, <2>1
    <2>3. Assign(d, x, size) \in Deals(n, I) /\ Balanced(Assign(d, x, size), n, metadata, size)
      BY <2>2, AssignBalanced
    <2>4. deal[m] = Assign(d, x, size)
      BY <1>3, <2>1
    <2>. QED
      BY <2>3, <2>4
  <1>6. \A m \in 0 .. len : m \in S
    <2>. HIDE DEF Good
    <2>1. 0 \in S /\ \A m \in 1 .. len : m - 1 \in S => m \in S
      BY <1>1, <1>4, <1>5
    <2>. HIDE DEF S
    <2>. QED
      BY <1>1, <2>1, UpTo
  <1>7. Good(len)
    BY <1>1, <1>6
  <1>. QED
    BY <1>3, <1>7

\* Every result of partition_directory_items is.
LEMMA PartitionBalanced ==
  ASSUME NEW I \in SUBSET Nat, IsFiniteSet(I), NEW n \in Nat \ {0}, NEW kind, NEW size,
         \A i \in I : size[i] \in Nat /\ (~HasPayload(kind[i]) => size[i] = 0),
         NEW d \in partition_directory_items(I, kind, size, n)
  PROVE  Balanced(d, n, InOrder({ i \in I : ~HasPayload(kind[i]) }), size)
  <1>. DEFINE P == { i \in I : HasPayload(kind[i]) }
              Q == { i \in I : ~HasPayload(kind[i]) }
              meta == InOrder(Q)
  <1>1. IsFiniteSet(P) /\ IsFiniteSet(Q) /\ P \in SUBSET Nat /\ Q \in SUBSET Nat
    BY FS_Subset
  <1>2. P \subseteq I /\ Q \subseteq I /\ \A i \in Q : size[i] = 0
    OBVIOUS
  <1>3. PICK q \in SortedPayload(I, kind, size) : d = Partitioned(meta, q, size, n)
    BY DEF partition_directory_items
  <1>4. q \in SetToSeqs(P)
    BY <1>3 DEF SortedPayload
  <1>. HIDE DEF P, Q
  <1>5. meta \in [1 .. Cardinality(Q) -> Q] /\ Cardinality(Q) \in Nat
    BY <1>1, NumbersInOrder
  <1>6. q \in [1 .. Cardinality(P) -> P] /\ Cardinality(P) \in Nat
    BY <1>1, <1>4, FS_CardinalityType DEF SetToSeqs
  <1>. HIDE DEF meta
  <1>7. meta \in [1 .. Cardinality(Q) -> I] /\ q \in [1 .. Cardinality(P) -> I]
    BY <1>2, <1>5, <1>6
  <1>8. meta \in Seq(I) /\ Len(meta) = Cardinality(Q) /\ q \in Seq(I)
    BY <1>5, <1>6, <1>7
  <1>9. \A j \in 1 .. Len(meta) : size[meta[j]] = 0
    BY <1>2, <1>5, <1>8
  <1>10. \A i \in I : size[i] \in Nat
    OBVIOUS
  <1>11. Balanced(Partitioned(meta, q, size, n), n, meta, size)
    BY <1>8, <1>9, <1>10, PartitionedBalanced
  <1>. QED
    BY <1>3, <1>11 DEF meta, Q

\* partition_directory_items deals a directory of any size out to any number
\* of streams: every item once, metadata first, and no stream ahead of another
\* by more than its last item.
THEOREM ItemsAlwaysSpread == Spec => []ItemsSpread
  <1>1. ASSUME Arguments PROVE ItemsSpread
    <2>. DEFINE I == DOMAIN listing
                kind == [i \in DOMAIN listing |-> listing[i].kind]
                size == [i \in DOMAIN listing |-> listing[i].size]
                Q == { i \in I : ~HasPayload(kind[i]) }
                meta == InOrder(Q)
    <2>1. listing \in Seq(Items) /\ parallel \in Nat \ {0}
      BY <1>1 DEF Arguments
    <2>2. PICK N \in Nat : N = Len(listing) /\ I = 1 .. N
      BY <2>1
    <2>3. \A i \in I : size[i] \in Nat /\ (~HasPayload(kind[i]) => size[i] = 0)
      <3>1. \A x \in Items : x.size \in Nat /\ (~HasPayload(x.kind) => x.size = 0)
        BY DEF Items, HasPayload
      <3>2. \A i \in I : listing[i] \in Items
        BY <2>1
      <3>. QED
        BY <3>1, <3>2
    <2>4. I \in SUBSET Nat /\ IsFiniteSet(I)
      <3>1. IsFiniteSet(1 .. N)
        BY <2>2, FS_Interval
      <3>. QED
        BY <2>2, <3>1
    <2>. HIDE DEF kind, size
    <2>5. IsFiniteSet(Q) /\ Q \in SUBSET Nat
      BY <2>4, FS_Subset
    <2>. SUFFICES ASSUME NEW deal \in partition_directory_items(I, kind, size, parallel)
                  PROVE  LET parts == [p \in 1 .. parallel |-> deal[p].items] IN
                         /\ \A i \in I :
                              Cardinality({ q \in (1 .. parallel) \X I :
                                              q[2] <= Len(parts[q[1]]) /\ parts[q[1]][q[2]] = i }) = 1
                         /\ { parts[1][j] : j \in 1 .. Cardinality(Q) } = Q
                         /\ \A p, q \in 1 .. parallel :
                              parts[p] # <<>> =>
                                Load(parts[p], size) - size[parts[p][Len(parts[p])]] <= Load(parts[q], size)
      BY DEF ItemsSpread, kind, size
    <2>. DEFINE parts == [p \in 1 .. parallel |-> deal[p].items]
    <2>6. deal \in Deals(parallel, I) /\ Spread(deal, parallel, I)
      <3>. HIDE DEF I
      <3>. QED
        BY <2>1, <2>3, <2>4, PartitionSpread
    <2>7. Balanced(deal, parallel, meta, size)
      <3>. HIDE DEF I
      <3>. QED
        BY <2>1, <2>3, <2>4, PartitionBalanced
    <2>. HIDE DEF I, Q
    <2>8. \A p \in 1 .. parallel : parts[p] = deal[p].items /\ parts[p] \in Seq(I)
      BY <2>6 DEF Deals
    <2>. HIDE DEF parts
    <2>9. ASSUME NEW p \in 1 .. parallel PROVE Len(parts[p]) \in 0 .. N
      <3>1. PICK s : s = parts[p]
        OBVIOUS
      <3>2. s \in Seq(I) /\ Len(s) \in Nat /\ s \in [1 .. Len(s) -> 1 .. N]
        BY <2>2, <2>8, <3>1
      <3>3. \A j, k \in 1 .. Len(s) : s[j] = s[k] => j = k
        BY <2>6, <2>8, <3>1 DEF Spread
      <3>4. s \in Injection(1 .. Len(s), 1 .. N)
        BY <3>2, <3>3 DEF Injection, IsInjective
      <3>5. /\ IsFiniteSet(1 .. Len(s)) /\ Cardinality(1 .. Len(s)) = Len(s)
            /\ IsFiniteSet(1 .. N) /\ Cardinality(1 .. N) = N
        <4>1. \A k \in Nat : IsFiniteSet(1 .. k) /\ Cardinality(1 .. k) = k
          BY FS_Interval
        <4>. QED
          BY <2>2, <3>2, <4>1
      <3>6. Cardinality(1 .. Len(s)) <= Cardinality(1 .. N)
        BY <3>4, <3>5, FS_Injection
      <3>. QED
        BY <2>2, <3>1, <3>2, <3>5, <3>6
    <2>10. ASSUME NEW i \in I
           PROVE  Cardinality({ q \in (1 .. parallel) \X I :
                                  q[2] <= Len(parts[q[1]]) /\ parts[q[1]][q[2]] = i }) = 1
      <3>. DEFINE C == { q \in (1 .. parallel) \X I : q[2] <= Len(parts[q[1]]) /\ parts[q[1]][q[2]] = i }
      <3>1. PICK p \in 1 .. parallel : \E j \in 1 .. Len(deal[p].items) : deal[p].items[j] = i
        BY <2>6 DEF Spread
      <3>2. PICK j \in 1 .. Len(parts[p]) : parts[p][j] = i
        BY <2>8, <3>1
      <3>3. <<p, j>> \in C
        <4>1. j \in I /\ j <= Len(parts[p])
          BY <2>2, <2>9
        <4>. QED
          BY <3>2, <4>1
      <3>4. ASSUME NEW q \in C PROVE q = <<p, j>>
        <4>1. q = <<q[1], q[2]>> /\ q[1] \in 1 .. parallel /\ q[2] \in I
          OBVIOUS
        <4>2. q[2] \in 1 .. Len(parts[q[1]]) /\ parts[q[1]][q[2]] = i
          BY <2>2, <2>9, <4>1
        <4>3. \A a, b \in 1 .. parallel : \A f \in 1 .. Len(deal[a].items), g \in 1 .. Len(deal[b].items) :
                deal[a].items[f] = deal[b].items[g] => a = b /\ f = g
          BY <2>6 DEF Spread
        <4>4. q[1] = p /\ q[2] = j
          BY <2>8, <3>2, <4>1, <4>2, <4>3
        <4>. QED
          BY <4>1, <4>4
      <3>5. C = {<<p, j>>}
        <4>. HIDE DEF C
        <4>. QED
          BY <3>3, <3>4
      <3>6. Cardinality({<<p, j>>}) = 1
        BY FS_Singleton
      <3>. QED
        BY <3>5, <3>6
    <2>11. /\ meta \in [1 .. Cardinality(Q) -> Q] /\ Cardinality(Q) \in Nat
           /\ \A x \in Q : \E j \in 1 .. Cardinality(Q) : meta[j] = x
      BY <2>5, NumbersInOrder
    <2>. HIDE DEF meta
    <2>12. { parts[1][j] : j \in 1 .. Cardinality(Q) } = Q
      <3>1. Len(meta) = Cardinality(Q)
        BY <2>11
      <3>2. \A j \in 1 .. Cardinality(Q) : parts[1][j] = meta[j]
        BY <2>1, <2>7, <2>8, <3>1 DEF Balanced
      <3>. QED
        BY <2>11, <3>2
    <2>13. ASSUME NEW p \in 1 .. parallel, NEW q \in 1 .. parallel, parts[p] # <<>>
           PROVE  Load(parts[p], size) - size[parts[p][Len(parts[p])]] <= Load(parts[q], size)
      <3>1. Len(parts[p]) # 0
        BY <2>8, <2>13
      <3>2. \A r \in 1 .. parallel : deal[r].bytes = Load(parts[r], size)
        BY <2>7, <2>8 DEF Balanced
      <3>3. deal[p].bytes - size[parts[p][Len(parts[p])]] <= deal[q].bytes
        BY <2>7, <2>8, <3>1 DEF Balanced
      <3>. QED
        BY <3>2, <3>3
    <2>. QED
      BY <2>10, <2>12, <2>13 DEF parts
  <1>. QED
    BY <1>1, ArgumentsAlways, PTL

-----------------------------------------------------------------------------
(***************************************************************************)
(* The parsers.  A state of one has options of the fields F, with values   *)
(* in V.                                                                   *)
(***************************************************************************)
States(F, V) == [is : {"options", "help", "error"}, want : F \cup {None}, opt : [F -> V]]

LEMMA PutState ==
  ASSUME NEW F, NEW V, NEW p \in States(F, V), NEW f \in F, NEW v \in V
  PROVE  /\ Put(p, f, v) \in States(F, V)
         /\ Put(p, f, v).is = p.is /\ Put(p, f, v).want = None
         /\ Put(p, f, v).opt = [p.opt EXCEPT ![f] = v]
  <1>1. [p.opt EXCEPT ![f] = v] \in [F -> V]
    BY DEF States
  <1>. QED
    BY <1>1 DEF Put, States

LEMMA WantState ==
  ASSUME NEW F, NEW V, NEW p \in States(F, V), NEW f \in F
  PROVE  /\ Want(p, f) \in States(F, V)
         /\ Want(p, f).is = p.is /\ Want(p, f).want = f /\ Want(p, f).opt = p.opt
  BY DEF Want, States

LEMMA StopState ==
  ASSUME NEW F, NEW V, NEW p \in States(F, V), NEW is \in {"help", "error"}
  PROVE  /\ Stop(p, is) \in States(F, V)
         /\ Stop(p, is).is = is /\ Stop(p, is).want = p.want /\ Stop(p, is).opt = p.opt
  BY DEF Stop, States

LEMMA FreshState ==
  ASSUME NEW F, NEW V, NEW o \in [F -> V]
  PROVE  /\ Fresh(o) \in States(F, V)
         /\ Fresh(o).is = "options" /\ Fresh(o).want = None /\ Fresh(o).opt = o
  BY DEF Fresh, States

\* The options that the front end writes for the helpers.
HelperWords ==
    FileOptions \cup TestOptions
    \cup {"--send", "--receive", "--auto", "--no-advertise", "--server", "--client"}

\* The values of options: what the programs put there themselves, numbers, and
\* all that a user may type.
Vocabulary(V) ==
    /\ HelperWords \subseteq V
    /\ TRUE \in V /\ FALSE \in V /\ Nat \subseteq V
    /\ None \in V /\ "0.0.0.0" \in V /\ "127.0.0.1" \in V /\ "." \in V /\ Downloads \in V
    /\ DefaultPort \in V /\ DefaultParallel \in V /\ DefaultDiscovery \in V
    /\ DefaultTestPort \in V /\ DefaultSeconds \in V /\ DefaultChunk \in V /\ DefaultBuffer \in V

ReceiveNames == {"host", "port", "output_dir", "parallel", "discovery_port", "advertise"}
SendNames    == {"file", "host", "port", "parallel", "discovery_port", "remote_name"}
TestNames    == {"send", "host", "port", "parallel", "seconds", "chunk_bytes", "socket_buffer_bytes"}
FileNames    == {"send", "receive", "auto_discover", "advertise", "host", "port", "discovery_port",
                 "parallel", "file", "output_dir", "remote_name"}
BenchNames   == {"server", "host", "port", "seconds", "parallel", "socket_buffer_bytes", "chunk_bytes"}

\* What the front end's options can be: words, and one switch.
ReceiveStates(V) ==
    { p \in States(ReceiveNames, V) : p.want # "advertise" /\ p.opt["advertise"] \in BOOLEAN }

LEMMA ReceiveStart ==
  ASSUME NEW V, Vocabulary(V)
  PROVE  Fresh(ReceiveDefaults) \in ReceiveStates(V)
  <1>1. ReceiveDefaults = [f \in ReceiveNames |-> ReceiveDefaults[f]]
    BY DEF ReceiveDefaults, ReceiveNames
  <1>2. ReceiveDefaults.host \in V /\ ReceiveDefaults.port \in V /\ ReceiveDefaults.output_dir \in V
    BY DEF ReceiveDefaults, Vocabulary
  <1>3. ReceiveDefaults.parallel \in V /\ ReceiveDefaults.discovery_port \in V
    BY DEF ReceiveDefaults, Vocabulary
  <1>4. ReceiveDefaults.advertise \in V /\ ReceiveDefaults["advertise"] = TRUE
    BY DEF ReceiveDefaults, Vocabulary
  <1>5. \A f \in ReceiveNames : ReceiveDefaults[f] \in V
    BY <1>2, <1>3, <1>4 DEF ReceiveNames
  <1>6. ReceiveDefaults \in [ReceiveNames -> V]
    BY <1>1, <1>5
  <1>7. /\ Fresh(ReceiveDefaults) \in States(ReceiveNames, V)
        /\ Fresh(ReceiveDefaults).want = None /\ Fresh(ReceiveDefaults).opt = ReceiveDefaults
    BY <1>6, FreshState
  <1>. QED
    BY <1>4, <1>7 DEF ReceiveStates, None

LEMMA ReceiveTurn ==
  ASSUME NEW V, Vocabulary(V), NEW p \in ReceiveStates(V), NEW w \in V
  PROVE  Turn(p, Text(p, w), ReceiveWord(p, w)) \in ReceiveStates(V)
  <1>1. p \in States(ReceiveNames, V) /\ p.want # "advertise" /\ p.opt["advertise"] \in BOOLEAN
    BY DEF ReceiveStates
  <1>2. p.want \in ReceiveNames \cup {None} /\ p.opt \in [ReceiveNames -> V]
    BY <1>1 DEF States
  <1>3. CASE p.is = "options" /\ p.want # None
    <2>1. /\ Put(p, p.want, w) \in States(ReceiveNames, V) /\ Put(p, p.want, w).want = None
          /\ Put(p, p.want, w).opt = [p.opt EXCEPT ![p.want] = w]
      BY <1>1, <1>2, <1>3, PutState
    <2>2. [p.opt EXCEPT ![p.want] = w]["advertise"] = p.opt["advertise"]
      BY <1>1, <1>2 DEF ReceiveNames
    <2>. QED
      BY <1>1, <1>3, <2>1, <2>2 DEF Turn, Text, ReceiveStates, None
  <1>4. CASE p.is = "options" /\ p.want = None
    <2>1. ASSUME w \in ReceiveOptions PROVE Want(p, Field(w)) \in ReceiveStates(V)
      <3>1. Field(w) \in ReceiveNames /\ Field(w) # "advertise"
        BY <2>1 DEF ReceiveOptions, TransferOptions, Field, ReceiveNames
      <3>. QED
        BY <1>1, <3>1, WantState DEF ReceiveStates
    <2>2. Put(p, "advertise", FALSE) \in ReceiveStates(V)
      <3>1. "advertise" \in ReceiveNames
        BY DEF ReceiveNames
      <3>2. /\ Put(p, "advertise", FALSE) \in States(ReceiveNames, V)
            /\ Put(p, "advertise", FALSE).want = None
            /\ Put(p, "advertise", FALSE).opt = [p.opt EXCEPT !["advertise"] = FALSE]
        <4>1. FALSE \in V
          BY DEF Vocabulary
        <4>2. [p.opt EXCEPT !["advertise"] = FALSE] \in [ReceiveNames -> V]
          BY <1>2, <4>1
        <4>. QED
          BY <1>1, <4>2 DEF Put, States
      <3>3. [p.opt EXCEPT !["advertise"] = FALSE]["advertise"] = FALSE
        BY <1>2, <3>1
      <3>. QED
        BY <3>2, <3>3 DEF ReceiveStates, None
    <2>3. \A is \in {"help", "error"} : Stop(p, is) \in ReceiveStates(V)
      BY <1>1, StopState DEF ReceiveStates
    <2>. QED
      BY <1>4, <2>1, <2>2, <2>3 DEF Turn, ReceiveWord
  <1>5. CASE p.is # "options"
    BY <1>5 DEF Turn
  <1>. QED
    BY <1>3, <1>4, <1>5

\* The states of the loop of parse_receive.
ReceiveRun(at, arg, V) ==
    /\ at \in [0 .. Len(arg) -> ReceiveStates(V)]
    /\ at[0] = Fresh(ReceiveDefaults)
    /\ at[Len(arg)] = FoldLeft(LAMBDA p, w : Turn(p, Text(p, w), ReceiveWord(p, w)), Fresh(ReceiveDefaults), arg)
    /\ \A n \in 1 .. Len(arg) : at[n] = Turn(at[n - 1], Text(at[n - 1], arg[n]), ReceiveWord(at[n - 1], arg[n]))

LEMMA ReceiveLoop ==
  ASSUME NEW V, Vocabulary(V), NEW arg \in Seq(V)
  PROVE  \E at : ReceiveRun(at, arg, V)
  <1>. DEFINE N == Len(arg)
              D == ReceiveStates(V)
              base == Fresh(ReceiveDefaults)
              Op(p, w) == Turn(p, Text(p, w), ReceiveWord(p, w))
              G == [x \in D \X (1 .. N) |-> Op(x[1], arg[x[2]])]
              Iter(f) == f = [s \in SUBSET (1 .. N) |->
                                IF s = {} THEN base ELSE Op(f[s \ {Max(s)}], arg[Max(s)])]
              g == CHOOSE f : Iter(f)
  <1>1. N \in Nat /\ DOMAIN arg = 1 .. N /\ \A n \in 1 .. N : arg[n] \in V
    OBVIOUS
  <1>2. FoldLeft(LAMBDA p, w : Turn(p, Text(p, w), ReceiveWord(p, w)), Fresh(ReceiveDefaults), arg)
          = g[1 .. N]
    <2>1. FoldLeft(LAMBDA p, w : Turn(p, Text(p, w), ReceiveWord(p, w)), Fresh(ReceiveDefaults), arg)
            = g[DOMAIN arg]
      BY <1>1 DEF FoldLeft, MapThenFoldSet
    <2>. QED
      BY <1>1, <2>1
  <1>. HIDE DEF base, Op
  <1>3. base \in D /\ \A p \in D : \A n \in 1 .. N : Op(p, arg[n]) \in D
    <2>1. base \in D
      BY ReceiveStart DEF base
    <2>2. ASSUME NEW p \in D, NEW n \in 1 .. N PROVE Op(p, arg[n]) \in D
      BY <1>1, ReceiveTurn DEF Op
    <2>. QED
      BY <2>1, <2>2
  <1>4. G \in [D \X (1 .. N) -> D]
    <2>. HIDE DEF D, N
    <2>1. \A x \in D \X (1 .. N) : Op(x[1], arg[x[2]]) \in D
      BY <1>3
    <2>. QED
      BY <2>1
  <1>. HIDE DEF D
  <1>5. PICK f : Recurs(f, N, D, base, G)
    <2>. HIDE DEF G, N
    <2>. QED
      BY <1>1, <1>3, <1>4, FoldRuns
  <1>6. Iter(f)
    <2>1. \A s \in SUBSET (1 .. N) :
            f[s] = IF s = {} THEN base ELSE Op(f[s \ {Max(s)}], arg[Max(s)])
      <3>. SUFFICES ASSUME NEW s \in SUBSET (1 .. N), s # {}
                    PROVE  G[<<f[s \ {Max(s)}], Max(s)>>] = Op(f[s \ {Max(s)}], arg[Max(s)])
        BY <1>5 DEF Recurs
      <3>1. Max(s) \in 1 .. N
        BY <1>1, MaxIndex
      <3>2. f[s \ {Max(s)}] \in D
        BY <1>5 DEF Recurs
      <3>. QED
        BY <3>1, <3>2
    <2>2. f = [s \in SUBSET (1 .. N) |-> f[s]]
      BY <1>5 DEF Recurs
    <2>. QED
      BY <2>1, <2>2
  <1>7. Iter(g)
    <2>. HIDE DEF Iter
    <2>. QED
      BY <1>6
  <1>. HIDE DEF g
  <1>8. g[{}] = base
    BY <1>7
  <1>9. ASSUME NEW n \in 1 .. N, g[1 .. n - 1] \in D
        PROVE  g[1 .. n] = G[<<g[1 .. n - 1], n>>]
    <2>1. 1 .. n \in SUBSET (1 .. N) /\ n \in Nat \ {0}
      BY <1>1
    <2>2. Max(1 .. n) = n /\ (1 .. n) \ {n} = 1 .. n - 1 /\ 1 .. n # {}
      BY <2>1, LastIndex
    <2>3. g[1 .. n] = Op(g[1 .. n - 1], arg[n])
      BY <1>7, <2>1, <2>2
    <2>. QED
      BY <1>9, <2>3
  <1>. DEFINE at == [n \in 0 .. N |-> g[1 .. n]]
  <1>10. Steps(at, N, D, base, G) /\ at[N] = g[1 .. N]
    <2>1. Iterates(g, N, D, base, G)
      BY <1>8, <1>9 DEF Iterates
    <2>2. at[N] = g[1 .. N]
      BY <1>1
    <2>. HIDE DEF G, N
    <2>3. Steps(at, N, D, base, G)
      BY <1>1, <1>3, <1>4, <2>1, FoldStates
    <2>. QED
      BY <2>2, <2>3
  <1>. HIDE DEF at
  <1>11. \A n \in 1 .. N : at[n] = Op(at[n - 1], arg[n])
    <2>1. \A n \in 1 .. N : n - 1 \in 0 .. N /\ at[n - 1] \in D
      BY <1>1, <1>10 DEF Steps
    <2>2. ASSUME NEW n \in 1 .. N PROVE at[n] = Op(at[n - 1], arg[n])
      <3>1. at[n] = G[<<at[n - 1], n>>] /\ at[n - 1] \in D
        BY <1>10, <2>1 DEF Steps
      <3>. QED
        BY <3>1
    <2>. QED
      BY <2>2
  <1>12. ReceiveRun(at, arg, V)
    BY <1>2, <1>10, <1>11 DEF Steps, ReceiveRun, D, base, Op
  <1>. QED
    BY <1>12

SendStates(V) == States(SendNames, V)

LEMMA SendStart ==
  ASSUME NEW V, Vocabulary(V)
  PROVE  Fresh(SendDefaults) \in SendStates(V)
  <1>1. SendDefaults = [f \in SendNames |-> SendDefaults[f]]
    BY DEF SendDefaults, SendNames
  <1>2. SendDefaults.file \in V /\ SendDefaults.host \in V /\ SendDefaults.port \in V
    BY DEF SendDefaults, Vocabulary
  <1>3. SendDefaults.parallel \in V /\ SendDefaults.discovery_port \in V /\ SendDefaults.remote_name \in V
    BY DEF SendDefaults, Vocabulary
  <1>4. \A f \in SendNames : SendDefaults[f] \in V
    BY <1>2, <1>3 DEF SendNames
  <1>5. SendDefaults \in [SendNames -> V]
    BY <1>1, <1>4
  <1>. QED
    BY <1>5, FreshState DEF SendStates

LEMMA SendTurn ==
  ASSUME NEW V, Vocabulary(V), NEW p \in SendStates(V), NEW w \in V
  PROVE  Turn(p, Text(p, w), SendWord(p, w)) \in SendStates(V)
  <1>1. p \in States(SendNames, V) /\ p.want \in SendNames \cup {None}
    BY DEF SendStates, States
  <1>2. CASE p.is = "options" /\ p.want # None
    <2>1. Put(p, p.want, w) \in States(SendNames, V)
      BY <1>1, <1>2, PutState
    <2>. QED
      BY <1>2, <2>1 DEF Turn, Text, SendStates
  <1>3. CASE p.is = "options" /\ p.want = None
    <2>1. ASSUME w \in SendOptions PROVE Want(p, Field(w)) \in States(SendNames, V)
      <3>1. Field(w) \in SendNames
        BY <2>1 DEF SendOptions, TransferOptions, Field, SendNames
      <3>. QED
        BY <1>1, <3>1, WantState
    <2>2. Put(p, "file", w) \in States(SendNames, V)
      <3>1. "file" \in SendNames
        BY DEF SendNames
      <3>. QED
        BY <1>1, <3>1, PutState
    <2>3. \A is \in {"help", "error"} : Stop(p, is) \in States(SendNames, V)
      BY <1>1, StopState
    <2>. QED
      BY <1>3, <2>1, <2>2, <2>3 DEF Turn, SendWord, SendStates
  <1>4. CASE p.is # "options"
    BY <1>4 DEF Turn
  <1>. QED
    BY <1>2, <1>3, <1>4

\* The states of the loop of parse_send.
SendRun(at, arg, V) ==
    /\ at \in [0 .. Len(arg) -> SendStates(V)]
    /\ at[0] = Fresh(SendDefaults)
    /\ at[Len(arg)] = FoldLeft(LAMBDA p, w : Turn(p, Text(p, w), SendWord(p, w)), Fresh(SendDefaults), arg)
    /\ \A n \in 1 .. Len(arg) : at[n] = Turn(at[n - 1], Text(at[n - 1], arg[n]), SendWord(at[n - 1], arg[n]))

LEMMA SendLoop ==
  ASSUME NEW V, Vocabulary(V), NEW arg \in Seq(V)
  PROVE  \E at : SendRun(at, arg, V)
  <1>. DEFINE N == Len(arg)
              D == SendStates(V)
              base == Fresh(SendDefaults)
              Op(p, w) == Turn(p, Text(p, w), SendWord(p, w))
              G == [x \in D \X (1 .. N) |-> Op(x[1], arg[x[2]])]
              Iter(f) == f = [s \in SUBSET (1 .. N) |->
                                IF s = {} THEN base ELSE Op(f[s \ {Max(s)}], arg[Max(s)])]
              g == CHOOSE f : Iter(f)
  <1>1. N \in Nat /\ DOMAIN arg = 1 .. N /\ \A n \in 1 .. N : arg[n] \in V
    OBVIOUS
  <1>2. FoldLeft(LAMBDA p, w : Turn(p, Text(p, w), SendWord(p, w)), Fresh(SendDefaults), arg)
          = g[1 .. N]
    <2>1. FoldLeft(LAMBDA p, w : Turn(p, Text(p, w), SendWord(p, w)), Fresh(SendDefaults), arg)
            = g[DOMAIN arg]
      BY <1>1 DEF FoldLeft, MapThenFoldSet
    <2>. QED
      BY <1>1, <2>1
  <1>. HIDE DEF base, Op
  <1>3. base \in D /\ \A p \in D : \A n \in 1 .. N : Op(p, arg[n]) \in D
    <2>1. base \in D
      BY SendStart DEF base
    <2>2. ASSUME NEW p \in D, NEW n \in 1 .. N PROVE Op(p, arg[n]) \in D
      BY <1>1, SendTurn DEF Op
    <2>. QED
      BY <2>1, <2>2
  <1>4. G \in [D \X (1 .. N) -> D]
    <2>. HIDE DEF D, N
    <2>1. \A x \in D \X (1 .. N) : Op(x[1], arg[x[2]]) \in D
      BY <1>3
    <2>. QED
      BY <2>1
  <1>. HIDE DEF D
  <1>5. PICK f : Recurs(f, N, D, base, G)
    <2>. HIDE DEF G, N
    <2>. QED
      BY <1>1, <1>3, <1>4, FoldRuns
  <1>6. Iter(f)
    <2>1. \A s \in SUBSET (1 .. N) :
            f[s] = IF s = {} THEN base ELSE Op(f[s \ {Max(s)}], arg[Max(s)])
      <3>. SUFFICES ASSUME NEW s \in SUBSET (1 .. N), s # {}
                    PROVE  G[<<f[s \ {Max(s)}], Max(s)>>] = Op(f[s \ {Max(s)}], arg[Max(s)])
        BY <1>5 DEF Recurs
      <3>1. Max(s) \in 1 .. N
        BY <1>1, MaxIndex
      <3>2. f[s \ {Max(s)}] \in D
        BY <1>5 DEF Recurs
      <3>. QED
        BY <3>1, <3>2
    <2>2. f = [s \in SUBSET (1 .. N) |-> f[s]]
      BY <1>5 DEF Recurs
    <2>. QED
      BY <2>1, <2>2
  <1>7. Iter(g)
    <2>. HIDE DEF Iter
    <2>. QED
      BY <1>6
  <1>. HIDE DEF g
  <1>8. g[{}] = base
    BY <1>7
  <1>9. ASSUME NEW n \in 1 .. N, g[1 .. n - 1] \in D
        PROVE  g[1 .. n] = G[<<g[1 .. n - 1], n>>]
    <2>1. 1 .. n \in SUBSET (1 .. N) /\ n \in Nat \ {0}
      BY <1>1
    <2>2. Max(1 .. n) = n /\ (1 .. n) \ {n} = 1 .. n - 1 /\ 1 .. n # {}
      BY <2>1, LastIndex
    <2>3. g[1 .. n] = Op(g[1 .. n - 1], arg[n])
      BY <1>7, <2>1, <2>2
    <2>. QED
      BY <1>9, <2>3
  <1>. DEFINE at == [n \in 0 .. N |-> g[1 .. n]]
  <1>10. Steps(at, N, D, base, G) /\ at[N] = g[1 .. N]
    <2>1. Iterates(g, N, D, base, G)
      BY <1>8, <1>9 DEF Iterates
    <2>2. at[N] = g[1 .. N]
      BY <1>1
    <2>. HIDE DEF G, N
    <2>3. Steps(at, N, D, base, G)
      BY <1>1, <1>3, <1>4, <2>1, FoldStates
    <2>. QED
      BY <2>2, <2>3
  <1>. HIDE DEF at
  <1>11. \A n \in 1 .. N : at[n] = Op(at[n - 1], arg[n])
    <2>1. \A n \in 1 .. N : n - 1 \in 0 .. N /\ at[n - 1] \in D
      BY <1>1, <1>10 DEF Steps
    <2>2. ASSUME NEW n \in 1 .. N PROVE at[n] = Op(at[n - 1], arg[n])
      <3>1. at[n] = G[<<at[n - 1], n>>] /\ at[n - 1] \in D
        BY <1>10, <2>1 DEF Steps
      <3>. QED
        BY <3>1
    <2>. QED
      BY <2>2
  <1>12. SendRun(at, arg, V)
    BY <1>2, <1>10, <1>11 DEF Steps, SendRun, D, base, Op
  <1>. QED
    BY <1>12

TestStates(V, send) ==
    { p \in States(TestNames, V) : p.want # "send" /\ p.opt["send"] = send }

LEMMA TestStart ==
  ASSUME NEW V, Vocabulary(V), NEW send \in BOOLEAN
  PROVE  Fresh(TestDefaults(send)) \in TestStates(V, send)
  <1>. DEFINE d == TestDefaults(send)
  <1>1. d = [f \in TestNames |-> d[f]]
    BY DEF TestDefaults, TestNames
  <1>2. d.host \in V /\ d.port \in V /\ d.parallel \in V
    BY DEF TestDefaults, Vocabulary
  <1>3. d.seconds \in V /\ d.chunk_bytes \in V /\ d.socket_buffer_bytes \in V
    BY DEF TestDefaults, Vocabulary
  <1>4. d["send"] = send
    BY DEF TestDefaults
  <1>5. send \in V
    BY DEF Vocabulary
  <1>. HIDE DEF d
  <1>6. \A f \in TestNames : d[f] \in V
    BY <1>2, <1>3, <1>4, <1>5 DEF TestNames
  <1>7. d \in [TestNames -> V]
    BY <1>1, <1>6
  <1>8. Fresh(d) \in States(TestNames, V) /\ Fresh(d).want = None /\ Fresh(d).opt = d
    BY <1>7, FreshState
  <1>. QED
    BY <1>4, <1>8 DEF TestStates, None, d

LEMMA TestTurn ==
  ASSUME NEW V, Vocabulary(V), NEW send \in BOOLEAN, NEW p \in TestStates(V, send), NEW w \in V
  PROVE  Turn(p, Text(p, w), TestWord(p, w)) \in TestStates(V, send)
  <1>1. p \in States(TestNames, V) /\ p.want # "send" /\ p.opt["send"] = send
    BY DEF TestStates
  <1>2. p.want \in TestNames \cup {None} /\ p.opt \in [TestNames -> V]
    BY <1>1 DEF States
  <1>3. ASSUME NEW f \in TestNames, f # "send" PROVE Put(p, f, w) \in TestStates(V, send)
    <2>1. /\ Put(p, f, w) \in States(TestNames, V) /\ Put(p, f, w).want = None
          /\ Put(p, f, w).opt = [p.opt EXCEPT ![f] = w]
      BY <1>1, PutState
    <2>2. [p.opt EXCEPT ![f] = w]["send"] = p.opt["send"]
      BY <1>2, <1>3 DEF TestNames
    <2>. QED
      BY <1>1, <2>1, <2>2 DEF TestStates, None
  <1>4. CASE p.is = "options" /\ p.want # None
    BY <1>1, <1>2, <1>3, <1>4 DEF Turn, Text
  <1>5. CASE p.is = "options" /\ p.want = None
    <2>1. ASSUME w \in TestOptions PROVE Want(p, Field(w)) \in TestStates(V, send)
      <3>1. Field(w) \in TestNames /\ Field(w) # "send"
        BY <2>1 DEF TestOptions, Field, TestNames
      <3>. QED
        BY <1>1, <3>1, WantState DEF TestStates
    <2>2. Put(p, "host", w) \in TestStates(V, send)
      <3>1. "host" \in TestNames /\ "host" # "send"
        BY DEF TestNames
      <3>. QED
        BY <1>3, <3>1
    <2>3. \A is \in {"help", "error"} : Stop(p, is) \in TestStates(V, send)
      BY <1>1, StopState DEF TestStates
    <2>. QED
      BY <1>5, <2>1, <2>2, <2>3 DEF Turn, TestWord
  <1>6. CASE p.is # "options"
    BY <1>6 DEF Turn
  <1>. QED
    BY <1>4, <1>5, <1>6

\* The states of the loop of parse_test.
TestRun(at, arg, V, send) ==
    /\ at \in [0 .. Len(arg) -> TestStates(V, send)]
    /\ at[0] = Fresh(TestDefaults(send))
    /\ at[Len(arg)] = FoldLeft(LAMBDA p, w : Turn(p, Text(p, w), TestWord(p, w)), Fresh(TestDefaults(send)), arg)
    /\ \A n \in 1 .. Len(arg) : at[n] = Turn(at[n - 1], Text(at[n - 1], arg[n]), TestWord(at[n - 1], arg[n]))

LEMMA TestLoop ==
  ASSUME NEW V, Vocabulary(V), NEW send \in BOOLEAN, NEW arg \in Seq(V)
  PROVE  \E at : TestRun(at, arg, V, send)
  <1>. DEFINE N == Len(arg)
              D == TestStates(V, send)
              base == Fresh(TestDefaults(send))
              Op(p, w) == Turn(p, Text(p, w), TestWord(p, w))
              G == [x \in D \X (1 .. N) |-> Op(x[1], arg[x[2]])]
              Iter(f) == f = [s \in SUBSET (1 .. N) |->
                                IF s = {} THEN base ELSE Op(f[s \ {Max(s)}], arg[Max(s)])]
              g == CHOOSE f : Iter(f)
  <1>1. N \in Nat /\ DOMAIN arg = 1 .. N /\ \A n \in 1 .. N : arg[n] \in V
    OBVIOUS
  <1>2. FoldLeft(LAMBDA p, w : Turn(p, Text(p, w), TestWord(p, w)), Fresh(TestDefaults(send)), arg)
          = g[1 .. N]
    <2>1. FoldLeft(LAMBDA p, w : Turn(p, Text(p, w), TestWord(p, w)), Fresh(TestDefaults(send)), arg)
            = g[DOMAIN arg]
      BY <1>1 DEF FoldLeft, MapThenFoldSet
    <2>. QED
      BY <1>1, <2>1
  <1>. HIDE DEF base, Op
  <1>3. base \in D /\ \A p \in D : \A n \in 1 .. N : Op(p, arg[n]) \in D
    <2>1. base \in D
      BY TestStart DEF base
    <2>2. ASSUME NEW p \in D, NEW n \in 1 .. N PROVE Op(p, arg[n]) \in D
      BY <1>1, TestTurn DEF Op
    <2>. QED
      BY <2>1, <2>2
  <1>4. G \in [D \X (1 .. N) -> D]
    <2>. HIDE DEF D, N
    <2>1. \A x \in D \X (1 .. N) : Op(x[1], arg[x[2]]) \in D
      BY <1>3
    <2>. QED
      BY <2>1
  <1>. HIDE DEF D
  <1>5. PICK f : Recurs(f, N, D, base, G)
    <2>. HIDE DEF G, N
    <2>. QED
      BY <1>1, <1>3, <1>4, FoldRuns
  <1>6. Iter(f)
    <2>1. \A s \in SUBSET (1 .. N) :
            f[s] = IF s = {} THEN base ELSE Op(f[s \ {Max(s)}], arg[Max(s)])
      <3>. SUFFICES ASSUME NEW s \in SUBSET (1 .. N), s # {}
                    PROVE  G[<<f[s \ {Max(s)}], Max(s)>>] = Op(f[s \ {Max(s)}], arg[Max(s)])
        BY <1>5 DEF Recurs
      <3>1. Max(s) \in 1 .. N
        BY <1>1, MaxIndex
      <3>2. f[s \ {Max(s)}] \in D
        BY <1>5 DEF Recurs
      <3>. QED
        BY <3>1, <3>2
    <2>2. f = [s \in SUBSET (1 .. N) |-> f[s]]
      BY <1>5 DEF Recurs
    <2>. QED
      BY <2>1, <2>2
  <1>7. Iter(g)
    <2>. HIDE DEF Iter
    <2>. QED
      BY <1>6
  <1>. HIDE DEF g
  <1>8. g[{}] = base
    BY <1>7
  <1>9. ASSUME NEW n \in 1 .. N, g[1 .. n - 1] \in D
        PROVE  g[1 .. n] = G[<<g[1 .. n - 1], n>>]
    <2>1. 1 .. n \in SUBSET (1 .. N) /\ n \in Nat \ {0}
      BY <1>1
    <2>2. Max(1 .. n) = n /\ (1 .. n) \ {n} = 1 .. n - 1 /\ 1 .. n # {}
      BY <2>1, LastIndex
    <2>3. g[1 .. n] = Op(g[1 .. n - 1], arg[n])
      BY <1>7, <2>1, <2>2
    <2>. QED
      BY <1>9, <2>3
  <1>. DEFINE at == [n \in 0 .. N |-> g[1 .. n]]
  <1>10. Steps(at, N, D, base, G) /\ at[N] = g[1 .. N]
    <2>1. Iterates(g, N, D, base, G)
      BY <1>8, <1>9 DEF Iterates
    <2>2. at[N] = g[1 .. N]
      BY <1>1
    <2>. HIDE DEF G, N
    <2>3. Steps(at, N, D, base, G)
      BY <1>1, <1>3, <1>4, <2>1, FoldStates
    <2>. QED
      BY <2>2, <2>3
  <1>. HIDE DEF at
  <1>11. \A n \in 1 .. N : at[n] = Op(at[n - 1], arg[n])
    <2>1. \A n \in 1 .. N : n - 1 \in 0 .. N /\ at[n - 1] \in D
      BY <1>1, <1>10 DEF Steps
    <2>2. ASSUME NEW n \in 1 .. N PROVE at[n] = Op(at[n - 1], arg[n])
      <3>1. at[n] = G[<<at[n - 1], n>>] /\ at[n - 1] \in D
        BY <1>10, <2>1 DEF Steps
      <3>. QED
        BY <3>1
    <2>. QED
      BY <2>2
  <1>12. TestRun(at, arg, V, send)
    BY <1>2, <1>10, <1>11 DEF Steps, TestRun, D, base, Op
  <1>. QED
    BY <1>12

-----------------------------------------------------------------------------
(***************************************************************************)
(* hyperlink_file reads each value as what it means, or stops.             *)
(***************************************************************************)
\* How the helpers read a word: some of the numbers are narrowed.
ReadAs(field, w) ==
    CASE field \in {"port", "discovery_port", "chunk_bytes"} -> Number[w]
      [] field \in {"parallel", "seconds", "socket_buffer_bytes"} -> Narrow(Number[w])
      [] OTHER -> w

IsCount(w)    == IsNumber(w) /\ Narrow(Number[w]) > 0
FitRead(p, n) == Number[p] + Narrow(Number[n]) - 1 <= MaxPort

\* The last port, computed in 32 bits, wraps around to a small number.
Wraps(p, n)   == Number[p] + Narrow(Number[n]) - 1 >= WordSize

\* What parse_args requires of the word for a field.
FileOk(f, w) ==
    /\ f \in {"port", "discovery_port"} => IsPort(w)
    /\ f = "parallel" => IsCount(w)

FileValued == {"host", "port", "parallel", "discovery_port", "output_dir", "remote_name", "file"}

LEMMA NarrowType == ASSUME NEW n \in Nat PROVE Narrow(n) \in Nat
  <1>1. WordSize \in Nat \ {0}
    BY WordSizeAssumption, MaxPortAssumption
  <1>. QED
    BY <1>1, DivMod DEF Narrow

LEMMA FileValueReads ==
  ASSUME NEW V, Vocabulary(V), NEW p, NEW w \in V, p.want \in FileValued
  PROVE  /\ FileValue(p, w) = IF FileOk(p.want, w) THEN Put(p, p.want, ReadAs(p.want, w))
                              ELSE Stop(p, "error")
         /\ FileOk(p.want, w) => ReadAs(p.want, w) \in V
  <1>1. ASSUME IsNumber(w)
        PROVE  /\ Number[w] \in Nat /\ Number[w] \in V
               /\ Narrow(Number[w]) \in Nat /\ Narrow(Number[w]) \in V
    BY <1>1, NumberAssumption, NarrowType DEF IsNumber, Vocabulary
  <1>2. CASE p.want \in {"port", "discovery_port"}
    <2>1. /\ FileValue(p, w) = parse_port(p, w) /\ ReadAs(p.want, w) = Number[w]
          /\ FileOk(p.want, w) <=> IsPort(w)
      BY <1>2 DEF FileValue, ReadAs, FileOk
    <2>. QED
      BY <1>1, <2>1 DEF parse_port, IsPort, IsNumber
  <1>3. CASE p.want = "parallel"
    <2>1. /\ FileValue(p, w) = PositiveWord(p, w) /\ ReadAs(p.want, w) = Narrow(Number[w])
          /\ FileOk(p.want, w) <=> IsCount(w)
      BY <1>3 DEF FileValue, ReadAs, FileOk
    <2>. QED
      BY <1>1, <2>1 DEF PositiveWord, IsCount, IsNumber
  <1>4. CASE p.want \in {"host", "output_dir", "remote_name", "file"}
    <2>1. FileValue(p, w) = Text(p, w) /\ ReadAs(p.want, w) = w /\ FileOk(p.want, w)
      BY <1>4 DEF FileValue, ReadAs, FileOk
    <2>. QED
      BY <2>1 DEF Text
  <1>. QED
    BY <1>2, <1>3, <1>4 DEF FileValued

FileStates(V) == { p \in States(FileNames, V) : p.want \in FileValued \cup {None} }

LEMMA FileStart ==
  ASSUME NEW V, Vocabulary(V), NEW arg
  PROVE  /\ FileDefaults \in [FileNames -> V]
         /\ Fresh(FileDefaults) \in FileStates(V)
  <1>. DEFINE d == FileDefaults
  <1>1. d = [f \in FileNames |-> d[f]]
    BY DEF FileDefaults, FileNames
  <1>2. d.send \in V /\ d.receive \in V /\ d.auto_discover \in V /\ d.advertise \in V
    BY DEF FileDefaults, Vocabulary
  <1>3. d.host \in V /\ d.file \in V /\ d.output_dir \in V /\ d.remote_name \in V
    BY DEF FileDefaults, Vocabulary
  <1>4. d.port \in V /\ d.discovery_port \in V /\ d.parallel \in V
    <2>1. Number[DefaultPort] \in Nat /\ Number[DefaultDiscovery] \in Nat /\ 1 \in Nat
      BY DefaultsAssumption, NumberAssumption
    <2>. QED
      BY <2>1 DEF FileDefaults, Vocabulary
  <1>. HIDE DEF d
  <1>5. \A f \in FileNames : d[f] \in V
    BY <1>2, <1>3, <1>4 DEF FileNames
  <1>6. d \in [FileNames -> V]
    BY <1>1, <1>5
  <1>7. Fresh(d) \in States(FileNames, V) /\ Fresh(d).want = None
    BY <1>6, FreshState
  <1>. QED
    BY <1>6, <1>7 DEF FileStates, d

\* Two fields at once, a switch and the host.
Switch(p, f, h) == Put(Put(p, f, TRUE), "host", h)

Switched(q, p, f, h, F, V) ==
    /\ q \in States(F, V) /\ q.is = p.is /\ q.want = None
    /\ \A g \in F : q.opt[g] = IF g = "host" THEN h ELSE IF g = f THEN TRUE ELSE p.opt[g]

LEMMA SwitchState ==
  ASSUME NEW V, Vocabulary(V), NEW F, "host" \in F, NEW p \in States(F, V), NEW f \in F, NEW h \in V
  PROVE  Switched(Switch(p, f, h), p, f, h, F, V)
  <1>1. p.opt \in [F -> V] /\ TRUE \in V
    BY DEF States, Vocabulary
  <1>2. [p.opt EXCEPT ![f] = TRUE] \in [F -> V]
    BY <1>1
  <1>3. /\ Put(p, f, TRUE) \in States(F, V) /\ Put(p, f, TRUE).is = p.is
        /\ Put(p, f, TRUE).opt = [p.opt EXCEPT ![f] = TRUE]
    BY <1>2 DEF Put, States
  <1>. DEFINE q == Put(p, f, TRUE)
  <1>4. /\ Put(q, "host", h) \in States(F, V) /\ Put(q, "host", h).is = q.is
        /\ Put(q, "host", h).want = None /\ Put(q, "host", h).opt = [q.opt EXCEPT !["host"] = h]
    <2>1. q \in States(F, V)
      BY <1>3
    <2>. HIDE DEF q
    <2>. QED
      BY <2>1, PutState
  <1>5. /\ Switch(p, f, h) \in States(F, V)
        /\ Switch(p, f, h).is = p.is /\ Switch(p, f, h).want = None
        /\ Switch(p, f, h).opt = [[p.opt EXCEPT ![f] = TRUE] EXCEPT !["host"] = h]
    BY <1>3, <1>4 DEF Switch
  <1>6. \A g \in F : Switch(p, f, h).opt[g] = IF g = "host" THEN h ELSE
                                            IF g = f THEN TRUE ELSE p.opt[g]
    BY <1>1, <1>2, <1>5
  <1>. QED
    BY <1>5, <1>6 DEF Switched

\* One turn of the loop of parse_args.
FileStep(p, w) == Turn(p, FileValue(p, w), FileWord(p, w))

LEMMA FileTurn ==
  ASSUME NEW V, Vocabulary(V), NEW p \in FileStates(V), NEW w \in V
  PROVE  FileStep(p, w) \in FileStates(V)
  <1>. USE DEF FileStep
  <1>1. p \in States(FileNames, V) /\ p.want \in FileValued \cup {None} /\ p.opt \in [FileNames -> V]
    BY DEF FileStates, States
  <1>2. FileValued \subseteq FileNames /\ {"send", "receive", "auto_discover", "host", "advertise"} \subseteq FileNames
    BY DEF FileValued, FileNames
  <1>3. None \in V /\ "127.0.0.1" \in V /\ "0.0.0.0" \in V /\ TRUE \in V /\ FALSE \in V
    BY DEF Vocabulary
  <1>4. \A is \in {"help", "error"} : Stop(p, is) \in FileStates(V)
    BY <1>1, StopState DEF FileStates
  <1>5. CASE p.is = "options" /\ p.want # None
    <2>1. /\ FileValue(p, w) = IF FileOk(p.want, w) THEN Put(p, p.want, ReadAs(p.want, w))
                               ELSE Stop(p, "error")
          /\ FileOk(p.want, w) => ReadAs(p.want, w) \in V
      BY <1>1, <1>5, FileValueReads
    <2>2. ASSUME NEW v \in V PROVE Put(p, p.want, v) \in FileStates(V)
      <3>1. PICK f \in FileNames : f = p.want
        BY <1>1, <1>2, <1>5
      <3>2. /\ Put(p, f, v) \in States(FileNames, V) /\ Put(p, f, v).want = None
            /\ Put(p, f, v).opt = [p.opt EXCEPT ![f] = v]
        BY <1>1, PutState
      <3>. QED
        BY <3>1, <3>2 DEF FileStates
    <2>. QED
      BY <1>4, <1>5, <2>1, <2>2 DEF Turn
  <1>6. CASE p.is = "options" /\ p.want = None
    <2>1. ASSUME w \in FileOptions PROVE Want(p, Field(w)) \in FileStates(V)
      <3>1. Field(w) \in FileValued
        BY <2>1 DEF FileOptions, SendOptions, ReceiveOptions, TransferOptions, Field, FileValued
      <3>2. Field(w) \in FileNames
        BY <1>2, <3>1
      <3>3. Want(p, Field(w)) \in States(FileNames, V) /\ Want(p, Field(w)).want = Field(w)
        BY <1>1, <3>2, WantState
      <3>. QED
        BY <3>1, <3>3 DEF FileStates
    <2>2. ASSUME NEW f \in {"send", "receive", "auto_discover"}, NEW h \in V
          PROVE  Switch(p, f, h) \in FileStates(V)
      <3>1. f \in FileNames /\ "host" \in FileNames /\ p \in States(FileNames, V)
        BY <1>1, <1>2
      <3>2. Switched(Switch(p, f, h), p, f, h, FileNames, V)
        BY <3>1, SwitchState
      <3>. QED
        BY <3>2 DEF FileStates, Switched
    <2>3. Put(p, "advertise", FALSE) \in FileStates(V)
      <3>1. [p.opt EXCEPT !["advertise"] = FALSE] \in [FileNames -> V]
        BY <1>1, <1>2, <1>3
      <3>. QED
        BY <1>1, <3>1 DEF Put, States, FileStates
    <2>4. Put(Put(p, "send", TRUE), "host", "127.0.0.1") \in FileStates(V)
      BY <1>3, <2>2 DEF Switch
    <2>5. Put(Put(p, "receive", TRUE), "host", "0.0.0.0") \in FileStates(V)
      BY <1>3, <2>2 DEF Switch
    <2>6. Put(Put(p, "auto_discover", TRUE), "host", None) \in FileStates(V)
      BY <1>3, <2>2 DEF Switch
    <2>. QED
      BY <1>4, <1>6, <2>1, <2>3, <2>4, <2>5, <2>6 DEF Turn, FileWord
  <1>7. CASE p.is # "options"
    BY <1>7 DEF Turn
  <1>. QED
    BY <1>5, <1>6, <1>7

\* The states of the loop of parse_args.
FileRun(at, arg, V) ==
    /\ at \in [0 .. Len(arg) -> FileStates(V)]
    /\ at[0] = Fresh(FileDefaults)
    /\ at[Len(arg)] = FoldLeft(LAMBDA q, w : Turn(q, FileValue(q, w), FileWord(q, w)), Fresh(FileDefaults), arg)
    /\ \A n \in 1 .. Len(arg) : at[n] = FileStep(at[n - 1], arg[n])

LEMMA FileLoop ==
  ASSUME NEW V, Vocabulary(V), NEW arg \in Seq(V)
  PROVE  \E at : FileRun(at, arg, V)
  <1>. DEFINE N == Len(arg)
              D == FileStates(V)
              base == Fresh(FileDefaults)
              Op(p, w) == FileStep(p, w)
              G == [x \in D \X (1 .. N) |-> Op(x[1], arg[x[2]])]
              Iter(f) == f = [s \in SUBSET (1 .. N) |->
                                IF s = {} THEN base ELSE Op(f[s \ {Max(s)}], arg[Max(s)])]
              g == CHOOSE f : Iter(f)
  <1>1. N \in Nat /\ DOMAIN arg = 1 .. N /\ \A n \in 1 .. N : arg[n] \in V
    OBVIOUS
  <1>2. FoldLeft(LAMBDA q, w : Turn(q, FileValue(q, w), FileWord(q, w)), Fresh(FileDefaults), arg)
          = g[1 .. N]
    <2>1. FoldLeft(LAMBDA q, w : Turn(q, FileValue(q, w), FileWord(q, w)), Fresh(FileDefaults), arg)
            = g[DOMAIN arg]
      BY <1>1 DEF FoldLeft, MapThenFoldSet, FileStep
    <2>. QED
      BY <1>1, <2>1
  <1>. HIDE DEF base, Op
  <1>3. base \in D /\ \A p \in D : \A n \in 1 .. N : Op(p, arg[n]) \in D
    <2>1. base \in D
      BY FileStart DEF base
    <2>2. ASSUME NEW p \in D, NEW n \in 1 .. N PROVE Op(p, arg[n]) \in D
      BY <1>1, FileTurn DEF Op
    <2>. QED
      BY <2>1, <2>2
  <1>4. G \in [D \X (1 .. N) -> D]
    <2>. HIDE DEF D, N
    <2>1. \A x \in D \X (1 .. N) : Op(x[1], arg[x[2]]) \in D
      BY <1>3
    <2>. QED
      BY <2>1
  <1>. HIDE DEF D
  <1>5. PICK f : Recurs(f, N, D, base, G)
    <2>. HIDE DEF G, N
    <2>. QED
      BY <1>1, <1>3, <1>4, FoldRuns
  <1>6. Iter(f)
    <2>1. \A s \in SUBSET (1 .. N) :
            f[s] = IF s = {} THEN base ELSE Op(f[s \ {Max(s)}], arg[Max(s)])
      <3>. SUFFICES ASSUME NEW s \in SUBSET (1 .. N), s # {}
                    PROVE  G[<<f[s \ {Max(s)}], Max(s)>>] = Op(f[s \ {Max(s)}], arg[Max(s)])
        BY <1>5 DEF Recurs
      <3>1. Max(s) \in 1 .. N
        BY <1>1, MaxIndex
      <3>2. f[s \ {Max(s)}] \in D
        BY <1>5 DEF Recurs
      <3>. QED
        BY <3>1, <3>2
    <2>2. f = [s \in SUBSET (1 .. N) |-> f[s]]
      BY <1>5 DEF Recurs
    <2>. QED
      BY <2>1, <2>2
  <1>7. Iter(g)
    <2>. HIDE DEF Iter
    <2>. QED
      BY <1>6
  <1>. HIDE DEF g
  <1>8. g[{}] = base
    BY <1>7
  <1>9. ASSUME NEW n \in 1 .. N, g[1 .. n - 1] \in D
        PROVE  g[1 .. n] = G[<<g[1 .. n - 1], n>>]
    <2>1. 1 .. n \in SUBSET (1 .. N) /\ n \in Nat \ {0}
      BY <1>1
    <2>2. Max(1 .. n) = n /\ (1 .. n) \ {n} = 1 .. n - 1 /\ 1 .. n # {}
      BY <2>1, LastIndex
    <2>3. g[1 .. n] = Op(g[1 .. n - 1], arg[n])
      BY <1>7, <2>1, <2>2
    <2>. QED
      BY <1>9, <2>3
  <1>. DEFINE at == [n \in 0 .. N |-> g[1 .. n]]
  <1>10. Steps(at, N, D, base, G) /\ at[N] = g[1 .. N]
    <2>1. Iterates(g, N, D, base, G)
      BY <1>8, <1>9 DEF Iterates
    <2>2. at[N] = g[1 .. N]
      BY <1>1
    <2>. HIDE DEF G, N
    <2>3. Steps(at, N, D, base, G)
      BY <1>1, <1>3, <1>4, <2>1, FoldStates
    <2>. QED
      BY <2>2, <2>3
  <1>. HIDE DEF at
  <1>11. \A n \in 1 .. N : at[n] = Op(at[n - 1], arg[n])
    <2>1. \A n \in 1 .. N : n - 1 \in 0 .. N /\ at[n - 1] \in D
      BY <1>1, <1>10 DEF Steps
    <2>2. ASSUME NEW n \in 1 .. N PROVE at[n] = Op(at[n - 1], arg[n])
      <3>1. at[n] = G[<<at[n - 1], n>>] /\ at[n - 1] \in D
        BY <1>10, <2>1 DEF Steps
      <3>. QED
        BY <3>1
    <2>. QED
      BY <2>2
  <1>12. FileRun(at, arg, V)
    BY <1>2, <1>10, <1>11 DEF Steps, FileRun, D, base, Op
  <1>. QED
    BY <1>12

\* What a state of the loop has read: the values of the fields S, which are
\* o's, on top of the options base.
FileReads(p, S, o, base) ==
    /\ p.is = IF \A f \in S : FileOk(f, o[f]) THEN "options" ELSE "error"
    /\ p.is = "options" =>
         /\ p.want = None
         /\ \A f \in FileNames : p.opt[f] = IF f \in S THEN ReadAs(f, o[f]) ELSE base[f]

\* An option and its value add one field.
LEMMA FilePair ==
  ASSUME NEW V, Vocabulary(V), NEW p \in FileStates(V), NEW S, NEW o, NEW base,
         FileReads(p, S, o, base), NEW w \in FileOptions, o[Field(w)] \in V
  PROVE  FileReads(FileStep(FileStep(p, w), o[Field(w)]), S \cup {Field(w)}, o, base)
  <1>1. PICK f, v : f = Field(w) /\ v = o[f]
    OBVIOUS
  <1>2. f \in FileValued /\ f \in FileNames /\ f # None /\ v \in V
    BY <1>1 DEF FileOptions, SendOptions, ReceiveOptions, TransferOptions, Field, FileValued, FileNames, None
  <1>3. p \in States(FileNames, V) /\ p.opt \in [FileNames -> V]
    BY DEF FileStates, States
  <1>4. CASE p.is # "options"
    <2>1. FileStep(FileStep(p, w), v) = p
      BY <1>4 DEF FileStep, Turn
    <2>2. p.is = "error" /\ ~\A g \in S : FileOk(g, o[g])
      BY <1>4 DEF FileReads
    <2>3. ~\A g \in S \cup {f} : FileOk(g, o[g])
      BY <2>2
    <2>. QED
      BY <1>1, <1>4, <2>1, <2>2, <2>3 DEF FileReads
  <1>5. CASE p.is = "options"
    <2>1. p.want = None /\ \A g \in S : FileOk(g, o[g])
      BY <1>5 DEF FileReads
    <2>2. \A g \in FileNames : p.opt[g] = IF g \in S THEN ReadAs(g, o[g]) ELSE base[g]
      BY <1>5 DEF FileReads
    <2>3. FileStep(p, w) = Want(p, f)
      <3>1. w \notin {"--send", "--receive", "--auto", "--no-advertise"}
        BY DEF FileOptions, SendOptions, ReceiveOptions, TransferOptions
      <3>. QED
        BY <1>1, <1>5, <2>1, <3>1 DEF FileStep, Turn, FileWord
    <2>4. PICK q : q = Want(p, f)
      OBVIOUS
    <2>5. q \in States(FileNames, V) /\ q.is = p.is /\ q.want = f /\ q.opt = p.opt
      BY <1>2, <1>3, <2>4, WantState
    <2>6. /\ FileStep(q, v) = IF FileOk(f, v) THEN Put(q, f, ReadAs(f, v)) ELSE Stop(q, "error")
          /\ FileOk(f, v) => ReadAs(f, v) \in V
      <3>1. q.want \in FileValued
        BY <1>2, <2>5
      <3>2. /\ FileValue(q, v) = IF FileOk(q.want, v) THEN Put(q, q.want, ReadAs(q.want, v))
                                 ELSE Stop(q, "error")
            /\ FileOk(q.want, v) => ReadAs(q.want, v) \in V
        BY <1>2, <3>1, FileValueReads
      <3>. QED
        BY <1>2, <1>5, <2>5, <3>2 DEF FileStep, Turn
    <2>7. CASE FileOk(f, v)
      <3>1. PICK u \in V : u = ReadAs(f, v)
        BY <2>6, <2>7
      <3>2. /\ Put(q, f, u) \in States(FileNames, V)
            /\ Put(q, f, u).is = q.is /\ Put(q, f, u).want = None
            /\ Put(q, f, u).opt = [q.opt EXCEPT ![f] = u]
        BY <1>2, <2>5, PutState
      <3>3. FileStep(q, v) = Put(q, f, u)
        BY <2>6, <2>7, <3>1
      <3>4. \A g \in S \cup {f} : FileOk(g, o[g])
        BY <1>1, <2>1, <2>7
      <3>5. \A g \in FileNames : Put(q, f, u).opt[g] = IF g = f THEN u ELSE p.opt[g]
        BY <1>3, <2>5, <3>2
      <3>6. \A g \in FileNames :
              Put(q, f, u).opt[g] = IF g \in S \cup {f} THEN ReadAs(g, o[g]) ELSE base[g]
        BY <1>1, <2>2, <3>1, <3>5
      <3>7. FileReads(Put(q, f, u), S \cup {f}, o, base)
        BY <1>5, <2>5, <3>2, <3>4, <3>6 DEF FileReads
      <3>. QED
        BY <1>1, <2>3, <2>4, <3>3, <3>7
    <2>8. CASE ~FileOk(f, v)
      <3>1. FileStep(q, v) = Stop(q, "error") /\ Stop(q, "error").is = "error"
        BY <2>5, <2>6, <2>8, StopState
      <3>2. ~\A g \in S \cup {f} : FileOk(g, o[g])
        BY <1>1, <2>8
      <3>3. FileReads(Stop(q, "error"), S \cup {f}, o, base)
        BY <3>1, <3>2 DEF FileReads
      <3>. QED
        BY <1>1, <2>3, <2>4, <3>1, <3>3
    <2>. QED
      BY <2>7, <2>8
  <1>. QED
    BY <1>4, <1>5

LEMMA CompleteState ==
  ASSUME NEW F, NEW V, NEW p \in States(F, V)
  PROVE  /\ Complete(p) \in States(F, V) /\ Complete(p).opt = p.opt /\ Complete(p).want = p.want
         /\ Complete(p).is = IF p.is = "options" /\ p.want # None THEN "error" ELSE p.is
  <1>1. /\ Stop(p, "error") \in States(F, V) /\ Stop(p, "error").is = "error"
        /\ Stop(p, "error").want = p.want /\ Stop(p, "error").opt = p.opt
    BY StopState
  <1>. QED
    BY <1>1 DEF Complete

\* What parse_receive returns.
LEMMA ReceiveParses ==
  ASSUME NEW V, Vocabulary(V), NEW arg \in Seq(V)
  PROVE  /\ parse_receive(arg) \in States(ReceiveNames, V)
         /\ parse_receive(arg).opt["advertise"] \in BOOLEAN
  <1>1. PICK at : ReceiveRun(at, arg, V)
    BY ReceiveLoop
  <1>2. PICK p : p = at[Len(arg)]
    OBVIOUS
  <1>3. p \in ReceiveStates(V) /\ parse_receive(arg) = Complete(p)
    <2>1. Len(arg) \in 0 .. Len(arg)
      OBVIOUS
    <2>. QED
      BY <1>1, <1>2, <2>1 DEF ReceiveRun, parse_receive
  <1>4. p \in States(ReceiveNames, V) /\ p.opt["advertise"] \in BOOLEAN
    BY <1>3 DEF ReceiveStates
  <1>5. Complete(p) \in States(ReceiveNames, V) /\ Complete(p).opt = p.opt
    BY <1>4, CompleteState
  <1>. QED
    BY <1>3, <1>4, <1>5

\* What parse_send returns: options have a path.
LEMMA SendParses ==
  ASSUME NEW V, Vocabulary(V), NEW arg \in Seq(V)
  PROVE  /\ parse_send(arg) \in States(SendNames, V)
         /\ parse_send(arg).is = "options" => parse_send(arg).opt["file"] # None
  <1>1. PICK at : SendRun(at, arg, V)
    BY SendLoop
  <1>2. PICK p, q : p = at[Len(arg)] /\ q = Complete(p)
    OBVIOUS
  <1>3. p \in States(SendNames, V)
    <2>1. Len(arg) \in 0 .. Len(arg)
      OBVIOUS
    <2>. QED
      BY <1>1, <1>2, <2>1 DEF SendRun, SendStates
  <1>4. q \in States(SendNames, V)
    BY <1>2, <1>3, CompleteState
  <1>5. parse_send(arg) = IF q.is = "options" /\ q.opt.file = None THEN Stop(q, "error") ELSE q
    BY <1>1, <1>2 DEF SendRun, parse_send
  <1>6. Stop(q, "error") \in States(SendNames, V) /\ Stop(q, "error").is = "error"
    BY <1>4, StopState
  <1>. QED
    BY <1>4, <1>5, <1>6

\* What parse_test returns.
LEMMA TestParses ==
  ASSUME NEW V, Vocabulary(V), NEW arg \in Seq(V)
  PROVE  parse_test(arg) \in States(TestNames, V) /\ parse_test(arg).opt["send"] \in BOOLEAN
  <1>. DEFINE send == {"send", "client"}
              fresh == Fresh(TestDefaults(FALSE))
              is == IF arg # <<>> /\ Help(Head(arg)) THEN "help" ELSE "error"
  <1>1. CASE arg = <<>> \/ Head(arg) \notin {"receive", "recv", "server"} \cup send
    <2>1. parse_test(arg) = Stop(fresh, is)
      BY <1>1 DEF parse_test
    <2>2. PICK b \in BOOLEAN : b = FALSE
      OBVIOUS
    <2>3. fresh \in TestStates(V, b)
      BY <2>2, TestStart
    <2>4. fresh \in States(TestNames, V) /\ fresh.opt["send"] \in BOOLEAN
      BY <2>3 DEF TestStates
    <2>5. Stop(fresh, is) \in States(TestNames, V) /\ Stop(fresh, is).opt = fresh.opt
      <3>1. is \in {"help", "error"}
        OBVIOUS
      <3>. HIDE DEF is, fresh
      <3>. QED
        BY <2>4, <3>1, StopState
    <2>. HIDE DEF fresh, is
    <2>. QED
      BY <2>1, <2>4, <2>5
  <1>2. CASE ~(arg = <<>> \/ Head(arg) \notin {"receive", "recv", "server"} \cup send)
    <2>1. PICK b \in BOOLEAN : b = (Head(arg) \in send)
      <3>1. (Head(arg) \in send) = TRUE \/ (Head(arg) \in send) = FALSE
        OBVIOUS
      <3>. QED
        BY <3>1
    <2>2. PICK rest \in Seq(V) : rest = Tail(arg)
      <3>1. \A S : \A s \in Seq(S) : s # <<>> => Tail(s) \in Seq(S)
        OBVIOUS
      <3>. QED
        BY <1>2, <3>1
    <2>3. PICK at : TestRun(at, rest, V, b)
      BY TestLoop
    <2>4. PICK p, q : p = at[Len(rest)] /\ q = Complete(p)
      OBVIOUS
    <2>5. p \in States(TestNames, V) /\ p.opt["send"] \in BOOLEAN
      <3>1. Len(rest) \in 0 .. Len(rest)
        OBVIOUS
      <3>. QED
        BY <2>3, <2>4, <3>1 DEF TestRun, TestStates
    <2>6. q \in States(TestNames, V) /\ q.opt = p.opt
      BY <2>4, <2>5, CompleteState
    <2>7. parse_test(arg) = IF q.is = "options" /\ q.opt.send /\ q.opt.host = None
                              THEN Stop(q, "error") ELSE q
      BY <1>2, <2>1, <2>2, <2>3, <2>4 DEF TestRun, parse_test
    <2>8. Stop(q, "error") \in States(TestNames, V) /\ Stop(q, "error").opt = q.opt
      BY <2>6, StopState
    <2>. QED
      BY <2>5, <2>6, <2>7, <2>8
  <1>. QED
    BY <1>1, <1>2

\* parse_args' last checks.
FileVerdict(h, p) ==
    /\ h.opt = p.opt
    /\ h.is = IF p.is = "options" /\ PortsAccepted(p.opt["port"], p.opt["parallel"])
                THEN "options" ELSE "error"

LEMMA FileEnds ==
  ASSUME NEW V, NEW arg \in Seq(V), NEW at, FileRun(at, arg, V), NEW p, p = at[Len(arg)],
         p.is \in {"options", "error"},
         NEW sends \in BOOLEAN,
         p.is = "options" =>
            /\ p.want = None /\ p.opt["send"] = sends /\ p.opt["receive"] = ~sends
            /\ sends => p.opt["file"] # None
            /\ ~sends => p.opt["auto_discover"] = FALSE
  PROVE  FileVerdict(parse_args(arg), p)
  <1>1. p \in States(FileNames, V)
    <2>1. Len(arg) \in 0 .. Len(arg)
      OBVIOUS
    <2>. QED
      BY <2>1 DEF FileRun, FileStates
  <1>2. Complete(p) = p
    BY DEF Complete
  <1>3. parse_args(arg) =
          IF /\ p.is = "options"
             /\ \/ p.opt.send = p.opt.receive
                \/ p.opt.send /\ p.opt.file = None
                \/ p.opt.receive /\ p.opt.auto_discover
                \/ ~PortsAccepted(p.opt.port, p.opt.parallel)
            THEN Stop(p, "error") ELSE p
    BY <1>2 DEF FileRun, parse_args
  <1>4. Stop(p, "error").is = "error" /\ Stop(p, "error").opt = p.opt
    BY <1>1, StopState
  <1>5. CASE p.is = "options" /\ sends = TRUE
    <2>1. p.opt.send = TRUE /\ p.opt.receive = FALSE /\ p.opt.file # None
      BY <1>5
    <2>2. parse_args(arg) = IF ~PortsAccepted(p.opt.port, p.opt.parallel) THEN Stop(p, "error") ELSE p
      BY <1>3, <1>5, <2>1
    <2>. QED
      BY <1>4, <1>5, <2>2 DEF FileVerdict
  <1>6. CASE p.is = "options" /\ sends = FALSE
    <2>1. p.opt.send = FALSE /\ p.opt.receive = TRUE /\ p.opt.auto_discover = FALSE
      BY <1>6
    <2>2. parse_args(arg) = IF ~PortsAccepted(p.opt.port, p.opt.parallel) THEN Stop(p, "error") ELSE p
      BY <1>3, <1>6, <2>1
    <2>. QED
      BY <1>4, <1>6, <2>2 DEF FileVerdict
  <1>7. CASE p.is = "error"
    BY <1>3, <1>7 DEF FileVerdict
  <1>. QED
    BY <1>5, <1>6, <1>7

\* r is s followed by t.
Joins(r, s, t, S) ==
    /\ r \in Seq(S) /\ Len(r) = Len(s) + Len(t)
    /\ \A i \in 1 .. Len(s) : r[i] = s[i]
    /\ \A i \in 1 .. Len(t) : r[Len(s) + i] = t[i]

LEMMA Joined ==
  ASSUME NEW S, NEW s \in Seq(S), NEW t \in Seq(S)
  PROVE  Joins(s \o t, s, t, S)
  BY DEF Joins

\* What hyperlink_file does with a started front end's options o, of which it
\* gets those in passed.
FileObeys(h, o, sends, auto, passed) ==
    /\ h.is = IF /\ IsPort(o["discovery_port"])
                 /\ auto \/ /\ IsPort(o["port"]) /\ IsCount(o["parallel"])
                            /\ FitRead(o["port"], o["parallel"])
                THEN "options" ELSE "error"
    /\ h.is = "options" =>
         /\ \A f \in passed : h.opt[f] = ReadAs(f, o[f])
         /\ h.opt["send"] = sends /\ h.opt["receive"] = ~sends /\ h.opt["auto_discover"] = auto

\* The words for the helper before the last, and where they are.
ReceiveWords(o) ==
    <<"--receive", "--host", o["host"], "--port", o["port"], "--output-dir", o["output_dir"],
      "--parallel", o["parallel"], "--discovery-port", o["discovery_port"]>>

ReceiveLayout(arg, o, V) ==
    /\ arg \in Seq(V) /\ Len(arg) = IF o["advertise"] THEN 11 ELSE 12
    /\ arg[1] = "--receive" /\ arg[2] = "--host" /\ arg[3] = o["host"]
    /\ arg[4] = "--port" /\ arg[5] = o["port"] /\ arg[6] = "--output-dir" /\ arg[7] = o["output_dir"]
    /\ arg[8] = "--parallel" /\ arg[9] = o["parallel"]
    /\ arg[10] = "--discovery-port" /\ arg[11] = o["discovery_port"]
    /\ ~o["advertise"] => arg[12] = "--no-advertise"

LEMMA ReceiveLaidOut ==
  ASSUME NEW V, Vocabulary(V), NEW o \in [ReceiveNames -> V], o["advertise"] \in BOOLEAN
  PROVE  ReceiveLayout(run_receive(o), o, V)
  <1>. DEFINE s == ReceiveWords(o)
              t == IF o["advertise"] THEN <<>> ELSE <<"--no-advertise">>
  <1>1. HelperWords \subseteq V
    BY DEF Vocabulary
  <1>2. /\ "--receive" \in V /\ "--host" \in V /\ "--port" \in V /\ "--output-dir" \in V
        /\ "--parallel" \in V /\ "--discovery-port" \in V /\ "--no-advertise" \in V
    BY <1>1 DEF HelperWords, FileOptions, SendOptions, ReceiveOptions, TransferOptions
  <1>3. /\ o["host"] \in V /\ o["port"] \in V /\ o["output_dir"] \in V
        /\ o["parallel"] \in V /\ o["discovery_port"] \in V
    BY DEF ReceiveNames
  <1>4. s \in Seq(V) /\ Len(s) = 11
    BY <1>2, <1>3 DEF ReceiveWords
  <1>5. t \in Seq(V) /\ Len(t) = (IF o["advertise"] THEN 0 ELSE 1) /\ (~o["advertise"] => t[1] = "--no-advertise")
    BY <1>2
  <1>6. run_receive(o) = s \o t
    BY DEF run_receive, ReceiveWords
  <1>7. /\ s[1] = "--receive" /\ s[2] = "--host" /\ s[3] = o["host"]
        /\ s[4] = "--port" /\ s[5] = o["port"] /\ s[6] = "--output-dir" /\ s[7] = o["output_dir"]
        /\ s[8] = "--parallel" /\ s[9] = o["parallel"]
        /\ s[10] = "--discovery-port" /\ s[11] = o["discovery_port"]
    BY DEF ReceiveWords
  <1>. HIDE DEF s, t
  <1>8. Joins(s \o t, s, t, V)
    BY <1>4, <1>5, Joined
  <1>9. s \o t \in Seq(V) /\ Len(s \o t) = IF o["advertise"] THEN 11 ELSE 12
    BY <1>4, <1>5, <1>8 DEF Joins
  <1>10. \A i \in {1, 2, 3, 4, 5, 6, 7, 8, 9, 10, 11} : (s \o t)[i] = s[i]
    BY <1>4, <1>8 DEF Joins
  <1>11. ~o["advertise"] => (s \o t)[12] = "--no-advertise"
    BY <1>4, <1>5, <1>8 DEF Joins
  <1>. QED
    BY <1>6, <1>7, <1>9, <1>10, <1>11 DEF ReceiveLayout

\* The options without a value.
LEMMA FileSwitches ==
  ASSUME NEW p, p.is = "options", p.want = None
  PROVE  /\ FileStep(p, "--send") = Switch(p, "send", "127.0.0.1")
         /\ FileStep(p, "--receive") = Switch(p, "receive", "0.0.0.0")
         /\ FileStep(p, "--auto") = Switch(p, "auto_discover", None)
         /\ FileStep(p, "--no-advertise") = Put(p, "advertise", FALSE)
  <1>1. \A w \in {"--send", "--receive", "--auto", "--no-advertise"} : w \notin FileOptions
    BY DEF FileOptions, SendOptions, ReceiveOptions, TransferOptions
  <1>. USE DEF FileStep, Turn, FileWord, Switch
  <1>2. FileStep(p, "--send") = Switch(p, "send", "127.0.0.1")
    BY <1>1
  <1>3. FileStep(p, "--receive") = Switch(p, "receive", "0.0.0.0")
    BY <1>1
  <1>4. FileStep(p, "--auto") = Switch(p, "auto_discover", None)
    BY <1>1
  <1>5. FileStep(p, "--no-advertise") = Put(p, "advertise", FALSE)
    BY <1>1
  <1>. QED
    BY <1>2, <1>3, <1>4, <1>5

\* The defaults that parse_args starts from.
LEMMA FileFresh ==
  ASSUME NEW V, Vocabulary(V), NEW f \in FileNames, NEW h \in V
  PROVE  /\ Switched(Switch(Fresh(FileDefaults), f, h), Fresh(FileDefaults), f, h, FileNames, V)
         /\ Fresh(FileDefaults).is = "options" /\ Fresh(FileDefaults).want = None
         /\ Fresh(FileDefaults).opt = FileDefaults
  <1>1. FileDefaults \in [FileNames -> V] /\ "host" \in FileNames
    BY FileStart DEF FileNames
  <1>2. /\ Fresh(FileDefaults) \in States(FileNames, V)
        /\ Fresh(FileDefaults).is = "options" /\ Fresh(FileDefaults).want = None
        /\ Fresh(FileDefaults).opt = FileDefaults
    BY <1>1, FreshState
  <1>3. PICK p : p = Fresh(FileDefaults)
    OBVIOUS
  <1>4. Switched(Switch(p, f, h), p, f, h, FileNames, V)
    BY <1>1, <1>2, <1>3, SwitchState
  <1>. QED
    BY <1>2, <1>3, <1>4

\* One word, in the states of the loop.
LEMMA FileNextWord ==
  ASSUME NEW V, NEW arg \in Seq(V), NEW at, FileRun(at, arg, V),
         NEW n \in Nat, NEW m, m = n + 1, m <= Len(arg)
  PROVE  at[m] = FileStep(at[n], arg[m]) /\ at[n] \in FileStates(V) /\ arg[m] \in V
  <1>1. Len(arg) \in Nat /\ n \in 0 .. Len(arg) /\ m \in 1 .. Len(arg) /\ m - 1 = n
    OBVIOUS
  <1>2. at[m] = FileStep(at[m - 1], arg[m]) /\ at[n] \in FileStates(V)
    BY <1>1 DEF FileRun
  <1>. QED
    BY <1>1, <1>2

\* One option and its value, in the states of the loop.
LEMMA FileNextPair ==
  ASSUME NEW V, Vocabulary(V), NEW arg \in Seq(V), NEW at, FileRun(at, arg, V),
         NEW n \in Nat, NEW m, m = n + 2, m <= Len(arg),
         NEW S, NEW o, NEW base, FileReads(at[n], S, o, base),
         NEW f, arg[n + 1] \in FileOptions, Field(arg[n + 1]) = f, arg[m] = o[f],
         NEW T, T = S \cup {f}
  PROVE  FileReads(at[m], T, o, base)
  <1>1. PICK k \in Nat : k = n + 1
    OBVIOUS
  <1>2. k <= Len(arg) /\ m = k + 1
    BY <1>1
  <1>3. at[k] = FileStep(at[n], arg[k]) /\ at[n] \in FileStates(V) /\ arg[k] \in V
    BY <1>1, <1>2, FileNextWord
  <1>4. at[m] = FileStep(at[k], arg[m]) /\ at[k] \in FileStates(V) /\ arg[m] \in V
    BY <1>2, FileNextWord
  <1>5. PICK w \in FileOptions : w = arg[k]
    BY <1>1
  <1>6. o[Field(w)] \in V /\ Field(w) = f
    BY <1>1, <1>4, <1>5
  <1>7. FileReads(FileStep(FileStep(at[n], w), o[Field(w)]), S \cup {Field(w)}, o, base)
    BY <1>3, <1>6, FilePair
  <1>. QED
    BY <1>3, <1>4, <1>5, <1>6, <1>7

\* All fields read, the verdict depends on the three numbers alone.
LEMMA PortsRead ==
  ASSUME NEW a, NEW n, IsPort(a), IsCount(n)
  PROVE  PortsAccepted(ReadAs("port", a), ReadAs("parallel", n)) <=> FitRead(a, n)
  BY DEF ReadAs, PortsAccepted, LastPort, FitRead

LEMMA FileReceives ==
  ASSUME NEW V, Vocabulary(V), NEW o \in [ReceiveNames -> V], o["advertise"] \in BOOLEAN
  PROVE  FileObeys(parse_args(run_receive(o)), o, FALSE, FALSE, ReceiveNames)
  <1>1. PICK arg : arg = run_receive(o)
    OBVIOUS
  <1>2. ReceiveLayout(arg, o, V)
    BY <1>1, ReceiveLaidOut
  <1>3. arg \in Seq(V) /\ Len(arg) \in Nat /\ Len(arg) >= 11
    BY <1>2 DEF ReceiveLayout
  <1>4. PICK at : FileRun(at, arg, V)
    BY <1>3, FileLoop
  <1>5. PICK base : base = at[1].opt
    OBVIOUS
  <1>6. /\ at[1].is = "options" /\ at[1].want = None
        /\ \A g \in FileNames : base[g] = IF g = "host" THEN "0.0.0.0" ELSE
                                          IF g = "receive" THEN TRUE ELSE FileDefaults[g]
    <2>1. at[1] = FileStep(at[0], arg[1]) /\ at[0] \in FileStates(V) /\ arg[1] \in V
      <3>1. 0 \in Nat /\ 1 = 0 + 1 /\ 1 <= Len(arg)
        BY <1>3
      <3>. QED
        BY <1>3, <1>4, <3>1, FileNextWord
    <2>2. at[0] = Fresh(FileDefaults)
      BY <1>4 DEF FileRun
    <2>3. "receive" \in FileNames /\ "0.0.0.0" \in V
      BY DEF FileNames, Vocabulary
    <2>4. /\ Switched(Switch(Fresh(FileDefaults), "receive", "0.0.0.0"), Fresh(FileDefaults),
                      "receive", "0.0.0.0", FileNames, V)
          /\ Fresh(FileDefaults).is = "options" /\ Fresh(FileDefaults).want = None
          /\ Fresh(FileDefaults).opt = FileDefaults
      BY <2>3, FileFresh
    <2>5. at[1] = Switch(Fresh(FileDefaults), "receive", "0.0.0.0")
      BY <1>2, <2>1, <2>4, <2>2, FileSwitches DEF ReceiveLayout
    <2>. QED
      BY <1>5, <2>4, <2>5 DEF Switched
  <1>7. FileReads(at[1], {}, o, base)
    BY <1>5, <1>6 DEF FileReads
  <1>8. FileReads(at[3], {"host"}, o, base)
    <2>1. arg[1 + 1] \in FileOptions /\ Field(arg[1 + 1]) = "host" /\ arg[3] = o["host"]
      BY <1>2 DEF ReceiveLayout, Field, FileOptions, SendOptions, ReceiveOptions, TransferOptions
    <2>2. 1 \in Nat /\ 3 = 1 + 2 /\ 3 <= Len(arg)
      BY <1>3
    <2>3. {"host"} = {} \cup {"host"}
      OBVIOUS
    <2>. QED
      BY <1>3, <1>4, <1>7, <2>1, <2>2, <2>3, FileNextPair, ZenonT(30)
  <1>9. FileReads(at[5], {"host", "port"}, o, base)
    <2>1. arg[3 + 1] \in FileOptions /\ Field(arg[3 + 1]) = "port" /\ arg[5] = o["port"]
      BY <1>2 DEF ReceiveLayout, Field, FileOptions, SendOptions, ReceiveOptions, TransferOptions
    <2>2. 3 \in Nat /\ 5 = 3 + 2 /\ 5 <= Len(arg)
      BY <1>3
    <2>3. {"host", "port"} = {"host"} \cup {"port"}
      OBVIOUS
    <2>. QED
      BY <1>3, <1>4, <1>8, <2>1, <2>2, <2>3, FileNextPair, ZenonT(30)
  <1>10. FileReads(at[7], {"host", "port", "output_dir"}, o, base)
    <2>1. arg[5 + 1] \in FileOptions /\ Field(arg[5 + 1]) = "output_dir" /\ arg[7] = o["output_dir"]
      BY <1>2 DEF ReceiveLayout, Field, FileOptions, SendOptions, ReceiveOptions, TransferOptions
    <2>2. 5 \in Nat /\ 7 = 5 + 2 /\ 7 <= Len(arg)
      BY <1>3
    <2>3. {"host", "port", "output_dir"} = {"host", "port"} \cup {"output_dir"}
      OBVIOUS
    <2>. QED
      BY <1>3, <1>4, <1>9, <2>1, <2>2, <2>3, FileNextPair, ZenonT(30)
  <1>11. FileReads(at[9], {"host", "port", "output_dir", "parallel"}, o, base)
    <2>1. arg[7 + 1] \in FileOptions /\ Field(arg[7 + 1]) = "parallel" /\ arg[9] = o["parallel"]
      BY <1>2 DEF ReceiveLayout, Field, FileOptions, SendOptions, ReceiveOptions, TransferOptions
    <2>2. 7 \in Nat /\ 9 = 7 + 2 /\ 9 <= Len(arg)
      BY <1>3
    <2>3. {"host", "port", "output_dir", "parallel"} = {"host", "port", "output_dir"} \cup {"parallel"}
      OBVIOUS
    <2>. QED
      BY <1>3, <1>4, <1>10, <2>1, <2>2, <2>3, FileNextPair, ZenonT(30)
  <1>12. FileReads(at[11], {"host", "port", "output_dir", "parallel", "discovery_port"}, o, base)
    <2>1. arg[9 + 1] \in FileOptions /\ Field(arg[9 + 1]) = "discovery_port" /\ arg[11] = o["discovery_port"]
      BY <1>2 DEF ReceiveLayout, Field, FileOptions, SendOptions, ReceiveOptions, TransferOptions
    <2>2. 9 \in Nat /\ 11 = 9 + 2 /\ 11 <= Len(arg)
      BY <1>3
    <2>3. {"host", "port", "output_dir", "parallel", "discovery_port"} = {"host", "port", "output_dir", "parallel"} \cup {"discovery_port"}
      OBVIOUS
    <2>. QED
      BY <1>3, <1>4, <1>11, <2>1, <2>2, <2>3, FileNextPair, ZenonT(30)
  <1>13. PICK q : q = at[11]
    OBVIOUS
  <1>14. /\ q.is = IF IsPort(o["discovery_port"]) /\ IsPort(o["port"]) /\ IsCount(o["parallel"])
                     THEN "options" ELSE "error"
         /\ q.is = "options" =>
              /\ q.want = None
              /\ \A f \in ReceiveNames : f # "advertise" => q.opt[f] = ReadAs(f, o[f])
              /\ q.opt["advertise"] = TRUE /\ q.opt["send"] = FALSE
              /\ q.opt["receive"] = TRUE /\ q.opt["auto_discover"] = FALSE
    <2>. DEFINE S == {"host", "port", "output_dir", "parallel", "discovery_port"}
    <2>1. (\A f \in S : FileOk(f, o[f])) <=>
            IsPort(o["discovery_port"]) /\ IsPort(o["port"]) /\ IsCount(o["parallel"])
      BY DEF FileOk
    <2>2. q.is = IF \A f \in S : FileOk(f, o[f]) THEN "options" ELSE "error"
      BY <1>12, <1>13 DEF FileReads
    <2>3. q.is = "options" =>
             /\ q.want = None
             /\ \A f \in FileNames : q.opt[f] = IF f \in S THEN ReadAs(f, o[f]) ELSE base[f]
      BY <1>12, <1>13 DEF FileReads
    <2>4. /\ \A f \in ReceiveNames : f # "advertise" => f \in S /\ f \in FileNames
          /\ \A f \in {"advertise", "send", "receive", "auto_discover"} : f \in FileNames /\ f \notin S
      BY DEF ReceiveNames, FileNames
    <2>5. base["advertise"] = TRUE /\ base["send"] = FALSE /\ base["receive"] = TRUE /\ base["auto_discover"] = FALSE
      BY <1>6, <2>4 DEF FileDefaults
    <2>. HIDE DEF S
    <2>. QED
      BY <2>1, <2>2, <2>3, <2>4, <2>5
  <1>15. PICK p : p = at[Len(arg)]
    OBVIOUS
  <1>16. /\ p.is = q.is
         /\ p.is = "options" =>
              /\ p.want = None
              /\ \A f \in FileNames : f # "advertise" => p.opt[f] = q.opt[f]
              /\ p.opt["advertise"] = o["advertise"]
    <2>1. CASE o["advertise"] = TRUE
      BY <1>2, <1>13, <1>14, <1>15, <2>1 DEF ReceiveLayout
    <2>2. CASE o["advertise"] = FALSE
      <3>1. Len(arg) = 12 /\ arg[12] = "--no-advertise"
        BY <1>2, <2>2 DEF ReceiveLayout
      <3>2. at[12] = FileStep(at[11], arg[12]) /\ at[11] \in FileStates(V) /\ arg[12] \in V
        <4>1. 11 \in Nat /\ 12 = 11 + 1 /\ 12 <= Len(arg)
          BY <3>1
        <4>. QED
          BY <1>3, <1>4, <4>1, FileNextWord
      <3>3. p = FileStep(q, "--no-advertise") /\ q \in States(FileNames, V)
        BY <1>13, <1>15, <3>1, <3>2 DEF FileStates
      <3>4. CASE q.is # "options"
        BY <3>3, <3>4 DEF FileStep, Turn
      <3>5. CASE q.is = "options"
        <4>1. p = Put(q, "advertise", FALSE)
          BY <1>14, <3>3, <3>5, FileSwitches
        <4>2. q.opt \in [FileNames -> V] /\ "advertise" \in FileNames
          BY <3>3 DEF States, FileNames
        <4>3. p.is = q.is /\ p.want = None /\ p.opt = [q.opt EXCEPT !["advertise"] = FALSE]
          BY <3>3, <4>1 DEF Put, States
        <4>. QED
          BY <2>2, <4>2, <4>3
      <3>. QED
        BY <3>4, <3>5
    <2>. QED
      BY <2>1, <2>2
  <1>17. p.is = "options" =>
           /\ \A f \in ReceiveNames : p.opt[f] = ReadAs(f, o[f])
           /\ p.opt["send"] = FALSE /\ p.opt["receive"] = TRUE /\ p.opt["auto_discover"] = FALSE
    <2>1. ReceiveNames \subseteq FileNames /\ {"send", "receive", "auto_discover"} \subseteq FileNames
      BY DEF ReceiveNames, FileNames
    <2>2. ReadAs("advertise", o["advertise"]) = o["advertise"]
      BY DEF ReadAs
    <2>. QED
      BY <1>14, <1>16, <2>1, <2>2
  <1>18. FileVerdict(parse_args(arg), p)
    <2>1. p.is \in {"options", "error"}
      BY <1>14, <1>16
    <2>2. PICK sends \in BOOLEAN : sends = FALSE
      OBVIOUS
    <2>3. p.is = "options" =>
            /\ p.want = None /\ p.opt["send"] = sends /\ p.opt["receive"] = ~sends
            /\ sends => p.opt["file"] # None
            /\ ~sends => p.opt["auto_discover"] = FALSE
      BY <1>16, <1>17, <2>2
    <2>. QED
      BY <1>3, <1>4, <1>15, <2>1, <2>3, FileEnds
  <1>19. p.is = "options" => (PortsAccepted(p.opt["port"], p.opt["parallel"]) <=> FitRead(o["port"], o["parallel"]))
    <2>1. p.is = "options" => /\ IsPort(o["port"]) /\ IsCount(o["parallel"])
                              /\ p.opt["port"] = ReadAs("port", o["port"])
                              /\ p.opt["parallel"] = ReadAs("parallel", o["parallel"])
      BY <1>14, <1>16, <1>17 DEF ReceiveNames
    <2>. QED
      BY <2>1, PortsRead
  <1>. QED
    BY <1>1, <1>14, <1>16, <1>17, <1>18, <1>19 DEF FileVerdict, FileObeys

\* Where the words for the helper are when it is to send.
SendHead(o) == <<"--send", "--file", o["file"], "--discovery-port", o["discovery_port"]>>

SendPeer(o) == IF o["host"] = None THEN <<"--auto">>
               ELSE <<"--host", o["host"], "--port", o["port"], "--parallel", o["parallel"]>>

SendName(o) == IF o["remote_name"] = None THEN <<>> ELSE <<"--name", o["remote_name"]>>

SendLayout(arg, o, V, k) ==
    /\ arg \in Seq(V)
    /\ o["host"] = None => k = 6
    /\ o["host"] # None => k = 11
    /\ o["remote_name"] = None => Len(arg) = k
    /\ o["remote_name"] # None => Len(arg) = k + 2
    /\ arg[1] = "--send" /\ arg[2] = "--file" /\ arg[3] = o["file"]
    /\ arg[4] = "--discovery-port" /\ arg[5] = o["discovery_port"]
    /\ o["host"] = None => arg[6] = "--auto"
    /\ o["host"] # None =>
         /\ arg[6] = "--host" /\ arg[7] = o["host"] /\ arg[8] = "--port" /\ arg[9] = o["port"]
         /\ arg[10] = "--parallel" /\ arg[11] = o["parallel"]
    /\ o["remote_name"] # None => arg[k + 1] = "--name" /\ arg[k + 2] = o["remote_name"]

LEMMA SendLaidOut ==
  ASSUME NEW V, Vocabulary(V), NEW o \in [SendNames -> V]
  PROVE  \E k : SendLayout(run_send(o), o, V, k)
  <1>1. HelperWords \subseteq V
    BY DEF Vocabulary
  <1>2. /\ "--send" \in V /\ "--file" \in V /\ "--host" \in V /\ "--port" \in V
        /\ "--parallel" \in V /\ "--discovery-port" \in V /\ "--auto" \in V /\ "--name" \in V
    BY <1>1 DEF HelperWords, FileOptions, SendOptions, ReceiveOptions, TransferOptions
  <1>3. /\ o["host"] \in V /\ o["port"] \in V /\ o["file"] \in V
        /\ o["parallel"] \in V /\ o["discovery_port"] \in V /\ o["remote_name"] \in V
    BY DEF SendNames
  <1>4. run_send(o) = (SendHead(o) \o SendPeer(o)) \o SendName(o)
    BY DEF run_send, SendHead, SendPeer, SendName
  <1>5. PICK a, b, c, r : /\ a = SendHead(o) /\ b = SendPeer(o) /\ c = SendName(o)
                          /\ r = a \o b
    OBVIOUS
  <1>6. /\ a \in Seq(V) /\ Len(a) = 5
        /\ a[1] = "--send" /\ a[2] = "--file" /\ a[3] = o["file"]
        /\ a[4] = "--discovery-port" /\ a[5] = o["discovery_port"]
    BY <1>2, <1>3, <1>5 DEF SendHead
  <1>7. b \in Seq(V)
    BY <1>2, <1>3, <1>5 DEF SendPeer
  <1>8. o["host"] = None => Len(b) = 1 /\ b[1] = "--auto"
    BY <1>5 DEF SendPeer
  <1>9. o["host"] # None => /\ Len(b) = 6 /\ b[1] = "--host" /\ b[2] = o["host"] /\ b[3] = "--port"
                            /\ b[4] = o["port"] /\ b[5] = "--parallel" /\ b[6] = o["parallel"]
    BY <1>5 DEF SendPeer
  <1>10. c \in Seq(V)
    BY <1>2, <1>3, <1>5 DEF SendName
  <1>11. /\ o["remote_name"] = None => Len(c) = 0
         /\ o["remote_name"] # None => Len(c) = 2 /\ c[1] = "--name" /\ c[2] = o["remote_name"]
    BY <1>5 DEF SendName
  <1>12. Joins(r, a, b, V)
    BY <1>5, <1>6, <1>7, Joined
  <1>13. r \in Seq(V) /\ Len(r) = Len(a) + Len(b)
    BY <1>12 DEF Joins
  <1>14. Joins(r \o c, r, c, V)
    BY <1>10, <1>13, Joined
  <1>15. PICK arg : arg = r \o c
    OBVIOUS
  <1>16. PICK k : k = Len(r)
    OBVIOUS
  <1>17. /\ o["host"] = None => k = 6
         /\ o["host"] # None => k = 11
    <2>1. k = 5 + Len(b)
      BY <1>6, <1>13, <1>16
    <2>2. o["host"] = None => Len(b) = 1
      BY <1>8
    <2>3. o["host"] # None => Len(b) = 6
      BY <1>9
    <2>4. 5 + 1 = 6 /\ 5 + 6 = 11
      OBVIOUS
    <2>. QED
      BY <2>1, <2>2, <2>3, <2>4
  <1>18. k \in Nat /\ k >= 6
    BY <1>17
  <1>19. /\ arg \in Seq(V)
         /\ o["remote_name"] = None => Len(arg) = k
         /\ o["remote_name"] # None => Len(arg) = k + 2
    <2>1. arg \in Seq(V) /\ Len(arg) = k + Len(c)
      BY <1>14, <1>15, <1>16 DEF Joins
    <2>2. o["remote_name"] = None => Len(c) = 0
      BY <1>11
    <2>3. o["remote_name"] # None => Len(c) = 2
      BY <1>11
    <2>4. k + 0 = k
      BY <1>18
    <2>5. o["remote_name"] = None => Len(arg) = k
      BY <2>1, <2>2, <2>4
    <2>6. o["remote_name"] # None => Len(arg) = k + 2
      BY <2>1, <2>3
    <2>. QED
      BY <2>1, <2>5, <2>6
  <1>20. \A i \in 1 .. k : arg[i] = r[i]
    BY <1>14, <1>15, <1>16 DEF Joins
  <1>21. arg[1] = a[1] /\ arg[2] = a[2] /\ arg[3] = a[3] /\ arg[4] = a[4] /\ arg[5] = a[5]
    <2>1. \A i \in 1 .. 5 : r[i] = a[i]
      BY <1>6, <1>12 DEF Joins
    <2>2. \A i \in 1 .. 5 : i \in 1 .. k
      BY <1>18
    <2>3. \A i \in 1 .. 5 : arg[i] = a[i]
      BY <1>20, <2>1, <2>2
    <2>. QED
      BY <2>3
  <1>22. o["host"] = None => arg[6] = "--auto"
    <2>1. \A i \in 1 .. Len(b) : r[5 + i] = b[i]
      BY <1>6, <1>12 DEF Joins
    <2>2. o["host"] = None => 1 \in 1 .. Len(b)
      BY <1>8
    <2>3. o["host"] = None => r[5 + 1] = b[1]
      BY <2>1, <2>2
    <2>4. 6 \in 1 .. k /\ 5 + 1 = 6
      BY <1>18
    <2>. QED
      BY <1>8, <1>20, <2>3, <2>4
  <1>23. o["host"] # None =>
           /\ arg[6] = b[1] /\ arg[7] = b[2] /\ arg[8] = b[3] /\ arg[9] = b[4]
           /\ arg[10] = b[5] /\ arg[11] = b[6]
    <2>1. o["host"] # None => \A i \in 1 .. 6 : r[5 + i] = b[i]
      BY <1>6, <1>9, <1>12 DEF Joins
    <2>2. o["host"] # None => k = 11
      BY <1>17
    <2>. QED
      BY <1>20, <2>1, <2>2
  <1>24. o["remote_name"] # None => arg[k + 1] = "--name" /\ arg[k + 2] = o["remote_name"]
    <2>1. o["remote_name"] # None => \A i \in 1 .. 2 : arg[k + i] = c[i]
      BY <1>11, <1>14, <1>15, <1>16 DEF Joins
    <2>. QED
      BY <1>11, <2>1
  <1>25. run_send(o) = arg
    BY <1>4, <1>5, <1>15
  <1>26. SendLayout(arg, o, V, k)
    BY <1>6, <1>9, <1>18, <1>21, <1>22, <1>23, <1>24, <1>17, <1>19 DEF SendLayout
  <1>. QED
    BY <1>25, <1>26

\* The name comes last; left out, it is the default.
LEMMA SendNameRead ==
  ASSUME NEW V, Vocabulary(V), NEW o \in [SendNames -> V], NEW arg, NEW k \in Nat,
         SendLayout(arg, o, V, k), NEW at, FileRun(at, arg, V), NEW S, NEW base,
         FileReads(at[k], S, o, base), base["remote_name"] = None
  PROVE  FileReads(at[Len(arg)], S \cup {"remote_name"}, o, base)
  <1>1. CASE o["remote_name"] = None
    <2>1. Len(arg) = k
      BY <1>1 DEF SendLayout
    <2>2. FileOk("remote_name", o["remote_name"]) /\ ReadAs("remote_name", o["remote_name"]) = None
      BY <1>1 DEF FileOk, ReadAs
    <2>3. (\A f \in S : FileOk(f, o[f])) <=> (\A f \in S \cup {"remote_name"} : FileOk(f, o[f]))
      BY <2>2
    <2>4. PICK p : p = at[k]
      OBVIOUS
    <2>5. p.is = IF \A f \in S \cup {"remote_name"} : FileOk(f, o[f]) THEN "options" ELSE "error"
      BY <2>3, <2>4 DEF FileReads
    <2>6. p.is = "options" =>
            /\ p.want = None
            /\ \A f \in FileNames : p.opt[f] = IF f \in S \cup {"remote_name"} THEN ReadAs(f, o[f]) ELSE base[f]
      BY <2>2, <2>4 DEF FileReads
    <2>7. FileReads(p, S \cup {"remote_name"}, o, base)
      BY <2>5, <2>6 DEF FileReads
    <2>. QED
      BY <2>1, <2>4, <2>7
  <1>2. CASE o["remote_name"] # None
    <2>1. PICK m : m = k + 2
      OBVIOUS
    <2>2. arg \in Seq(V) /\ Len(arg) = m /\ m <= Len(arg)
      BY <1>2, <2>1 DEF SendLayout
    <2>3. arg[k + 1] \in FileOptions /\ Field(arg[k + 1]) = "remote_name" /\ arg[m] = o["remote_name"]
      BY <1>2, <2>1 DEF SendLayout, Field, FileOptions, SendOptions, ReceiveOptions, TransferOptions
    <2>4. PICK T : T = S \cup {"remote_name"}
      OBVIOUS
    <2>5. FileReads(at[m], T, o, base)
      BY <2>1, <2>2, <2>3, <2>4, FileNextPair
    <2>. QED
      BY <2>2, <2>4, <2>5
  <1>. QED
    BY <1>1, <1>2

\* The first five words, and the defaults that remain.
SendBegun(at, o, base) ==
    /\ FileReads(at[5], {"file", "discovery_port"}, o, base)
    /\ base["remote_name"] = None /\ base["send"] = TRUE /\ base["receive"] = FALSE
    /\ base["auto_discover"] = FALSE /\ base["port"] = Number[DefaultPort] /\ base["parallel"] = 1

LEMMA SendBegins ==
  ASSUME NEW V, Vocabulary(V), NEW o \in [SendNames -> V], NEW arg, NEW k \in Nat, k >= 6,
         SendLayout(arg, o, V, k), NEW at, FileRun(at, arg, V)
  PROVE  \E base : SendBegun(at, o, base)
  <1>1. SendLayout(arg, o, V, k)
    OBVIOUS
  <1>2. arg \in Seq(V) /\ Len(arg) \in Nat /\ Len(arg) >= 6
    BY DEF SendLayout
  <1>3. FileRun(at, arg, V)
    OBVIOUS
  <1>4. PICK base : base = at[1].opt
    OBVIOUS
  <1>5. /\ at[1].is = "options" /\ at[1].want = None
        /\ \A g \in FileNames : base[g] = IF g = "host" THEN "127.0.0.1" ELSE
                                          IF g = "send" THEN TRUE ELSE FileDefaults[g]
    <2>1. at[1] = FileStep(at[0], arg[1]) /\ at[0] \in FileStates(V) /\ arg[1] \in V
      <3>1. 0 \in Nat /\ 1 = 0 + 1 /\ 1 <= Len(arg)
        BY <1>2
      <3>. QED
        BY <1>2, <1>3, <3>1, FileNextWord
    <2>2. at[0] = Fresh(FileDefaults) /\ arg[1] = "--send"
      BY DEF FileRun, SendLayout
    <2>3. "send" \in FileNames /\ "127.0.0.1" \in V
      BY DEF FileNames, Vocabulary
    <2>4. /\ Switched(Switch(Fresh(FileDefaults), "send", "127.0.0.1"), Fresh(FileDefaults),
                      "send", "127.0.0.1", FileNames, V)
          /\ Fresh(FileDefaults).is = "options" /\ Fresh(FileDefaults).want = None
          /\ Fresh(FileDefaults).opt = FileDefaults
      BY <2>3, FileFresh
    <2>5. at[1] = Switch(Fresh(FileDefaults), "send", "127.0.0.1")
      BY <2>1, <2>2, <2>4, FileSwitches
    <2>. QED
      BY <1>4, <2>4, <2>5 DEF Switched
  <1>6. FileReads(at[1], {}, o, base)
    BY <1>4, <1>5 DEF FileReads
  <1>7. FileReads(at[3], {"file"}, o, base)
    <2>1. arg[1 + 1] \in FileOptions /\ Field(arg[1 + 1]) = "file" /\ arg[3] = o["file"]
      BY <1>1 DEF SendLayout, Field, FileOptions, SendOptions, ReceiveOptions, TransferOptions
    <2>2. 1 \in Nat /\ 3 = 1 + 2 /\ 3 <= Len(arg)
      BY <1>2
    <2>3. PICK S, T : S = {} /\ T = {"file"}
      OBVIOUS
    <2>4. T = S \cup {"file"}
      BY <2>3
    <2>5. FileReads(at[1], S, o, base)
      BY <1>6, <2>3
    <2>6. FileReads(at[3], T, o, base)
      BY <1>2, <1>3, <2>1, <2>2, <2>5, <2>4, FileNextPair
    <2>. QED
      BY <2>3, <2>6
  <1>8. FileReads(at[5], {"file", "discovery_port"}, o, base)
    <2>1. arg[3 + 1] \in FileOptions /\ Field(arg[3 + 1]) = "discovery_port" /\ arg[5] = o["discovery_port"]
      BY <1>1 DEF SendLayout, Field, FileOptions, SendOptions, ReceiveOptions, TransferOptions
    <2>2. 3 \in Nat /\ 5 = 3 + 2 /\ 5 <= Len(arg)
      BY <1>2
    <2>3. PICK S, T : S = {"file"} /\ T = {"file", "discovery_port"}
      OBVIOUS
    <2>4. T = S \cup {"discovery_port"}
      BY <2>3
    <2>5. FileReads(at[3], S, o, base)
      BY <1>7, <2>3
    <2>6. FileReads(at[5], T, o, base)
      BY <1>2, <1>3, <2>1, <2>2, <2>5, <2>4, FileNextPair
    <2>. QED
      BY <2>3, <2>6
  <1>9. /\ base["remote_name"] = None /\ base["send"] = TRUE /\ base["receive"] = FALSE
        /\ base["auto_discover"] = FALSE /\ base["port"] = Number[DefaultPort] /\ base["parallel"] = 1
    <2>1. \A f \in {"remote_name", "receive", "auto_discover", "port", "parallel"} : base[f] = FileDefaults[f]
      BY <1>5 DEF FileNames
    <2>2. base["send"] = TRUE
      BY <1>5 DEF FileNames
    <2>. QED
      BY <2>1, <2>2 DEF FileDefaults
  <1>. QED
    BY <1>8, <1>9 DEF SendBegun

\* Without a host: --auto.
LEMMA SendFindsPeer ==
  ASSUME NEW V, Vocabulary(V), NEW o \in [SendNames -> V], o["file"] # None, o["host"] = None
  PROVE  FileObeys(parse_args(run_send(o)), o, TRUE, TRUE, SendNames \ {"port", "parallel"})
  <1>1. PICK arg, k : arg = run_send(o) /\ SendLayout(arg, o, V, k)
    BY SendLaidOut
  <1>2. arg \in Seq(V) /\ k = 6 /\ arg[6] = "--auto"
    BY <1>1 DEF SendLayout
  <1>3. PICK at : FileRun(at, arg, V)
    BY <1>2, FileLoop
  <1>4. PICK base : SendBegun(at, o, base)
    <2>1. k \in Nat /\ k >= 6
      BY <1>2
    <2>. QED
      BY <1>1, <1>3, <2>1, SendBegins
  <1>5. PICK b : b = [f \in FileNames |-> IF f = "host" THEN None ELSE
                                          IF f = "auto_discover" THEN TRUE ELSE base[f]]
    OBVIOUS
  <1>6. FileReads(at[6], {"file", "discovery_port"}, o, b)
    <2>1. at[6] = FileStep(at[5], arg[6]) /\ at[5] \in FileStates(V) /\ arg[6] \in V
      <3>1. 5 \in Nat /\ 6 = 5 + 1 /\ 6 <= Len(arg)
        BY <1>1, <1>2 DEF SendLayout
      <3>. QED
        BY <1>2, <1>3, <3>1, FileNextWord
    <2>2. PICK p : p = at[5]
      OBVIOUS
    <2>3. p \in States(FileNames, V) /\ FileReads(p, {"file", "discovery_port"}, o, base)
      BY <1>4, <2>1, <2>2 DEF FileStates, SendBegun
    <2>4. CASE p.is # "options"
      <3>1. at[6] = p
        BY <2>1, <2>2, <2>4 DEF FileStep, Turn
      <3>. QED
        BY <2>3, <2>4, <3>1 DEF FileReads
    <2>5. CASE p.is = "options"
      <3>1. p.want = None /\ \A f \in {"file", "discovery_port"} : FileOk(f, o[f])
        BY <2>3, <2>5 DEF FileReads
      <3>2. at[6] = Switch(p, "auto_discover", None)
        BY <1>2, <2>1, <2>2, <2>5, <3>1, FileSwitches
      <3>3. "auto_discover" \in FileNames /\ "host" \in FileNames /\ None \in V
        BY DEF FileNames, Vocabulary
      <3>4. Switched(Switch(p, "auto_discover", None), p, "auto_discover", None, FileNames, V)
        BY <2>3, <3>3, SwitchState
      <3>5. PICK q : q = at[6]
        OBVIOUS
      <3>6. /\ q.is = "options" /\ q.want = None
            /\ \A g \in FileNames : q.opt[g] = IF g = "host" THEN None ELSE
                                               IF g = "auto_discover" THEN TRUE ELSE p.opt[g]
        BY <2>5, <3>2, <3>4, <3>5 DEF Switched
      <3>7. \A g \in FileNames : p.opt[g] = IF g \in {"file", "discovery_port"} THEN ReadAs(g, o[g]) ELSE base[g]
        BY <2>3, <2>5 DEF FileReads
      <3>8. \A g \in FileNames : q.opt[g] = IF g \in {"file", "discovery_port"} THEN ReadAs(g, o[g]) ELSE b[g]
        BY <1>5, <3>6, <3>7
      <3>9. FileReads(q, {"file", "discovery_port"}, o, b)
        BY <3>1, <3>6, <3>8 DEF FileReads
      <3>. QED
        BY <3>5, <3>9
    <2>. QED
      BY <2>4, <2>5
  <1>7. /\ b["remote_name"] = None /\ b["send"] = TRUE /\ b["receive"] = FALSE /\ b["host"] = None
        /\ b["auto_discover"] = TRUE /\ b["port"] = Number[DefaultPort] /\ b["parallel"] = 1
    <2>1. \A f \in {"remote_name", "receive", "send", "port", "parallel"} : b[f] = base[f]
      BY <1>5 DEF FileNames
    <2>2. b["host"] = None /\ b["auto_discover"] = TRUE
      BY <1>5 DEF FileNames
    <2>. QED
      BY <1>4, <2>1, <2>2 DEF SendBegun
  <1>8. PICK p : p = at[Len(arg)]
    OBVIOUS
  <1>9. FileReads(p, {"file", "discovery_port"} \cup {"remote_name"}, o, b)
    <2>1. k \in Nat /\ FileReads(at[k], {"file", "discovery_port"}, o, b)
      BY <1>2, <1>6
    <2>. QED
      BY <1>1, <1>3, <1>7, <1>8, <2>1, SendNameRead
  <1>10. p.is = IF IsPort(o["discovery_port"]) THEN "options" ELSE "error"
    <2>1. (\A f \in {"file", "discovery_port"} \cup {"remote_name"} : FileOk(f, o[f])) <=> IsPort(o["discovery_port"])
      BY DEF FileOk
    <2>. QED
      BY <1>9, <2>1 DEF FileReads
  <1>11. p.is = "options" =>
           /\ p.want = None
           /\ p.opt["file"] = ReadAs("file", o["file"])
           /\ p.opt["discovery_port"] = ReadAs("discovery_port", o["discovery_port"])
           /\ p.opt["remote_name"] = ReadAs("remote_name", o["remote_name"])
           /\ \A f \in {"send", "receive", "host", "auto_discover", "port", "parallel"} : p.opt[f] = b[f]
    <2>1. p.is = "options" =>
           /\ p.want = None
           /\ \A f \in FileNames : p.opt[f] = IF f \in {"file", "discovery_port"} \cup {"remote_name"}
                                                THEN ReadAs(f, o[f]) ELSE b[f]
      BY <1>9 DEF FileReads
    <2>2. /\ {"file", "discovery_port", "remote_name"} \subseteq FileNames
          /\ {"send", "receive", "host", "auto_discover", "port", "parallel"} \subseteq FileNames
      BY DEF FileNames
    <2>. QED
      BY <2>1, <2>2
  <1>12. ReadAs("file", o["file"]) = o["file"] /\ ReadAs("host", o["host"]) = None
    BY DEF ReadAs
  <1>13. FileVerdict(parse_args(arg), p)
    <2>1. p.is \in {"options", "error"}
      BY <1>10
    <2>2. PICK sends \in BOOLEAN : sends = TRUE
      OBVIOUS
    <2>3. p.is = "options" =>
            /\ p.want = None /\ p.opt["send"] = sends /\ p.opt["receive"] = ~sends
            /\ sends => p.opt["file"] # None
            /\ ~sends => p.opt["auto_discover"] = FALSE
      BY <1>7, <1>11, <1>12, <2>2
    <2>. QED
      BY <1>2, <1>3, <1>8, <2>1, <2>3, FileEnds
  <1>14. p.is = "options" => PortsAccepted(p.opt["port"], p.opt["parallel"])
    <2>1. Number[DefaultPort] \in 1 .. MaxPort
      BY DefaultsAssumption
    <2>2. PortsAccepted(Number[DefaultPort], 1)
      BY <2>1, MaxPortAssumption DEF PortsAccepted, LastPort
    <2>. QED
      BY <1>7, <1>11, <2>2
  <1>15. p.is = "options" =>
           /\ \A f \in SendNames \ {"port", "parallel"} : p.opt[f] = ReadAs(f, o[f])
           /\ p.opt["send"] = TRUE /\ p.opt["receive"] = FALSE /\ p.opt["auto_discover"] = TRUE
    BY <1>7, <1>11, <1>12 DEF SendNames
  <1>. QED
    BY <1>1, <1>10, <1>13, <1>14, <1>15 DEF FileVerdict, FileObeys

\* With a host: all options.
LEMMA SendGivenPeer ==
  ASSUME NEW V, Vocabulary(V), NEW o \in [SendNames -> V], o["file"] # None, o["host"] # None
  PROVE  FileObeys(parse_args(run_send(o)), o, TRUE, FALSE, SendNames)
  <1>1. PICK arg, k : arg = run_send(o) /\ SendLayout(arg, o, V, k)
    BY SendLaidOut
  <1>2. k = 11 /\ SendLayout(arg, o, V, k) /\ o["host"] # None
    BY <1>1 DEF SendLayout
  <1>3. arg \in Seq(V) /\ Len(arg) \in Nat /\ Len(arg) >= 11
    BY <1>2 DEF SendLayout
  <1>4. PICK at : FileRun(at, arg, V)
    BY <1>3, FileLoop
  <1>5. PICK base : SendBegun(at, o, base)
    <2>1. k \in Nat /\ k >= 6
      BY <1>2
    <2>. QED
      BY <1>1, <1>4, <2>1, SendBegins
  <1>6. FileReads(at[5], {"file", "discovery_port"}, o, base)
    BY <1>5 DEF SendBegun
  <1>7. FileReads(at[7], {"file", "discovery_port", "host"}, o, base)
    <2>1. arg[5 + 1] \in FileOptions /\ Field(arg[5 + 1]) = "host" /\ arg[7] = o["host"]
      BY <1>2 DEF SendLayout, Field, FileOptions, SendOptions, ReceiveOptions, TransferOptions
    <2>2. 5 \in Nat /\ 7 = 5 + 2 /\ 7 <= Len(arg)
      BY <1>3
    <2>3. PICK S, T : S = {"file", "discovery_port"} /\ T = {"file", "discovery_port", "host"}
      OBVIOUS
    <2>4. T = S \cup {"host"}
      BY <2>3
    <2>5. FileReads(at[5], S, o, base)
      BY <1>6, <2>3
    <2>6. FileReads(at[7], T, o, base)
      BY <1>3, <1>4, <2>1, <2>2, <2>5, <2>4, FileNextPair
    <2>. QED
      BY <2>3, <2>6
  <1>8. FileReads(at[9], {"file", "discovery_port", "host", "port"}, o, base)
    <2>1. arg[7 + 1] \in FileOptions /\ Field(arg[7 + 1]) = "port" /\ arg[9] = o["port"]
      BY <1>2 DEF SendLayout, Field, FileOptions, SendOptions, ReceiveOptions, TransferOptions
    <2>2. 7 \in Nat /\ 9 = 7 + 2 /\ 9 <= Len(arg)
      BY <1>3
    <2>3. PICK S, T : S = {"file", "discovery_port", "host"} /\ T = {"file", "discovery_port", "host", "port"}
      OBVIOUS
    <2>4. T = S \cup {"port"}
      BY <2>3
    <2>5. FileReads(at[7], S, o, base)
      BY <1>7, <2>3
    <2>6. FileReads(at[9], T, o, base)
      BY <1>3, <1>4, <2>1, <2>2, <2>5, <2>4, FileNextPair
    <2>. QED
      BY <2>3, <2>6
  <1>9. FileReads(at[11], {"file", "discovery_port", "host", "port", "parallel"}, o, base)
    <2>1. arg[9 + 1] \in FileOptions /\ Field(arg[9 + 1]) = "parallel" /\ arg[11] = o["parallel"]
      BY <1>2 DEF SendLayout, Field, FileOptions, SendOptions, ReceiveOptions, TransferOptions
    <2>2. 9 \in Nat /\ 11 = 9 + 2 /\ 11 <= Len(arg)
      BY <1>3
    <2>3. PICK S, T : S = {"file", "discovery_port", "host", "port"} /\ T = {"file", "discovery_port", "host", "port", "parallel"}
      OBVIOUS
    <2>4. T = S \cup {"parallel"}
      BY <2>3
    <2>5. FileReads(at[9], S, o, base)
      BY <1>8, <2>3
    <2>6. FileReads(at[11], T, o, base)
      BY <1>3, <1>4, <2>1, <2>2, <2>5, <2>4, FileNextPair
    <2>. QED
      BY <2>3, <2>6
  <1>10. PICK p : p = at[Len(arg)]
    OBVIOUS
  <1>11. FileReads(p, {"file", "discovery_port", "host", "port", "parallel"} \cup {"remote_name"}, o, base)
    <2>1. k \in Nat /\ FileReads(at[k], {"file", "discovery_port", "host", "port", "parallel"}, o, base)
      BY <1>2, <1>9
    <2>2. base["remote_name"] = None
      BY <1>5 DEF SendBegun
    <2>. QED
      BY <1>2, <1>4, <1>10, <2>1, <2>2, SendNameRead
  <1>12. p.is = IF IsPort(o["discovery_port"]) /\ IsPort(o["port"]) /\ IsCount(o["parallel"])
                  THEN "options" ELSE "error"
    <2>1. (\A f \in {"file", "discovery_port", "host", "port", "parallel"} \cup {"remote_name"} : FileOk(f, o[f])) <=>
            IsPort(o["discovery_port"]) /\ IsPort(o["port"]) /\ IsCount(o["parallel"])
      BY DEF FileOk
    <2>. QED
      BY <1>11, <2>1 DEF FileReads
  <1>13. p.is = "options" =>
           /\ p.want = None
           /\ \A f \in SendNames : p.opt[f] = ReadAs(f, o[f])
           /\ p.opt["send"] = TRUE /\ p.opt["receive"] = FALSE /\ p.opt["auto_discover"] = FALSE
    <2>. DEFINE S == {"file", "discovery_port", "host", "port", "parallel"} \cup {"remote_name"}
    <2>1. p.is = "options" =>
           /\ p.want = None
           /\ \A f \in FileNames : p.opt[f] = IF f \in S THEN ReadAs(f, o[f]) ELSE base[f]
      BY <1>11 DEF FileReads
    <2>2. /\ \A f \in SendNames : f \in S /\ f \in FileNames
          /\ \A f \in {"send", "receive", "auto_discover"} : f \in FileNames /\ f \notin S
      BY DEF FileNames, SendNames
    <2>3. base["send"] = TRUE /\ base["receive"] = FALSE /\ base["auto_discover"] = FALSE
      BY <1>5 DEF SendBegun
    <2>. HIDE DEF S
    <2>. QED
      BY <2>1, <2>2, <2>3
  <1>14. FileVerdict(parse_args(arg), p)
    <2>1. p.is \in {"options", "error"}
      BY <1>12
    <2>2. PICK sends \in BOOLEAN : sends = TRUE
      OBVIOUS
    <2>3. p.is = "options" => p.opt["file"] = o["file"]
      BY <1>13 DEF SendNames, ReadAs
    <2>4. p.is = "options" =>
            /\ p.want = None /\ p.opt["send"] = sends /\ p.opt["receive"] = ~sends
            /\ sends => p.opt["file"] # None
            /\ ~sends => p.opt["auto_discover"] = FALSE
      BY <1>13, <2>2, <2>3
    <2>. QED
      BY <1>3, <1>4, <1>10, <2>1, <2>4, FileEnds
  <1>15. p.is = "options" => (PortsAccepted(p.opt["port"], p.opt["parallel"]) <=> FitRead(o["port"], o["parallel"]))
    <2>1. p.is = "options" => /\ IsPort(o["port"]) /\ IsCount(o["parallel"])
                              /\ p.opt["port"] = ReadAs("port", o["port"])
                              /\ p.opt["parallel"] = ReadAs("parallel", o["parallel"])
      BY <1>12, <1>13 DEF SendNames
    <2>. QED
      BY <2>1, PortsRead
  <1>. QED
    BY <1>1, <1>12, <1>13, <1>14, <1>15 DEF FileVerdict, FileObeys

-----------------------------------------------------------------------------
(***************************************************************************)
(* The same for hyperlink_bench.                                           *)
(***************************************************************************)
\* What its parse_args requires of the word for a field.
BenchOk(f, w) ==
    /\ f = "port" => IsPort(w)
    /\ f \in {"parallel", "seconds"} => IsCount(w)
    /\ f = "chunk_bytes" => IsPositive(w)
    /\ f = "socket_buffer_bytes" => IsNumber(w)

BenchValued == {"host", "port", "parallel", "seconds", "chunk_bytes", "socket_buffer_bytes"}

LEMMA BenchValueReads ==
  ASSUME NEW V, Vocabulary(V), NEW p, NEW w \in V, p.want \in BenchValued
  PROVE  /\ BenchValue(p, w) = IF BenchOk(p.want, w) THEN Put(p, p.want, ReadAs(p.want, w))
                               ELSE Stop(p, "error")
         /\ BenchOk(p.want, w) => ReadAs(p.want, w) \in V
  <1>1. ASSUME IsNumber(w)
        PROVE  /\ Number[w] \in Nat /\ Number[w] \in V
               /\ Narrow(Number[w]) \in Nat /\ Narrow(Number[w]) \in V
    BY <1>1, NumberAssumption, NarrowType DEF IsNumber, Vocabulary
  <1>2. CASE p.want = "port"
    <2>1. /\ BenchValue(p, w) = parse_port(p, w) /\ ReadAs(p.want, w) = Number[w]
          /\ BenchOk(p.want, w) <=> IsPort(w)
      BY <1>2 DEF BenchValue, ReadAs, BenchOk
    <2>. QED
      BY <1>1, <2>1 DEF parse_port, IsPort, IsNumber
  <1>3. CASE p.want \in {"parallel", "seconds"}
    <2>1. /\ BenchValue(p, w) = PositiveWord(p, w) /\ ReadAs(p.want, w) = Narrow(Number[w])
          /\ BenchOk(p.want, w) <=> IsCount(w)
      BY <1>3 DEF BenchValue, ReadAs, BenchOk
    <2>. QED
      BY <1>1, <2>1 DEF PositiveWord, IsCount, IsNumber
  <1>4. CASE p.want = "chunk_bytes"
    <2>1. /\ BenchValue(p, w) = IF w \in DOMAIN Number /\ Number[w] # 0
                                  THEN Put(p, p.want, Number[w]) ELSE Stop(p, "error")
          /\ ReadAs(p.want, w) = Number[w] /\ (BenchOk(p.want, w) <=> IsPositive(w))
      BY <1>4 DEF BenchValue, ReadAs, BenchOk
    <2>. QED
      BY <1>1, <2>1 DEF IsPositive, IsNumber
  <1>5. CASE p.want = "socket_buffer_bytes"
    <2>1. /\ BenchValue(p, w) = IF w \in DOMAIN Number
                                  THEN Put(p, p.want, Narrow(Number[w])) ELSE Stop(p, "error")
          /\ ReadAs(p.want, w) = Narrow(Number[w]) /\ (BenchOk(p.want, w) <=> IsNumber(w))
      BY <1>5 DEF BenchValue, ReadAs, BenchOk
    <2>. QED
      BY <1>1, <2>1 DEF IsNumber
  <1>6. CASE p.want = "host"
    <2>1. BenchValue(p, w) = Text(p, w) /\ ReadAs(p.want, w) = w /\ BenchOk(p.want, w)
      BY <1>6 DEF BenchValue, ReadAs, BenchOk
    <2>. QED
      BY <2>1 DEF Text
  <1>. QED
    BY <1>2, <1>3, <1>4, <1>5, <1>6 DEF BenchValued

BenchStates(V) == { p \in States(BenchNames, V) : p.want \in BenchValued \cup {None} }

LEMMA BenchStart ==
  ASSUME NEW V, Vocabulary(V), NEW arg
  PROVE  /\ BenchDefaults \in [BenchNames -> V]
         /\ Fresh(BenchDefaults) \in BenchStates(V)
  <1>. DEFINE d == BenchDefaults
  <1>1. d = [f \in BenchNames |-> d[f]]
    BY DEF BenchDefaults, BenchNames
  <1>2. d.server \in V /\ d.host \in V
    BY DEF BenchDefaults, Vocabulary
  <1>3. d.port \in V /\ d.seconds \in V
    <2>1. Number[DefaultTestPort] \in Nat /\ Number[DefaultSeconds] \in Nat
      BY DefaultsAssumption, NumberAssumption
    <2>. QED
      BY <2>1 DEF BenchDefaults, Vocabulary
  <1>4. d.parallel \in V /\ d.socket_buffer_bytes \in V /\ d.chunk_bytes \in V
    <2>1. 0 \in Nat /\ 1 \in Nat
      OBVIOUS
    <2>. QED
      BY <2>1 DEF BenchDefaults, Vocabulary
  <1>. HIDE DEF d
  <1>5. \A f \in BenchNames : d[f] \in V
    BY <1>2, <1>3, <1>4 DEF BenchNames
  <1>6. d \in [BenchNames -> V]
    BY <1>1, <1>5
  <1>7. Fresh(d) \in States(BenchNames, V) /\ Fresh(d).want = None
    BY <1>6, FreshState
  <1>. QED
    BY <1>6, <1>7 DEF BenchStates, d

\* One turn of the loop.
BenchStep(p, w) == Turn(p, BenchValue(p, w), BenchWord(p, w))

LEMMA BenchTurn ==
  ASSUME NEW V, Vocabulary(V), NEW p \in BenchStates(V), NEW w \in V
  PROVE  BenchStep(p, w) \in BenchStates(V)
  <1>. USE DEF BenchStep
  <1>1. p \in States(BenchNames, V) /\ p.want \in BenchValued \cup {None} /\ p.opt \in [BenchNames -> V]
    BY DEF BenchStates, States
  <1>2. BenchValued \subseteq BenchNames /\ {"server", "host"} \subseteq BenchNames
    BY DEF BenchValued, BenchNames
  <1>3. "0.0.0.0" \in V /\ FALSE \in V
    BY DEF Vocabulary
  <1>4. \A is \in {"help", "error"} : Stop(p, is) \in BenchStates(V)
    BY <1>1, StopState DEF BenchStates
  <1>5. CASE p.is = "options" /\ p.want # None
    <2>1. /\ BenchValue(p, w) = IF BenchOk(p.want, w) THEN Put(p, p.want, ReadAs(p.want, w))
                                ELSE Stop(p, "error")
          /\ BenchOk(p.want, w) => ReadAs(p.want, w) \in V
      BY <1>1, <1>5, BenchValueReads
    <2>2. ASSUME NEW v \in V PROVE Put(p, p.want, v) \in BenchStates(V)
      <3>1. PICK f \in BenchNames : f = p.want
        BY <1>1, <1>2, <1>5
      <3>2. /\ Put(p, f, v) \in States(BenchNames, V) /\ Put(p, f, v).want = None
            /\ Put(p, f, v).opt = [p.opt EXCEPT ![f] = v]
        BY <1>1, PutState
      <3>. QED
        BY <3>1, <3>2 DEF BenchStates
    <2>. QED
      BY <1>4, <1>5, <2>1, <2>2 DEF Turn
  <1>6. CASE p.is = "options" /\ p.want = None
    <2>1. ASSUME w \in TestOptions PROVE Want(p, Field(w)) \in BenchStates(V)
      <3>1. Field(w) \in BenchValued
        BY <2>1 DEF TestOptions, Field, BenchValued
      <3>2. Field(w) \in BenchNames
        BY <1>2, <3>1
      <3>3. Want(p, Field(w)) \in States(BenchNames, V) /\ Want(p, Field(w)).want = Field(w)
        BY <1>1, <3>2, WantState
      <3>. QED
        BY <3>1, <3>3 DEF BenchStates
    <2>2. Put(Put(p, "server", TRUE), "host", "0.0.0.0") \in BenchStates(V)
      <3>1. Switched(Switch(p, "server", "0.0.0.0"), p, "server", "0.0.0.0", BenchNames, V)
        BY <1>1, <1>2, <1>3, SwitchState
      <3>2. Switch(p, "server", "0.0.0.0") \in BenchStates(V)
        BY <3>1 DEF BenchStates, Switched
      <3>. QED
        BY <3>2 DEF Switch
    <2>3. Put(p, "server", FALSE) \in BenchStates(V)
      <3>1. [p.opt EXCEPT !["server"] = FALSE] \in [BenchNames -> V]
        BY <1>1, <1>2, <1>3
      <3>. QED
        BY <1>1, <3>1 DEF Put, States, BenchStates
    <2>. QED
      BY <1>4, <1>6, <2>1, <2>2, <2>3 DEF Turn, BenchWord
  <1>7. CASE p.is # "options"
    BY <1>7 DEF Turn
  <1>. QED
    BY <1>5, <1>6, <1>7

\* The states of the loop of parse_args of bench.
BenchRun(at, arg, V) ==
    /\ at \in [0 .. Len(arg) -> BenchStates(V)]
    /\ at[0] = Fresh(BenchDefaults)
    /\ at[Len(arg)] = FoldLeft(LAMBDA q, w : Turn(q, BenchValue(q, w), BenchWord(q, w)), Fresh(BenchDefaults), arg)
    /\ \A n \in 1 .. Len(arg) : at[n] = BenchStep(at[n - 1], arg[n])

LEMMA BenchLoop ==
  ASSUME NEW V, Vocabulary(V), NEW arg \in Seq(V)
  PROVE  \E at : BenchRun(at, arg, V)
  <1>. DEFINE N == Len(arg)
              D == BenchStates(V)
              base == Fresh(BenchDefaults)
              Op(p, w) == BenchStep(p, w)
              G == [x \in D \X (1 .. N) |-> Op(x[1], arg[x[2]])]
              Iter(f) == f = [s \in SUBSET (1 .. N) |->
                                IF s = {} THEN base ELSE Op(f[s \ {Max(s)}], arg[Max(s)])]
              g == CHOOSE f : Iter(f)
  <1>1. N \in Nat /\ DOMAIN arg = 1 .. N /\ \A n \in 1 .. N : arg[n] \in V
    OBVIOUS
  <1>2. FoldLeft(LAMBDA q, w : Turn(q, BenchValue(q, w), BenchWord(q, w)), Fresh(BenchDefaults), arg)
          = g[1 .. N]
    <2>1. FoldLeft(LAMBDA q, w : Turn(q, BenchValue(q, w), BenchWord(q, w)), Fresh(BenchDefaults), arg)
            = g[DOMAIN arg]
      BY <1>1 DEF FoldLeft, MapThenFoldSet, BenchStep
    <2>. QED
      BY <1>1, <2>1
  <1>. HIDE DEF base, Op
  <1>3. base \in D /\ \A p \in D : \A n \in 1 .. N : Op(p, arg[n]) \in D
    <2>1. base \in D
      BY BenchStart DEF base
    <2>2. ASSUME NEW p \in D, NEW n \in 1 .. N PROVE Op(p, arg[n]) \in D
      BY <1>1, BenchTurn DEF Op
    <2>. QED
      BY <2>1, <2>2
  <1>4. G \in [D \X (1 .. N) -> D]
    <2>. HIDE DEF D, N
    <2>1. \A x \in D \X (1 .. N) : Op(x[1], arg[x[2]]) \in D
      BY <1>3
    <2>. QED
      BY <2>1
  <1>. HIDE DEF D
  <1>5. PICK f : Recurs(f, N, D, base, G)
    <2>. HIDE DEF G, N
    <2>. QED
      BY <1>1, <1>3, <1>4, FoldRuns
  <1>6. Iter(f)
    <2>1. \A s \in SUBSET (1 .. N) :
            f[s] = IF s = {} THEN base ELSE Op(f[s \ {Max(s)}], arg[Max(s)])
      <3>. SUFFICES ASSUME NEW s \in SUBSET (1 .. N), s # {}
                    PROVE  G[<<f[s \ {Max(s)}], Max(s)>>] = Op(f[s \ {Max(s)}], arg[Max(s)])
        BY <1>5 DEF Recurs
      <3>1. Max(s) \in 1 .. N
        BY <1>1, MaxIndex
      <3>2. f[s \ {Max(s)}] \in D
        BY <1>5 DEF Recurs
      <3>. QED
        BY <3>1, <3>2
    <2>2. f = [s \in SUBSET (1 .. N) |-> f[s]]
      BY <1>5 DEF Recurs
    <2>. QED
      BY <2>1, <2>2
  <1>7. Iter(g)
    <2>. HIDE DEF Iter
    <2>. QED
      BY <1>6
  <1>. HIDE DEF g
  <1>8. g[{}] = base
    BY <1>7
  <1>9. ASSUME NEW n \in 1 .. N, g[1 .. n - 1] \in D
        PROVE  g[1 .. n] = G[<<g[1 .. n - 1], n>>]
    <2>1. 1 .. n \in SUBSET (1 .. N) /\ n \in Nat \ {0}
      BY <1>1
    <2>2. Max(1 .. n) = n /\ (1 .. n) \ {n} = 1 .. n - 1 /\ 1 .. n # {}
      BY <2>1, LastIndex
    <2>3. g[1 .. n] = Op(g[1 .. n - 1], arg[n])
      BY <1>7, <2>1, <2>2
    <2>. QED
      BY <1>9, <2>3
  <1>. DEFINE at == [n \in 0 .. N |-> g[1 .. n]]
  <1>10. Steps(at, N, D, base, G) /\ at[N] = g[1 .. N]
    <2>1. Iterates(g, N, D, base, G)
      BY <1>8, <1>9 DEF Iterates
    <2>2. at[N] = g[1 .. N]
      BY <1>1
    <2>. HIDE DEF G, N
    <2>3. Steps(at, N, D, base, G)
      BY <1>1, <1>3, <1>4, <2>1, FoldStates
    <2>. QED
      BY <2>2, <2>3
  <1>. HIDE DEF at
  <1>11. \A n \in 1 .. N : at[n] = Op(at[n - 1], arg[n])
    <2>1. \A n \in 1 .. N : n - 1 \in 0 .. N /\ at[n - 1] \in D
      BY <1>1, <1>10 DEF Steps
    <2>2. ASSUME NEW n \in 1 .. N PROVE at[n] = Op(at[n - 1], arg[n])
      <3>1. at[n] = G[<<at[n - 1], n>>] /\ at[n - 1] \in D
        BY <1>10, <2>1 DEF Steps
      <3>. QED
        BY <3>1
    <2>. QED
      BY <2>2
  <1>12. BenchRun(at, arg, V)
    BY <1>2, <1>10, <1>11 DEF Steps, BenchRun, D, base, Op
  <1>. QED
    BY <1>12

\* What a state of the loop has read: the values of the fields S, which are
\* o's, on top of the options base.
BenchReads(p, S, o, base) ==
    /\ p.is = IF \A f \in S : BenchOk(f, o[f]) THEN "options" ELSE "error"
    /\ p.is = "options" =>
         /\ p.want = None
         /\ \A f \in BenchNames : p.opt[f] = IF f \in S THEN ReadAs(f, o[f]) ELSE base[f]

\* An option and its value add one field.
LEMMA BenchPair ==
  ASSUME NEW V, Vocabulary(V), NEW p \in BenchStates(V), NEW S, NEW o, NEW base,
         BenchReads(p, S, o, base), NEW w \in TestOptions, o[Field(w)] \in V
  PROVE  BenchReads(BenchStep(BenchStep(p, w), o[Field(w)]), S \cup {Field(w)}, o, base)
  <1>1. PICK f, v : f = Field(w) /\ v = o[f]
    OBVIOUS
  <1>2. f \in BenchValued /\ f \in BenchNames /\ f # None /\ v \in V
    BY <1>1 DEF TestOptions, Field, BenchValued, BenchNames, None
  <1>3. p \in States(BenchNames, V) /\ p.opt \in [BenchNames -> V]
    BY DEF BenchStates, States
  <1>4. CASE p.is # "options"
    <2>1. BenchStep(BenchStep(p, w), v) = p
      BY <1>4 DEF BenchStep, Turn
    <2>2. p.is = "error" /\ ~\A g \in S : BenchOk(g, o[g])
      BY <1>4 DEF BenchReads
    <2>3. ~\A g \in S \cup {f} : BenchOk(g, o[g])
      BY <2>2
    <2>. QED
      BY <1>1, <1>4, <2>1, <2>2, <2>3 DEF BenchReads
  <1>5. CASE p.is = "options"
    <2>1. p.want = None /\ \A g \in S : BenchOk(g, o[g])
      BY <1>5 DEF BenchReads
    <2>2. \A g \in BenchNames : p.opt[g] = IF g \in S THEN ReadAs(g, o[g]) ELSE base[g]
      BY <1>5 DEF BenchReads
    <2>3. BenchStep(p, w) = Want(p, f)
      <3>1. w \notin {"--server", "--client"}
        BY DEF TestOptions
      <3>. QED
        BY <1>1, <1>5, <2>1, <3>1 DEF BenchStep, Turn, BenchWord
    <2>4. PICK q : q = Want(p, f)
      OBVIOUS
    <2>5. q \in States(BenchNames, V) /\ q.is = p.is /\ q.want = f /\ q.opt = p.opt
      BY <1>2, <1>3, <2>4, WantState
    <2>6. /\ BenchStep(q, v) = IF BenchOk(f, v) THEN Put(q, f, ReadAs(f, v)) ELSE Stop(q, "error")
          /\ BenchOk(f, v) => ReadAs(f, v) \in V
      <3>1. q.want \in BenchValued
        BY <1>2, <2>5
      <3>2. /\ BenchValue(q, v) = IF BenchOk(q.want, v) THEN Put(q, q.want, ReadAs(q.want, v))
                                 ELSE Stop(q, "error")
            /\ BenchOk(q.want, v) => ReadAs(q.want, v) \in V
        BY <1>2, <3>1, BenchValueReads
      <3>. QED
        BY <1>2, <1>5, <2>5, <3>2 DEF BenchStep, Turn
    <2>7. CASE BenchOk(f, v)
      <3>1. PICK u \in V : u = ReadAs(f, v)
        BY <2>6, <2>7
      <3>2. /\ Put(q, f, u) \in States(BenchNames, V)
            /\ Put(q, f, u).is = q.is /\ Put(q, f, u).want = None
            /\ Put(q, f, u).opt = [q.opt EXCEPT ![f] = u]
        BY <1>2, <2>5, PutState
      <3>3. BenchStep(q, v) = Put(q, f, u)
        BY <2>6, <2>7, <3>1
      <3>4. \A g \in S \cup {f} : BenchOk(g, o[g])
        BY <1>1, <2>1, <2>7
      <3>5. \A g \in BenchNames : Put(q, f, u).opt[g] = IF g = f THEN u ELSE p.opt[g]
        BY <1>3, <2>5, <3>2
      <3>6. \A g \in BenchNames :
              Put(q, f, u).opt[g] = IF g \in S \cup {f} THEN ReadAs(g, o[g]) ELSE base[g]
        BY <1>1, <2>2, <3>1, <3>5
      <3>7. BenchReads(Put(q, f, u), S \cup {f}, o, base)
        BY <1>5, <2>5, <3>2, <3>4, <3>6 DEF BenchReads
      <3>. QED
        BY <1>1, <2>3, <2>4, <3>3, <3>7
    <2>8. CASE ~BenchOk(f, v)
      <3>1. BenchStep(q, v) = Stop(q, "error") /\ Stop(q, "error").is = "error"
        BY <2>5, <2>6, <2>8, StopState
      <3>2. ~\A g \in S \cup {f} : BenchOk(g, o[g])
        BY <1>1, <2>8
      <3>3. BenchReads(Stop(q, "error"), S \cup {f}, o, base)
        BY <3>1, <3>2 DEF BenchReads
      <3>. QED
        BY <1>1, <2>3, <2>4, <3>1, <3>3
    <2>. QED
      BY <2>7, <2>8
  <1>. QED
    BY <1>4, <1>5

\* The options without a value.
LEMMA BenchSwitches ==
  ASSUME NEW p, p.is = "options", p.want = None
  PROVE  /\ BenchStep(p, "--server") = Switch(p, "server", "0.0.0.0")
         /\ BenchStep(p, "--client") = Put(p, "server", FALSE)
  <1>1. \A w \in {"--server", "--client"} : w \notin TestOptions
    BY DEF TestOptions
  <1>. USE DEF BenchStep, Turn, BenchWord, Switch
  <1>2. BenchStep(p, "--server") = Switch(p, "server", "0.0.0.0")
    BY <1>1
  <1>3. BenchStep(p, "--client") = Put(p, "server", FALSE)
    BY <1>1
  <1>. QED
    BY <1>2, <1>3

\* One word, in the states of the loop.
LEMMA BenchNextWord ==
  ASSUME NEW V, NEW arg \in Seq(V), NEW at, BenchRun(at, arg, V),
         NEW n \in Nat, NEW m, m = n + 1, m <= Len(arg)
  PROVE  at[m] = BenchStep(at[n], arg[m]) /\ at[n] \in BenchStates(V) /\ arg[m] \in V
  <1>1. Len(arg) \in Nat /\ n \in 0 .. Len(arg) /\ m \in 1 .. Len(arg) /\ m - 1 = n
    OBVIOUS
  <1>2. at[m] = BenchStep(at[m - 1], arg[m]) /\ at[n] \in BenchStates(V)
    BY <1>1 DEF BenchRun
  <1>. QED
    BY <1>1, <1>2

\* One option and its value, in the states of the loop.
LEMMA BenchNextPair ==
  ASSUME NEW V, Vocabulary(V), NEW arg \in Seq(V), NEW at, BenchRun(at, arg, V),
         NEW n \in Nat, NEW m, m = n + 2, m <= Len(arg),
         NEW S, NEW o, NEW base, BenchReads(at[n], S, o, base),
         NEW f, arg[n + 1] \in TestOptions, Field(arg[n + 1]) = f, arg[m] = o[f],
         NEW T, T = S \cup {f}
  PROVE  BenchReads(at[m], T, o, base)
  <1>1. PICK k \in Nat : k = n + 1
    OBVIOUS
  <1>2. k <= Len(arg) /\ m = k + 1
    BY <1>1
  <1>3. at[k] = BenchStep(at[n], arg[k]) /\ at[n] \in BenchStates(V) /\ arg[k] \in V
    BY <1>1, <1>2, BenchNextWord
  <1>4. at[m] = BenchStep(at[k], arg[m]) /\ at[k] \in BenchStates(V) /\ arg[m] \in V
    BY <1>2, BenchNextWord
  <1>5. PICK w \in TestOptions : w = arg[k]
    BY <1>1
  <1>6. o[Field(w)] \in V /\ Field(w) = f
    BY <1>1, <1>4, <1>5
  <1>7. BenchReads(BenchStep(BenchStep(at[n], w), o[Field(w)]), S \cup {Field(w)}, o, base)
    BY <1>3, <1>6, BenchPair
  <1>. QED
    BY <1>3, <1>4, <1>5, <1>6, <1>7

\* The sum in 32 bits is too large only between the last port and 2^32.
LEMMA BenchLast ==
  ASSUME NEW a, NEW n, IsPort(a), IsCount(n)
  PROVE  Narrow(LastPort(ReadAs("port", a), ReadAs("parallel", n))) > MaxPort
           <=> ~(FitRead(a, n) \/ Wraps(a, n))
  <1>1. PICK W \in Nat \ {0} : W = WordSize /\ W > MaxPort
    BY WordSizeAssumption, MaxPortAssumption
  <1>2. MaxPort \in Nat
    BY MaxPortAssumption
  <1>3. PICK x \in 1 .. MaxPort : x = Number[a]
    BY DEF IsPort
  <1>4. PICK y \in 0 .. W - 1 : y = Narrow(Number[n]) /\ y > 0
    <2>1. Number[n] \in Nat
      BY NumberAssumption DEF IsCount, IsNumber
    <2>2. Number[n] % W \in 0 .. W - 1
      BY <2>1, DivMod
    <2>. QED
      BY <1>1, <2>2 DEF IsCount, Narrow
  <1>5. PICK L \in Nat : L = x + y - 1
    BY <1>2, <1>3, <1>4
  <1>6. L < 2 * W
    BY <1>1, <1>2, <1>3, <1>4, <1>5
  <1>7. PICK q \in Nat, r \in 0 .. W - 1 : q = L \div W /\ r = L % W /\ L = W * q + r
    BY DivMod
  <1>8. q = 0 \/ q = 1
    <2>1. ASSUME q >= 2 PROVE FALSE
      <3>1. W * 2 <= W * q
        BY <2>1, MulMono
      <3>. QED
        BY <1>6, <1>7, <3>1, MulNat
    <2>. QED
      BY <2>1
  <1>9. L >= W => r <= MaxPort
    <2>1. L >= W => q = 1
      BY <1>7, <1>8
    <2>2. L >= W => L = W + r
      BY <1>7, <2>1
    <2>3. L < W + MaxPort
      BY <1>1, <1>2, <1>3, <1>4, <1>5
    <2>. QED
      BY <1>2, <2>2, <2>3
  <1>10. L < W => r = L
    <2>1. L < W => q = 0
      BY <1>7, <1>8
    <2>. QED
      BY <1>7, <2>1
  <1>11. LastPort(ReadAs("port", a), ReadAs("parallel", n)) = L
    BY <1>3, <1>4, <1>5 DEF ReadAs, LastPort
  <1>12. Narrow(L) = r
    BY <1>1, <1>7 DEF Narrow
  <1>13. (FitRead(a, n) <=> L <= MaxPort) /\ (Wraps(a, n) <=> L >= W)
    BY <1>1, <1>3, <1>4, <1>5 DEF FitRead, Wraps
  <1>. QED
    BY <1>1, <1>2, <1>9, <1>10, <1>11, <1>12, <1>13

\* What hyperlink_bench does with a started front end's options.
BenchObeys(h, o, passed) ==
    /\ h.is = IF /\ IsPort(o["port"]) /\ IsCount(o["parallel"])
                 /\ IsNumber(o["socket_buffer_bytes"])
                 /\ o["send"] => IsCount(o["seconds"]) /\ IsPositive(o["chunk_bytes"])
                 /\ FitRead(o["port"], o["parallel"]) \/ Wraps(o["port"], o["parallel"])
                THEN "options" ELSE "error"
    /\ h.is = "options" =>
         /\ \A f \in passed : h.opt[f] = ReadAs(f, o[f])
         /\ h.opt["server"] = ~o["send"]
         /\ h.opt["server"] => h.opt["host"] = "0.0.0.0"

\* Its last check.
BenchVerdict(h, p, a, n) ==
    /\ h.opt = p.opt
    /\ h.is = IF p.is = "options" /\ (FitRead(a, n) \/ Wraps(a, n)) THEN "options" ELSE "error"

LEMMA BenchEnds ==
  ASSUME NEW V, NEW arg \in Seq(V), NEW at, BenchRun(at, arg, V), NEW p, p = at[Len(arg)],
         p.is \in {"options", "error"}, NEW a, NEW n,
         p.is = "options" => /\ p.want = None /\ IsPort(a) /\ IsCount(n)
                             /\ p.opt["port"] = ReadAs("port", a)
                             /\ p.opt["parallel"] = ReadAs("parallel", n)
  PROVE  BenchVerdict(bench_parse_args(arg), p, a, n)
  <1>1. p \in States(BenchNames, V)
    <2>1. Len(arg) \in 0 .. Len(arg)
      OBVIOUS
    <2>. QED
      BY <2>1 DEF BenchRun, BenchStates
  <1>2. Complete(p) = p
    BY DEF Complete
  <1>3. bench_parse_args(arg) =
          IF p.is = "options" /\ Narrow(LastPort(p.opt.port, p.opt.parallel)) > MaxPort
            THEN Stop(p, "error") ELSE p
    BY <1>2 DEF BenchRun, bench_parse_args
  <1>4. Stop(p, "error").is = "error" /\ Stop(p, "error").opt = p.opt
    BY <1>1, StopState
  <1>5. p.is = "options" => (Narrow(LastPort(p.opt["port"], p.opt["parallel"])) > MaxPort
                              <=> ~(FitRead(a, n) \/ Wraps(a, n)))
    BY BenchLast
  <1>. QED
    BY <1>3, <1>4, <1>5 DEF BenchVerdict

\* test receive: its options for the host are the server's.
LEMMA BenchReceives ==
  ASSUME NEW V, Vocabulary(V), NEW o \in [TestNames -> V], o["send"] = FALSE
  PROVE  BenchObeys(bench_parse_args(run_test(o)), o, {"port", "parallel", "socket_buffer_bytes"})
  <1>1. PICK arg, r : arg = run_test(o) /\ r = [o EXCEPT !["host"] = "0.0.0.0"]
    OBVIOUS
  <1>2. /\ r["host"] = "0.0.0.0" /\ r["port"] = o["port"] /\ r["parallel"] = o["parallel"]
        /\ r["socket_buffer_bytes"] = o["socket_buffer_bytes"]
    BY <1>1 DEF TestNames
  <1>3. arg = <<"--server", "--host", r["host"], "--port", r["port"], "--parallel", r["parallel"],
                "--socket-buffer-bytes", r["socket_buffer_bytes"]>>
    BY <1>1, <1>2 DEF run_test
  <1>4. /\ arg[1] = "--server" /\ arg[2] = "--host" /\ arg[3] = r["host"]
        /\ arg[4] = "--port" /\ arg[5] = r["port"] /\ arg[6] = "--parallel" /\ arg[7] = r["parallel"]
        /\ arg[8] = "--socket-buffer-bytes" /\ arg[9] = r["socket_buffer_bytes"]
    BY <1>3
  <1>5. arg \in Seq(V) /\ Len(arg) = 9
    <2>1. HelperWords \subseteq V /\ "0.0.0.0" \in V
      BY DEF Vocabulary
    <2>2. /\ "--server" \in V /\ "--host" \in V /\ "--port" \in V /\ "--parallel" \in V
          /\ "--socket-buffer-bytes" \in V
      BY <2>1 DEF HelperWords, TestOptions
    <2>3. o["port"] \in V /\ o["parallel"] \in V /\ o["socket_buffer_bytes"] \in V
      BY DEF TestNames
    <2>. QED
      BY <1>2, <1>3, <2>1, <2>2, <2>3
  <1>6. PICK at : BenchRun(at, arg, V)
    BY <1>5, BenchLoop
  <1>7. PICK base : base = at[1].opt
    OBVIOUS
  <1>8. at[1].is = "options" /\ at[1].want = None /\ base["server"] = TRUE
    <2>1. at[1] = BenchStep(at[0], arg[1]) /\ at[0] \in BenchStates(V) /\ arg[1] \in V
      <3>1. 0 \in Nat /\ 1 = 0 + 1 /\ 1 <= Len(arg)
        BY <1>5
      <3>. QED
        BY <1>5, <1>6, <3>1, BenchNextWord
    <2>2. at[0] = Fresh(BenchDefaults) /\ BenchDefaults \in [BenchNames -> V]
      BY <1>6, BenchStart DEF BenchRun
    <2>3. /\ at[0] \in States(BenchNames, V) /\ at[0].is = "options" /\ at[0].want = None
      BY <2>2, FreshState
    <2>4. "server" \in BenchNames /\ "host" \in BenchNames /\ "0.0.0.0" \in V
      BY DEF BenchNames, Vocabulary
    <2>5. PICK p : p = at[0]
      OBVIOUS
    <2>6. Switched(Switch(p, "server", "0.0.0.0"), p, "server", "0.0.0.0", BenchNames, V)
      BY <2>3, <2>4, <2>5, SwitchState
    <2>7. at[1] = Switch(p, "server", "0.0.0.0")
      BY <1>4, <2>1, <2>3, <2>5, BenchSwitches
    <2>. QED
      BY <1>7, <2>3, <2>4, <2>5, <2>6, <2>7 DEF Switched
  <1>9. BenchReads(at[1], {}, r, base)
    BY <1>7, <1>8 DEF BenchReads
  <1>10. BenchReads(at[3], {"host"}, r, base)
    <2>1. arg[1 + 1] \in TestOptions /\ Field(arg[1 + 1]) = "host" /\ arg[3] = r["host"]
      BY <1>4 DEF TestOptions, Field
    <2>2. 1 \in Nat /\ 3 = 1 + 2 /\ 3 <= Len(arg)
      BY <1>5
    <2>3. PICK S, T : S = {} /\ T = {"host"}
      OBVIOUS
    <2>4. T = S \cup {"host"}
      BY <2>3
    <2>5. BenchReads(at[1], S, r, base)
      BY <1>9, <2>3
    <2>6. BenchReads(at[3], T, r, base)
      BY <1>5, <1>6, <2>1, <2>2, <2>4, <2>5, BenchNextPair
    <2>. QED
      BY <2>3, <2>6
  <1>11. BenchReads(at[5], {"host", "port"}, r, base)
    <2>1. arg[3 + 1] \in TestOptions /\ Field(arg[3 + 1]) = "port" /\ arg[5] = r["port"]
      BY <1>4 DEF TestOptions, Field
    <2>2. 3 \in Nat /\ 5 = 3 + 2 /\ 5 <= Len(arg)
      BY <1>5
    <2>3. PICK S, T : S = {"host"} /\ T = {"host", "port"}
      OBVIOUS
    <2>4. T = S \cup {"port"}
      BY <2>3
    <2>5. BenchReads(at[3], S, r, base)
      BY <1>10, <2>3
    <2>6. BenchReads(at[5], T, r, base)
      BY <1>5, <1>6, <2>1, <2>2, <2>4, <2>5, BenchNextPair
    <2>. QED
      BY <2>3, <2>6
  <1>12. BenchReads(at[7], {"host", "port", "parallel"}, r, base)
    <2>1. arg[5 + 1] \in TestOptions /\ Field(arg[5 + 1]) = "parallel" /\ arg[7] = r["parallel"]
      BY <1>4 DEF TestOptions, Field
    <2>2. 5 \in Nat /\ 7 = 5 + 2 /\ 7 <= Len(arg)
      BY <1>5
    <2>3. PICK S, T : S = {"host", "port"} /\ T = {"host", "port", "parallel"}
      OBVIOUS
    <2>4. T = S \cup {"parallel"}
      BY <2>3
    <2>5. BenchReads(at[5], S, r, base)
      BY <1>11, <2>3
    <2>6. BenchReads(at[7], T, r, base)
      BY <1>5, <1>6, <2>1, <2>2, <2>4, <2>5, BenchNextPair
    <2>. QED
      BY <2>3, <2>6
  <1>13. BenchReads(at[9], {"host", "port", "parallel", "socket_buffer_bytes"}, r, base)
    <2>1. arg[7 + 1] \in TestOptions /\ Field(arg[7 + 1]) = "socket_buffer_bytes" /\ arg[9] = r["socket_buffer_bytes"]
      BY <1>4 DEF TestOptions, Field
    <2>2. 7 \in Nat /\ 9 = 7 + 2 /\ 9 <= Len(arg)
      BY <1>5
    <2>3. PICK S, T : S = {"host", "port", "parallel"} /\ T = {"host", "port", "parallel", "socket_buffer_bytes"}
      OBVIOUS
    <2>4. T = S \cup {"socket_buffer_bytes"}
      BY <2>3
    <2>5. BenchReads(at[7], S, r, base)
      BY <1>12, <2>3
    <2>6. BenchReads(at[9], T, r, base)
      BY <1>5, <1>6, <2>1, <2>2, <2>4, <2>5, BenchNextPair
    <2>. QED
      BY <2>3, <2>6
  <1>14. PICK p : p = at[Len(arg)]
    OBVIOUS
  <1>15. /\ p.is = IF IsPort(o["port"]) /\ IsCount(o["parallel"]) /\ IsNumber(o["socket_buffer_bytes"])
                     THEN "options" ELSE "error"
         /\ p.is = "options" =>
              /\ p.want = None
              /\ \A f \in {"port", "parallel", "socket_buffer_bytes"} : p.opt[f] = ReadAs(f, o[f])
              /\ p.opt["host"] = "0.0.0.0" /\ p.opt["server"] = TRUE
    <2>. DEFINE S == {"host", "port", "parallel", "socket_buffer_bytes"}
    <2>1. (\A f \in S : BenchOk(f, r[f])) <=>
            IsPort(o["port"]) /\ IsCount(o["parallel"]) /\ IsNumber(o["socket_buffer_bytes"])
      BY <1>2 DEF BenchOk
    <2>2. p = at[9]
      BY <1>5, <1>14
    <2>3. p.is = IF \A f \in S : BenchOk(f, r[f]) THEN "options" ELSE "error"
      BY <1>13, <2>2 DEF BenchReads
    <2>4. p.is = "options" =>
             /\ p.want = None
             /\ \A f \in BenchNames : p.opt[f] = IF f \in S THEN ReadAs(f, r[f]) ELSE base[f]
      BY <1>13, <2>2 DEF BenchReads
    <2>5. S \subseteq BenchNames /\ "server" \in BenchNames /\ "server" \notin S
      BY DEF BenchNames
    <2>6. \A f \in {"port", "parallel", "socket_buffer_bytes"} : f \in S /\ r[f] = o[f]
      BY <1>2
    <2>7. "host" \in S /\ ReadAs("host", r["host"]) = "0.0.0.0"
      BY <1>2 DEF ReadAs
    <2>. HIDE DEF S
    <2>. QED
      BY <1>8, <2>1, <2>3, <2>4, <2>5, <2>6, <2>7
  <1>16. BenchVerdict(bench_parse_args(arg), p, o["port"], o["parallel"])
    <2>1. p.is \in {"options", "error"}
      BY <1>15
    <2>2. p.is = "options" => /\ p.want = None /\ IsPort(o["port"]) /\ IsCount(o["parallel"])
                              /\ p.opt["port"] = ReadAs("port", o["port"])
                              /\ p.opt["parallel"] = ReadAs("parallel", o["parallel"])
      BY <1>15
    <2>. QED
      BY <1>5, <1>6, <1>14, <2>1, <2>2, BenchEnds
  <1>. QED
    BY <1>1, <1>15, <1>16 DEF BenchVerdict, BenchObeys

\* test send: all options.
LEMMA BenchSends ==
  ASSUME NEW V, Vocabulary(V), NEW o \in [TestNames -> V], o["send"] = TRUE
  PROVE  BenchObeys(bench_parse_args(run_test(o)), o,
                    {"port", "parallel", "socket_buffer_bytes"} \cup {"host", "seconds", "chunk_bytes"})
  <1>1. PICK arg : arg = run_test(o)
    OBVIOUS
  <1>2. arg = <<"--client", "--host", o["host"], "--port", o["port"], "--seconds", o["seconds"],
                "--chunk-bytes", o["chunk_bytes"], "--parallel", o["parallel"],
                "--socket-buffer-bytes", o["socket_buffer_bytes"]>>
    BY <1>1 DEF run_test
  <1>3. /\ arg[1] = "--client" /\ arg[2] = "--host" /\ arg[3] = o["host"]
        /\ arg[4] = "--port" /\ arg[5] = o["port"] /\ arg[6] = "--seconds" /\ arg[7] = o["seconds"]
        /\ arg[8] = "--chunk-bytes" /\ arg[9] = o["chunk_bytes"]
        /\ arg[10] = "--parallel" /\ arg[11] = o["parallel"]
        /\ arg[12] = "--socket-buffer-bytes" /\ arg[13] = o["socket_buffer_bytes"]
    BY <1>2
  <1>4. arg \in Seq(V) /\ Len(arg) = 13
    <2>1. HelperWords \subseteq V
      BY DEF Vocabulary
    <2>2. /\ "--client" \in V /\ "--host" \in V /\ "--port" \in V /\ "--parallel" \in V
          /\ "--socket-buffer-bytes" \in V /\ "--seconds" \in V /\ "--chunk-bytes" \in V
      BY <2>1 DEF HelperWords, TestOptions
    <2>3. /\ o["port"] \in V /\ o["parallel"] \in V /\ o["socket_buffer_bytes"] \in V
          /\ o["host"] \in V /\ o["seconds"] \in V /\ o["chunk_bytes"] \in V
      BY DEF TestNames
    <2>. QED
      BY <1>2, <2>2, <2>3
  <1>5. PICK at : BenchRun(at, arg, V)
    BY <1>4, BenchLoop
  <1>6. PICK base : base = at[1].opt
    OBVIOUS
  <1>7. at[1].is = "options" /\ at[1].want = None /\ base["server"] = FALSE
    <2>1. at[1] = BenchStep(at[0], arg[1]) /\ at[0] \in BenchStates(V) /\ arg[1] \in V
      <3>1. 0 \in Nat /\ 1 = 0 + 1 /\ 1 <= Len(arg)
        BY <1>4
      <3>. QED
        BY <1>4, <1>5, <3>1, BenchNextWord
    <2>2. at[0] = Fresh(BenchDefaults) /\ BenchDefaults \in [BenchNames -> V]
      BY <1>5, BenchStart DEF BenchRun
    <2>3. /\ at[0] \in States(BenchNames, V) /\ at[0].is = "options" /\ at[0].want = None
      BY <2>2, FreshState
    <2>4. at[1] = Put(at[0], "server", FALSE)
      BY <1>3, <2>1, <2>3, BenchSwitches
    <2>5. at[0].opt \in [BenchNames -> V] /\ "server" \in BenchNames
      BY <2>3 DEF States, BenchNames
    <2>6. /\ at[1].is = "options" /\ at[1].want = None
          /\ at[1].opt = [at[0].opt EXCEPT !["server"] = FALSE]
      BY <2>3, <2>4 DEF Put, States
    <2>. QED
      BY <1>6, <2>5, <2>6
  <1>8. BenchReads(at[1], {}, o, base)
    BY <1>6, <1>7 DEF BenchReads
  <1>9. BenchReads(at[3], {"host"}, o, base)
    <2>1. arg[1 + 1] \in TestOptions /\ Field(arg[1 + 1]) = "host" /\ arg[3] = o["host"]
      BY <1>3 DEF TestOptions, Field
    <2>2. 1 \in Nat /\ 3 = 1 + 2 /\ 3 <= Len(arg)
      BY <1>4
    <2>3. PICK S, T : S = {} /\ T = {"host"}
      OBVIOUS
    <2>4. T = S \cup {"host"}
      BY <2>3
    <2>5. BenchReads(at[1], S, o, base)
      BY <1>8, <2>3
    <2>6. BenchReads(at[3], T, o, base)
      BY <1>4, <1>5, <2>1, <2>2, <2>4, <2>5, BenchNextPair
    <2>. QED
      BY <2>3, <2>6
  <1>10. BenchReads(at[5], {"host", "port"}, o, base)
    <2>1. arg[3 + 1] \in TestOptions /\ Field(arg[3 + 1]) = "port" /\ arg[5] = o["port"]
      BY <1>3 DEF TestOptions, Field
    <2>2. 3 \in Nat /\ 5 = 3 + 2 /\ 5 <= Len(arg)
      BY <1>4
    <2>3. PICK S, T : S = {"host"} /\ T = {"host", "port"}
      OBVIOUS
    <2>4. T = S \cup {"port"}
      BY <2>3
    <2>5. BenchReads(at[3], S, o, base)
      BY <1>9, <2>3
    <2>6. BenchReads(at[5], T, o, base)
      BY <1>4, <1>5, <2>1, <2>2, <2>4, <2>5, BenchNextPair
    <2>. QED
      BY <2>3, <2>6
  <1>11. BenchReads(at[7], {"host", "port", "seconds"}, o, base)
    <2>1. arg[5 + 1] \in TestOptions /\ Field(arg[5 + 1]) = "seconds" /\ arg[7] = o["seconds"]
      BY <1>3 DEF TestOptions, Field
    <2>2. 5 \in Nat /\ 7 = 5 + 2 /\ 7 <= Len(arg)
      BY <1>4
    <2>3. PICK S, T : S = {"host", "port"} /\ T = {"host", "port", "seconds"}
      OBVIOUS
    <2>4. T = S \cup {"seconds"}
      BY <2>3
    <2>5. BenchReads(at[5], S, o, base)
      BY <1>10, <2>3
    <2>6. BenchReads(at[7], T, o, base)
      BY <1>4, <1>5, <2>1, <2>2, <2>4, <2>5, BenchNextPair
    <2>. QED
      BY <2>3, <2>6
  <1>12. BenchReads(at[9], {"host", "port", "seconds", "chunk_bytes"}, o, base)
    <2>1. arg[7 + 1] \in TestOptions /\ Field(arg[7 + 1]) = "chunk_bytes" /\ arg[9] = o["chunk_bytes"]
      BY <1>3 DEF TestOptions, Field
    <2>2. 7 \in Nat /\ 9 = 7 + 2 /\ 9 <= Len(arg)
      BY <1>4
    <2>3. PICK S, T : S = {"host", "port", "seconds"} /\ T = {"host", "port", "seconds", "chunk_bytes"}
      OBVIOUS
    <2>4. T = S \cup {"chunk_bytes"}
      BY <2>3
    <2>5. BenchReads(at[7], S, o, base)
      BY <1>11, <2>3
    <2>6. BenchReads(at[9], T, o, base)
      BY <1>4, <1>5, <2>1, <2>2, <2>4, <2>5, BenchNextPair
    <2>. QED
      BY <2>3, <2>6
  <1>13. BenchReads(at[11], {"host", "port", "seconds", "chunk_bytes", "parallel"}, o, base)
    <2>1. arg[9 + 1] \in TestOptions /\ Field(arg[9 + 1]) = "parallel" /\ arg[11] = o["parallel"]
      BY <1>3 DEF TestOptions, Field
    <2>2. 9 \in Nat /\ 11 = 9 + 2 /\ 11 <= Len(arg)
      BY <1>4
    <2>3. PICK S, T : S = {"host", "port", "seconds", "chunk_bytes"} /\ T = {"host", "port", "seconds", "chunk_bytes", "parallel"}
      OBVIOUS
    <2>4. T = S \cup {"parallel"}
      BY <2>3
    <2>5. BenchReads(at[9], S, o, base)
      BY <1>12, <2>3
    <2>6. BenchReads(at[11], T, o, base)
      BY <1>4, <1>5, <2>1, <2>2, <2>4, <2>5, BenchNextPair
    <2>. QED
      BY <2>3, <2>6
  <1>14. BenchReads(at[13], {"host", "port", "seconds", "chunk_bytes", "parallel", "socket_buffer_bytes"}, o, base)
    <2>1. arg[11 + 1] \in TestOptions /\ Field(arg[11 + 1]) = "socket_buffer_bytes" /\ arg[13] = o["socket_buffer_bytes"]
      BY <1>3 DEF TestOptions, Field
    <2>2. 11 \in Nat /\ 13 = 11 + 2 /\ 13 <= Len(arg)
      BY <1>4
    <2>3. PICK S, T : S = {"host", "port", "seconds", "chunk_bytes", "parallel"} /\ T = {"host", "port", "seconds", "chunk_bytes", "parallel", "socket_buffer_bytes"}
      OBVIOUS
    <2>4. T = S \cup {"socket_buffer_bytes"}
      BY <2>3
    <2>5. BenchReads(at[11], S, o, base)
      BY <1>13, <2>3
    <2>6. BenchReads(at[13], T, o, base)
      BY <1>4, <1>5, <2>1, <2>2, <2>4, <2>5, BenchNextPair
    <2>. QED
      BY <2>3, <2>6
  <1>15. PICK p : p = at[Len(arg)]
    OBVIOUS
  <1>. DEFINE S == {"host", "port", "seconds", "chunk_bytes", "parallel", "socket_buffer_bytes"}
  <1>16. p.is = IF /\ IsPort(o["port"]) /\ IsCount(o["parallel"]) /\ IsNumber(o["socket_buffer_bytes"])
                   /\ IsCount(o["seconds"]) /\ IsPositive(o["chunk_bytes"])
                  THEN "options" ELSE "error"
    <2>1. (\A f \in S : BenchOk(f, o[f])) <=>
            /\ IsPort(o["port"]) /\ IsCount(o["parallel"]) /\ IsNumber(o["socket_buffer_bytes"])
            /\ IsCount(o["seconds"]) /\ IsPositive(o["chunk_bytes"])
      BY DEF BenchOk
    <2>2. p = at[13]
      BY <1>4, <1>15
    <2>3. p.is = IF \A f \in S : BenchOk(f, o[f]) THEN "options" ELSE "error"
      BY <1>14, <2>2 DEF BenchReads
    <2>. QED
      BY <2>1, <2>3
  <1>17. p.is = "options" =>
              /\ p.want = None
              /\ \A f \in S : p.opt[f] = ReadAs(f, o[f])
              /\ p.opt["server"] = FALSE
    <2>1. p = at[13]
      BY <1>4, <1>15
    <2>2. p.is = "options" =>
             /\ p.want = None
             /\ \A f \in BenchNames : p.opt[f] = IF f \in S THEN ReadAs(f, o[f]) ELSE base[f]
      BY <1>14, <2>1 DEF BenchReads
    <2>3. S \subseteq BenchNames /\ "server" \in BenchNames /\ "server" \notin S
      BY DEF BenchNames
    <2>. HIDE DEF S
    <2>. QED
      BY <1>7, <2>2, <2>3
  <1>18. BenchVerdict(bench_parse_args(arg), p, o["port"], o["parallel"])
    <2>1. p.is \in {"options", "error"}
      BY <1>16
    <2>2. p.is = "options" => /\ p.want = None /\ IsPort(o["port"]) /\ IsCount(o["parallel"])
                              /\ p.opt["port"] = ReadAs("port", o["port"])
                              /\ p.opt["parallel"] = ReadAs("parallel", o["parallel"])
      BY <1>16, <1>17
    <2>. QED
      BY <1>4, <1>5, <1>15, <2>1, <2>2, BenchEnds
  <1>19. \A f \in {"port", "parallel", "socket_buffer_bytes"} \cup {"host", "seconds", "chunk_bytes"} : f \in S
    OBVIOUS
  <1>. HIDE DEF S
  <1>. QED
    BY <1>1, <1>16, <1>17, <1>18, <1>19 DEF BenchVerdict, BenchObeys

-----------------------------------------------------------------------------
(***************************************************************************)
(* The command lines.                                                      *)
(***************************************************************************)
Own == {None, "0.0.0.0", "127.0.0.1", ".", Downloads, DefaultPort, DefaultParallel, DefaultDiscovery,
        DefaultTestPort, DefaultSeconds, DefaultChunk, DefaultBuffer}

Said == Word \cup HelperWords \cup Own \cup Nat \cup BOOLEAN

LEMMA SaidIsVocabulary == Vocabulary(Said) /\ Word \subseteq Said
  <1>1. Word \subseteq Said /\ HelperWords \subseteq Said /\ Own \subseteq Said /\ Nat \subseteq Said
    BY DEF Said
  <1>2. TRUE \in Said /\ FALSE \in Said
    BY DEF Said
  <1>3. None \in Said /\ "0.0.0.0" \in Said /\ "127.0.0.1" \in Said /\ "." \in Said /\ Downloads \in Said
    BY <1>1 DEF Own
  <1>4. DefaultPort \in Said /\ DefaultParallel \in Said /\ DefaultDiscovery \in Said
    BY <1>1 DEF Own
  <1>5. /\ DefaultTestPort \in Said /\ DefaultSeconds \in Said /\ DefaultChunk \in Said
        /\ DefaultBuffer \in Said
    BY <1>1 DEF Own
  <1>. QED
    BY <1>1, <1>2, <1>3, <1>4, <1>5 DEF Vocabulary

\* A helper is started with the options that were parsed, and only then.
LEMMA StartedRuns ==
  ASSUME NEW F, NEW V, NEW p \in States(F, V), NEW tool, NEW args
  PROVE  /\ Started(p, tool, args).is = "run" => p.is = "options"
         /\ Started(p, tool, args).asked = p.opt /\ Started(p, tool, args).tool = tool
         /\ p.is = "options" => Started(p, tool, args).args = args
  BY DEF Started, States

\* What hyperlink does with each command.
LEMMA Commanded ==
  ASSUME argv # <<>>
  PROVE  /\ argv[1] \in {"receive", "recv"} =>
              main(argv) = Started(parse_receive(Tail(argv)), "hyperlink_file",
                                   run_receive(parse_receive(Tail(argv)).opt))
         /\ argv[1] = "send" =>
              main(argv) = Started(parse_send(Tail(argv)), "hyperlink_file",
                                   run_send(parse_send(Tail(argv)).opt))
         /\ argv[1] \in {"test", "speedtest"} =>
              main(argv) = Started(parse_test(Tail(argv)), "hyperlink_bench",
                                   run_test(parse_test(Tail(argv)).opt))
         /\ main(argv).is = "run" /\ main(argv).tool = "hyperlink_file" =>
              argv[1] \in {"receive", "recv", "send"}
  <1>1. PICK c, rest : c = argv[1] /\ rest = Tail(argv)
    OBVIOUS
  <1>2. Head(argv) = c
    BY <1>1
  <1>3. main(argv) =
         CASE c \in {"receive", "recv"}   -> Started(parse_receive(rest), "hyperlink_file", run_receive(parse_receive(rest).opt))
           [] c = "send"                  -> Started(parse_send(rest), "hyperlink_file", run_send(parse_send(rest).opt))
           [] c \in {"test", "speedtest"} -> Started(parse_test(rest), "hyperlink_bench", run_test(parse_test(rest).opt))
           [] c = "bench"                 -> run_passthrough("hyperlink_bench", rest)
           [] c = "probe"                 -> run_passthrough("hyperlink_probe", rest)
           [] c \in {"--help", "-h", "help"} -> Ended("help")
           [] OTHER -> Ended("error")
    BY <1>1, <1>2 DEF main
  <1>4. c \in {"receive", "recv"} => main(argv) = Started(parse_receive(rest), "hyperlink_file", run_receive(parse_receive(rest).opt))
    BY <1>3
  <1>5. c = "send" => main(argv) = Started(parse_send(rest), "hyperlink_file", run_send(parse_send(rest).opt))
    BY <1>3
  <1>6. c \in {"test", "speedtest"} => main(argv) = Started(parse_test(rest), "hyperlink_bench", run_test(parse_test(rest).opt))
    BY <1>3
  <1>7. c \notin {"receive", "recv", "send"} =>
           ~(main(argv).is = "run" /\ main(argv).tool = "hyperlink_file")
    <2>1. c \in {"test", "speedtest"} => main(argv).tool = "hyperlink_bench"
      BY <1>6 DEF Started
    <2>2. c \notin {"receive", "recv", "send", "test", "speedtest"} =>
            \/ main(argv) = run_passthrough("hyperlink_bench", rest)
            \/ main(argv) = run_passthrough("hyperlink_probe", rest)
            \/ main(argv) = Ended("help")
            \/ main(argv) = Ended("error")
      BY <1>3
    <2>. QED
      BY <2>1, <2>2 DEF run_passthrough, Ended
  <1>. QED
    BY <1>1, <1>4, <1>5, <1>6, <1>7

\* A number that fits in a word is read as it is meant.
LEMMA NarrowKeeps ==
  ASSUME NEW w, InWord(w)
  PROVE  /\ IsNumber(w) => Narrow(Number[w]) = Number[w]
         /\ IsCount(w) <=> IsPositive(w)
         /\ IsNumber(w) => \A f \in {"parallel", "seconds", "socket_buffer_bytes"} : ReadAs(f, w) = Meaning(f, w)
         /\ \A a : IsPort(a) /\ IsNumber(w) => (FitRead(a, w) <=> Fit(a, w))
  <1>1. IsNumber(w) => Narrow(Number[w]) = Number[w]
    <2>. SUFFICES ASSUME IsNumber(w) PROVE Narrow(Number[w]) = Number[w]
      OBVIOUS
    <2>1. PICK W \in Nat \ {0} : W = WordSize
      BY WordSizeAssumption, MaxPortAssumption
    <2>2. PICK n \in Nat : n = Number[w] /\ n < W
      BY <2>1, NumberAssumption DEF IsNumber, InWord
    <2>3. PICK q \in Nat, r \in 0 .. W - 1 : q = n \div W /\ r = n % W /\ n = W * q + r
      BY DivMod
    <2>4. ASSUME q >= 1 PROVE FALSE
      <3>1. W * 1 <= W * q
        BY <2>4, MulMono
      <3>. QED
        BY <2>2, <2>3, <3>1, MulNat
    <2>5. q = 0
      BY <2>4
    <2>6. r = n
      BY <2>3, <2>5
    <2>. QED
      BY <2>1, <2>2, <2>3, <2>6 DEF Narrow
  <1>2. IsCount(w) <=> IsPositive(w)
    BY <1>1 DEF IsCount, IsPositive
  <1>3. IsNumber(w) => \A f \in {"parallel", "seconds", "socket_buffer_bytes"} : ReadAs(f, w) = Meaning(f, w)
    <2>1. \A f \in {"parallel", "seconds", "socket_buffer_bytes"} :
            ReadAs(f, w) = Narrow(Number[w]) /\ Meaning(f, w) = Number[w]
      BY DEF ReadAs, Meaning
    <2>. QED
      BY <1>1, <2>1
  <1>4. \A a : IsPort(a) /\ IsNumber(w) => (FitRead(a, w) <=> Fit(a, w))
    BY <1>1 DEF FitRead, Fit, LastPort
  <1>. QED
    BY <1>1, <1>2, <1>3, <1>4

\* The other fields are read as they are meant anyway.
LEMMA ReadPlainly ==
  \A f, w : f \notin {"parallel", "seconds", "socket_buffer_bytes"} => ReadAs(f, w) = Meaning(f, w)
  <1>. SUFFICES ASSUME NEW f, NEW w, f \notin {"parallel", "seconds", "socket_buffer_bytes"}
                PROVE  ReadAs(f, w) = Meaning(f, w)
    OBVIOUS
  <1>1. f \in {"port", "discovery_port", "chunk_bytes"} => ReadAs(f, w) = Number[w] /\ Meaning(f, w) = Number[w]
    BY DEF ReadAs, Meaning
  <1>2. f \notin {"port", "discovery_port", "chunk_bytes"} => ReadAs(f, w) = w /\ Meaning(f, w) = w
    BY DEF ReadAs, Meaning
  <1>. QED
    BY <1>1, <1>2

\* As FileObeys and BenchObeys, for numbers that fit in a word.
FileDoes(h, o, sends, auto, passed) ==
    /\ h.is = IF /\ IsPort(o["discovery_port"])
                 /\ auto \/ /\ IsPort(o["port"]) /\ IsPositive(o["parallel"])
                            /\ Fit(o["port"], o["parallel"])
                THEN "options" ELSE "error"
    /\ h.is = "options" =>
         /\ \A f \in passed : h.opt[f] = Meaning(f, o[f])
         /\ h.opt["send"] = sends /\ h.opt["receive"] = ~sends /\ h.opt["auto_discover"] = auto

LEMMA FilePlain ==
  ASSUME NEW h, NEW o, NEW sends, NEW auto \in BOOLEAN, NEW passed, passed \subseteq FileNames,
         auto => "parallel" \notin passed, auto \/ InWord(o["parallel"]),
         FileObeys(h, o, sends, auto, passed)
  PROVE  FileDoes(h, o, sends, auto, passed)
  <1>. DEFINE Sound == /\ IsPort(o["discovery_port"])
                       /\ auto \/ /\ IsPort(o["port"]) /\ IsPositive(o["parallel"])
                                  /\ Fit(o["port"], o["parallel"])
              Read  == /\ IsPort(o["discovery_port"])
                       /\ auto \/ /\ IsPort(o["port"]) /\ IsCount(o["parallel"])
                                  /\ FitRead(o["port"], o["parallel"])
  <1>1. Sound <=> Read
    BY NarrowKeeps DEF IsCount, IsPositive
  <1>2. ASSUME h.is = "options", NEW f \in passed PROVE h.opt[f] = Meaning(f, o[f])
    <2>1. h.opt[f] = ReadAs(f, o[f]) /\ Read
      BY <1>2 DEF FileObeys
    <2>2. CASE f = "parallel"
      <3>1. IsNumber(o["parallel"]) /\ InWord(o["parallel"])
        BY <2>1, <2>2 DEF IsCount
      <3>. QED
        BY <2>1, <2>2, <3>1, NarrowKeeps
    <2>3. CASE f # "parallel"
      BY <2>1, <2>3, ReadPlainly DEF FileNames
    <2>. QED
      BY <2>2, <2>3
  <1>3. h.is = IF Sound THEN "options" ELSE "error"
    <2>1. h.is = IF Read THEN "options" ELSE "error"
      BY DEF FileObeys
    <2>. QED
      BY <1>1, <2>1
  <1>. QED
    BY <1>2, <1>3 DEF FileObeys, FileDoes

BenchDoes(h, o, passed) ==
    /\ h.is = IF /\ IsPort(o["port"]) /\ IsPositive(o["parallel"])
                 /\ IsNumber(o["socket_buffer_bytes"])
                 /\ o["send"] => IsPositive(o["seconds"]) /\ IsPositive(o["chunk_bytes"])
                 /\ Fit(o["port"], o["parallel"])
                THEN "options" ELSE "error"
    /\ h.is = "options" =>
         /\ \A f \in passed : h.opt[f] = Meaning(f, o[f])
         /\ h.opt["server"] = ~o["send"]
         /\ h.opt["server"] => h.opt["host"] = "0.0.0.0"

LEMMA BenchPlain ==
  ASSUME NEW h, NEW o, NEW passed, passed \subseteq BenchNames,
         InWord(o["parallel"]), InWord(o["socket_buffer_bytes"]), o["send"] => InWord(o["seconds"]),
         "seconds" \in passed => o["send"], SumInWord(o["port"], o["parallel"]),
         BenchObeys(h, o, passed)
  PROVE  BenchDoes(h, o, passed)
  <1>. DEFINE Sound == /\ IsPort(o["port"]) /\ IsPositive(o["parallel"])
                       /\ IsNumber(o["socket_buffer_bytes"])
                       /\ o["send"] => IsPositive(o["seconds"]) /\ IsPositive(o["chunk_bytes"])
                       /\ Fit(o["port"], o["parallel"])
              Read  == /\ IsPort(o["port"]) /\ IsCount(o["parallel"])
                       /\ IsNumber(o["socket_buffer_bytes"])
                       /\ o["send"] => IsCount(o["seconds"]) /\ IsPositive(o["chunk_bytes"])
                       /\ FitRead(o["port"], o["parallel"]) \/ Wraps(o["port"], o["parallel"])
  <1>1. IsPort(o["port"]) /\ IsNumber(o["parallel"]) => ~Wraps(o["port"], o["parallel"])
    <2>. SUFFICES ASSUME IsPort(o["port"]), IsNumber(o["parallel"])
                  PROVE  ~Wraps(o["port"], o["parallel"])
      OBVIOUS
    <2>1. Narrow(Number[o["parallel"]]) = Number[o["parallel"]]
      BY NarrowKeeps
    <2>2. Number[o["port"]] + Number[o["parallel"]] - 1 < WordSize
      BY DEF SumInWord, LastPort
    <2>3. Number[o["port"]] \in Nat /\ Number[o["parallel"]] \in Nat /\ WordSize \in Nat
      BY NumberAssumption, WordSizeAssumption DEF IsPort, IsNumber
    <2>. QED
      BY <2>1, <2>2, <2>3 DEF Wraps
  <1>2. /\ IsCount(o["parallel"]) <=> IsPositive(o["parallel"])
        /\ o["send"] => (IsCount(o["seconds"]) <=> IsPositive(o["seconds"]))
        /\ IsCount(o["parallel"]) => IsNumber(o["parallel"])
    BY NarrowKeeps DEF IsCount
  <1>3. IsPort(o["port"]) /\ IsNumber(o["parallel"]) =>
          (FitRead(o["port"], o["parallel"]) <=> Fit(o["port"], o["parallel"]))
    BY NarrowKeeps
  <1>4. Sound <=> Read
    BY <1>1, <1>2, <1>3
  <1>5. ASSUME h.is = "options", NEW f \in passed PROVE h.opt[f] = Meaning(f, o[f])
    <2>1. h.opt[f] = ReadAs(f, o[f]) /\ Read
      BY <1>5 DEF BenchObeys
    <2>2. CASE f = "parallel"
      BY <1>2, <2>1, <2>2, NarrowKeeps
    <2>3. CASE f = "socket_buffer_bytes"
      BY <2>1, <2>3, NarrowKeeps
    <2>4. CASE f = "seconds"
      <3>1. IsNumber(o["seconds"]) /\ InWord(o["seconds"])
        BY <2>1, <2>4 DEF IsCount
      <3>. QED
        BY <2>1, <2>4, <3>1, NarrowKeeps
    <2>5. CASE f \notin {"parallel", "seconds", "socket_buffer_bytes"}
      BY <2>1, <2>5, ReadPlainly
    <2>. QED
      BY <2>2, <2>3, <2>4, <2>5
  <1>6. h.is = IF Sound THEN "options" ELSE "error"
    <2>1. h.is = IF Read THEN "options" ELSE "error"
      BY DEF BenchObeys
    <2>. QED
      BY <1>4, <2>1
  <1>. QED
    BY <1>5, <1>6 DEF BenchObeys, BenchDoes

\* The numbers that were asked for fit in a word.
FileFits == (argv[1] = "send" /\ main(argv).asked.host = "") \/ InWord(main(argv).asked.parallel)

BenchFits ==
    /\ InWord(main(argv).asked.parallel) /\ InWord(main(argv).asked.socket_buffer_bytes)
    /\ main(argv).asked.send => InWord(main(argv).asked.seconds)
    /\ SumInWord(main(argv).asked.port, main(argv).asked.parallel)

LEMMA FileObeyed ==
  ASSUME NEW V, Vocabulary(V), argv \in Seq(V)
  PROVE  FileHelperObeys
  <1>. SUFFICES ASSUME argv # <<>>, main(argv).is = "run", main(argv).tool = "hyperlink_file",
                       FileFits
                PROVE  FileHelperObeys
    BY DEF FileHelperObeys, FileFits
  <1>1. argv \in Seq(V) /\ Vocabulary(V)
    OBVIOUS
  <1>2. PICK rest \in Seq(V) : rest = Tail(argv)
    <2>1. \A S, T : S \subseteq T => \A s \in Seq(S) : s # <<>> => Tail(s) \in Seq(T)
      OBVIOUS
    <2>. QED
      BY <1>1, <2>1
  <1>3. CASE argv[1] \in {"receive", "recv"}
    <2>1. PICK p, o : p = parse_receive(rest) /\ o = p.opt
      OBVIOUS
    <2>2. p \in States(ReceiveNames, V) /\ o["advertise"] \in BOOLEAN
      BY <1>1, <2>1, ReceiveParses
    <2>3. main(argv) = Started(p, "hyperlink_file", run_receive(o))
      BY <1>2, <1>3, <2>1, Commanded
    <2>4. p.is = "options" /\ main(argv).asked = o /\ main(argv).args = run_receive(o)
      BY <2>1, <2>2, <2>3, StartedRuns
    <2>5. o \in [ReceiveNames -> V]
      BY <2>1, <2>2 DEF States
    <2>6. FileObeys(parse_args(run_receive(o)), o, FALSE, FALSE, ReceiveNames)
      BY <1>1, <2>2, <2>5, FileReceives
    <2>7. argv[1] # "send" /\ DOMAIN o = ReceiveNames
      BY <1>3, <2>5
    <2>8. FileDoes(parse_args(run_receive(o)), o, FALSE, FALSE, ReceiveNames)
      <3>1. InWord(o["parallel"]) /\ ReceiveNames \subseteq FileNames
        BY <2>4, <2>7 DEF ReceiveNames, FileNames, FileFits
      <3>. QED
        BY <2>6, <3>1, FilePlain
    <2>. QED
      BY <2>4, <2>7, <2>8 DEF FileHelperObeys, FileDoes
  <1>4. CASE argv[1] = "send"
    <2>1. PICK p, o : p = parse_send(rest) /\ o = p.opt
      OBVIOUS
    <2>2. p \in States(SendNames, V) /\ (p.is = "options" => o["file"] # None)
      BY <1>1, <2>1, SendParses
    <2>3. main(argv) = Started(p, "hyperlink_file", run_send(o))
      BY <1>2, <1>4, <2>1, Commanded
    <2>4. p.is = "options" /\ main(argv).asked = o /\ main(argv).args = run_send(o)
      BY <2>1, <2>2, <2>3, StartedRuns
    <2>5. o \in [SendNames -> V] /\ o["file"] # None
      BY <2>1, <2>2, <2>4 DEF States
    <2>6. CASE o["host"] = None
      <3>1. FileObeys(parse_args(run_send(o)), o, TRUE, TRUE, SendNames \ {"port", "parallel"})
        BY <1>1, <2>5, <2>6, SendFindsPeer
      <3>2. FileDoes(parse_args(run_send(o)), o, TRUE, TRUE, SendNames \ {"port", "parallel"})
        <4>1. SendNames \ {"port", "parallel"} \subseteq FileNames
          BY DEF SendNames, FileNames
        <4>. QED
          BY <3>1, <4>1, FilePlain
      <3>. QED
        BY <1>4, <2>4, <2>5, <2>6, <3>2 DEF FileHelperObeys, FileDoes, None
    <2>7. CASE o["host"] # None
      <3>1. FileObeys(parse_args(run_send(o)), o, TRUE, FALSE, SendNames)
        BY <1>1, <2>5, <2>7, SendGivenPeer
      <3>2. FileDoes(parse_args(run_send(o)), o, TRUE, FALSE, SendNames)
        <4>1. InWord(o["parallel"]) /\ SendNames \subseteq FileNames
          BY <2>4, <2>7 DEF SendNames, FileNames, None, FileFits
        <4>. QED
          BY <3>1, <4>1, FilePlain
      <3>. QED
        BY <1>4, <2>4, <2>5, <2>7, <3>2 DEF FileHelperObeys, FileDoes, None
    <2>. QED
      BY <2>6, <2>7
  <1>. QED
    BY <1>3, <1>4, Commanded

LEMMA BenchObeyed ==
  ASSUME NEW V, Vocabulary(V), argv \in Seq(V)
  PROVE  BenchHelperObeys
  <1>. SUFFICES ASSUME argv # <<>>, argv[1] \in {"test", "speedtest"}, main(argv).is = "run",
                       BenchFits
                PROVE  BenchHelperObeys
    BY DEF BenchHelperObeys, BenchFits
  <1>1. argv \in Seq(V) /\ Vocabulary(V)
    OBVIOUS
  <1>2. PICK rest \in Seq(V) : rest = Tail(argv)
    <2>1. \A S, T : S \subseteq T => \A s \in Seq(S) : s # <<>> => Tail(s) \in Seq(T)
      OBVIOUS
    <2>. QED
      BY <1>1, <2>1
  <1>3. PICK p, o : p = parse_test(rest) /\ o = p.opt
    OBVIOUS
  <1>4. p \in States(TestNames, V) /\ o["send"] \in BOOLEAN
    BY <1>1, <1>3, TestParses
  <1>5. main(argv) = Started(p, "hyperlink_bench", run_test(o))
    BY <1>2, <1>3, Commanded
  <1>6. p.is = "options" /\ main(argv).asked = o /\ main(argv).args = run_test(o)
    BY <1>3, <1>4, <1>5, StartedRuns
  <1>7. o \in [TestNames -> V]
    BY <1>3, <1>4 DEF States
  <1>8. CASE o["send"] = FALSE
    <2>1. BenchObeys(bench_parse_args(run_test(o)), o, {"port", "parallel", "socket_buffer_bytes"})
      BY <1>1, <1>7, <1>8, BenchReceives
    <2>2. BenchDoes(bench_parse_args(run_test(o)), o, {"port", "parallel", "socket_buffer_bytes"})
      <3>1. {"port", "parallel", "socket_buffer_bytes"} \subseteq BenchNames
        BY DEF BenchNames
      <3>. QED
        BY <1>6, <1>8, <2>1, <3>1, BenchPlain DEF BenchFits
    <2>. QED
      BY <1>6, <1>8, <2>2 DEF BenchHelperObeys, BenchDoes
  <1>9. CASE o["send"] = TRUE
    <2>1. BenchObeys(bench_parse_args(run_test(o)), o,
                     {"port", "parallel", "socket_buffer_bytes"} \cup {"host", "seconds", "chunk_bytes"})
      BY <1>1, <1>7, <1>9, BenchSends
    <2>2. BenchDoes(bench_parse_args(run_test(o)), o,
                    {"port", "parallel", "socket_buffer_bytes"} \cup {"host", "seconds", "chunk_bytes"})
      <3>1. {"port", "parallel", "socket_buffer_bytes"} \cup {"host", "seconds", "chunk_bytes"} \subseteq BenchNames
        BY DEF BenchNames
      <3>. QED
        BY <1>6, <1>9, <2>1, <3>1, BenchPlain DEF BenchFits
    <2>. QED
      BY <1>6, <1>9, <2>2 DEF BenchHelperObeys, BenchDoes
  <1>. QED
    BY <1>4, <1>8, <1>9

\* Whatever is typed, in any number of words and any order, the helper that
\* hyperlink starts reads the options that hyperlink read, and refuses them
\* for their numbers alone, if these fit in 32 bits.
THEOREM HelpersAlwaysObey == Spec => []HelpersObey
  <1>1. ASSUME Arguments PROVE HelpersObey
    <2>1. Vocabulary(Said) /\ Word \subseteq Said /\ argv \in Seq(Word)
      BY <1>1, SaidIsVocabulary DEF Arguments
    <2>2. argv \in Seq(Said)
      BY <2>1
    <2>. QED
      BY <2>1, <2>2, FileObeyed, BenchObeyed DEF HelpersObey
  <1>. QED
    BY <1>1, ArgumentsAlways, PTL

-----------------------------------------------------------------------------
(***************************************************************************)
(* FlattenSeq joins the sequences one after the other.                     *)
(***************************************************************************)
Flattening(f, seqs, N) == f = [i \in 1 .. N |-> IF i = 1 THEN seqs[i] ELSE f[i - 1] \o seqs[i]]

LEMMA FlattenRuns ==
  ASSUME NEW seqs, NEW N \in Nat
  PROVE  \E f : Flattening(f, seqs, N)
  <1>. DEFINE Good(m) == \E f : Flattening(f, seqs, m)
              S == { m \in 0 .. N : Good(m) }
  <1>1. Good(0)
    <2>. DEFINE f == [i \in 1 .. 0 |-> seqs[i]]
    <2>1. Flattening(f, seqs, 0)
      BY DEF Flattening
    <2>. HIDE DEF f
    <2>. QED
      BY <2>1
  <1>2. ASSUME NEW m \in 1 .. N, Good(m - 1) PROVE Good(m)
    <2>1. PICK f : Flattening(f, seqs, m - 1)
      BY <1>2
    <2>. DEFINE g == [i \in 1 .. m |-> IF i = m THEN (IF m = 1 THEN seqs[m] ELSE f[m - 1] \o seqs[m])
                                       ELSE f[i]]
    <2>2. \A i \in 1 .. m - 1 : g[i] = f[i]
      OBVIOUS
    <2>3. ASSUME NEW i \in 1 .. m PROVE g[i] = IF i = 1 THEN seqs[i] ELSE g[i - 1] \o seqs[i]
      <3>1. CASE i = m
        <4>1. g[i] = IF m = 1 THEN seqs[m] ELSE f[m - 1] \o seqs[m]
          BY <3>1
        <4>2. m # 1 => m - 1 \in 1 .. m - 1
          OBVIOUS
        <4>3. m # 1 => g[m - 1] = f[m - 1]
          BY <2>2, <4>2
        <4>. HIDE DEF g
        <4>. QED
          BY <3>1, <4>1, <4>3
      <3>2. CASE i # m
        <4>1. i \in 1 .. m - 1 /\ g[i] = f[i]
          BY <2>2, <3>2
        <4>2. f[i] = IF i = 1 THEN seqs[i] ELSE f[i - 1] \o seqs[i]
          BY <2>1, <4>1 DEF Flattening
        <4>3. i # 1 => i - 1 \in 1 .. m - 1
          BY <4>1
        <4>4. i # 1 => g[i - 1] = f[i - 1]
          BY <2>2, <4>3
        <4>. HIDE DEF g
        <4>. QED
          BY <4>1, <4>2, <4>4
      <3>. QED
        BY <3>1, <3>2
    <2>4. g = [i \in 1 .. m |-> g[i]]
      OBVIOUS
    <2>. HIDE DEF g
    <2>5. Flattening(g, seqs, m)
      BY <2>3, <2>4 DEF Flattening
    <2>. QED
      BY <2>5
  <1>3. N \in S
    <2>. HIDE DEF Good
    <2>1. 0 \in S /\ \A m \in 1 .. N : m - 1 \in S => m \in S
      BY <1>1, <1>2
    <2>. HIDE DEF S
    <2>2. \A m \in 0 .. N : m \in S
      BY <2>1, UpTo
    <2>. QED
      BY <2>2
  <1>. QED
    BY <1>3

\* flat[i] is the first i sequences joined.
Flattens(flat, seqs) ==
    /\ flat[0] = <<>>
    /\ \A i \in 1 .. Len(seqs) : flat[i] = flat[i - 1] \o seqs[i]
    /\ flat[Len(seqs)] = FlattenSeq(seqs)

LEMMA FlattenSteps ==
  ASSUME NEW S, NEW seqs \in Seq(Seq(S))
  PROVE  \E flat : Flattens(flat, seqs)
  <1>1. PICK N \in Nat : N = Len(seqs)
    OBVIOUS
  <1>2. \A i \in 1 .. N : seqs[i] \in Seq(S)
    BY <1>1
  <1>3. CASE N = 0
    <2>1. FlattenSeq(seqs) = <<>>
      <3>1. FlattenSeq(seqs) = seqs
        BY <1>1, <1>3 DEF FlattenSeq
      <3>2. \A T : \A s \in Seq(T) : Len(s) = 0 => s = <<>>
        OBVIOUS
      <3>. QED
        BY <1>1, <1>3, <3>1, <3>2
    <2>2. PICK flat : flat = [i \in 0 .. 0 |-> <<>>]
      OBVIOUS
    <2>3. Flattens(flat, seqs)
      BY <1>1, <1>3, <2>1, <2>2 DEF Flattens
    <2>. QED
      BY <2>3
  <1>4. CASE N # 0
    <2>. DEFINE f == CHOOSE f : f = [i \in 1 .. N |-> IF i = 1 THEN seqs[i] ELSE f[i - 1] \o seqs[i]]
    <2>1. FlattenSeq(seqs) = f[N]
      BY <1>1, <1>4 DEF FlattenSeq
    <2>2. Flattening(f, seqs, N)
      <3>1. \E g : Flattening(g, seqs, N)
        BY FlattenRuns
      <3>. QED
        BY <3>1, Zenon DEF Flattening
    <2>. HIDE DEF f
    <2>3. PICK flat : flat = [i \in 0 .. N |-> IF i = 0 THEN <<>> ELSE f[i]]
      OBVIOUS
    <2>4. flat[0] = <<>> /\ \A i \in 1 .. N : flat[i] = f[i]
      BY <2>3
    <2>5. ASSUME NEW i \in 1 .. N PROVE flat[i] = flat[i - 1] \o seqs[i]
      <3>1. f[i] = IF i = 1 THEN seqs[i] ELSE f[i - 1] \o seqs[i]
        BY <2>2 DEF Flattening
      <3>2. CASE i = 1
        <4>1. flat[i - 1] = <<>> /\ flat[i] = seqs[i]
          BY <2>4, <3>1, <3>2
        <4>2. \A T : \A s \in Seq(T) : <<>> \o s = s
          OBVIOUS
        <4>. QED
          BY <1>2, <4>1, <4>2
      <3>3. CASE i # 1
        <4>1. i - 1 \in 1 .. N
          BY <3>3
        <4>. QED
          BY <2>4, <3>1, <3>3, <4>1
      <3>. QED
        BY <3>2, <3>3
    <2>6. flat[N] = FlattenSeq(seqs)
      <3>1. N \in 1 .. N
        BY <1>4
      <3>. QED
        BY <2>1, <2>4, <3>1
    <2>7. Flattens(flat, seqs)
      BY <1>1, <2>4, <2>5, <2>6 DEF Flattens
    <2>. QED
      BY <2>7
  <1>. QED
    BY <1>3, <1>4

-----------------------------------------------------------------------------
(***************************************************************************)
(* How the shell reads a line: from state p over the characters to q.      *)
(***************************************************************************)
Path(at, p, line, q) ==
    /\ at[0] = p /\ at[Len(line)] = q
    /\ \A n \in 1 .. Len(line) : at[n] = ShellStep(at[n - 1], line[n])

Takes(p, line, q) == \E at : Path(at, p, line, q)

LEMMA TakesNone == ASSUME NEW p PROVE Takes(p, <<>>, p)
  <1>1. PICK at : at = [n \in 0 .. 0 |-> p]
    OBVIOUS
  <1>2. Path(at, p, <<>>, p)
    BY <1>1 DEF Path
  <1>. QED
    BY <1>2 DEF Takes

LEMMA TakesChar == ASSUME NEW p, NEW c PROVE Takes(p, <<c>>, ShellStep(p, c))
  <1>1. PICK q, at : q = ShellStep(p, c) /\ at = [n \in 0 .. 1 |-> IF n = 0 THEN p ELSE q]
    OBVIOUS
  <1>2. at[0] = p /\ at[1] = q
    BY <1>1
  <1>3. Len(<<c>>) = 1 /\ <<c>>[1] = c /\ \A n \in 1 .. 1 : n = 1
    OBVIOUS
  <1>4. Path(at, p, <<c>>, q)
    BY <1>1, <1>2, <1>3 DEF Path
  <1>. QED
    BY <1>1, <1>4 DEF Takes

LEMMA TakesBoth ==
  ASSUME NEW S, NEW s \in Seq(S), NEW t \in Seq(S), NEW p, NEW q, NEW r, Takes(p, s, q), Takes(q, t, r)
  PROVE  Takes(p, s \o t, r)
  <1>1. PICK a : Path(a, p, s, q)
    BY DEF Takes
  <1>2. PICK b : Path(b, q, t, r)
    BY DEF Takes
  <1>3. PICK m \in Nat, k \in Nat : m = Len(s) /\ k = Len(t)
    OBVIOUS
  <1>4. PICK u : u = s \o t
    OBVIOUS
  <1>5. Joins(u, s, t, S)
    BY <1>4, Joined
  <1>6. Len(u) = m + k
    BY <1>3, <1>5 DEF Joins
  <1>7. PICK at : at = [n \in 0 .. m + k |-> IF n <= m THEN a[n] ELSE b[n - m]]
    OBVIOUS
  <1>8. \A n \in 0 .. m : at[n] = a[n]
    BY <1>3, <1>7
  <1>9. \A n \in 1 .. k : at[m + n] = b[n]
    BY <1>3, <1>7
  <1>10. at[m] = b[0] /\ at[0] = p
    BY <1>1, <1>2, <1>3, <1>8 DEF Path
  <1>11. at[m + k] = r
    <2>1. CASE k = 0
      BY <1>2, <1>3, <1>10, <2>1 DEF Path
    <2>2. CASE k # 0
      <3>1. k \in 1 .. k
        BY <2>2
      <3>. QED
        BY <1>2, <1>3, <1>9, <3>1 DEF Path
    <2>. QED
      BY <2>1, <2>2
  <1>12. ASSUME NEW n \in 1 .. m + k PROVE at[n] = ShellStep(at[n - 1], u[n])
    <2>1. CASE n <= m
      <3>1. n \in 1 .. m /\ n \in 0 .. m /\ n - 1 \in 0 .. m
        BY <2>1
      <3>2. a[n] = ShellStep(a[n - 1], s[n])
        BY <1>1, <1>3, <3>1 DEF Path
      <3>3. u[n] = s[n]
        BY <1>3, <1>5, <3>1 DEF Joins
      <3>. QED
        BY <1>8, <3>1, <3>2, <3>3
    <2>2. CASE n > m
      <3>1. PICK i \in 1 .. k : n = m + i
        <4>1. n - m \in 1 .. k /\ n = m + (n - m)
          BY <2>2
        <4>. QED
          BY <4>1
      <3>2. b[i] = ShellStep(b[i - 1], t[i])
        BY <1>2, <1>3 DEF Path
      <3>3. u[n] = t[i]
        BY <1>3, <1>5, <3>1 DEF Joins
      <3>4. at[n - 1] = b[i - 1]
        <4>1. CASE i = 1
          <5>1. n - 1 = m /\ i - 1 = 0
            BY <3>1, <4>1
          <5>. QED
            BY <1>10, <5>1
        <4>2. CASE i # 1
          <5>1. i - 1 \in 1 .. k /\ n - 1 = m + (i - 1)
            BY <3>1, <4>2
          <5>. QED
            BY <1>9, <5>1
        <4>. QED
          BY <4>1, <4>2
      <3>5. at[n] = b[i]
        BY <1>9, <3>1
      <3>. QED
        BY <3>2, <3>3, <3>4, <3>5
    <2>. QED
      BY <2>1, <2>2
  <1>13. Path(at, p, u, r)
    BY <1>6, <1>10, <1>11, <1>12 DEF Path
  <1>. QED
    BY <1>4, <1>13 DEF Takes

\* The states between two words, and within one.
Between(ws)      == [words |-> ws, word |-> <<>>, inWord |-> FALSE, in |-> "plain"]
Within(ws, w, s) == [words |-> ws, word |-> w, inWord |-> TRUE, in |-> s]

LEMMA ShellTurns ==
  ASSUME NEW ws, NEW w
  PROVE  /\ ShellStep(Between(ws), Quote) = Within(ws, <<>>, "quotes")
         /\ \A c : c # Quote => ShellStep(Within(ws, w, "quotes"), c) = Within(ws, Append(w, c), "quotes")
         /\ ShellStep(Within(ws, w, "quotes"), Quote) = Within(ws, w, "plain")
         /\ ShellStep(Within(ws, w, "plain"), Quote) = Within(ws, w, "quotes")
         /\ ShellStep(Within(ws, w, "plain"), Backslash) = Within(ws, w, "escape")
         /\ ShellStep(Within(ws, w, "escape"), Quote) = Within(ws, Append(w, Quote), "plain")
         /\ ShellStep(Within(ws, w, "plain"), Space) = Between(Append(ws, w))
  <1>. USE DEF ShellStep, Between, Within, Quote, Backslash, Space
  <1>1. ShellStep(Between(ws), Quote) = Within(ws, <<>>, "quotes")
    OBVIOUS
  <1>2. ASSUME NEW c, c # Quote
        PROVE  ShellStep(Within(ws, w, "quotes"), c) = Within(ws, Append(w, c), "quotes")
    BY <1>2
  <1>3. ShellStep(Within(ws, w, "quotes"), Quote) = Within(ws, w, "plain")
    OBVIOUS
  <1>4. ShellStep(Within(ws, w, "plain"), Quote) = Within(ws, w, "quotes")
    OBVIOUS
  <1>5. ShellStep(Within(ws, w, "plain"), Backslash) = Within(ws, w, "escape")
    OBVIOUS
  <1>6. ShellStep(Within(ws, w, "escape"), Quote) = Within(ws, Append(w, Quote), "plain")
    OBVIOUS
  <1>7. ShellStep(Within(ws, w, "plain"), Space) = Between(Append(ws, w))
    OBVIOUS
  <1>. HIDE DEF ShellStep, Between, Within, Quote, Backslash, Space
  <1>. QED
    BY <1>1, <1>2, <1>3, <1>4, <1>5, <1>6, <1>7

\* One character of a word, as shell_quote writes it, reads as itself.
Quoted(c) == IF c = Quote THEN <<Quote, Backslash, Quote, Quote>> ELSE <<c>>

LEMMA QuotedReads ==
  ASSUME NEW ws, NEW w, NEW c
  PROVE  Takes(Within(ws, w, "quotes"), Quoted(c), Within(ws, Append(w, c), "quotes"))
  <1>1. CASE c # Quote
    <2>1. ShellStep(Within(ws, w, "quotes"), c) = Within(ws, Append(w, c), "quotes")
      BY <1>1, ShellTurns
    <2>2. Quoted(c) = <<c>>
      BY <1>1 DEF Quoted
    <2>. QED
      BY <2>1, <2>2, TakesChar
  <1>2. CASE c = Quote
    <2>1. PICK v : v = Append(w, Quote)
      OBVIOUS
    <2>2. PICK a0, a1, a2, a3, a4 :
            /\ a0 = Within(ws, w, "quotes") /\ a1 = Within(ws, w, "plain") /\ a2 = Within(ws, w, "escape")
            /\ a3 = Within(ws, v, "plain") /\ a4 = Within(ws, v, "quotes")
      OBVIOUS
    <2>3. /\ ShellStep(a0, Quote) = a1 /\ ShellStep(a1, Backslash) = a2
          /\ ShellStep(a2, Quote) = a3 /\ ShellStep(a3, Quote) = a4
      BY <2>1, <2>2, ShellTurns
    <2>4. PICK at : at = [n \in 0 .. 4 |-> IF n = 0 THEN a0 ELSE IF n = 1 THEN a1 ELSE
                                           IF n = 2 THEN a2 ELSE IF n = 3 THEN a3 ELSE a4]
      OBVIOUS
    <2>5. at[0] = a0 /\ at[1] = a1 /\ at[2] = a2 /\ at[3] = a3 /\ at[4] = a4
      BY <2>4
    <2>6. PICK line : line = <<Quote, Backslash, Quote, Quote>>
      OBVIOUS
    <2>7. /\ Len(line) = 4 /\ line[1] = Quote /\ line[2] = Backslash
          /\ line[3] = Quote /\ line[4] = Quote
      BY <2>6
    <2>8. \A n \in 1 .. 4 : n = 1 \/ n = 2 \/ n = 3 \/ n = 4
      OBVIOUS
    <2>9. ASSUME NEW n \in 1 .. 4 PROVE at[n] = ShellStep(at[n - 1], line[n])
      <3>1. CASE n = 1
        BY <2>3, <2>5, <2>7, <3>1
      <3>2. CASE n = 2
        BY <2>3, <2>5, <2>7, <3>2
      <3>3. CASE n = 3
        BY <2>3, <2>5, <2>7, <3>3
      <3>4. CASE n = 4
        BY <2>3, <2>5, <2>7, <3>4
      <3>. QED
        BY <2>8, <3>1, <3>2, <3>3, <3>4
    <2>10. Path(at, a0, line, a4)
      BY <2>5, <2>7, <2>9 DEF Path
    <2>11. Takes(a0, line, a4)
      BY <2>10 DEF Takes
    <2>12. Quoted(c) = line
      BY <1>2, <2>6 DEF Quoted
    <2>. QED
      BY <1>2, <2>1, <2>2, <2>11, <2>12
  <1>. QED
    BY <1>1, <1>2

\* The characters of lines that are quoted words over C.
Typed(C) == C \cup {Quote, Backslash, Space}

\* A quoted word is read as that word.
LEMMA WordReads ==
  ASSUME NEW C, NEW value \in Seq(C), NEW ws
  PROVE  /\ shell_quote(value) \in Seq(Typed(C))
         /\ Takes(Between(ws), shell_quote(value), Within(ws, value, "plain"))
  <1>. DEFINE T == Typed(C)
              pieces == [i \in DOMAIN value |->
                          IF value[i] = Quote THEN <<Quote, Backslash, Quote, Quote>> ELSE <<value[i]>>]
              N == Len(value)
  <1>1. N \in Nat /\ DOMAIN value = 1 .. N /\ \A i \in 1 .. N : value[i] \in C
    OBVIOUS
  <1>2. Quote \in T /\ Backslash \in T /\ Space \in T /\ C \subseteq T
    BY DEF Typed
  <1>. HIDE DEF T
  <1>3. \A c \in T : Quoted(c) \in Seq(T)
    BY <1>2 DEF Quoted
  <1>4. \A i \in 1 .. N : pieces[i] = Quoted(value[i]) /\ pieces[i] \in Seq(T)
    BY <1>1, <1>2, <1>3 DEF Quoted
  <1>5. pieces \in Seq(Seq(T)) /\ Len(pieces) = N
    <2>1. pieces = [i \in 1 .. N |-> pieces[i]]
      BY <1>1
    <2>. HIDE DEF pieces
    <2>. QED
      BY <1>1, <1>4, <2>1
  <1>6. PICK flat : Flattens(flat, pieces)
    <2>. HIDE DEF pieces
    <2>. QED
      BY <1>5, FlattenSteps
  <1>7. shell_quote(value) = (<<Quote>> \o FlattenSeq(pieces)) \o <<Quote>>
    BY DEF shell_quote
  <1>. HIDE DEF pieces
  <1>. DEFINE start == Within(ws, <<>>, "quotes")
              Good(i) == /\ flat[i] \in Seq(T)
                         /\ Takes(start, flat[i], Within(ws, SubSeq(value, 1, i), "quotes"))
              S == { i \in 0 .. N : Good(i) }
  <1>8. Good(0)
    <2>1. flat[0] = <<>> /\ <<>> \in Seq(T)
      BY <1>6 DEF Flattens
    <2>2. SubSeq(value, 1, 0) = <<>>
      OBVIOUS
    <2>. QED
      BY <2>1, <2>2, TakesNone
  <1>9. ASSUME NEW i \in 1 .. N, Good(i - 1) PROVE Good(i)
    <2>1. flat[i] = flat[i - 1] \o pieces[i]
      BY <1>5, <1>6 DEF Flattens
    <2>2. PICK w, c, s, t : w = SubSeq(value, 1, i - 1) /\ c = value[i] /\ s = flat[i - 1] /\ t = pieces[i]
      OBVIOUS
    <2>3. SubSeq(value, 1, i) = Append(w, c)
      BY <1>1, <2>2
    <2>4. t = Quoted(c) /\ t \in Seq(T) /\ s \in Seq(T)
      BY <1>4, <1>9, <2>2
    <2>5. Takes(start, s, Within(ws, w, "quotes"))
      BY <1>9, <2>2
    <2>6. Takes(Within(ws, w, "quotes"), t, Within(ws, Append(w, c), "quotes"))
      BY <2>4, QuotedReads
    <2>7. s \o t \in Seq(T)
      BY <2>4
    <2>. HIDE DEF start
    <2>8. Takes(start, s \o t, Within(ws, Append(w, c), "quotes"))
      BY <2>4, <2>5, <2>6, TakesBoth
    <2>. QED
      BY <2>1, <2>2, <2>3, <2>7, <2>8
  <1>10. Good(N)
    <2>. HIDE DEF Good
    <2>1. 0 \in S /\ \A i \in 1 .. N : i - 1 \in S => i \in S
      BY <1>1, <1>8, <1>9
    <2>. HIDE DEF S
    <2>2. \A i \in 0 .. N : i \in S
      BY <1>1, <2>1, UpTo
    <2>3. N \in S
      BY <1>1, <2>2
    <2>. QED
      BY <2>3 DEF S
  <1>11. PICK body : body = FlattenSeq(pieces)
    OBVIOUS
  <1>12. body \in Seq(T) /\ Takes(start, body, Within(ws, value, "quotes"))
    <2>1. flat[N] = body
      BY <1>5, <1>6, <1>11 DEF Flattens
    <2>2. SubSeq(value, 1, N) = value
      OBVIOUS
    <2>. QED
      BY <1>10, <2>1, <2>2
  <1>13. <<Quote>> \in Seq(T) /\ <<Quote>> \o body \in Seq(T) /\ (<<Quote>> \o body) \o <<Quote>> \in Seq(T)
    BY <1>2, <1>12
  <1>14. PICK q : q = <<Quote>>
    OBVIOUS
  <1>15. Takes(Between(ws), q, start) /\ Takes(Within(ws, value, "quotes"), q, Within(ws, value, "plain"))
    <2>1. ShellStep(Between(ws), Quote) = start
      BY ShellTurns
    <2>2. ShellStep(Within(ws, value, "quotes"), Quote) = Within(ws, value, "plain")
      BY ShellTurns
    <2>. HIDE DEF start
    <2>3. Takes(Between(ws), <<Quote>>, ShellStep(Between(ws), Quote))
      BY TakesChar
    <2>4. Takes(Within(ws, value, "quotes"), <<Quote>>, ShellStep(Within(ws, value, "quotes"), Quote))
      BY TakesChar
    <2>. QED
      BY <1>14, <2>1, <2>2, <2>3, <2>4
  <1>. HIDE DEF start
  <1>16. q \in Seq(T) /\ q \o body \in Seq(T)
    BY <1>13, <1>14
  <1>17. Takes(Between(ws), q \o body, Within(ws, value, "quotes"))
    BY <1>12, <1>15, <1>16, TakesBoth
  <1>18. Takes(Between(ws), (q \o body) \o q, Within(ws, value, "plain"))
    BY <1>15, <1>16, <1>17, TakesBoth
  <1>. QED
    BY <1>7, <1>11, <1>13, <1>14, <1>18 DEF T

\* A line of quoted words is read as those words, the last of them not ended yet.
LEMMA LineReads ==
  ASSUME NEW C, NEW executable \in Seq(C), NEW args \in Seq(Seq(C))
  PROVE  LET all == <<executable>> \o args IN
         /\ run_command(executable, args) \in Seq(Typed(C))
         /\ Takes(ShellStart, run_command(executable, args),
                  Within(SubSeq(all, 1, Len(args)), all[Len(args) + 1], "plain"))
  <1>. DEFINE T == Typed(C)
              N == Len(args)
              pieces == [i \in DOMAIN args |-> <<Space>> \o shell_quote(args[i])]
  <1>1. N \in Nat /\ DOMAIN args = 1 .. N /\ \A i \in 1 .. N : args[i] \in Seq(C)
    OBVIOUS
  <1>2. PICK all : all = <<executable>> \o args
    OBVIOUS
  <1>3. /\ all \in Seq(Seq(C)) /\ Len(all) = N + 1 /\ all[1] = executable
        /\ \A i \in 1 .. N : all[i + 1] = args[i]
    <2>1. <<executable>> \in Seq(Seq(C)) /\ Len(<<executable>>) = 1 /\ <<executable>>[1] = executable
      OBVIOUS
    <2>2. PICK e : e = <<executable>>
      OBVIOUS
    <2>3. Joins(all, e, args, Seq(C))
      BY <1>2, <2>1, <2>2, Joined
    <2>4. all \in Seq(Seq(C)) /\ Len(all) = 1 + N /\ all[1] = executable
      BY <1>1, <2>1, <2>2, <2>3 DEF Joins
    <2>5. \A i \in 1 .. N : all[1 + i] = args[i]
      BY <2>1, <2>2, <2>3 DEF Joins
    <2>6. \A i \in 1 .. N : 1 + i = i + 1
      OBVIOUS
    <2>. QED
      BY <1>1, <2>4, <2>5, <2>6
  <1>4. <<Space>> \in Seq(T)
    BY DEF Typed
  <1>5. \A i \in 1 .. N : shell_quote(args[i]) \in Seq(T)
    BY <1>1, WordReads
  <1>. HIDE DEF T
  <1>6. \A i \in 1 .. N : pieces[i] = <<Space>> \o shell_quote(args[i])
    BY <1>1
  <1>7. \A i \in 1 .. N : pieces[i] \in Seq(T)
    <2>1. \A s, t \in Seq(T) : s \o t \in Seq(T)
      OBVIOUS
    <2>. HIDE DEF pieces
    <2>. QED
      BY <1>4, <1>5, <1>6, <2>1
  <1>8. pieces \in Seq(Seq(T)) /\ Len(pieces) = N
    <2>1. pieces = [i \in 1 .. N |-> pieces[i]]
      BY <1>1
    <2>. HIDE DEF pieces
    <2>. QED
      BY <1>1, <1>7, <2>1
  <1>9. run_command(executable, args) = shell_quote(executable) \o FlattenSeq(pieces)
    BY DEF run_command
  <1>. HIDE DEF pieces
  <1>10. PICK flat : Flattens(flat, pieces)
    BY <1>8, FlattenSteps
  <1>. DEFINE At(i) == Within(SubSeq(all, 1, i), all[i + 1], "plain")
              Good(i) == flat[i] \in Seq(T) /\ Takes(At(0), flat[i], At(i))
              S == { i \in 0 .. N : Good(i) }
  <1>11. Good(0)
    <2>1. flat[0] = <<>> /\ <<>> \in Seq(T)
      BY <1>10 DEF Flattens
    <2>. HIDE DEF At
    <2>. QED
      BY <2>1, TakesNone
  <1>12. ASSUME NEW i \in 1 .. N, Good(i - 1) PROVE Good(i)
    <2>1. flat[i] = flat[i - 1] \o pieces[i]
      BY <1>8, <1>10 DEF Flattens
    <2>2. PICK ws, w, s, t : /\ ws = SubSeq(all, 1, i - 1) /\ w = all[i]
                             /\ s = flat[i - 1] /\ t = shell_quote(args[i])
      OBVIOUS
    <2>3. At(i - 1) = Within(ws, w, "plain")
      <3>1. (i - 1) + 1 = i
        BY <1>1
      <3>. QED
        BY <2>2, <3>1
    <2>4. SubSeq(all, 1, i) = Append(ws, w)
      <3>1. \A n \in Nat \ {0} : \A q \in Seq(Seq(C)) :
              n <= Len(q) => SubSeq(q, 1, n) = Append(SubSeq(q, 1, n - 1), q[n])
        BY SMTT(30)
      <3>2. i \in Nat \ {0} /\ i <= Len(all)
        BY <1>1, <1>3
      <3>. QED
        BY <1>3, <2>2, <3>1, <3>2
    <2>5. At(i) = Within(Append(ws, w), args[i], "plain")
      BY <1>3, <2>4
    <2>6. s \in Seq(T) /\ Takes(At(0), s, At(i - 1))
      BY <1>12, <2>2
    <2>. HIDE DEF At
    <2>7. PICK blank : blank = <<Space>>
      OBVIOUS
    <2>8. Takes(Within(ws, w, "plain"), blank, Between(Append(ws, w)))
      <3>1. ShellStep(Within(ws, w, "plain"), Space) = Between(Append(ws, w))
        BY ShellTurns
      <3>2. Takes(Within(ws, w, "plain"), <<Space>>, ShellStep(Within(ws, w, "plain"), Space))
        BY TakesChar
      <3>. QED
        BY <2>7, <3>1, <3>2
    <2>9. t \in Seq(T) /\ Takes(Between(Append(ws, w)), t, Within(Append(ws, w), args[i], "plain"))
      BY <1>1, <2>2, WordReads DEF T
    <2>10. blank \in Seq(T) /\ blank \o t \in Seq(T) /\ pieces[i] = blank \o t
      <3>1. blank \in Seq(T)
        BY <1>4, <2>7
      <3>2. \A a, b \in Seq(T) : a \o b \in Seq(T)
        OBVIOUS
      <3>3. pieces[i] = blank \o t
        BY <1>6, <2>2, <2>7
      <3>. QED
        BY <2>9, <3>1, <3>2, <3>3
    <2>11. Takes(At(i - 1), blank \o t, At(i))
      BY <2>3, <2>5, <2>8, <2>9, <2>10, TakesBoth
    <2>12. Takes(At(0), s \o (blank \o t), At(i))
      BY <2>6, <2>10, <2>11, TakesBoth
    <2>13. s \o (blank \o t) \in Seq(T)
      BY <2>6, <2>10
    <2>. QED
      BY <2>1, <2>2, <2>10, <2>12, <2>13
  <1>13. Good(N)
    <2>. HIDE DEF Good
    <2>1. 0 \in S /\ \A i \in 1 .. N : i - 1 \in S => i \in S
      BY <1>1, <1>11, <1>12
    <2>. HIDE DEF S
    <2>2. \A i \in 0 .. N : i \in S
      BY <1>1, <2>1, UpTo
    <2>3. N \in S
      BY <1>1, <2>2
    <2>. QED
      BY <2>3 DEF S
  <1>14. PICK first, rest : first = shell_quote(executable) /\ rest = FlattenSeq(pieces)
    OBVIOUS
  <1>15. rest \in Seq(T) /\ Takes(At(0), rest, At(N))
    <2>1. flat[N] = rest
      BY <1>8, <1>10, <1>14 DEF Flattens
    <2>. QED
      BY <1>13, <2>1
  <1>16. first \in Seq(T) /\ Takes(ShellStart, first, At(0))
    <2>1. PICK ws : ws = <<>>
      OBVIOUS
    <2>2. first \in Seq(T) /\ Takes(Between(ws), first, Within(ws, executable, "plain"))
      BY <1>14, WordReads DEF T
    <2>3. Between(ws) = ShellStart
      BY <2>1 DEF Between, ShellStart
    <2>4. SubSeq(all, 1, 0) = <<>>
      BY <1>3
    <2>5. At(0) = Within(ws, executable, "plain")
      <3>1. At(0) = Within(SubSeq(all, 1, 0), all[0 + 1], "plain")
        OBVIOUS
      <3>2. 0 + 1 = 1
        OBVIOUS
      <3>. QED
        BY <1>3, <2>1, <2>4, <3>1, <3>2
    <2>. QED
      BY <2>2, <2>3, <2>5
  <1>17. Takes(ShellStart, first \o rest, At(N)) /\ first \o rest \in Seq(T)
    <2>. HIDE DEF At
    <2>1. Takes(ShellStart, first \o rest, At(N))
      BY <1>15, <1>16, TakesBoth
    <2>2. first \o rest \in Seq(T)
      BY <1>15, <1>16
    <2>. QED
      BY <2>1, <2>2
  <1>. QED
    BY <1>2, <1>9, <1>14, <1>17 DEF T

\* The states of the shell.
ShellStates(V) ==
    [words : Seq(Seq(V)), word : Seq(V), inWord : BOOLEAN, in : {"plain", "quotes", "escape"}]

LEMMA ShellStarts == ASSUME NEW V PROVE ShellStart \in ShellStates(V)
  <1>1. \A S : <<>> \in Seq(S)
    OBVIOUS
  <1>. QED
    BY <1>1 DEF ShellStart, ShellStates

LEMMA ShellStepped ==
  ASSUME NEW V, NEW p \in ShellStates(V), NEW c \in V
  PROVE  ShellStep(p, c) \in ShellStates(V)
  <1>1. \A S : \A s \in Seq(S), x \in S : Append(s, x) \in Seq(S)
    OBVIOUS
  <1>2. p.words \in Seq(Seq(V)) /\ p.word \in Seq(V) /\ p.inWord \in BOOLEAN
    BY DEF ShellStates
  <1>3. Append(p.word, c) \in Seq(V) /\ Append(p.words, p.word) \in Seq(Seq(V)) /\ <<>> \in Seq(V)
    BY <1>1, <1>2
  <1>4. ASSUME NEW s \in {"plain", "quotes", "escape"}
        PROVE  /\ [p EXCEPT !.word = Append(@, c), !.inWord = TRUE, !.in = s] \in ShellStates(V)
               /\ [p EXCEPT !.inWord = TRUE, !.in = s] \in ShellStates(V)
    BY <1>3 DEF ShellStates
  <1>5. [p EXCEPT !.words = Append(@, p.word), !.word = <<>>, !.inWord = FALSE] \in ShellStates(V)
    BY <1>3 DEF ShellStates
  <1>. QED
    BY <1>4, <1>5 DEF ShellStep

\* The states of the fold that ShellWords is.
ShellRun(at, arg, V) ==
    /\ at \in [0 .. Len(arg) -> ShellStates(V)]
    /\ at[0] = ShellStart /\ at[Len(arg)] = FoldLeft(ShellStep, ShellStart, arg)
    /\ \A n \in 1 .. Len(arg) : at[n] = ShellStep(at[n - 1], arg[n])

LEMMA ShellLoop ==
  ASSUME NEW V, NEW arg \in Seq(V)
  PROVE  \E at : ShellRun(at, arg, V)
  <1>. DEFINE N == Len(arg)
              D == ShellStates(V)
              base == ShellStart
              Op(p, w) == ShellStep(p, w)
              G == [x \in D \X (1 .. N) |-> Op(x[1], arg[x[2]])]
              Iter(f) == f = [s \in SUBSET (1 .. N) |->
                                IF s = {} THEN base ELSE Op(f[s \ {Max(s)}], arg[Max(s)])]
              g == CHOOSE f : Iter(f)
  <1>1. N \in Nat /\ DOMAIN arg = 1 .. N /\ \A n \in 1 .. N : arg[n] \in V
    OBVIOUS
  <1>2. FoldLeft(ShellStep, ShellStart, arg) = g[1 .. N]
    <2>1. FoldLeft(ShellStep, ShellStart, arg) = g[DOMAIN arg]
      BY <1>1 DEF FoldLeft, MapThenFoldSet
    <2>. QED
      BY <1>1, <2>1
  <1>. HIDE DEF base, Op
  <1>3. base \in D /\ \A p \in D : \A n \in 1 .. N : Op(p, arg[n]) \in D
    <2>1. base \in D
      BY ShellStarts DEF base
    <2>2. ASSUME NEW p \in D, NEW n \in 1 .. N PROVE Op(p, arg[n]) \in D
      BY <1>1, ShellStepped DEF Op
    <2>. QED
      BY <2>1, <2>2
  <1>4. G \in [D \X (1 .. N) -> D]
    <2>. HIDE DEF D, N
    <2>1. \A x \in D \X (1 .. N) : Op(x[1], arg[x[2]]) \in D
      BY <1>3
    <2>. QED
      BY <2>1
  <1>. HIDE DEF D
  <1>5. PICK f : Recurs(f, N, D, base, G)
    <2>. HIDE DEF G, N
    <2>. QED
      BY <1>1, <1>3, <1>4, FoldRuns
  <1>6. Iter(f)
    <2>1. \A s \in SUBSET (1 .. N) :
            f[s] = IF s = {} THEN base ELSE Op(f[s \ {Max(s)}], arg[Max(s)])
      <3>. SUFFICES ASSUME NEW s \in SUBSET (1 .. N), s # {}
                    PROVE  G[<<f[s \ {Max(s)}], Max(s)>>] = Op(f[s \ {Max(s)}], arg[Max(s)])
        BY <1>5 DEF Recurs
      <3>1. Max(s) \in 1 .. N
        BY <1>1, MaxIndex
      <3>2. f[s \ {Max(s)}] \in D
        BY <1>5 DEF Recurs
      <3>. QED
        BY <3>1, <3>2
    <2>2. f = [s \in SUBSET (1 .. N) |-> f[s]]
      BY <1>5 DEF Recurs
    <2>. QED
      BY <2>1, <2>2
  <1>7. Iter(g)
    <2>. HIDE DEF Iter
    <2>. QED
      BY <1>6
  <1>. HIDE DEF g
  <1>8. g[{}] = base
    BY <1>7
  <1>9. ASSUME NEW n \in 1 .. N, g[1 .. n - 1] \in D
        PROVE  g[1 .. n] = G[<<g[1 .. n - 1], n>>]
    <2>1. 1 .. n \in SUBSET (1 .. N) /\ n \in Nat \ {0}
      BY <1>1
    <2>2. Max(1 .. n) = n /\ (1 .. n) \ {n} = 1 .. n - 1 /\ 1 .. n # {}
      BY <2>1, LastIndex
    <2>3. g[1 .. n] = Op(g[1 .. n - 1], arg[n])
      BY <1>7, <2>1, <2>2
    <2>. QED
      BY <1>9, <2>3
  <1>. DEFINE at == [n \in 0 .. N |-> g[1 .. n]]
  <1>10. Steps(at, N, D, base, G) /\ at[N] = g[1 .. N]
    <2>1. Iterates(g, N, D, base, G)
      BY <1>8, <1>9 DEF Iterates
    <2>2. at[N] = g[1 .. N]
      BY <1>1
    <2>. HIDE DEF G, N
    <2>3. Steps(at, N, D, base, G)
      BY <1>1, <1>3, <1>4, <2>1, FoldStates
    <2>. QED
      BY <2>2, <2>3
  <1>. HIDE DEF at
  <1>11. \A n \in 1 .. N : at[n] = Op(at[n - 1], arg[n])
    <2>1. \A n \in 1 .. N : n - 1 \in 0 .. N /\ at[n - 1] \in D
      BY <1>1, <1>10 DEF Steps
    <2>2. ASSUME NEW n \in 1 .. N PROVE at[n] = Op(at[n - 1], arg[n])
      <3>1. at[n] = G[<<at[n - 1], n>>] /\ at[n - 1] \in D
        BY <1>10, <2>1 DEF Steps
      <3>. QED
        BY <3>1
    <2>. QED
      BY <2>2
  <1>12. ShellRun(at, arg, V)
    BY <1>2, <1>10, <1>11 DEF Steps, ShellRun, D, base, Op
  <1>. QED
    BY <1>12

\* The shell takes the quoted words of any line for the words themselves.
LEMMA QuotedWords ==
  ASSUME NEW C, NEW executable \in Seq(C), NEW args \in Seq(Seq(C))
  PROVE  ShellWords(run_command(executable, args)) = <<executable>> \o args
  <1>1. PICK line, all, N : /\ line = run_command(executable, args)
                            /\ all = <<executable>> \o args /\ N = Len(args)
    OBVIOUS
  <1>2. PICK T, q : T = Typed(C) /\ q = Within(SubSeq(all, 1, N), all[N + 1], "plain")
    OBVIOUS
  <1>3. line \in Seq(T) /\ Takes(ShellStart, line, q)
    BY <1>1, <1>2, LineReads
  <1>4. PICK b : Path(b, ShellStart, line, q)
    BY <1>3 DEF Takes
  <1>5. PICK at : ShellRun(at, line, T)
    BY <1>3, ShellLoop
  <1>6. PICK M \in Nat : M = Len(line)
    BY <1>3
  <1>. DEFINE S == { n \in 0 .. M : at[n] = b[n] }
  <1>7. 0 \in S
    BY <1>4, <1>5 DEF Path, ShellRun
  <1>8. ASSUME NEW n \in 1 .. M, n - 1 \in S PROVE n \in S
    <2>1. at[n] = ShellStep(at[n - 1], line[n]) /\ b[n] = ShellStep(b[n - 1], line[n])
      BY <1>4, <1>5, <1>6 DEF Path, ShellRun
    <2>2. at[n - 1] = b[n - 1] /\ n \in 0 .. M
      BY <1>8
    <2>. QED
      BY <2>1, <2>2
  <1>9. at[M] = b[M]
    <2>1. \A n \in 0 .. M : n \in S
      <3>. HIDE DEF S
      <3>. QED
        BY <1>7, <1>8, UpTo
    <2>. QED
      BY <2>1
  <1>10. FoldLeft(ShellStep, ShellStart, line) = q
    BY <1>4, <1>5, <1>6, <1>9 DEF Path, ShellRun
  <1>11. q.inWord = TRUE /\ q.words = SubSeq(all, 1, N) /\ q.word = all[N + 1]
    BY <1>2 DEF Within
  <1>12. ShellWords(line) = Append(SubSeq(all, 1, N), all[N + 1])
    BY <1>10, <1>11 DEF ShellWords
  <1>13. all \in Seq(Seq(C)) /\ Len(all) = N + 1 /\ N \in Nat
    BY <1>1
  <1>14. \A X : \A s \in Seq(X) : \A n \in Nat :
           Len(s) = n + 1 => Append(SubSeq(s, 1, n), s[n + 1]) = s
    OBVIOUS
  <1>. QED
    BY <1>1, <1>12, <1>13, <1>14

\* No word, of any length and any characters, is torn apart, joined with
\* another or changed on its way through the shell to the helper.
THEOREM ShellAlwaysSeesWords == Spec => []ShellSeesWords
  <1>1. ASSUME Arguments PROVE ShellSeesWords
    <2>1. words \in Seq(Seq(Chars))
      BY <1>1 DEF Arguments
    <2>2. <<"c">> \in Seq(Chars)
      BY DEF Chars
    <2>3. PICK e \in Seq(Chars) : e = <<"c">>
      BY <2>2
    <2>4. ShellWords(run_command(e, words)) = <<e>> \o words
      BY <2>1, QuotedWords
    <2>. QED
      BY <2>3, <2>4 DEF ShellSeesWords
  <1>. QED
    BY <1>1, ArgumentsAlways, PTL
=============================================================================
