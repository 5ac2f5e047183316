---------------------------- MODULE LayoutProofs ----------------------------
(***************************************************************************)
(* Proofs about how a transfer is laid out over streams and ports, for     *)
(* every file size, number of streams and port range: that                 *)
(* byte_range_for_stream is a partition, that the responder's probe keeps  *)
(* clear of the streams, that Ordering puts every member in its place,     *)
(* that partition_items_by_size spreads a listing evenly, and that a fold  *)
(* over a sequence goes through the states of the loop it stands for.      *)
(***************************************************************************)
EXTENDS ByteRanges, PortLayout, DirectoryItems, FiniteSetTheorems, WellFoundedInduction, TLAPS

(***************************************************************************)
(* Division with remainder, in the form the other proofs use it.           *)
(***************************************************************************)
LEMMA DivMod ==
  ASSUME NEW n \in Nat, NEW p \in Nat \ {0}
  PROVE  /\ n \div p \in Nat
         /\ n % p \in 0 .. p - 1
         /\ n = p * (n \div p) + (n % p)
  OBVIOUS

(***************************************************************************)
(* Linear facts about products, which the provers need one at a time.      *)
(***************************************************************************)
LEMMA MulNat == ASSUME NEW b \in Nat, NEW s \in Nat PROVE b * s \in Nat
  OBVIOUS

\* One more part of b bytes adds b to an offset (byte_range_for_stream).
LEMMA MulSucc ==
  ASSUME NEW b \in Nat, NEW s \in Nat
  PROVE  b * (s + 1) = b * s + b
  OBVIOUS

\* A later part of b bytes each starts no earlier.
LEMMA MulMono ==
  ASSUME NEW b \in Nat, NEW s \in Nat, NEW t \in Nat, s <= t
  PROVE  b * s <= b * t
  <1>1. PICK d \in Nat : t = s + d
    BY t - s \in Nat, t = s + (t - s)
  <1>2. b * t = b * s + b * d
    BY <1>1
  <1>. QED
    BY <1>2, MulNat

\* The quotient and remainder that byte_range_for_stream divides the file by.
LEMMA BaseExtra ==
  ASSUME NEW n \in Nat, NEW p \in Nat \ {0}
  PROVE  /\ Base(n, p) \in Nat
         /\ Extra(n, p) \in 0 .. p - 1
         /\ n = Base(n, p) * p + Extra(n, p)
  <1>1. /\ n \div p \in Nat
        /\ n % p \in 0 .. p - 1
        /\ n = p * (n \div p) + (n % p)
    BY DivMod
  <1>2. p * (n \div p) = (n \div p) * p
    BY <1>1
  <1>. QED
    BY <1>1, <1>2 DEF Base, Extra

(***************************************************************************)
(* byte_range_for_stream returns natural numbers.                          *)
(***************************************************************************)
LEMMA RangeType ==
  ASSUME NEW n \in Nat, NEW p \in Nat \ {0}, NEW s \in Nat
  PROVE  RangeOffset(n, s, p) \in Nat /\ RangeSize(n, s, p) \in Nat
  <1>1. Base(n, p) \in Nat /\ Extra(n, p) \in Nat
    BY BaseExtra
  <1>2. Base(n, p) * s \in Nat
    BY <1>1, MulNat
  <1>. QED
    BY <1>1, <1>2 DEF RangeOffset, RangeSize

(***************************************************************************)
(* A stream's range ends where the next stream's range begins.             *)
(***************************************************************************)
LEMMA RangesConsecutive ==
  ASSUME NEW n \in Nat, NEW p \in Nat \ {0}, NEW s \in Nat
  PROVE  RangeOffset(n, s, p) + RangeSize(n, s, p) = RangeOffset(n, s + 1, p)
  <1>. DEFINE b == Base(n, p)
              e == Extra(n, p)
  <1>1. b \in Nat /\ e \in Nat
    BY BaseExtra
  <1>2. b * (s + 1) = b * s + b /\ b * s \in Nat
    BY <1>1, MulSucc, MulNat
  <1>. HIDE DEF b, e
  <1>3. b * s + (IF s < e THEN s ELSE e) + (b + (IF s < e THEN 1 ELSE 0))
          = b * (s + 1) + (IF s + 1 < e THEN s + 1 ELSE e)
    BY <1>1, <1>2
  <1>. QED
    BY <1>3 DEF RangeOffset, RangeSize, b, e

(***************************************************************************)
(* Offsets grow with the stream number.                                    *)
(***************************************************************************)
LEMMA OffsetMono ==
  ASSUME NEW n \in Nat, NEW p \in Nat \ {0}, NEW s \in Nat, NEW t \in Nat, s <= t
  PROVE  RangeOffset(n, s, p) <= RangeOffset(n, t, p)
  <1>. DEFINE b == Base(n, p)
              e == Extra(n, p)
  <1>1. b \in Nat /\ e \in Nat
    BY BaseExtra
  <1>2. b * s <= b * t /\ b * s \in Nat /\ b * t \in Nat
    BY <1>1, MulMono, MulNat
  <1>. HIDE DEF b, e
  <1>3. b * s + (IF s < e THEN s ELSE e) <= b * t + (IF t < e THEN t ELSE e)
    BY <1>1, <1>2
  <1>. QED
    BY <1>3 DEF RangeOffset, b, e

(***************************************************************************)
(* The first range starts at 0 and the last one ends at the end of the     *)
(* file.                                                                   *)
(***************************************************************************)
LEMMA OffsetEnds ==
  ASSUME NEW n \in Nat, NEW p \in Nat \ {0}
  PROVE  RangeOffset(n, 0, p) = 0 /\ RangeOffset(n, p, p) = n
  <1>. DEFINE b == Base(n, p)
              e == Extra(n, p)
  <1>1. b \in Nat /\ e \in 0 .. p - 1 /\ n = b * p + e
    BY BaseExtra
  <1>2. b * 0 = 0 /\ b * p \in Nat
    BY <1>1, MulNat
  <1>. HIDE DEF b, e
  <1>3. b * 0 + (IF 0 < e THEN 0 ELSE e) = 0
    BY <1>1, <1>2
  <1>4. b * p + (IF p < e THEN p ELSE e) = n
    BY <1>1, <1>2
  <1>. QED
    BY <1>3, <1>4 DEF RangeOffset, b, e

(***************************************************************************)
(* Every range lies inside the file.                                       *)
(***************************************************************************)
LEMMA RangeInFile ==
  ASSUME NEW n \in Nat, NEW p \in Nat \ {0}, NEW s \in 0 .. p - 1
  PROVE  RangeOffset(n, s, p) + RangeSize(n, s, p) <= n
  <1>1. RangeOffset(n, s + 1, p) <= RangeOffset(n, p, p)
    BY OffsetMono
  <1>. QED
    BY <1>1, RangesConsecutive, OffsetEnds

\* Conversely, a smaller start is the start of an earlier part.
LEMMA MulStrict ==
  ASSUME NEW b \in Nat, NEW s \in Nat, NEW t \in Nat, b * s < b * t
  PROVE  s < t
  <1>1. ~(t <= s)
    BY MulMono, MulNat
  <1>. QED
    BY <1>1

(***************************************************************************)
(* No byte is left out: every offset of the file is in the range of some   *)
(* stream.  The stream is named explicitly (a quotient), so that the proof *)
(* needs no induction over streams.                                        *)
(***************************************************************************)
THEOREM RangesCover ==
  ASSUME NEW n \in Nat, NEW p \in Nat \ {0}, NEW o \in 0 .. n - 1
  PROVE  \E s \in 0 .. p - 1 :
           /\ RangeOffset(n, s, p) <= o
           /\ o < RangeOffset(n, s, p) + RangeSize(n, s, p)
  <1>. DEFINE b == Base(n, p)
              e == Extra(n, p)
  <1>1. b \in Nat /\ e \in 0 .. p - 1 /\ n = b * p + e
    BY BaseExtra
  <1>2. \A s \in Nat : /\ RangeOffset(n, s, p) = b * s + (IF s < e THEN s ELSE e)
                       /\ RangeSize(n, s, p) = b + (IF s < e THEN 1 ELSE 0)
    BY DEF RangeOffset, RangeSize
  <1>. HIDE DEF b, e
  <1>3. (b + 1) \in Nat \ {0} /\ (b + 1) * e = b * e + e /\ b * e \in Nat
    BY <1>1, MulNat
  <1>4. CASE o < b * e + e
    <2>. DEFINE s == o \div (b + 1)
                r == o % (b + 1)
    <2>1. s \in Nat /\ r \in 0 .. b /\ o = (b + 1) * s + r
      <3>1. ASSUME NEW c \in Nat \ {0}
            PROVE  /\ o \div c \in Nat
                   /\ o % c \in 0 .. c - 1
                   /\ o = c * (o \div c) + (o % c)
        <4>1. o \in Nat
          OBVIOUS
        <4>. QED
          BY <4>1
      <3>2. /\ s \in Nat
            /\ r \in 0 .. (b + 1) - 1
            /\ o = (b + 1) * s + r
        BY <1>3, <3>1
      <3>. QED
        BY <1>1, <3>2
    <2>. HIDE DEF s, r
    <2>2. (b + 1) * s = b * s + s /\ b * s \in Nat /\ (b + 1) * s \in Nat
      BY <1>1, <2>1, MulNat
    <2>3. (b + 1) * s < (b + 1) * e
      BY <1>1, <1>3, <1>4, <2>1, <2>2
    <2>4. s < e
      BY <1>1, <1>3, <2>1, <2>3, MulStrict
    <2>5. s \in 0 .. p - 1
      BY <1>1, <2>1, <2>4
    <2>6. b * s + s <= o /\ o < b * s + s + (b + 1)
      BY <1>1, <2>1, <2>2
    <2>. QED
      BY <1>2, <2>1, <2>4, <2>5, <2>6
  <1>5. CASE ~(o < b * e + e)
    <2>1. b # 0
      <3>1. (b * p = 0 /\ b * e = 0) \/ b # 0
        BY <1>1
      <3>. QED
        BY <1>1, <1>3, <1>5, <3>1
    <2>. DEFINE q == o - (b * e + e)
                d == q \div b
                r == q % b
                s == e + d
    <2>2. q \in Nat /\ o = b * e + e + q
      BY <1>1, <1>3, <1>5
    <2>. HIDE DEF q
    <2>3. d \in Nat /\ r \in 0 .. b - 1 /\ q = b * d + r
      BY <1>1, <2>1, <2>2, DivMod
    <2>. HIDE DEF d, r
    <2>4. s \in Nat /\ b * s = b * e + b * d /\ b * d \in Nat
      BY <1>1, <2>3, MulNat
    <2>. HIDE DEF s
    <2>5. b * s \in Nat /\ b * p \in Nat /\ o = b * s + e + r
      BY <1>1, <1>3, <2>2, <2>3, <2>4, MulNat
    <2>6. b * s < b * p
      BY <1>1, <2>3, <2>5
    <2>7. s < p
      BY <1>1, <2>4, <2>6, MulStrict
    <2>8. s \in 0 .. p - 1 /\ ~(s < e)
      BY <1>1, <2>3, <2>4, <2>7 DEF s
    <2>9. b * s + e <= o /\ o < b * s + e + (b + 0)
      BY <1>1, <2>3, <2>5
    <2>. QED
      BY <1>2, <2>4, <2>8, <2>9
  <1>. QED
    BY <1>4, <1>5

(***************************************************************************)
(* No byte is carried twice: the ranges of two streams never overlap.      *)
(***************************************************************************)
THEOREM RangesDisjoint ==
  ASSUME NEW n \in Nat, NEW p \in Nat \ {0},
         NEW s \in 0 .. p - 1, NEW t \in 0 .. p - 1, s # t
  PROVE  \/ RangeOffset(n, s, p) + RangeSize(n, s, p) <= RangeOffset(n, t, p)
         \/ RangeOffset(n, t, p) + RangeSize(n, t, p) <= RangeOffset(n, s, p)
  <1>1. s + 1 <= t \/ t + 1 <= s
    OBVIOUS
  <1>2. CASE s + 1 <= t
    <2>1. RangeOffset(n, s + 1, p) <= RangeOffset(n, t, p)
      BY <1>2, OffsetMono
    <2>. QED
      BY <2>1, RangesConsecutive
  <1>3. CASE t + 1 <= s
    <2>1. RangeOffset(n, t + 1, p) <= RangeOffset(n, s, p)
      BY <1>3, OffsetMono
    <2>. QED
      BY <2>1, RangesConsecutive
  <1>. QED
    BY <1>1, <1>2, <1>3

-----------------------------------------------------------------------------

(***************************************************************************)
(* The probe never listens on a port that a transfer stream needs: for     *)
(* every accepted port range, start() either chooses a valid port outside  *)
(* it or, only when the streams take every port, gives up.                 *)
(***************************************************************************)
THEOREM ProbePortClear ==
  ASSUME NEW probe \in 1 .. MaxPort, NEW port \in 1 .. MaxPort,
         NEW parallel \in Nat \ {0}, PortsAccepted(port, parallel)
  PROVE  LET chosen == SelectedProbePort(probe, port, parallel) IN
         \/ /\ chosen \in 1 .. MaxPort
            /\ \A stream \in 0 .. parallel - 1 : chosen # StreamPort(port, stream)
         \/ /\ chosen = NoPort
            /\ port = 1 /\ LastPort(port, parallel) = MaxPort
  <1>1. \A stream \in 0 .. parallel - 1 : StreamPort(port, stream) = port + stream
    <2>. SUFFICES ASSUME NEW stream \in 0 .. parallel - 1
                  PROVE  (port + stream) % (MaxPort + 1) = port + stream
      BY DEF StreamPort
    <2>1. port + stream \in 0 .. MaxPort
      BY MaxPortAssumption DEF PortsAccepted, LastPort
    <2>. HIDE DEF StreamPort
    <2>. QED
      BY <2>1, MaxPortAssumption
  <1>. QED
    BY <1>1, MaxPortAssumption DEF SelectedProbePort, PortsAccepted, LastPort, NoPort

\* Every set of natural numbers but the empty one has a least element.
LEMMA LeastNat ==
  ASSUME NEW S, S \subseteq Nat, S # {}
  PROVE  \E m \in S : \A n \in S : m <= n
  <1>. DEFINE R == { p \in Nat \X Nat : p[1] < p[2] }
  <1>1. IsWellFoundedOn(R, Nat)
    BY NatLessThanWellFounded DEF OpToRel
  <1>2. PICK m \in S : \A n \in S : <<n, m>> \notin R
    <2>. HIDE DEF R
    <2>. QED
      BY <1>1, WFMin
  <1>3. \A n \in S : ~(n < m)
    BY <1>2
  <1>. QED
    BY <1>3

-----------------------------------------------------------------------------
(***************************************************************************)
(* Orders on finite sets, as sets of pairs.  What is shown by induction on *)
(* a finite set is shown with a smallest counterexample here.              *)
(***************************************************************************)
Total(R, S) ==
    /\ \A x \in S : <<x, x>> \notin R
    /\ \A x, y \in S : x # y => <<x, y>> \in R \/ <<y, x>> \in R
    /\ \A x, y, z \in S : <<x, y>> \in R /\ <<y, z>> \in R => <<x, z>> \in R

\* A property that fails of some finite subset of S fails of a smallest one.
LEMMA SmallestSubset ==
  ASSUME NEW S, IsFiniteSet(S), NEW B \in SUBSET (SUBSET S), B # {}
  PROVE  \E T \in B : \A U \in B : U \subseteq T => U = T
  <1>1. B \subseteq FiniteSubsetsOf(S)
    BY FS_Subset DEF FiniteSubsetsOf
  <1>2. PICK T \in B : \A U \in B : <<U, T>> \notin StrictSubsetOrdering(S)
    BY <1>1, FS_StrictSubsetOrderingWellFounded, WFMin
  <1>. QED
    BY <1>2 DEF StrictSubsetOrdering

\* A finite set has a first element.
LEMMA First ==
  ASSUME NEW S, IsFiniteSet(S), S # {}, NEW R, Total(R, S)
  PROVE  \E x \in S : \A y \in S \ {x} : <<x, y>> \in R
  <1>. DEFINE HasFirst(T) == \E x \in T : \A y \in T \ {x} : <<x, y>> \in R
              B == { T \in SUBSET S : T # {} /\ ~HasFirst(T) }
  <1>. SUFFICES ASSUME ~HasFirst(S) PROVE FALSE
    OBVIOUS
  <1>1. S \in B
    OBVIOUS
  <1>2. B \in SUBSET (SUBSET S) /\ \A T \in B : IsFiniteSet(T)
    BY FS_Subset
  <1>3. PICK T \in B : \A U \in B : U \subseteq T => U = T
    <2>. HIDE DEF B
    <2>. QED
      BY <1>1, <1>2, SmallestSubset
  <1>4. PICK x \in T : TRUE
    BY <1>3
  <1>5. T \ {x} \notin B /\ T \ {x} \in SUBSET S
    BY <1>3, <1>4
  <1>6. T \ {x} # {}
    BY <1>3, <1>4
  <1>7. PICK m \in T \ {x} : \A y \in (T \ {x}) \ {m} : <<m, y>> \in R
    BY <1>5, <1>6
  <1>8. /\ m \in S /\ x \in S /\ m # x /\ T \subseteq S
        /\ <<m, x>> \in R \/ <<x, m>> \in R
        /\ \A y \in S : <<x, m>> \in R /\ <<m, y>> \in R => <<x, y>> \in R
    BY <1>3, <1>4, <1>7 DEF Total
  <1>9. HasFirst(T)
    <2>1. CASE <<m, x>> \in R
      BY <1>4, <1>7, <2>1
    <2>2. CASE <<x, m>> \in R
      BY <1>4, <1>7, <1>8, <2>2
    <2>. QED
      BY <1>8, <2>1, <2>2
  <1>. QED
    BY <1>3, <1>9

Increasing(f, n, R) == \A i, j \in 1 .. n : i < j => <<f[i], f[j]>> \in R
Below(R, S, x)      == { y \in S : <<y, x>> \in R }

\* An element has more before it than each of those before it, and fewer than
\* there are in all.
LEMMA Ranks ==
  ASSUME NEW S, IsFiniteSet(S), NEW R, Total(R, S)
  PROVE  /\ Cardinality(S) \in Nat
         /\ \A x \in S : Cardinality(Below(R, S, x)) \in 0 .. Cardinality(S) - 1
         /\ \A x, y \in S : <<x, y>> \in R =>
              Cardinality(Below(R, S, x)) < Cardinality(Below(R, S, y))
  <1>1. Cardinality(S) \in Nat
    BY FS_CardinalityType
  <1>2. ASSUME NEW x \in S
        PROVE  /\ IsFiniteSet(Below(R, S, x)) /\ Cardinality(Below(R, S, x)) \in Nat
               /\ Below(R, S, x) \subseteq S /\ x \notin Below(R, S, x)
    <2>1. Below(R, S, x) \subseteq S /\ x \notin Below(R, S, x)
      BY DEF Below, Total
    <2>2. IsFiniteSet(Below(R, S, x))
      BY <2>1, FS_Subset
    <2>. QED
      BY <2>1, <2>2, FS_CardinalityType
  <1>3. ASSUME NEW x \in S
        PROVE  Cardinality(Below(R, S, x)) \in 0 .. Cardinality(S) - 1
    <2>. DEFINE B == Below(R, S, x)
    <2>1. B \in SUBSET S /\ B # S /\ Cardinality(B) \in Nat
      BY <1>2
    <2>. HIDE DEF B
    <2>2. Cardinality(B) <= Cardinality(S) /\ Cardinality(B) # Cardinality(S)
      BY <2>1, FS_Subset
    <2>3. Cardinality(B) \in 0 .. Cardinality(S) - 1
      BY <1>1, <2>1, <2>2
    <2>. QED
      BY <2>3 DEF B
  <1>4. ASSUME NEW x \in S, NEW y \in S, <<x, y>> \in R
        PROVE  Cardinality(Below(R, S, x)) < Cardinality(Below(R, S, y))
    <2>. DEFINE A == Below(R, S, x)
                B == Below(R, S, y)
    <2>1. A \in SUBSET B /\ A # B
      <3>1. A \subseteq B
        BY <1>4 DEF Below, Total
      <3>2. x \in B /\ x \notin A
        BY <1>2, <1>4 DEF Below
      <3>. QED
        BY <3>1, <3>2
    <2>2. IsFiniteSet(B) /\ Cardinality(A) \in Nat /\ Cardinality(B) \in Nat
      BY <1>2
    <2>. HIDE DEF A, B
    <2>3. Cardinality(A) <= Cardinality(B) /\ Cardinality(A) # Cardinality(B)
      BY <2>1, <2>2, FS_Subset
    <2>4. Cardinality(A) < Cardinality(B)
      BY <2>2, <2>3
    <2>. QED
      BY <2>4 DEF A, B
  <1>. QED
    BY <1>1, <1>3, <1>4

\* There is an element with any number of elements before it that there can be.
LEMMA EveryRank ==
  ASSUME NEW S, IsFiniteSet(S), NEW R, Total(R, S), NEW n \in 1 .. Cardinality(S)
  PROVE  \E x \in S : Cardinality(Below(R, S, x)) = n - 1
  <1>. DEFINE k == Cardinality(S)
              rank == [x \in S |-> Cardinality(Below(R, S, x)) + 1]
  <1>1. k \in Nat /\ IsFiniteSet(1 .. k) /\ Cardinality(1 .. k) = k
    BY FS_CardinalityType, FS_Interval
  <1>2. \A x \in S : Cardinality(Below(R, S, x)) \in 0 .. k - 1
    BY Ranks
  <1>3. \A x, y \in S : <<x, y>> \in R => Cardinality(Below(R, S, x)) < Cardinality(Below(R, S, y))
    BY Ranks
  <1>. HIDE DEF k
  <1>4. rank \in [S -> 1 .. k]
    BY <1>1, <1>2
  <1>5. \A x, y \in S : x # y => rank[x] # rank[y]
    <2>. SUFFICES ASSUME NEW x \in S, NEW y \in S, x # y PROVE rank[x] # rank[y]
      OBVIOUS
    <2>1. rank[x] = Cardinality(Below(R, S, x)) + 1 /\ rank[y] = Cardinality(Below(R, S, y)) + 1
      OBVIOUS
    <2>2. <<x, y>> \in R \/ <<y, x>> \in R
      BY DEF Total
    <2>. HIDE DEF rank
    <2>. QED
      BY <1>1, <1>2, <1>3, <2>1, <2>2
  <1>6. rank \in Injection(S, 1 .. k)
    BY <1>4, <1>5 DEF Injection, IsInjective
  <1>7. rank \in Surjection(S, 1 .. k)
    <2>. HIDE DEF rank
    <2>. QED
      BY <1>1, <1>6, FS_Injection DEF k
  <1>8. PICK x \in S : rank[x] = n
    BY <1>7 DEF Surjection, k
  <1>. QED
    BY <1>1, <1>2, <1>8

\* A list in which each place has the element of its rank is in order and has
\* every element once.
LEMMA Ranked ==
  ASSUME NEW S, IsFiniteSet(S), NEW R, Total(R, S),
         NEW f \in [1 .. Cardinality(S) -> S],
         \A n \in 1 .. Cardinality(S) : Cardinality(Below(R, S, f[n])) = n - 1
  PROVE  /\ Increasing(f, Cardinality(S), R)
         /\ \A x \in S : \E i \in 1 .. Cardinality(S) : f[i] = x
  <1>. DEFINE k == Cardinality(S)
              rank(x) == Cardinality(Below(R, S, x))
  <1>1. k \in Nat /\ \A x \in S : rank(x) \in 0 .. k - 1
    BY Ranks
  <1>2. \A x, y \in S : <<x, y>> \in R => rank(x) < rank(y)
    BY Ranks
  <1>3. \A n \in 1 .. k : f[n] \in S /\ rank(f[n]) = n - 1
    OBVIOUS
  <1>4. \A x, y \in S : x # y => <<x, y>> \in R \/ <<y, x>> \in R
    BY DEF Total
  <1>. HIDE DEF k, rank
  <1>5. \A i, j \in 1 .. k : i < j => <<f[i], f[j]>> \in R
    <2>. SUFFICES ASSUME NEW i \in 1 .. k, NEW j \in 1 .. k, i < j PROVE <<f[i], f[j]>> \in R
      OBVIOUS
    <2>1. rank(f[i]) < rank(f[j]) /\ f[i] \in S /\ f[j] \in S
      BY <1>1, <1>3
    <2>2. rank(f[i]) \in Nat /\ rank(f[j]) \in Nat
      BY <1>1, <2>1
    <2>3. f[i] # f[j] /\ <<f[j], f[i]>> \notin R
      BY <1>2, <2>1, <2>2
    <2>. QED
      BY <1>4, <2>1, <2>3
  <1>6. \A x \in S : \E i \in 1 .. k : f[i] = x
    <2>. SUFFICES ASSUME NEW x \in S PROVE \E i \in 1 .. k : f[i] = x
      OBVIOUS
    <2>1. rank(x) + 1 \in 1 .. k /\ rank(x) \in Nat
      BY <1>1
    <2>2. f[rank(x) + 1] \in S /\ rank(f[rank(x) + 1]) = rank(x)
      BY <1>3, <2>1
    <2>3. ~(rank(x) < rank(x))
      BY <2>1
    <2>4. f[rank(x) + 1] = x
      BY <1>2, <1>4, <2>2, <2>3
    <2>. QED
      BY <2>1, <2>4
  <1>. QED
    BY <1>5, <1>6 DEF k, Increasing

\* Numbers in order: each of them once.
LEMMA NumbersInOrder ==
  ASSUME NEW I \in SUBSET Nat, IsFiniteSet(I)
  PROVE  /\ InOrder(I) \in [1 .. Cardinality(I) -> I] /\ Cardinality(I) \in Nat
         /\ \A i, j \in 1 .. Cardinality(I) : i < j => InOrder(I)[i] < InOrder(I)[j]
         /\ \A x \in I : \E i \in 1 .. Cardinality(I) : InOrder(I)[i] = x
  <1>. DEFINE R == { p \in Nat \X Nat : p[1] < p[2] }
              n == Cardinality(I)
              f == InOrder(I)
  <1>1. Total(R, I) /\ n \in Nat
    BY FS_CardinalityType DEF Total
  <1>2. \A x \in I : { y \in I : y < x } = Below(R, I, x)
    BY DEF Below
  <1>3. f = [i \in 1 .. n |-> CHOOSE x \in I : Cardinality({ y \in I : y < x }) = i - 1]
    BY DEF InOrder, Ordered
  <1>4. \A i \in 1 .. n : \E x \in I : Cardinality({ y \in I : y < x }) = i - 1
    <2>. HIDE DEF R
    <2>1. \A i \in 1 .. n : \E x \in I : Cardinality(Below(R, I, x)) = i - 1
      BY <1>1, EveryRank
    <2>. QED
      BY <1>2, <2>1
  <1>5. \A i \in 1 .. n : f[i] \in I /\ Cardinality({ y \in I : y < f[i] }) = i - 1
    BY <1>3, <1>4
  <1>6. f \in [1 .. n -> I]
    BY <1>3, <1>5
  <1>. HIDE DEF f, R
  <1>7. \A i \in 1 .. n : Cardinality(Below(R, I, f[i])) = i - 1
    BY <1>2, <1>5
  <1>8. Increasing(f, n, R) /\ \A x \in I : \E i \in 1 .. n : f[i] = x
    BY <1>1, <1>6, <1>7, Ranked
  <1>9. \A i, j \in 1 .. n : i < j => f[i] < f[j]
    BY <1>6, <1>8 DEF Increasing, R
  <1>. QED
    BY <1>1, <1>6, <1>8, <1>9 DEF f

\* Pick takes the members at the places, each place once.
LEMMA Picked ==
  ASSUME NEW S, NEW s \in Seq(S), NEW I \in SUBSET (1 .. Len(s))
  PROVE  /\ Pick(s, I) \in Seq(S) /\ Cardinality(I) \in Nat
         /\ Len(Pick(s, I)) = Cardinality(I)
         /\ \E f \in [1 .. Cardinality(I) -> I] :
              /\ \A n \in 1 .. Cardinality(I) : Pick(s, I)[n] = s[f[n]]
              /\ \A m, n \in 1 .. Cardinality(I) : m < n => f[m] < f[n]
              /\ \A i \in I : \E n \in 1 .. Cardinality(I) : f[n] = i
  <1>. DEFINE f == InOrder(I)
              n == Cardinality(I)
  <1>1. Len(s) \in Nat /\ \A i \in 1 .. Len(s) : s[i] \in S
    OBVIOUS
  <1>2. I \in SUBSET Nat /\ IsFiniteSet(I) /\ n \in Nat
    <2>1. IsFiniteSet(1 .. Len(s)) /\ 1 .. Len(s) \subseteq Nat
      BY <1>1, FS_Interval
    <2>2. IsFiniteSet(I)
      BY <2>1, FS_Subset
    <2>. QED
      BY <2>1, <2>2, FS_CardinalityType
  <1>3. /\ f \in [1 .. n -> I]
        /\ \A i, j \in 1 .. n : i < j => f[i] < f[j]
        /\ \A x \in I : \E i \in 1 .. n : f[i] = x
    BY <1>2, NumbersInOrder
  <1>4. Pick(s, I) = [i \in 1 .. n |-> s[f[i]]]
    BY DEF Pick
  <1>. HIDE DEF f, n
  <1>5. Pick(s, I) \in [1 .. n -> S]
    BY <1>1, <1>3, <1>4
  <1>6. Pick(s, I) \in Seq(S) /\ Len(Pick(s, I)) = n
    BY <1>2, <1>5
  <1>. QED
    BY <1>2, <1>3, <1>4, <1>6 DEF n

LEMMA PickedFrom ==
  ASSUME NEW S, NEW s \in Seq(S), NEW I \in SUBSET (1 .. Len(s))
  PROVE  /\ Cardinality(I) \in Nat
         /\ \A n \in 1 .. Cardinality(I) : \E i \in I : Pick(s, I)[n] = s[i]
  <1>. DEFINE f == InOrder(I)
              n == Cardinality(I)
  <1>1. I \in SUBSET Nat /\ IsFiniteSet(I) /\ n \in Nat
    <2>1. IsFiniteSet(1 .. Len(s)) /\ 1 .. Len(s) \subseteq Nat
      BY FS_Interval
    <2>2. IsFiniteSet(I)
      BY <2>1, FS_Subset
    <2>. QED
      BY <2>1, <2>2, FS_CardinalityType
  <1>2. f \in [1 .. n -> I]
    BY <1>1, NumbersInOrder
  <1>3. Pick(s, I) = [i \in 1 .. n |-> s[f[i]]]
    BY DEF Pick
  <1>. HIDE DEF f
  <1>. QED
    BY <1>1, <1>2, <1>3

-----------------------------------------------------------------------------
(***************************************************************************)
(* A loop over a sequence is FoldLeft in the models.  What it computes is  *)
(* where it stands after the last element: the lemmas below turn FoldLeft, *)
(* which recurs over sets of indices, into the sequence of its states.     *)
(***************************************************************************)
\* Induction up to N, for a set of numbers.
LEMMA UpTo ==
  ASSUME NEW N \in Nat, NEW S, 0 \in S, \A n \in 1 .. N : n - 1 \in S => n \in S
  PROVE  \A n \in 0 .. N : n \in S
  <1>. DEFINE B == { n \in 0 .. N : n \notin S }
  <1>. SUFFICES ASSUME B # {} PROVE FALSE
    OBVIOUS
  <1>1. B \subseteq Nat
    OBVIOUS
  <1>2. PICK m \in B : \A i \in B : m <= i
    <2>. HIDE DEF B
    <2>. QED
      BY <1>1, LeastNat
  <1>3. m \in 0 .. N /\ m \notin S /\ m # 0
    BY <1>2
  <1>4. m \in 1 .. N /\ m - 1 \in 0 .. N /\ m - 1 < m
    BY <1>3
  <1>5. m - 1 \in S
    <2>1. m - 1 \notin B
      BY <1>2, <1>4
    <2>. QED
      BY <1>4, <2>1
  <1>. QED
    BY <1>3, <1>4, <1>5

\* The last of the first n indices, and those before it.
LEMMA LastIndex ==
  ASSUME NEW n \in Nat \ {0}
  PROVE  Max(1 .. n) = n /\ (1 .. n) \ {n} = 1 .. n - 1 /\ 1 .. n # {}
  <1>1. \A x \in 1 .. n : (\A y \in 1 .. n : x >= y) => x = n
    OBVIOUS
  <1>2. n \in 1 .. n /\ \A y \in 1 .. n : n >= y
    OBVIOUS
  <1>3. Max(1 .. n) = CHOOSE x \in 1 .. n : \A y \in 1 .. n : x >= y
    BY DEF Max
  <1>4. Max(1 .. n) \in 1 .. n /\ \A y \in 1 .. n : Max(1 .. n) >= y
    BY <1>2, <1>3
  <1>5. Max(1 .. n) = n
    BY <1>1, <1>4
  <1>6. (1 .. n) \ {n} = 1 .. n - 1
    OBVIOUS
  <1>. QED
    BY <1>2, <1>5, <1>6

LEMMA MaxIndex ==
  ASSUME NEW N \in Nat, NEW s \in SUBSET (1 .. N), s # {}
  PROVE  Max(s) \in 1 .. N
  <1>. DEFINE R == { N - x : x \in s }
  <1>1. R \subseteq Nat /\ R # {}
    <2>1. \A x \in s : N - x \in Nat
      OBVIOUS
    <2>. QED
      BY <2>1
  <1>2. PICK r \in R : \A t \in R : r <= t
    <2>. HIDE DEF R
    <2>. QED
      BY <1>1, LeastNat
  <1>3. PICK x \in s : r = N - x
    BY <1>2
  <1>4. \A y \in s : x >= y
    <2>. SUFFICES ASSUME NEW y \in s PROVE x >= y
      OBVIOUS
    <2>1. N - y \in R /\ x \in 1 .. N /\ y \in 1 .. N
      OBVIOUS
    <2>. QED
      BY <1>2, <1>3, <2>1
  <1>. QED
    BY <1>4 DEF Max

\* There is a function that the recursion of FoldLeft defines.
Recurs(f, N, D, base, G) ==
    /\ f \in [SUBSET (1 .. N) -> D]
    /\ \A s \in SUBSET (1 .. N) : f[s] = IF s = {} THEN base ELSE G[<<f[s \ {Max(s)}], Max(s)>>]

LEMMA FoldRuns ==
  ASSUME NEW N \in Nat, NEW D, NEW base \in D, NEW G \in [D \X (1 .. N) -> D]
  PROVE  \E f : Recurs(f, N, D, base, G)
  <1>. DEFINE Def(f, s) == f[s] = IF s = {} THEN base ELSE G[<<f[s \ {Max(s)}], Max(s)>>]
              Good(m) == \E f \in [SUBSET (1 .. m) -> D] : \A s \in SUBSET (1 .. m) : Def(f, s)
              S == { m \in 0 .. N : Good(m) }
  <1>1. 0 \in S
    <2>. DEFINE f == [s \in SUBSET (1 .. 0) |-> base]
    <2>1. 1 .. 0 = {}
      OBVIOUS
    <2>2. f \in [SUBSET (1 .. 0) -> D]
      OBVIOUS
    <2>3. \A s \in SUBSET (1 .. 0) : s = {} /\ f[s] = base
      BY <2>1
    <2>4. \A s \in SUBSET (1 .. 0) : Def(f, s)
      BY <2>3
    <2>5. Good(0)
      <3>. HIDE DEF f, Def
      <3>. QED
        BY <2>2, <2>4, Zenon
    <2>. HIDE DEF Good
    <2>. QED
      BY <2>5
  <1>2. ASSUME NEW m \in 1 .. N, m - 1 \in S PROVE m \in S
    <2>1. PICK f \in [SUBSET (1 .. m - 1) -> D] : \A s \in SUBSET (1 .. m - 1) : Def(f, s)
      BY <1>2
    <2>. DEFINE g == [s \in SUBSET (1 .. m) |->
                        IF m \in s THEN G[<<f[s \ {m}], m>>] ELSE f[s]]
    <2>2. \A s \in SUBSET (1 .. m) : s \ {m} \in SUBSET (1 .. m - 1)
      OBVIOUS
    <2>3. \A s \in SUBSET (1 .. m) : m \notin s => s \in SUBSET (1 .. m - 1)
      BY <2>2
    <2>4. g \in [SUBSET (1 .. m) -> D]
      <3>1. \A s \in SUBSET (1 .. m) : f[s \ {m}] \in D
        BY <2>1, <2>2
      <3>2. \A s \in SUBSET (1 .. m) : G[<<f[s \ {m}], m>>] \in D
        BY <3>1
      <3>3. \A s \in SUBSET (1 .. m) : m \notin s => f[s] \in D
        BY <2>1, <2>3
      <3>. QED
        BY <3>2, <3>3
    <2>5. ASSUME NEW s \in SUBSET (1 .. m) PROVE Def(g, s)
      <3>1. CASE m \in s
        <4>1. Max(s) = m
          <5>1. \A x \in s : (\A y \in s : x >= y) => x = m
            BY <3>1
          <5>2. \A y \in s : m >= y
            OBVIOUS
          <5>3. Max(s) \in s /\ \A y \in s : Max(s) >= y
            BY <3>1, <5>2 DEF Max
          <5>. QED
            BY <5>1, <5>3
        <4>2. s \ {m} \in SUBSET (1 .. m) /\ m \notin s \ {m}
          OBVIOUS
        <4>3. g[s \ {m}] = f[s \ {m}]
          BY <4>2
        <4>4. g[s] = G[<<f[s \ {m}], m>>]
          BY <3>1
        <4>. HIDE DEF g
        <4>. QED
          BY <3>1, <4>1, <4>3, <4>4
      <3>2. CASE m \notin s
        <4>1. s \in SUBSET (1 .. m - 1) /\ g[s] = f[s]
          BY <2>3, <3>2
        <4>2. Def(f, s)
          BY <2>1, <4>1
        <4>3. s \ {Max(s)} \in SUBSET (1 .. m) /\ m \notin s \ {Max(s)}
          BY <3>2
        <4>4. g[s \ {Max(s)}] = f[s \ {Max(s)}]
          BY <4>3
        <4>. HIDE DEF g
        <4>. QED
          BY <4>1, <4>2, <4>4
      <3>. QED
        BY <3>1, <3>2
    <2>. HIDE DEF g, Def
    <2>. QED
      BY <2>4, <2>5
  <1>3. N \in S
    <2>. HIDE DEF S
    <2>1. \A n \in 0 .. N : n \in S
      BY <1>1, <1>2, UpTo
    <2>. QED
      BY <2>1
  <1>4. PICK f \in [SUBSET (1 .. N) -> D] : \A s \in SUBSET (1 .. N) : Def(f, s)
    BY <1>3
  <1>. QED
    BY <1>4 DEF Recurs

\* The states of the loop, from those on the sets of the first indices.
Steps(at, N, D, base, G) ==
    /\ at \in [0 .. N -> D] /\ at[0] = base
    /\ \A n \in 1 .. N : at[n] = G[<<at[n - 1], n>>]

Iterates(g, N, D, base, G) ==
    /\ g[{}] = base
    /\ \A n \in 1 .. N : g[1 .. n - 1] \in D => g[1 .. n] = G[<<g[1 .. n - 1], n>>]

LEMMA FoldStates ==
  ASSUME NEW N \in Nat, NEW D, NEW base \in D, NEW G \in [D \X (1 .. N) -> D],
         NEW g, Iterates(g, N, D, base, G)
  PROVE  Steps([n \in 0 .. N |-> g[1 .. n]], N, D, base, G)
  <1>. DEFINE at == [n \in 0 .. N |-> g[1 .. n]]
              S == { n \in 0 .. N : g[1 .. n] \in D }
  <1>. USE DEF Iterates
  <1>1. 0 \in S /\ at[0] = base
    <2>1. 1 .. 0 = {} /\ 0 \in 0 .. N
      OBVIOUS
    <2>. QED
      BY <2>1
  <1>2. ASSUME NEW n \in 1 .. N, n - 1 \in S PROVE n \in S
    <2>1. g[1 .. n - 1] \in D /\ n \in 0 .. N
      BY <1>2
    <2>2. g[1 .. n] = G[<<g[1 .. n - 1], n>>]
      BY <2>1
    <2>3. G[<<g[1 .. n - 1], n>>] \in D
      BY <2>1
    <2>. QED
      BY <2>1, <2>2, <2>3
  <1>3. \A n \in 0 .. N : n \in S
    <2>. HIDE DEF S
    <2>. QED
      BY <1>1, <1>2, UpTo
  <1>4. at \in [0 .. N -> D]
    BY <1>3
  <1>5. \A n \in 1 .. N : at[n] = G[<<at[n - 1], n>>]
    <2>. SUFFICES ASSUME NEW n \in 1 .. N PROVE at[n] = G[<<at[n - 1], n>>]
      OBVIOUS
    <2>1. n \in 0 .. N /\ n - 1 \in 0 .. N
      OBVIOUS
    <2>2. at[n] = g[1 .. n] /\ at[n - 1] = g[1 .. n - 1]
      BY <2>1
    <2>3. g[1 .. n - 1] \in D
      BY <1>3, <2>1
    <2>. HIDE DEF at
    <2>. QED
      BY <2>2, <2>3
  <1>. QED
    BY <1>1, <1>4, <1>5 DEF Steps

-----------------------------------------------------------------------------
(***************************************************************************)
(* partition_directory_items gives each item to one stream.                *)
(***************************************************************************)
Deals(n, I) == [1 .. n -> [items : Seq(I), bytes : Nat]]

\* The partitions hold the members of S and nothing else, each in one place.
Spread(d, n, S) ==
    /\ \A p, q \in 1 .. n : \A j \in 1 .. Len(d[p].items), k \in 1 .. Len(d[q].items) :
         d[p].items[j] = d[q].items[k] => p = q /\ j = k
    /\ \A p \in 1 .. n : \A j \in 1 .. Len(d[p].items) : d[p].items[j] \in S
    /\ \A x \in S : \E p \in 1 .. n : \E j \in 1 .. Len(d[p].items) : d[p].items[j] = x

\* There is a smallest partition.
LEMMA SmallestExists ==
  ASSUME NEW I, NEW n \in Nat \ {0}, NEW d \in Deals(n, I)
  PROVE  /\ Smallest(d) \in 1 .. n
         /\ \A q \in 1 .. n : d[Smallest(d)].bytes <= d[q].bytes
  <1>. DEFINE B == { d[p].bytes : p \in 1 .. n }
              L == { p \in 1 .. n : \A q \in 1 .. n : d[p].bytes <= d[q].bytes }
  <1>1. B \subseteq Nat /\ d[1].bytes \in B
    BY DEF Deals
  <1>2. PICK m \in B : \A b \in B : m <= b
    <2>. HIDE DEF B
    <2>. QED
      BY <1>1, LeastNat
  <1>3. L # {} /\ L \subseteq Nat
    <2>1. PICK p \in 1 .. n : d[p].bytes = m
      BY <1>2
    <2>2. p \in L
      BY <1>2, <2>1
    <2>. QED
      BY <2>2
  <1>4. \E x \in L : \A y \in L : x <= y
    <2>. HIDE DEF L
    <2>. QED
      BY <1>3, LeastNat
  <1>5. DOMAIN d = 1 .. n /\ Smallest(d) = CHOOSE x \in L : \A y \in L : x <= y
    BY DEF Deals, Smallest, Min
  <1>6. Smallest(d) \in L
    <2>. HIDE DEF L
    <2>. QED
      BY <1>4, <1>5
  <1>. QED
    BY <1>6

\* One more item.
LEMMA AssignOne ==
  ASSUME NEW I, NEW n \in Nat \ {0}, NEW d \in Deals(n, I), NEW S \in SUBSET I, Spread(d, n, S),
         NEW x \in I \ S, NEW size, size[x] \in Nat
  PROVE  Assign(d, x, size) \in Deals(n, I) /\ Spread(Assign(d, x, size), n, S \cup {x})
  <1>. DEFINE p == Smallest(d)
              e == Assign(d, x, size)
  <1>1. p \in 1 .. n
    BY SmallestExists
  <1>2. /\ e = [d EXCEPT ![p] = DirectoryPartition(Append(d[p].items, x), d[p].bytes + size[x])]
        /\ \A q \in 1 .. n : d[q].items \in Seq(I) /\ d[q].bytes \in Nat
    BY <1>1 DEF Assign, Deals
  <1>. HIDE DEF p, e
  <1>3. Append(d[p].items, x) \in Seq(I) /\ d[p].bytes + size[x] \in Nat
    BY <1>1, <1>2
  <1>4. e \in Deals(n, I)
    BY <1>1, <1>2, <1>3 DEF Deals, DirectoryPartition
  <1>5. /\ e[p].items = Append(d[p].items, x)
        /\ \A q \in 1 .. n : q # p => e[q] = d[q]
    BY <1>1, <1>2 DEF Deals, DirectoryPartition
  <1>6. /\ Len(e[p].items) = Len(d[p].items) + 1 /\ Len(d[p].items) \in Nat
        /\ e[p].items[Len(d[p].items) + 1] = x
        /\ \A j \in 1 .. Len(d[p].items) : e[p].items[j] = d[p].items[j]
    BY <1>1, <1>2, <1>5
  <1>7. \A q \in 1 .. n : \A j \in 1 .. Len(e[q].items) :
          IF q = p /\ j = Len(d[p].items) + 1 THEN e[q].items[j] = x
          ELSE j \in 1 .. Len(d[q].items) /\ e[q].items[j] = d[q].items[j] /\ e[q].items[j] \in S
    <2>. SUFFICES ASSUME NEW q \in 1 .. n, NEW j \in 1 .. Len(e[q].items)
                  PROVE  IF q = p /\ j = Len(d[p].items) + 1 THEN e[q].items[j] = x
                         ELSE j \in 1 .. Len(d[q].items) /\ e[q].items[j] = d[q].items[j]
                              /\ e[q].items[j] \in S
      OBVIOUS
    <2>1. \A i \in 1 .. Len(d[q].items) : d[q].items[i] \in S
      BY DEF Spread
    <2>2. CASE q = p
      <3>1. CASE j = Len(d[p].items) + 1
        BY <1>6, <2>2, <3>1
      <3>2. CASE j # Len(d[p].items) + 1
        <4>1. j \in 1 .. Len(d[p].items)
          BY <1>6, <2>2, <3>2
        <4>. QED
          BY <1>6, <2>1, <2>2, <3>2, <4>1
      <3>. QED
        BY <3>1, <3>2
    <2>3. CASE q # p
      BY <1>5, <2>3 DEF Spread
    <2>. QED
      BY <2>2, <2>3
  <1>8. ASSUME NEW q \in 1 .. n, NEW r \in 1 .. n, NEW j \in 1 .. Len(e[q].items),
               NEW k \in 1 .. Len(e[r].items), e[q].items[j] = e[r].items[k]
        PROVE  q = r /\ j = k
    <2>1. x \notin S /\ Len(d[p].items) \in Nat
      BY <1>6
    <2>2. CASE q = p /\ j = Len(d[p].items) + 1
      <3>1. e[r].items[k] \notin S
        BY <1>7, <1>8, <2>1, <2>2
      <3>. QED
        BY <1>7, <2>2, <3>1
    <2>3. CASE ~(q = p /\ j = Len(d[p].items) + 1)
      <3>1. j \in 1 .. Len(d[q].items) /\ e[q].items[j] = d[q].items[j] /\ e[q].items[j] \in S
        BY <1>7, <2>3
      <3>2. ~(r = p /\ k = Len(d[p].items) + 1)
        BY <1>7, <1>8, <2>1, <3>1
      <3>3. k \in 1 .. Len(d[r].items) /\ e[r].items[k] = d[r].items[k]
        BY <1>7, <3>2
      <3>4. d[q].items[j] = d[r].items[k]
        BY <1>8, <3>1, <3>3
      <3>5. \A a, b \in 1 .. n : \A f \in 1 .. Len(d[a].items), g \in 1 .. Len(d[b].items) :
              d[a].items[f] = d[b].items[g] => a = b /\ f = g
        BY DEF Spread
      <3>. QED
        BY <3>1, <3>3, <3>4, <3>5
    <2>. QED
      BY <2>2, <2>3
  <1>9. ASSUME NEW y \in S \cup {x}
        PROVE  \E q \in 1 .. n : \E j \in 1 .. Len(e[q].items) : e[q].items[j] = y
    <2>1. CASE y = x
      <3>1. Len(d[p].items) + 1 \in 1 .. Len(e[p].items)
        BY <1>6
      <3>. QED
        BY <1>1, <1>6, <2>1, <3>1
    <2>2. CASE y \in S
      <3>1. PICK q \in 1 .. n : \E j \in 1 .. Len(d[q].items) : d[q].items[j] = y
        BY <2>2 DEF Spread
      <3>2. PICK j \in 1 .. Len(d[q].items) : d[q].items[j] = y
        BY <3>1
      <3>3. j \in 1 .. Len(e[q].items) /\ e[q].items[j] = y
        <4>1. CASE q = p
          BY <1>6, <3>2, <4>1, SMTT(30)
        <4>2. CASE q # p
          BY <1>5, <3>2, <4>2
        <4>. QED
          BY <4>1, <4>2
      <3>. QED
        BY <3>2, <3>3
    <2>. QED
      BY <2>1, <2>2
  <1>10. \A q \in 1 .. n : \A j \in 1 .. Len(e[q].items) : e[q].items[j] \in S \cup {x}
    BY <1>7
  <1>11. Spread(e, n, S \cup {x})
    BY <1>8, <1>9, <1>10 DEF Spread
  <1>. QED
    BY <1>4, <1>11 DEF e

\* f[n] is the state of the loop that deals the payload out after n items.
Loop(f, base, payload, size, len) ==
    f = [n \in 0 .. len |-> IF n = 0 THEN base ELSE Assign(f[n - 1], payload[n], size)]

LEMMA LoopRuns ==
  ASSUME NEW base, NEW payload, NEW size, NEW len \in Nat
  PROVE  \E f : Loop(f, base, payload, size, len)
  <1>. USE DEF Loop
  <1>. DEFINE Runs(m, f) == Loop(f, base, payload, size, m)
              B == { m \in Nat : ~\E f : Runs(m, f) }
  <1>. SUFFICES ASSUME ~\E f : Runs(len, f) PROVE FALSE
    OBVIOUS
  <1>1. B # {} /\ B \subseteq Nat
    OBVIOUS
  <1>2. PICK m \in B : \A i \in B : m <= i
    <2>. HIDE DEF B
    <2>. QED
      BY <1>1, LeastNat
  <1>3. m \in Nat /\ ~\E f : Runs(m, f)
    BY <1>2
  <1>4. CASE m = 0
    <2>. DEFINE f == [n \in 0 .. 0 |-> base]
    <2>1. Runs(0, f)
      OBVIOUS
    <2>. HIDE DEF f, Runs, Loop
    <2>. QED
      BY <1>3, <1>4, <2>1
  <1>5. CASE m # 0
    <2>1. m - 1 \in Nat /\ m - 1 \notin B
      <3>. HIDE DEF B, Runs, Loop
      <3>. QED
        BY <1>2, <1>3, <1>5
    <2>2. PICK f : Runs(m - 1, f)
      BY <2>1
    <2>. DEFINE g == [n \in 0 .. m |-> IF n = m THEN Assign(f[m - 1], payload[m], size) ELSE f[n]]
    <2>3. \A n \in 0 .. m - 1 : g[n] = f[n]
      BY <1>3
    <2>4. \A n \in 0 .. m : g[n] = IF n = 0 THEN base ELSE Assign(g[n - 1], payload[n], size)
      <3>. SUFFICES ASSUME NEW n \in 0 .. m
                    PROVE  g[n] = IF n = 0 THEN base ELSE Assign(g[n - 1], payload[n], size)
        OBVIOUS
      <3>1. CASE n = m
        <4>1. g[n] = Assign(f[m - 1], payload[m], size) /\ g[n - 1] = f[m - 1]
          BY <1>3, <1>5, <2>3, <3>1
        <4>. HIDE DEF g
        <4>. QED
          BY <1>5, <3>1, <4>1
      <3>2. CASE n # m
        <4>1. n \in 0 .. m - 1 /\ g[n] = f[n]
          BY <1>3, <2>3, <3>2
        <4>2. f[n] = IF n = 0 THEN base ELSE Assign(f[n - 1], payload[n], size)
          BY <2>2, <4>1
        <4>3. n # 0 => g[n - 1] = f[n - 1]
          BY <1>3, <2>3, <4>1
        <4>. HIDE DEF g
        <4>. QED
          BY <4>1, <4>2, <4>3
      <3>. QED
        BY <3>1, <3>2
    <2>5. g = [n \in 0 .. m |-> g[n]]
      OBVIOUS
    <2>. HIDE DEF g
    <2>6. Runs(m, g)
      BY <2>4, <2>5
    <2>. HIDE DEF Runs, Loop
    <2>. QED
      BY <1>3, <2>6
  <1>. QED
    BY <1>4, <1>5

\* The loop's first and later states, and its result.
DealsOut(deal, metadata, payload, size, parallel) ==
    /\ deal[0] = [p \in 1 .. parallel |-> DirectoryPartition(IF p = 1 THEN metadata ELSE <<>>, 0)]
    /\ \A n \in 1 .. Len(payload) : deal[n] = Assign(deal[n - 1], payload[n], size)
    /\ deal[Len(payload)] = Partitioned(metadata, payload, size, parallel)

LEMMA PartitionedRuns ==
  ASSUME NEW parallel, NEW size, NEW I, NEW metadata, NEW payload \in Seq(I)
  PROVE  \E deal : DealsOut(deal, metadata, payload, size, parallel)
  <1>. DEFINE base == [p \in 1 .. parallel |-> DirectoryPartition(IF p = 1 THEN metadata ELSE <<>>, 0)]
              len == Len(payload)
              deal == CHOOSE f : f = [n \in 0 .. len |->
                        IF n = 0 THEN base ELSE Assign(f[n - 1], payload[n], size)]
  <1>1. len \in Nat
    OBVIOUS
  <1>2. Partitioned(metadata, payload, size, parallel) = deal[len]
    BY DEF Partitioned
  <1>3. deal = [n \in 0 .. len |-> IF n = 0 THEN base ELSE Assign(deal[n - 1], payload[n], size)]
    <2>. HIDE DEF base, len
    <2>1. \E f : Loop(f, base, payload, size, len)
      BY <1>1, LoopRuns
    <2>. QED
      BY <2>1, Zenon DEF Loop
  <1>. HIDE DEF deal
  <1>4. deal[0] = base /\ \A n \in 1 .. len : deal[n] = Assign(deal[n - 1], payload[n], size)
    <2>. HIDE DEF base, len
    <2>1. 0 \in 0 .. len
      BY <1>1
    <2>2. deal[0] = base
      BY <1>3, <2>1
    <2>3. \A n \in 1 .. len : n \in 0 .. len /\ n # 0
      BY <1>1
    <2>. QED
      BY <1>3, <2>2, <2>3
  <1>5. DealsOut(deal, metadata, payload, size, parallel)
    BY <1>2, <1>4 DEF DealsOut
  <1>. QED
    BY <1>5

\* Its result holds the items of both lists once, when no item is in them twice.
LEMMA PartitionedSpread ==
  ASSUME NEW I, NEW parallel \in Nat \ {0}, NEW size, \A i \in I : size[i] \in Nat,
         NEW metadata \in Seq(I), NEW payload \in Seq(I),
         \A i, j \in 1 .. Len(metadata) : metadata[i] = metadata[j] => i = j,
         \A i, j \in 1 .. Len(payload) : payload[i] = payload[j] => i = j,
         \A i \in 1 .. Len(metadata), j \in 1 .. Len(payload) : metadata[i] # payload[j],
         NEW all, all = { metadata[i] : i \in 1 .. Len(metadata) } \cup
                        { payload[i] : i \in 1 .. Len(payload) }
  PROVE  /\ Partitioned(metadata, payload, size, parallel) \in Deals(parallel, I)
         /\ Spread(Partitioned(metadata, payload, size, parallel), parallel, all)
  <1>. DEFINE base == [p \in 1 .. parallel |-> DirectoryPartition(IF p = 1 THEN metadata ELSE <<>>, 0)]
              len == Len(payload)
  <1>1. len \in Nat
    OBVIOUS
  <1>2. PICK deal : DealsOut(deal, metadata, payload, size, parallel)
    BY PartitionedRuns
  <1>3. /\ deal[0] = base
        /\ \A n \in 1 .. len : deal[n] = Assign(deal[n - 1], payload[n], size)
        /\ deal[len] = Partitioned(metadata, payload, size, parallel)
    BY <1>2 DEF DealsOut
  <1>. DEFINE M == { metadata[i] : i \in 1 .. Len(metadata) }
              S(n) == M \cup { payload[i] : i \in 1 .. n }
              Good(n) == deal[n] \in Deals(parallel, I) /\ Spread(deal[n], parallel, S(n))
  <1>4. Good(0)
    <2>1. base \in Deals(parallel, I)
      <3>1. <<>> \in Seq(I)
        OBVIOUS
      <3>. QED
        BY <3>1 DEF Deals, DirectoryPartition
    <2>2. base[1].items = metadata /\ \A p \in 1 .. parallel : p # 1 => base[p].items = <<>>
      BY DEF DirectoryPartition
    <2>3. S(0) = M /\ 1 \in 1 .. parallel
      OBVIOUS
    <2>. HIDE DEF base
    <2>4. \A p \in 1 .. parallel : \A j \in 1 .. Len(base[p].items) :
            p = 1 /\ j \in 1 .. Len(metadata) /\ base[p].items[j] = metadata[j]
      BY <2>2
    <2>5. Spread(base, parallel, M)
      <3>1. ASSUME NEW x \in M
            PROVE  \E p \in 1 .. parallel : \E j \in 1 .. Len(base[p].items) : base[p].items[j] = x
        BY <2>2, <2>3
      <3>2. \A p \in 1 .. parallel : \A j \in 1 .. Len(base[p].items) : base[p].items[j] \in M
        BY <2>4
      <3>3. ASSUME NEW p \in 1 .. parallel, NEW q \in 1 .. parallel,
                   NEW j \in 1 .. Len(base[p].items), NEW k \in 1 .. Len(base[q].items),
                   base[p].items[j] = base[q].items[k]
            PROVE  p = q /\ j = k
        BY <2>4, <3>3
      <3>. HIDE DEF M
      <3>. QED
        BY <3>1, <3>2, <3>3 DEF Spread
    <2>. QED
      BY <1>3, <2>1, <2>3, <2>5
  <1>5. ASSUME NEW n \in 1 .. len, Good(n - 1)
        PROVE  Good(n)
    <2>1. payload[n] \in I \ S(n - 1) /\ S(n - 1) \in SUBSET I
      <3>1. M \subseteq I /\ payload[n] \in I
        OBVIOUS
      <3>2. \A i \in 1 .. n - 1 : i \in 1 .. Len(payload) /\ payload[i] \in I /\ payload[i] # payload[n]
        BY <1>1
      <3>3. payload[n] \notin M
        OBVIOUS
      <3>. QED
        BY <3>1, <3>2, <3>3
    <2>2. S(n) = S(n - 1) \cup {payload[n]}
      <3>1. 1 .. n = (1 .. n - 1) \cup {n}
        BY <1>1
      <3>. QED
        BY <3>1
    <2>3. deal[n] = Assign(deal[n - 1], payload[n], size) /\ size[payload[n]] \in Nat
      BY <1>3, <2>1
    <2>. DEFINE T == S(n - 1)
                d == deal[n - 1]
                x == payload[n]
    <2>4. d \in Deals(parallel, I) /\ Spread(d, parallel, T) /\ x \in I \ T /\ T \in SUBSET I
      BY <1>5, <2>1
    <2>5. size[x] \in Nat
      BY <2>3
    <2>. HIDE DEF d, x, T
    <2>6. Assign(d, x, size) \in Deals(parallel, I) /\ Spread(Assign(d, x, size), parallel, T \cup {x})
      BY <2>4, <2>5, AssignOne
    <2>. HIDE DEF S, len
    <2>. QED
      BY <2>2, <2>3, <2>6 DEF d, x, T
  <1>6. Good(len)
    <2>. DEFINE R == { n \in 0 .. len : Good(n) }
    <2>. HIDE DEF Good
    <2>1. 0 \in R /\ \A n \in 1 .. len : n - 1 \in R => n \in R
      BY <1>1, <1>4, <1>5
    <2>2. \A n \in 0 .. len : n \in R
      <3>. HIDE DEF R
      <3>. QED
        BY <1>1, <2>1, UpTo
    <2>. QED
      BY <1>1, <2>2
  <1>. QED
    BY <1>3, <1>6

\* Every result of partition_directory_items holds each item in one place of
\* one stream and nothing else, for any items, sizes, number of streams and
\* order in which std::sort leaves equal sizes.
THEOREM PartitionSpread ==
  ASSUME NEW I \in SUBSET Nat, IsFiniteSet(I), NEW parallel \in Nat \ {0}, NEW kind, NEW size,
         \A i \in I : size[i] \in Nat, NEW d \in partition_directory_items(I, kind, size, parallel)
  PROVE  d \in Deals(parallel, I) /\ Spread(d, parallel, I)
  <1>. DEFINE P == { i \in I : HasPayload(kind[i]) }
              Q == { i \in I : ~HasPayload(kind[i]) }
              meta == InOrder(Q)
  <1>1. IsFiniteSet(P) /\ IsFiniteSet(Q) /\ P \in SUBSET Nat /\ Q \in SUBSET Nat
    BY FS_Subset
  <1>2. P \cup Q = I /\ P \cap Q = {}
    OBVIOUS
  <1>3. PICK q \in SortedPayload(I, kind, size) : d = Partitioned(meta, q, size, parallel)
    BY DEF partition_directory_items
  <1>4. q \in SetToSeqs(P)
    BY <1>3 DEF SortedPayload
  <1>. HIDE DEF P, Q
  <1>5. /\ meta \in [1 .. Cardinality(Q) -> Q] /\ Cardinality(Q) \in Nat
        /\ \A i, j \in 1 .. Cardinality(Q) : i < j => meta[i] < meta[j]
        /\ \A x \in Q : \E i \in 1 .. Cardinality(Q) : meta[i] = x
    BY <1>1, NumbersInOrder
  <1>. HIDE DEF meta
  <1>6. /\ q \in [1 .. Cardinality(P) -> P] /\ Cardinality(P) \in Nat
        /\ \A i, j \in 1 .. Cardinality(P) : i # j => q[i] # q[j]
    BY <1>1, <1>4, FS_CardinalityType DEF SetToSeqs
  <1>7. \A x \in P : \E i \in 1 .. Cardinality(P) : q[i] = x
    <2>1. q \in Injection(1 .. Cardinality(P), P)
      BY <1>6 DEF Injection, IsInjective
    <2>2. IsFiniteSet(1 .. Cardinality(P)) /\ Cardinality(1 .. Cardinality(P)) = Cardinality(P)
      BY <1>6, FS_Interval
    <2>3. q \in Surjection(1 .. Cardinality(P), P)
      BY <1>1, <2>1, <2>2, FS_Injection
    <2>. QED
      BY <2>3 DEF Surjection
  <1>8. /\ meta \in Seq(I) /\ Len(meta) = Cardinality(Q)
        /\ q \in Seq(I) /\ Len(q) = Cardinality(P)
    <2>1. meta \in [1 .. Cardinality(Q) -> I] /\ q \in [1 .. Cardinality(P) -> I]
      BY <1>2, <1>5, <1>6
    <2>. QED
      BY <1>5, <1>6, <2>1
  <1>9. \A i, j \in 1 .. Len(meta) : meta[i] = meta[j] => i = j
    <2>. SUFFICES ASSUME NEW i \in 1 .. Len(meta), NEW j \in 1 .. Len(meta), i # j
                  PROVE  meta[i] # meta[j]
      OBVIOUS
    <2>1. i < j \/ j < i
      BY <1>5, <1>8
    <2>2. meta[i] \in Nat /\ meta[j] \in Nat
      BY <1>1, <1>5, <1>8
    <2>. QED
      BY <1>5, <1>8, <2>1, <2>2
  <1>10. \A i \in 1 .. Len(meta), j \in 1 .. Len(q) : meta[i] # q[j]
    BY <1>2, <1>5, <1>6, <1>8
  <1>11. \A i, j \in 1 .. Len(q) : q[i] = q[j] => i = j
    BY <1>6, <1>8
  <1>12. I = { meta[i] : i \in 1 .. Len(meta) } \cup { q[i] : i \in 1 .. Len(q) }
    BY <1>2, <1>5, <1>6, <1>7, <1>8
  <1>. QED
    BY <1>3, <1>8, <1>9, <1>10, <1>11, <1>12, PartitionedSpread
=============================================================================
