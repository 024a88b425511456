-------------------------- MODULE FrameCodecProofs --------------------------
(***************************************************************************)
(* Proof that the cuts between chunks do not show in what is dispatched,   *)
(* for streams of any length and reads of any size.                        *)
(***************************************************************************)
EXTENDS FrameCodec, FiniteSetTheorems, SequenceTheorems, WellFoundedInduction, TLAPS

(***************************************************************************)
(* The frames of a stream, as more of it is read.                          *)
(***************************************************************************)
\* The largest number of a set, when it is known.
LEMMA MaxIs == ASSUME NEW S \in SUBSET Nat, NEW m \in S, \A i \in S : i <= m PROVE Max(S) = m
<1>1. Max(S) \in S /\ \A y \in S : Max(S) >= y
  <2>1. \E x \in S : \A y \in S : x >= y
    OBVIOUS
  <2> QED
    BY <2>1, Zenon DEF Max
<1> DEFINE x == Max(S)
<1>2. x \in Nat /\ m \in Nat /\ x <= m /\ x >= m
  BY <1>1
<1> HIDE DEF x
<1>3. x = m
  BY <1>2
<1> QED
  BY <1>3 DEF x

\* The least number of a set, when it is known.
LEMMA MinIs == ASSUME NEW S \in SUBSET Nat, NEW m \in S, \A i \in S : m <= i PROVE Min(S) = m
<1>1. Min(S) \in S /\ \A y \in S : Min(S) <= y
  <2>1. \E x \in S : \A y \in S : x <= y
    OBVIOUS
  <2> QED
    BY <2>1, Zenon DEF Min
<1> DEFINE x == Min(S)
<1>2. x \in Nat /\ m \in Nat /\ x <= m /\ x >= m
  BY <1>1
<1> HIDE DEF x
<1>3. x = m
  BY <1>2
<1> QED
  BY <1>3 DEF x

\* A set of numbers that is not empty has a least member.
LEMMA LeastExists ==
    ASSUME NEW T \in SUBSET Nat, T # {}
    PROVE  \E m \in T : \A n \in T : m <= n
<1> DEFINE R == OpToRel(<, Nat)
<1>1. IsWellFoundedOn(R, Nat)
  BY NatLessThanWellFounded
<1>2. \A x, y \in Nat : x < y => <<x, y>> \in R
  BY DEF OpToRel
<1> HIDE DEF R
<1>3. PICK x \in T : \A y \in T : ~ (<<y, x>> \in R)
  BY <1>1, WFMin
<1>4. \A y \in T : x \in Nat /\ y \in Nat /\ ~ (y < x)
  BY <1>2, <1>3
<1>5. \A y \in T : x <= y
  BY <1>4
<1> QED
  BY <1>5

\* The first line ends of a stream stay the first ones when others come behind.
LEMMA RankedStays ==
    ASSUME NEW S, NEW T, S \subseteq Int, T \subseteq Int, IsFiniteSet(S \cup T),
           \A i \in S, j \in T : i < j,
           NEW k \in 1..Cardinality(S)
    PROVE  Ranked(S \cup T, k) = Ranked(S, k)
<1>1. IsFiniteSet(S) /\ Cardinality(S) \in Nat
  BY FS_Subset, FS_CardinalityType
<1>2. ASSUME NEW i \in S PROVE {j \in S \cup T : j <= i} = {j \in S : j <= i}
  <2>1. \A j \in T : i \in Int /\ j \in Int /\ i < j
    BY <1>2
  <2>2. \A j \in T : ~ (j <= i)
    BY <2>1
  <2> QED
    BY <2>2
<1>3. ASSUME NEW i \in T PROVE Cardinality({j \in S \cup T : j <= i}) # k
  <2> DEFINE below == {j \in S \cup T : j <= i}
  <2>1. IsFiniteSet(below) /\ S \cup {i} \subseteq below
    <3>1. below \subseteq S \cup T
      OBVIOUS
    <3> QED
      BY <3>1, FS_Subset
  <2>2. IsFiniteSet(S \cup {i}) /\ Cardinality(S \cup {i}) = Cardinality(S) + 1
    <3>1. i \notin S
      OBVIOUS
    <3> QED
      BY <1>1, <3>1, FS_AddElement
  <2>3. Cardinality(S \cup {i}) <= Cardinality(below) /\ Cardinality(below) \in Nat
    BY <2>1, FS_Subset, FS_CardinalityType
  <2> HIDE DEF below
  <2>4. Cardinality(below) # k
    BY <1>1, <2>2, <2>3
  <2> QED
    BY <2>4 DEF below
<1> QED
  BY <1>2, <1>3 DEF Ranked

\* The last line end of a stream comes last.
LEMMA RankedLast ==
    ASSUME NEW S \in SUBSET Int, IsFiniteSet(S), NEW e \in Int, \A i \in S : i < e
    PROVE  Nth(S \cup {e}, Cardinality(S) + 1) = e
<1> DEFINE k == Cardinality(S) + 1
           U == S \cup {e}
<1>1. Cardinality(S) \in Nat
  BY FS_CardinalityType
<1>2. Cardinality({j \in U : j <= e}) = k
  <2>1. \A i \in S : i \in Int /\ i <= e /\ i # e
    OBVIOUS
  <2>2. e \notin S
    BY <2>1
  <2>3. \A j \in U : j <= e
    BY <2>1
  <2>4. {j \in U : j <= e} = U
    BY <2>3
  <2> QED
    BY <2>2, <2>4, FS_AddElement
<1>3. ASSUME NEW i \in S PROVE Cardinality({j \in U : j <= i}) # k
  <2> DEFINE below == {j \in U : j <= i}
  <2>1. below \subseteq S
    OBVIOUS
  <2>2. IsFiniteSet(below) /\ Cardinality(below) \in Nat /\ Cardinality(below) <= Cardinality(S)
    BY <2>1, FS_Subset, FS_CardinalityType
  <2> HIDE DEF below
  <2>3. Cardinality(below) # k
    BY <1>1, <2>2
  <2> QED
    BY <2>3 DEF below
<1> HIDE DEF k
<1>4. Ranked(U, k) = {e}
  BY <1>2, <1>3 DEF Ranked
<1> HIDE DEF U
<1>5. Nth(U, k) = e
  BY <1>4 DEF Nth
<1> QED
  BY <1>5 DEF k, U

\* The lines that end in the first n bytes are finitely many.
LEMMA EndsType ==
    ASSUME NEW s \in Seq(Bytes), NEW n \in 0..Len(s)
    PROVE  /\ FrameEnds(s, n) \subseteq 1..n /\ IsFiniteSet(FrameEnds(s, n))
           /\ Cardinality(FrameEnds(s, n)) \in Nat
<1>1. FrameEnds(s, n) \subseteq 1..n
  BY DEF FrameEnds
<1>2. IsFiniteSet(1..n)
  BY FS_Interval
<1> QED
  BY <1>1, <1>2, FS_Subset, FS_CardinalityType

\* As many frames as there are lines that are not blank.
LEMMA FramesLength ==
    ASSUME NEW s \in Seq(Bytes), NEW n \in 0..Len(s)
    PROVE  /\ Len(Frames(s, n)) = Cardinality(FrameEnds(s, n))
           /\ DOMAIN Frames(s, n) = 1..Len(Frames(s, n))
           /\ Len(Frames(s, n)) \in Nat
<1>1. Cardinality(FrameEnds(s, n)) \in Nat
  BY EndsType
<1>2. DOMAIN Frames(s, n) = 1..Cardinality(FrameEnds(s, n))
  BY DEF Frames, LinesBefore
<1> QED
  BY <1>1, <1>2

\* The frames of more bytes begin with those of fewer.
LEMMA FramesGrow ==
    ASSUME NEW s \in Seq(Bytes), NEW n \in 0..Len(s), NEW d \in 0..n
    PROVE  /\ Len(Frames(s, d)) <= Len(Frames(s, n))
           /\ \A k \in 1..Len(Frames(s, d)) : Frames(s, n)[k] = Frames(s, d)[k]
<1> DEFINE S == FrameEnds(s, d)
           T == FrameEnds(s, n) \ S
<1>1. d \in 0..Len(s) /\ d \in Int /\ n \in Int
  OBVIOUS
<1>2. FrameEnds(s, n) = S \cup T /\ \A i \in T : i \in Int /\ d < i
  <2>1. S \subseteq FrameEnds(s, n)
    BY <1>1 DEF FrameEnds
  <2>2. ASSUME NEW i \in T PROVE i \in Int /\ d < i
    <3>1. i \in 1..n /\ ~ (i \in 1..d)
      BY DEF FrameEnds
    <3> QED
      BY <1>1, <3>1
  <2> QED
    BY <2>1, <2>2
<1>3. \A i \in S : i \in Int /\ i <= d
  BY <1>1, EndsType
<1>4. IsFiniteSet(S \cup T) /\ Cardinality(S) <= Cardinality(S \cup T)
      /\ Cardinality(S) \in Nat /\ Cardinality(S \cup T) \in Nat
  <2>1. IsFiniteSet(FrameEnds(s, n)) /\ Cardinality(FrameEnds(s, n)) \in Nat /\ Cardinality(S) \in Nat
    BY <1>1, EndsType
  <2>2. S \subseteq FrameEnds(s, n)
    BY <1>2
  <2>3. Cardinality(S) <= Cardinality(FrameEnds(s, n))
    BY <2>1, <2>2, FS_Subset
  <2> QED
    BY <1>2, <2>1, <2>3
<1> HIDE DEF S, T
<1>5. Len(Frames(s, d)) = Cardinality(S) /\ Len(Frames(s, n)) = Cardinality(S \cup T)
  BY <1>1, <1>2, FramesLength DEF S
<1>6. ASSUME NEW k \in 1..Cardinality(S) PROVE Frames(s, n)[k] = Frames(s, d)[k]
  <2>1. S \subseteq Int /\ T \subseteq Int /\ \A i \in S, j \in T : i < j
    BY <1>1, <1>2, <1>3
  <2>2. Ranked(S \cup T, k) = Ranked(S, k)
    BY <1>4, <2>1, RankedStays
  <2>3. Nth(S \cup T, k) = Nth(S, k)
    BY <2>2 DEF Nth
  <2>4. k \in 1..Cardinality(S \cup T)
    BY <1>4
  <2> QED
    BY <1>2, <2>3, <2>4 DEF Frames, LinesBefore, S
<1> QED
  BY <1>4, <1>5, <1>6

\* One more frame is one more line.
LEMMA FramesAppend ==
    ASSUME NEW s \in Seq(Bytes), NEW e \in 1..Len(s), NEW d \in 0..e - 1,
           FrameEnds(s, e) = FrameEnds(s, d) \cup {e}
    PROVE  Frames(s, e) = Append(Frames(s, d), LineBefore(s, e))
<1> DEFINE S == FrameEnds(s, d)
           n == Cardinality(S)
           f == Frames(s, e)
           g == Append(Frames(s, d), LineBefore(s, e))
<1>1. d \in 0..Len(s) /\ e \in 0..Len(s) /\ d \in 0..e /\ d \in Int /\ e \in Int /\ d < e
  OBVIOUS
<1>2. S \in SUBSET Int /\ IsFiniteSet(S) /\ n \in Nat /\ \A i \in S : i < e
  BY <1>1, EndsType
<1>3. Nth(S \cup {e}, n + 1) = e /\ Cardinality(S \cup {e}) = n + 1
  <2>1. e \notin S
    BY <1>1, <1>2
  <2> QED
    BY <1>1, <1>2, <2>1, RankedLast, FS_AddElement
<1>4. f = [k \in 1..n + 1 |-> LineBefore(s, Nth(S \cup {e}, k))]
  BY <1>3 DEF Frames, LinesBefore
<1>5. Frames(s, d) = [k \in 1..n |-> LineBefore(s, Nth(S, k))]
  BY DEF Frames, LinesBefore
<1>6. \A k \in 1..n : f[k] = Frames(s, d)[k]
  BY <1>1, FramesGrow, FramesLength
<1> HIDE DEF f, n, S
<1>7. DOMAIN f = 1..n + 1 /\ f[n + 1] = LineBefore(s, e)
  BY <1>2, <1>3, <1>4
<1>8. g = [k \in 1..n + 1 |-> IF k = n + 1 THEN LineBefore(s, e) ELSE Frames(s, d)[k]]
  <2> DEFINE X == {Frames(s, d)[k] : k \in 1..n} \cup {LineBefore(s, e)}
  <2>1. Frames(s, d) \in [1..n -> X] /\ LineBefore(s, e) \in X
    BY <1>5
  <2> HIDE DEF X
  <2>2. Frames(s, d) \in Seq(X) /\ Len(Frames(s, d)) = n
    BY <1>2, <1>5, <2>1, SeqDef
  <2>3. /\ g \in Seq(X) /\ Len(g) = n + 1 /\ g[n + 1] = LineBefore(s, e)
        /\ \A k \in 1..n : g[k] = Frames(s, d)[k]
    BY <1>2, <2>1, <2>2
  <2> HIDE DEF g
  <2>4. g = [k \in 1..n + 1 |-> g[k]]
    BY <2>3
  <2>5. ASSUME NEW k \in 1..n + 1 PROVE g[k] = IF k = n + 1 THEN LineBefore(s, e) ELSE Frames(s, d)[k]
    BY <1>2, <2>3
  <2> QED
    BY <2>4, <2>5
<1>9. f = [k \in 1..n + 1 |-> f[k]]
  BY <1>4
<1>10. ASSUME NEW k \in 1..n + 1 PROVE f[k] = IF k = n + 1 THEN LineBefore(s, e) ELSE Frames(s, d)[k]
  BY <1>2, <1>6, <1>7
<1>11. f = g
  BY <1>8, <1>9, <1>10
<1> QED
  BY <1>11 DEF f

(***************************************************************************)
(* What is cut out of a stream.                                            *)
(***************************************************************************)
\* The bytes of s behind the first a, up to the first b.
Cut(s, a, b) == SubSeq(s, a + 1, b)

\* A cut holds the bytes in their order.
LEMMA CutIs ==
    ASSUME NEW s \in Seq(Bytes), NEW a \in 0..Len(s), NEW b \in a..Len(s)
    PROVE  /\ Cut(s, a, b) \in Seq(Bytes) /\ Len(Cut(s, a, b)) = b - a
           /\ \A i \in 1..b - a : Cut(s, a, b)[i] = s[a + i]
  BY DEF Cut

\* A cut of a cut is a cut, and two that are next to each other make one.
LEMMA CutOfCut ==
    ASSUME NEW s \in Seq(Bytes), NEW a \in 0..Len(s), NEW b \in a..Len(s),
           NEW x \in 0..b - a, NEW y \in x..b - a
    PROVE  Cut(Cut(s, a, b), x, y) = Cut(s, a + x, a + y)
<1> DEFINE t == Cut(s, a, b)
           u == Cut(t, x, y)
           v == Cut(s, a + x, a + y)
<1>1. t \in Seq(Bytes) /\ Len(t) = b - a /\ \A i \in 1..b - a : t[i] = s[a + i]
  BY CutIs
<1>2. x \in 0..Len(t) /\ y \in x..Len(t)
  BY <1>1
<1> HIDE DEF t
<1>3. u \in Seq(Bytes) /\ Len(u) = y - x /\ \A i \in 1..y - x : u[i] = t[x + i]
  BY <1>1, <1>2, CutIs
<1>4. a + x \in 0..Len(s) /\ a + y \in (a + x)..Len(s)
  OBVIOUS
<1>5. v \in Seq(Bytes) /\ Len(v) = (a + y) - (a + x)
      /\ \A i \in 1..(a + y) - (a + x) : v[i] = s[(a + x) + i]
  BY <1>4, CutIs
<1> HIDE DEF u, v
<1>6. Len(u) = Len(v)
  BY <1>3, <1>5
<1>7. ASSUME NEW i \in 1..Len(u) PROVE u[i] = v[i]
  <2>1. x + i \in 1..b - a /\ (a + x) + i = a + (x + i) /\ i \in 1..y - x
        /\ i \in 1..(a + y) - (a + x)
    BY <1>3
  <2> QED
    BY <1>1, <1>3, <1>5, <2>1
<1>8. u = v
  BY <1>3, <1>5, <1>6, <1>7, SeqEqual
<1> QED
  BY <1>8 DEF t, u, v

LEMMA CutsJoin ==
    ASSUME NEW s \in Seq(Bytes), NEW a \in 0..Len(s), NEW m \in a..Len(s), NEW b \in m..Len(s)
    PROVE  Cut(s, a, m) \o Cut(s, m, b) = Cut(s, a, b)
<1>1. /\ a + 1 \in 1..Len(s) + 1 /\ m \in (a + 1) - 1..Len(s)
  OBVIOUS
<1>2. SubSeq(s, a + 1, m) \o SubSeq(s, m + 1, b) = SubSeq(s, a + 1, b)
  BY <1>1, ConcatAdjacentSubSeq
<1> QED
  BY <1>2 DEF Cut

\* Where a line begins in a stream.
Boundary(s, d) == d = 0 \/ s[d] = Newline

NoneBetween(s, d, e) == \A i \in d + 1..e : s[i] # Newline

\* A line goes from one newline to the next.
LEMMA LineIs ==
    ASSUME NEW s \in Seq(Bytes), NEW e \in 1..Len(s), NEW d \in 0..e - 1,
           Boundary(s, d), NoneBetween(s, d, e - 1)
    PROVE  LineBefore(s, e) = Cut(s, d, e - 1)
<1> DEFINE S == {0} \cup {i \in 1..e - 1 : s[i] = Newline}
<1>1. S \in SUBSET Nat /\ d \in S
  BY DEF Boundary
<1>2. ASSUME NEW i \in S PROVE i <= d
  BY <1>2 DEF NoneBetween
<1> HIDE DEF S
<1>3. Max(S) = d
  BY <1>1, <1>2, MaxIs
<1> QED
  BY <1>3 DEF LineBefore, Cut, S

\* Bytes without a newline end no line.
LEMMA NoEnds ==
    ASSUME NEW s \in Seq(Bytes), NEW n \in 0..Len(s), NEW d \in 0..n, NoneBetween(s, d, n)
    PROVE  Frames(s, n) = Frames(s, d)
<1>1. ASSUME NEW i \in 1..n, s[i] = Newline PROVE i \in 1..d
  BY <1>1 DEF NoneBetween
<1>2. FrameEnds(s, n) = FrameEnds(s, d)
  BY <1>1 DEF FrameEnds
<1> QED
  BY <1>2 DEF Frames

\* A line that ends adds itself to the frames, unless it is blank.
LEMMA NextEnd ==
    ASSUME NEW s \in Seq(Bytes), NEW e \in 1..Len(s), NEW d \in 0..e - 1,
           Boundary(s, d), NoneBetween(s, d, e - 1), s[e] = Newline
    PROVE  Frames(s, e) = IF IsBlank(Cut(s, d, e - 1)) THEN Frames(s, d)
                          ELSE Append(Frames(s, d), Cut(s, d, e - 1))
<1>1. LineBefore(s, e) = Cut(s, d, e - 1)
  BY LineIs
<1>2. ASSUME NEW i \in 1..e, s[i] = Newline PROVE i \in 1..d \/ i = e
  BY <1>2 DEF NoneBetween
<1>3. FrameEnds(s, e) = FrameEnds(s, d) \cup (IF IsBlank(Cut(s, d, e - 1)) THEN {} ELSE {e})
  BY <1>1, <1>2 DEF FrameEnds
<1>4. CASE IsBlank(Cut(s, d, e - 1))
  BY <1>3, <1>4 DEF Frames
<1>5. CASE ~IsBlank(Cut(s, d, e - 1))
  <2>1. FrameEnds(s, e) = FrameEnds(s, d) \cup {e}
    BY <1>3, <1>5
  <2> QED
    BY <1>1, <1>5, <2>1, FramesAppend
<1> QED
  BY <1>4, <1>5

(***************************************************************************)
(* The inductive invariant.  What was dispatched is the frames of the      *)
(* first d bytes, none of which fails to parse; the generator has the rest *)
(* of what was read, and the loop's buffer, which blank lines stay in,     *)
(* begins behind the first b bytes, which have the same frames.            *)
(***************************************************************************)
CodecTypes ==
    /\ stream \in Seq(Bytes) /\ position \in 0..Len(stream)
    /\ state \in {"reading", "decoding", "ended"}
    /\ messages \in Seq(Seq(Bytes))

AllParse == \A k \in 1..Len(messages) : Bad \notin Range(messages[k])

\* A buffer holds what was read behind the first d bytes, whose frames are dispatched.
Behind(buffer, d) ==
    /\ Boundary(stream, d)
    /\ buffer = Cut(stream, d, position)
    /\ messages = Frames(stream, d)

CodecInv ==
    /\ CodecTypes /\ AllParse
    /\ \E d \in 0..position :
          /\ Behind(remaining, d)
          /\ state = "reading" => NoneBetween(stream, d, position)
    /\ \E b \in 0..position : Behind(buf, b)
    /\ state = "ended" => messages = Parsed(Frames(stream, position))

\* Messages that all parse are not cut short.
LEMMA ParsedWhenAllParse == ASSUME AllParse PROVE Parsed(messages) = messages
  BY DEF AllParse, Parsed

\* Whatever is found in the generator's buffer is in the stream.
LEMMA InBuffer ==
    ASSUME CodecTypes, NEW d \in 0..position, Behind(remaining, d)
    PROVE  /\ remaining \in Seq(Bytes) /\ Len(remaining) = position - d
           /\ \A i \in 1..position - d : remaining[i] = stream[d + i]
           /\ Newline \notin Range(remaining) => NoneBetween(stream, d, position)
<1>1. position \in d..Len(stream) /\ d \in 0..Len(stream)
  BY DEF CodecTypes
<1>2. /\ remaining \in Seq(Bytes) /\ Len(remaining) = position - d
      /\ \A i \in 1..position - d : remaining[i] = stream[d + i]
  BY <1>1, CutIs DEF Behind, CodecTypes
<1>3. ASSUME NEW j \in d + 1..position, stream[j] = Newline PROVE Newline \in Range(remaining)
  <2>1. j - d \in 1..position - d /\ d + (j - d) = j
    BY <1>1
  <2>2. remaining[j - d] = Newline /\ j - d \in DOMAIN remaining
    BY <1>2, <1>3, <2>1
  <2> QED
    BY <2>2 DEF Range
<1> QED
  BY <1>2, <1>3 DEF NoneBetween

\* The first newline of the generator's buffer ends the line that begins there.
LEMMA FirstLine ==
    ASSUME CodecTypes, NEW d \in 0..position, Behind(remaining, d), Newline \in Range(remaining)
    PROVE  \E e \in d + 1..position :
              /\ stream[e] = Newline /\ NoneBetween(stream, d, e - 1)
              /\ Line = Cut(stream, d, e - 1) /\ Rest = Cut(stream, e, position)
<1> DEFINE n == position - d
           T == {i \in 1..n : remaining[i] = Newline}
<1>1. /\ remaining \in Seq(Bytes) /\ Len(remaining) = n
      /\ \A i \in 1..n : remaining[i] = stream[d + i]
  BY InBuffer
<1>2. n \in Nat /\ d \in 0..Len(stream) /\ position \in d..Len(stream) /\ stream \in Seq(Bytes)
  BY DEF CodecTypes
<1>3. T \in SUBSET Nat /\ T # {}
  BY <1>1 DEF Range
<1>4. PICK f \in T : \A i \in T : f <= i
  BY <1>3, LeastExists
<1>5. FirstNewline \in 1..n /\ remaining[FirstNewline] = Newline
      /\ \A j \in 1..FirstNewline - 1 : remaining[j] # Newline
  <2>1. f \in 1..Len(remaining) /\ remaining[f] = Newline
    BY <1>1
  <2>2. \A j \in 1..f - 1 : remaining[j] # Newline
    <3> SUFFICES ASSUME NEW j \in 1..f - 1, remaining[j] = Newline PROVE FALSE
      OBVIOUS
    <3>1. f \in 1..n /\ j \in 1..n /\ j < f
      BY <1>2
    <3>2. j \in T
      BY <3>1
    <3> QED
      BY <1>4, <3>1, <3>2
  <2>3. \E i \in 1..Len(remaining) :
            remaining[i] = Newline /\ \A j \in 1..i - 1 : remaining[j] # Newline
    BY <2>1, <2>2
  <2>4. FirstNewline \in 1..Len(remaining) /\ remaining[FirstNewline] = Newline
        /\ \A j \in 1..FirstNewline - 1 : remaining[j] # Newline
    BY <2>3, Zenon DEF FirstNewline
  <2> QED
    BY <1>1, <2>4
<1> DEFINE g == FirstNewline
           e == d + g
<1>6. g \in 1..n /\ g \in Int
  BY <1>5
<1> HIDE DEF g, n
<1>7. e \in d + 1..position /\ stream[e] = Newline
  BY <1>1, <1>2, <1>5, <1>6 DEF g, n
<1>8. NoneBetween(stream, d, e - 1)
  <2> SUFFICES ASSUME NEW j \in d + 1..e - 1 PROVE stream[j] # Newline
    BY DEF NoneBetween
  <2>1. j - d \in 1..g - 1 /\ j - d \in 1..n /\ d + (j - d) = j
    BY <1>2, <1>6
  <2>2. remaining[j - d] # Newline
    BY <1>5, <2>1 DEF g
  <2> QED
    BY <1>1, <2>1, <2>2
<1>9. Line = Cut(stream, d, e - 1)
  <2>1. 0 \in 0..position - d /\ g - 1 \in 0..position - d /\ d + (g - 1) = e - 1 /\ d + 0 = d
    BY <1>2, <1>6 DEF n
  <2>2. Cut(Cut(stream, d, position), 0, g - 1) = Cut(stream, d + 0, d + (g - 1))
    BY <1>2, <2>1, CutOfCut
  <2>3. Line = Cut(Cut(stream, d, position), 0, g - 1)
    BY DEF Line, Cut, g, Behind
  <2> HIDE DEF e
  <2> QED
    BY <2>1, <2>2, <2>3
<1>10. Rest = Cut(stream, e, position)
  <2>1. /\ g \in 0..position - d /\ n \in g..position - d /\ d + g = e /\ d + n = position
    BY <1>2, <1>6 DEF n
  <2>2. Cut(Cut(stream, d, position), g, n) = Cut(stream, d + g, d + n)
    BY <1>2, <2>1, CutOfCut
  <2>3. Rest = Cut(Cut(stream, d, position), g, n)
    BY <1>1 DEF Rest, Cut, g, Behind
  <2> HIDE DEF e
  <2> QED
    BY <2>1, <2>2, <2>3
<1> QED
  BY <1>7, <1>8, <1>9, <1>10

(***************************************************************************)
(* Every turn of the loops keeps the invariant.                            *)
(***************************************************************************)
LEMMA CodecInit == Init => CodecInv
<1> SUFFICES ASSUME Init PROVE CodecInv
  OBVIOUS
<1>1. stream \in Seq(Bytes) /\ Len(stream) \in Nat
  <2>1. PICK n \in 0..MaxLength : stream \in [1..n -> Bytes]
    BY DEF Init
  <2> QED
    BY <2>1, CodecAssumption, SeqDef
<1>2. CodecTypes /\ AllParse /\ 0 \in 0..position
  BY <1>1 DEF Init, CodecTypes, AllParse
<1>3. Frames(stream, 0) = <<>>
  <2>1. FrameEnds(stream, 0) = {} /\ Cardinality({}) = 0
    BY FS_EmptySet DEF FrameEnds
  <2>2. Frames(stream, 0) \in [1..0 -> Seq(Bytes)]
    BY <2>1 DEF Frames, LinesBefore
  <2>3. Frames(stream, 0) \in Seq(Seq(Bytes)) /\ Len(Frames(stream, 0)) = 0
    BY <2>2, SeqDef
  <2> QED
    BY <2>3, EmptySeq
<1>4. Cut(stream, 0, position) = <<>>
  BY <1>1 DEF Cut, Init
<1>5. Behind(remaining, 0) /\ Behind(buf, 0)
  BY <1>3, <1>4 DEF Init, Behind, Boundary
<1>6. NoneBetween(stream, 0, position)
  BY DEF Init, NoneBetween
<1> QED
  BY <1>2, <1>5, <1>6 DEF CodecInv, Init

\* What is read goes behind what the loop had left, and the generator starts there.
LEMMA ReadKeeps == ASSUME CodecInv, Read PROVE CodecInv'
<1>1. CodecTypes /\ AllParse /\ \E b \in 0..position : Behind(buf, b)
  BY DEF CodecInv
<1>2. PICK b \in 0..position : Behind(buf, b)
  BY <1>1
<1>3. PICK n \in 1..ReadSize :
          /\ position + n <= Len(stream) /\ position' = position + n
          /\ buf' = buf \o SubSeq(stream, position + 1, position + n)
  BY DEF Read, Keep
<1>4. n \in Nat /\ position \in Nat /\ b \in Nat /\ Len(stream) \in Nat
  BY <1>1, CodecAssumption DEF CodecTypes
<1>5. b \in 0..Len(stream) /\ position \in b..Len(stream) /\ position' \in position..Len(stream)
  BY <1>1, <1>3, <1>4 DEF CodecTypes
<1>6. buf' = Cut(stream, b, position')
  <2>1. buf' = Cut(stream, b, position) \o Cut(stream, position, position')
    BY <1>2, <1>3 DEF Behind, Cut
  <2> QED
    BY <1>1, <1>5, <2>1, CutsJoin DEF CodecTypes
<1>7. stream' = stream /\ messages' = messages /\ remaining' = buf' /\ state' = "decoding"
  BY DEF Read
<1>8. Behind(buf, b)' /\ Behind(remaining, b)'
  BY <1>2, <1>6, <1>7 DEF Behind
<1>9. b \in 0..position' /\ CodecTypes' /\ AllParse'
  BY <1>1, <1>3, <1>4, <1>5, <1>7 DEF CodecTypes, AllParse
<1> QED
  BY <1>7, <1>8, <1>9 DEF CodecInv

\* Without another newline the frames so far are those of all that was read.
LEMMA NoMoreFrames ==
    ASSUME CodecTypes, NEW d \in 0..position, messages = Frames(stream, d),
           NoneBetween(stream, d, position)
    PROVE  messages = Frames(stream, position)
<1>1. position \in 0..Len(stream)
  BY DEF CodecTypes
<1> QED
  BY <1>1, NoEnds DEF CodecTypes

\* At the end of the stream, all that was read was searched.
LEMMA EndKeeps == ASSUME CodecInv, EndOfStream PROVE CodecInv'
<1>1. PICK d \in 0..position : Behind(remaining, d) /\ NoneBetween(stream, d, position)
  BY DEF CodecInv, EndOfStream
<1>2. PICK b \in 0..position : Behind(buf, b)
  BY DEF CodecInv
<1>3. CodecTypes /\ AllParse
  BY DEF CodecInv
<1>4. messages = Frames(stream, position)
  BY <1>1, <1>3, NoMoreFrames DEF Behind
<1>5. messages = Parsed(Frames(stream, position))
  BY <1>3, <1>4, ParsedWhenAllParse
<1>6. UNCHANGED <<stream, position, buf, remaining, messages>> /\ state' = "ended"
  BY DEF EndOfStream
<1>7. Behind(remaining, d)' /\ Behind(buf, b)' /\ CodecTypes' /\ AllParse'
  BY <1>1, <1>2, <1>3, <1>6 DEF Behind, CodecTypes, AllParse
<1>8. (messages = Parsed(Frames(stream, position)))'
  BY <1>5, <1>6
<1>9. d \in 0..position' /\ b \in 0..position'
  BY <1>6
<1> QED
  BY <1>6, <1>7, <1>8, <1>9 DEF CodecInv

\* The generator ends when it finds no newline.
LEMMA NoFrameKeeps == ASSUME CodecInv, NoFrameLeft PROVE CodecInv'
<1>1. PICK d \in 0..position : Behind(remaining, d)
  BY DEF CodecInv
<1>2. PICK b \in 0..position : Behind(buf, b)
  BY DEF CodecInv
<1>3. CodecTypes /\ AllParse
  BY DEF CodecInv
<1>4. NoneBetween(stream, d, position)
  BY <1>1, <1>3, InBuffer DEF NoFrameLeft
<1>5. UNCHANGED <<stream, position, buf, remaining, messages>> /\ state' = "reading"
  BY DEF NoFrameLeft
<1>6. Behind(remaining, d)' /\ Behind(buf, b)' /\ CodecTypes' /\ AllParse'
  BY <1>1, <1>2, <1>3, <1>5 DEF Behind, CodecTypes, AllParse
<1>7. NoneBetween(stream, d, position)' /\ d \in 0..position' /\ b \in 0..position'
  BY <1>4, <1>5
<1> QED
  BY <1>5, <1>6, <1>7 DEF CodecInv

\* A line that does not parse is where the frames that are dispatched end.
LEMMA BadLineEnds ==
    ASSUME CodecTypes, AllParse, NEW e \in 1..position, NEW line, Bad \in Range(line),
           Frames(stream, e) = Append(messages, line)
    PROVE  messages = Parsed(Frames(stream, position))
<1> DEFINE fs == Frames(stream, position)
           n == Len(messages)
           bad == {i \in 1..Len(fs) : Bad \in Range(fs[i])}
<1>1. /\ n \in Nat /\ position \in 0..Len(stream) /\ e \in 0..position
      /\ stream \in Seq(Bytes) /\ messages \in Seq(Seq(Bytes))
  BY DEF CodecTypes
<1>2. Len(Append(messages, line)) = n + 1 /\ Append(messages, line)[n + 1] = line
      /\ \A k \in 1..n : Append(messages, line)[k] = messages[k]
  BY <1>1
<1>3. /\ Len(fs) \in Nat /\ n + 1 <= Len(fs) /\ fs[n + 1] = line
      /\ \A k \in 1..n : fs[k] = messages[k]
  <2>1. /\ Len(Frames(stream, e)) <= Len(fs)
        /\ \A k \in 1..Len(Frames(stream, e)) : fs[k] = Frames(stream, e)[k]
    BY <1>1, FramesGrow
  <2>2. Len(fs) \in Nat
    BY <1>1, FramesLength
  <2> HIDE DEF fs
  <2>3. \A k \in 1..n + 1 : fs[k] = Append(messages, line)[k]
    BY <1>2, <2>1
  <2>4. \A k \in 1..n : k \in 1..n + 1
    BY <1>1
  <2> QED
    BY <1>1, <1>2, <2>1, <2>2, <2>3, <2>4
<1> HIDE DEF fs, n
<1>4. Min(bad) = n + 1
  <2>1. bad \in SUBSET Nat /\ n + 1 \in bad
    BY <1>1, <1>3
  <2>2. ASSUME NEW i \in bad PROVE n + 1 <= i
    <3>1. i \in 1..Len(fs) /\ Bad \in Range(fs[i])
      BY <2>2
    <3>2. \A k \in 1..n : Bad \notin Range(fs[k])
      BY <1>3 DEF AllParse, n
    <3>3. ~ (i \in 1..n)
      BY <3>1, <3>2
    <3> QED
      BY <1>1, <1>3, <3>1, <3>3
  <2> HIDE DEF bad
  <2> QED
    BY <2>1, <2>2, MinIs
<1>5. bad # {}
  BY <1>1, <1>3
<1>6. Parsed(fs) = SubSeq(fs, 1, n)
  <2>1. Parsed(fs) = SubSeq(fs, 1, Min(bad) - 1)
    BY <1>5 DEF Parsed
  <2> HIDE DEF bad
  <2> QED
    BY <1>1, <1>4, <2>1
<1>7. SubSeq(fs, 1, n) = messages
  <2>1. \A i \in 1..n : fs[i] \in Seq(Bytes)
    <3>1. \A i \in 1..n : messages[i] \in Seq(Bytes)
      BY <1>1 DEF n
    <3> QED
      BY <1>3, <3>1
  <2>2. /\ SubSeq(fs, 1, n) \in Seq(Seq(Bytes))
        /\ Len(SubSeq(fs, 1, n)) = IF 1 <= n THEN (n - 1) + 1 ELSE 0
        /\ \A i \in 1..(n - 1) + 1 : SubSeq(fs, 1, n)[i] = fs[(1 + i) - 1]
    BY <1>1, <2>1, SubSeqProperties
  <2>3. Len(SubSeq(fs, 1, n)) = n /\ \A i \in 1..n : SubSeq(fs, 1, n)[i] = fs[i]
    BY <1>1, <2>2
  <2>4. \A i \in 1..n : SubSeq(fs, 1, n)[i] = messages[i]
    BY <1>3, <2>3
  <2> HIDE DEF fs
  <2> QED
    BY <1>1, <2>2, <2>3, <2>4, SeqEqual DEF n
<1> QED
  BY <1>6, <1>7 DEF fs

\* A turn of the generator takes the first line of what it has.
LEMMA SplitKeeps == ASSUME CodecInv, SplitFrame PROVE CodecInv'
<1>1. PICK d \in 0..position : Behind(remaining, d)
  BY DEF CodecInv
<1>2. PICK b \in 0..position : Behind(buf, b)
  BY DEF CodecInv
<1>3. CodecTypes /\ AllParse
  BY DEF CodecInv
<1>4. PICK e \in d + 1..position :
          /\ stream[e] = Newline /\ NoneBetween(stream, d, e - 1)
          /\ Line = Cut(stream, d, e - 1) /\ Rest = Cut(stream, e, position)
  BY <1>1, <1>3, FirstLine DEF SplitFrame
<1>5. /\ position \in Nat /\ d \in Nat /\ position \in 0..Len(stream) /\ stream \in Seq(Bytes)
      /\ e \in 1..Len(stream) /\ e \in 1..position /\ d \in 0..e - 1
  BY <1>3 DEF CodecTypes
<1>6. Frames(stream, e) = IF IsBlank(Line) THEN messages ELSE Append(messages, Line)
  BY <1>1, <1>4, <1>5, NextEnd DEF Behind
<1>7. UNCHANGED <<stream, position>> /\ state = "decoding"
  BY DEF SplitFrame
<1>8. Boundary(stream, e)
  BY <1>4 DEF Boundary
<1>9. Line \in Seq(Bytes)
  <2>1. d \in 0..Len(stream) /\ e - 1 \in d..Len(stream)
    BY <1>5
  <2> QED
    BY <1>4, <1>5, <2>1, CutIs
<1>10. CASE IsBlank(Line) /\ remaining' = Rest /\ UNCHANGED <<buf, messages, state>>
  <2>1. Behind(remaining, e)' /\ Behind(buf, b)'
    BY <1>2, <1>4, <1>6, <1>7, <1>8, <1>10 DEF Behind
  <2>2. CodecTypes' /\ AllParse'
    BY <1>3, <1>7, <1>10 DEF CodecTypes, AllParse
  <2>3. e \in 0..position' /\ b \in 0..position' /\ state' = "decoding"
    BY <1>5, <1>7, <1>10
  <2> QED
    BY <2>1, <2>2, <2>3 DEF CodecInv
<1>11. CASE /\ ~IsBlank(Line) /\ Bad \notin Range(Line)
            /\ messages' = Append(messages, Line)
            /\ remaining' = Rest /\ buf' = HandedBack(Rest) /\ UNCHANGED state
  <2>1. Behind(remaining, e)' /\ Behind(buf, e)'
    BY <1>4, <1>6, <1>7, <1>8, <1>11 DEF Behind, HandedBack
  <2>2. CodecTypes'
    BY <1>3, <1>7, <1>9, <1>11 DEF CodecTypes
  <2>3. AllParse'
    <3>1. /\ Len(messages') = Len(messages) + 1 /\ messages'[Len(messages) + 1] = Line
          /\ \A k \in 1..Len(messages) : messages'[k] = messages[k]
          /\ Len(messages) \in Nat
      BY <1>3, <1>9, <1>11 DEF CodecTypes
    <3>2. ASSUME NEW k \in 1..Len(messages') PROVE Bad \notin Range(messages'[k])
      <4>1. k \in 1..Len(messages) \/ k = Len(messages) + 1
        BY <3>1
      <4> QED
        BY <1>3, <1>11, <3>1, <4>1 DEF AllParse
    <3> QED
      BY <3>2 DEF AllParse
  <2>4. e \in 0..position' /\ state' = "decoding"
    BY <1>5, <1>7, <1>11
  <2> QED
    BY <2>1, <2>2, <2>3, <2>4 DEF CodecInv
<1>12. CASE /\ Bad \in Range(Line) /\ state' = "ended"
            /\ UNCHANGED <<remaining, buf, messages>>
  <2>1. ~IsBlank(Line)
    <3>1. Bad # Blank
      <4> SUFFICES ASSUME Bad = Blank PROVE FALSE
        OBVIOUS
      <4>1. IsFiniteSet({Blank}) /\ Cardinality({Blank}) = 1
        BY FS_Singleton
      <4>2. Cardinality({Blank} \cup {Newline}) \in {1, 2}
        BY <4>1, FS_AddElement
      <4>3. {Blank, Newline, Bad} = {Blank} \cup {Newline}
        OBVIOUS
      <4>4. Cardinality({Blank, Newline, Bad}) \in {1, 2}
        BY <4>2, <4>3
      <4>5. Cardinality({Blank, Newline, Bad}) = 3
        BY CodecAssumption
      <4> QED
        BY <4>4, <4>5
    <3> QED
      BY <1>12, <3>1 DEF IsBlank
  <2>2. Frames(stream, e) = Append(messages, Line)
    BY <1>6, <2>1
  <2>3. messages = Parsed(Frames(stream, position))
    BY <1>3, <1>5, <1>12, <2>2, BadLineEnds
  <2>4. Behind(remaining, d)' /\ Behind(buf, b)' /\ CodecTypes' /\ AllParse'
    BY <1>1, <1>2, <1>3, <1>7, <1>12 DEF Behind, CodecTypes, AllParse
  <2>5. (messages = Parsed(Frames(stream, position)))'
    BY <1>7, <1>12, <2>3
  <2>6. d \in 0..position' /\ b \in 0..position' /\ state' = "ended"
    BY <1>7, <1>12
  <2> QED
    BY <2>4, <2>5, <2>6 DEF CodecInv
<1> QED
  BY <1>10, <1>11, <1>12 DEF SplitFrame

LEMMA CodecStep == CodecInv /\ [Next]_vars => CodecInv'
<1> SUFFICES ASSUME CodecInv, [Next]_vars PROVE CodecInv'
  OBVIOUS
<1>1. CASE UNCHANGED vars
  BY <1>1 DEF vars, CodecInv, CodecTypes, AllParse, Behind
<1> QED
  BY <1>1, ReadKeeps, EndKeeps, SplitKeeps, NoFrameKeeps DEF Next

\* ChunkingInvisible: however the stream is cut into reads, and though blank
\* lines stay in the loop's buffer and are met again, decode_frames hands the
\* loop just the frames of what was read, up to the first that does not parse.
THEOREM ChunkingAlwaysInvisible == Spec => []ChunkingInvisible
<1>1. CodecInv => ChunkingInvisible
  BY NoMoreFrames DEF CodecInv, ChunkingInvisible, Behind
<1> QED
  BY <1>1, CodecInit, CodecStep, PTL DEF Spec
=============================================================================
