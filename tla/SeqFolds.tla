------------------------------ MODULE SeqFolds ------------------------------
(***************************************************************************)
(* Folding a sequence, one element more or less at either end.             *)
(*                                                                         *)
(* The operator is a parameter of the module: a proof that needs these     *)
(* facts of one operator instantiates the module with it.                  *)
(***************************************************************************)
EXTENDS SequencesExt, WellFoundedInduction, TLAPS

CONSTANT Op(_, _)

\* The fold of s from the left, which starts with b.
Left(b, s) == FoldLeft(Op, b, s)

\* What FoldLeft computes on the way, of each set of positions in 1..n.
Partial(it, b, s, n) ==
    it = [t \in SUBSET (1..n) |-> IF t = {} THEN b ELSE Op(it[t \ {Max(t)}], s[Max(t)])]

\* The folds of the prefixes of a sequence of length n.
LeftStages(p, b, s, n) ==
    /\ p[0] = b
    /\ \A i \in 1..n : p[i] = Op(p[i - 1], s[i])

\* A set of numbers that is not empty has a least member.
LEMMA Least ==
    ASSUME NEW T \in SUBSET Nat, T # {}
    PROVE  \E m \in T : \A n \in T : m <= n
<1> DEFINE R == OpToRel(<, Nat)
<1>1. IsWellFoundedOn(R, Nat)
  BY NatLessThanWellFounded
<1>2. \A x, y \in Nat : x < y => <<x, y>> \in R
  BY DEF OpToRel
<1> HIDE DEF R
<1>3. PICK x \in T : \A y \in T : ~ (<<y, x>> \in R)
  BY <1>1, WFMin
<1>4. \A y \in T : x \in Nat /\ y \in Nat /\ ~ (y < x)
  BY <1>2, <1>3
<1>5. \A y \in T : x <= y
  BY <1>4
<1> QED
  BY <1>5

\* The largest position of a set, and that of a prefix.
LEMMA MaxOfPositions ==
    ASSUME NEW n \in Nat, NEW t \in SUBSET (1..n), n \in t
    PROVE  Max(t) = n
<1>1. \A y \in t : n >= y
  OBVIOUS
<1>2. Max(t) \in t /\ \A y \in t : Max(t) >= y
  <2>1. \E x \in t : \A y \in t : x >= y
    BY <1>1
  <2> QED
    BY <2>1, Zenon DEF Max
<1> DEFINE m == Max(t)
<1>3. m \in 1..n /\ m >= n
  BY <1>2
<1> HIDE DEF m
<1>4. m = n
  BY <1>3
<1> QED
  BY <1>4 DEF m

\* The same of 1..m itself.
LEMMA MaxOfPrefix ==
    ASSUME NEW n \in Nat, NEW m \in 1..n
    PROVE  1..m \in SUBSET (1..n) /\ 1..m # {} /\ Max(1..m) = m /\ (1..m) \ {m} = 1..(m - 1)
<1>1. m \in Nat /\ m \in 1..m /\ 1..m \in SUBSET (1..n)
  OBVIOUS
<1>2. Max(1..m) = m
  BY <1>1, MaxOfPositions
<1>3. (1..m) \ {m} = 1..(m - 1)
  OBVIOUS
<1> QED
  BY <1>1, <1>2, <1>3

\* The recursion of FoldLeft has a solution.
LEMMA PartialExists ==
    ASSUME NEW b, NEW s, NEW n \in Nat
    PROVE  \E it : Partial(it, b, s, n)
<1> DEFINE T == {m \in Nat : ~ \E it : Partial(it, b, s, m)}
<1>1. SUFFICES ASSUME T # {} PROVE FALSE
  BY <1>1
<1>2. PICK m \in T : \A k \in T : m <= k
  BY <1>1, Least
<1>3. CASE m = 0
  <2> DEFINE it == [t \in SUBSET (1..0) |-> b]
  <2>1. \A t \in SUBSET (1..0) : t = {}
    OBVIOUS
  <2>2. Partial(it, b, s, 0)
    BY <2>1 DEF Partial
  <2> QED
    BY <1>3, <2>2
<1>4. CASE m # 0
  <2>1. m - 1 \in Nat /\ m - 1 \notin T
    BY <1>2, <1>4
  <2>2. PICK it : Partial(it, b, s, m - 1)
    BY <2>1
  <2> DEFINE more == [t \in SUBSET (1..m) |-> IF m \in t THEN Op(it[t \ {m}], s[m]) ELSE it[t]]
  <2>3. ASSUME NEW t \in SUBSET (1..m), m \in t
        PROVE  more[t] = Op(more[t \ {Max(t)}], s[Max(t)])
    <3>1. Max(t) = m
      BY <1>2, <2>3, MaxOfPositions
    <3>2. t \ {m} \in SUBSET (1..m) /\ m \notin t \ {m}
      OBVIOUS
    <3> QED
      BY <2>3, <3>1, <3>2
  <2>4. ASSUME NEW t \in SUBSET (1..m), m \notin t, t # {}
        PROVE  more[t] = Op(more[t \ {Max(t)}], s[Max(t)])
    <3>1. t \in SUBSET (1..(m - 1))
      BY <1>2, <2>1, <2>4
    <3>2. it[t] = Op(it[t \ {Max(t)}], s[Max(t)])
      BY <2>2, <2>4, <3>1 DEF Partial
    <3>3. more[t] = it[t] /\ more[t \ {Max(t)}] = it[t \ {Max(t)}]
      BY <2>4
    <3> QED
      BY <3>2, <3>3
  <2>5. more[{}] = b
    <3>1. it[{}] = b
      BY <2>2 DEF Partial
    <3> QED
      BY <1>2, <3>1
  <2>6. Partial(more, b, s, m)
    <3>1. \A t \in SUBSET (1..m) :
             more[t] = IF t = {} THEN b ELSE Op(more[t \ {Max(t)}], s[Max(t)])
      BY <2>3, <2>4, <2>5
    <3>2. more = [t \in SUBSET (1..m) |-> more[t]]
      OBVIOUS
    <3> HIDE DEF more
    <3> QED
      BY <3>1, <3>2 DEF Partial
  <2> QED
    BY <1>2, <2>6
<1> QED
  BY <1>3, <1>4

\* The fold of a sequence is the last of any folds of its prefixes.
LEMMA LeftIsLast ==
    ASSUME NEW S, NEW s \in Seq(S), NEW b, NEW p, LeftStages(p, b, s, Len(s))
    PROVE  Left(b, s) = p[Len(s)]
<1> DEFINE n == Len(s)
           it == CHOOSE f : Partial(f, b, s, n)
<1>1. n \in Nat /\ DOMAIN s = 1..n
  OBVIOUS
<1>2. Left(b, s) = it[1..n]
  <2>1. Left(b, s) = (CHOOSE f : f = [t \in SUBSET (DOMAIN s) |->
                        IF t = {} THEN b ELSE Op(f[t \ {Max(t)}], s[Max(t)])])[DOMAIN s]
    BY DEF Left, FoldLeft, MapThenFoldSet
  <2> QED
    BY <1>1, <2>1 DEF Partial
<1>3. Partial(it, b, s, n)
  BY <1>1, PartialExists
<1> HIDE DEF it, n
<1> DEFINE T == {m \in 0..n : it[1..m] # p[m]}
<1>4. SUFFICES ASSUME T # {} PROVE FALSE
  <2>1. n \notin T
    BY <1>4
  <2> QED
    BY <1>1, <1>2, <2>1 DEF n
<1>5. PICK m \in T : \A k \in T : m <= k
  <2>1. T \in SUBSET Nat
    BY <1>1
  <2> HIDE DEF T
  <2> QED
    BY <1>4, <2>1, Least
<1>6. CASE m = 0
  <2>1. 1..0 = {}
    OBVIOUS
  <2> QED
    BY <1>1, <1>3, <1>5, <1>6, <2>1 DEF Partial, LeftStages
<1>7. CASE m # 0
  <2>1. m - 1 \in 0..n /\ m - 1 \notin T /\ m \in 1..n
    BY <1>1, <1>5, <1>7
  <2>2. it[1..(m - 1)] = p[m - 1]
    BY <2>1
  <2>3. 1..m \in SUBSET (1..n) /\ 1..m # {} /\ Max(1..m) = m /\ (1..m) \ {m} = 1..(m - 1)
    BY <1>1, <2>1, MaxOfPrefix
  <2>4. it[1..m] = Op(it[1..(m - 1)], s[m])
    BY <1>3, <2>3 DEF Partial
  <2> QED
    BY <1>5, <2>1, <2>2, <2>4 DEF LeftStages, n
<1> QED
  BY <1>6, <1>7

\* The folds of the prefixes exist.
LEMMA LeftStagesExist ==
    ASSUME NEW S, NEW s \in Seq(S), NEW b
    PROVE  \E p : LeftStages(p, b, s, Len(s))
<1> DEFINE n == Len(s)
<1>1. n \in Nat
  OBVIOUS
<1>2. PICK it : Partial(it, b, s, n)
  BY <1>1, PartialExists
<1> DEFINE p == [m \in 0..n |-> it[1..m]]
<1>3. p[0] = b
  BY <1>1, <1>2 DEF Partial
<1>4. ASSUME NEW m \in 1..n PROVE p[m] = Op(p[m - 1], s[m])
  <2>1. 1..m \in SUBSET (1..n) /\ 1..m # {} /\ Max(1..m) = m /\ (1..m) \ {m} = 1..(m - 1)
    BY <1>1, MaxOfPrefix
  <2>2. it[1..m] = Op(it[1..(m - 1)], s[m])
    BY <1>2, <2>1 DEF Partial
  <2>3. m \in 0..n /\ m - 1 \in 0..n
    BY <1>1
  <2> QED
    BY <2>2, <2>3
<1> HIDE DEF p
<1> QED
  BY <1>3, <1>4 DEF LeftStages

\* One element more at the end.
LEMMA LeftAppend ==
    ASSUME NEW S, NEW s \in Seq(S), NEW e \in S, NEW b
    PROVE  Left(b, Append(s, e)) = Op(Left(b, s), e)
<1> DEFINE t == Append(s, e)
<1>1. t \in Seq(S) /\ Len(t) = Len(s) + 1 /\ t[Len(s) + 1] = e /\ \A i \in 1..Len(s) : t[i] = s[i]
  OBVIOUS
<1> HIDE DEF t
<1>2. PICK p : LeftStages(p, b, t, Len(t))
  BY <1>1, LeftStagesExist
<1>3. LeftStages(p, b, s, Len(s))
  BY <1>1, <1>2 DEF LeftStages
<1>4. Left(b, t) = p[Len(t)] /\ Left(b, s) = p[Len(s)]
  BY <1>1, <1>2, <1>3, LeftIsLast
<1>5. p[Len(s) + 1] = Op(p[Len(s)], e)
  BY <1>1, <1>2 DEF LeftStages
<1> QED
  BY <1>1, <1>4, <1>5 DEF t

\* One element less at the front.
LEMMA LeftTail ==
    ASSUME NEW S, NEW s \in Seq(S), s # <<>>, NEW b
    PROVE  Left(b, s) = Left(Op(b, Head(s)), Tail(s))
<1>1. /\ Tail(s) \in Seq(S) /\ Len(Tail(s)) = Len(s) - 1 /\ Len(s) \in Nat \ {0}
      /\ \A i \in 1..Len(Tail(s)) : Tail(s)[i] = s[i + 1]
      /\ Head(s) = s[1]
  OBVIOUS
<1>2. PICK p : LeftStages(p, b, s, Len(s))
  BY LeftStagesExist
<1> DEFINE q == [i \in 0..Len(Tail(s)) |-> p[i + 1]]
<1>3. q[0] = Op(b, Head(s))
  BY <1>1, <1>2 DEF LeftStages
<1>4. ASSUME NEW i \in 1..Len(Tail(s)) PROVE q[i] = Op(q[i - 1], Tail(s)[i])
  BY <1>1, <1>2, <1>4 DEF LeftStages
<1>5. q[Len(Tail(s))] = p[Len(s)]
  BY <1>1
<1> HIDE DEF q
<1>6. LeftStages(q, Op(b, Head(s)), Tail(s), Len(Tail(s)))
  BY <1>3, <1>4 DEF LeftStages
<1> QED
  BY <1>1, <1>2, <1>5, <1>6, LeftIsLast

\* Nothing to fold.
LEMMA LeftEmpty == ASSUME NEW b PROVE Left(b, <<>>) = b
<1>1. <<>> \in Seq({}) /\ Len(<<>>) = 0
  OBVIOUS
<1>2. PICK p : LeftStages(p, b, <<>>, 0)
  BY <1>1, LeftStagesExist
<1>3. Left(b, <<>>) = p[0]
  BY <1>1, <1>2, LeftIsLast
<1> QED
  BY <1>2, <1>3 DEF LeftStages

\* A set that the operator does not leave holds the fold.
LEMMA LeftClosed ==
    ASSUME NEW S, NEW V, \A v \in V, e \in S : Op(v, e) \in V,
           NEW s \in Seq(S), NEW b \in V
    PROVE  Left(b, s) \in V
<1> DEFINE n == Len(s)
<1>1. n \in Nat /\ \A i \in 1..n : s[i] \in S
  OBVIOUS
<1>2. PICK p : LeftStages(p, b, s, n)
  BY LeftStagesExist
<1> DEFINE T == {m \in 0..n : p[m] \notin V}
<1>3. SUFFICES ASSUME T # {} PROVE FALSE
  <2>1. Left(b, s) = p[n]
    BY <1>2, LeftIsLast
  <2>2. n \notin T
    BY <1>3
  <2> QED
    BY <1>1, <2>1, <2>2
<1> HIDE DEF n
<1>4. PICK m \in T : \A k \in T : m <= k
  <2>1. T \in SUBSET Nat
    BY <1>1
  <2> HIDE DEF T
  <2> QED
    BY <1>3, <2>1, Least
<1>5. m # 0
  BY <1>2, <1>4 DEF LeftStages
<1>6. m \in 1..n /\ m - 1 \in 0..n /\ m - 1 \notin T
  BY <1>1, <1>4, <1>5
<1>7. p[m] = Op(p[m - 1], s[m]) /\ p[m - 1] \in V
  BY <1>2, <1>6 DEF LeftStages
<1> QED
  BY <1>1, <1>4, <1>6, <1>7

(***************************************************************************)
(* The same from the right: FoldRight takes the positions from the least   *)
(* on, and what it leaves for later are the suffixes.                      *)
(***************************************************************************)
Right(s, b) == FoldRight(Op, s, b)

\* What FoldRight computes on the way, of each set of positions in m..n.
PartialRight(it, b, s, m, n) ==
    it = [t \in SUBSET (m..n) |-> IF t = {} THEN b ELSE Op(s[Min(t)], it[t \ {Min(t)}])]

\* The folds of the suffixes of a sequence of length n.
RightStages(p, b, s, n) ==
    /\ p[n + 1] = b
    /\ \A i \in 1..n : p[i] = Op(s[i], p[i + 1])

LEMMA MinOfPositions ==
    ASSUME NEW m \in Int, NEW n \in Int, NEW t \in SUBSET (m..n), m \in t
    PROVE  Min(t) = m
<1>1. \A y \in t : m <= y
  OBVIOUS
<1>2. Min(t) \in t /\ \A y \in t : Min(t) <= y
  <2>1. \E x \in t : \A y \in t : x <= y
    BY <1>1
  <2> QED
    BY <2>1, Zenon DEF Min
<1> DEFINE k == Min(t)
<1>3. k \in m..n /\ k <= m
  BY <1>2
<1> HIDE DEF k
<1>4. k = m
  BY <1>3
<1> QED
  BY <1>4 DEF k

LEMMA MinOfSuffix ==
    ASSUME NEW n \in Nat, NEW m \in 1..n
    PROVE  m..n \in SUBSET (1..n) /\ m..n # {} /\ Min(m..n) = m /\ (m..n) \ {m} = (m + 1)..n
<1>1. m \in Int /\ m \in m..n /\ m..n \in SUBSET (m..n) /\ m..n \in SUBSET (1..n)
  OBVIOUS
<1>2. Min(m..n) = m
  <2> DEFINE t == m..n
  <2>1. t \in SUBSET (m..n) /\ m \in t /\ n \in Int
    BY <1>1
  <2> HIDE DEF t
  <2>2. Min(t) = m
    BY <1>1, <2>1, MinOfPositions
  <2> QED
    BY <2>2 DEF t
<1>3. (m..n) \ {m} = (m + 1)..n
  OBVIOUS
<1> QED
  BY <1>1, <1>2, <1>3

\* The recursion of FoldRight has a solution.
LEMMA PartialRightExists ==
    ASSUME NEW b, NEW s, NEW n \in Nat, NEW d \in Nat
    PROVE  \E it : PartialRight(it, b, s, n + 1 - d, n)
<1> DEFINE T == {k \in Nat : ~ \E it : PartialRight(it, b, s, n + 1 - k, n)}
<1>1. SUFFICES ASSUME T # {} PROVE FALSE
  BY <1>1
<1>2. PICK k \in T : \A j \in T : k <= j
  BY <1>1, Least
<1>3. CASE k = 0
  <2> DEFINE it == [t \in SUBSET ((n + 1)..n) |-> b]
  <2>1. \A t \in SUBSET ((n + 1)..n) : t = {}
    OBVIOUS
  <2>2. PartialRight(it, b, s, n + 1, n)
    BY <2>1 DEF PartialRight
  <2>3. n + 1 - 0 = n + 1
    OBVIOUS
  <2> HIDE DEF it
  <2> QED
    BY <1>2, <1>3, <2>2, <2>3
<1>4. CASE k # 0
  <2> DEFINE m == n + 1 - k
  <2>1. k - 1 \in Nat /\ k - 1 \notin T /\ n + 1 - (k - 1) = m + 1 /\ m \in Int
    BY <1>2, <1>4
  <2>2. PICK it : PartialRight(it, b, s, m + 1, n)
    BY <2>1
  <2>7. SUFFICES ASSUME NEW f, PartialRight(f, b, s, m, n) PROVE FALSE
    <3> DEFINE more == [t \in SUBSET (m..n) |-> IF m \in t THEN Op(s[m], it[t \ {m}]) ELSE it[t]]
    <3>1. ASSUME NEW t \in SUBSET (m..n), m \in t
          PROVE  more[t] = Op(s[Min(t)], more[t \ {Min(t)}])
      <4>1. Min(t) = m
        <5> HIDE DEF m
        <5>1. n \in Int
          OBVIOUS
        <5> QED
          BY <2>1, <3>1, <5>1, MinOfPositions
      <4>2. t \ {m} \in SUBSET (m..n) /\ m \notin t \ {m}
        OBVIOUS
      <4> QED
        BY <3>1, <4>1, <4>2
    <3>2. ASSUME NEW t \in SUBSET (m..n), m \notin t, t # {}
          PROVE  more[t] = Op(s[Min(t)], more[t \ {Min(t)}])
      <4> HIDE DEF m
      <4>1. t \in SUBSET ((m + 1)..n)
        BY <2>1, <3>2
      <4>2. it[t] = Op(s[Min(t)], it[t \ {Min(t)}])
        BY <2>2, <3>2, <4>1 DEF PartialRight
      <4>3. more[t] = it[t] /\ more[t \ {Min(t)}] = it[t \ {Min(t)}]
        BY <3>2
      <4> QED
        BY <4>2, <4>3
    <3>3. more[{}] = b
      <4>1. it[{}] = b
        BY <2>2 DEF PartialRight
      <4> QED
        BY <4>1
    <3>4. PartialRight(more, b, s, m, n)
      <4>1. \A t \in SUBSET (m..n) :
               more[t] = IF t = {} THEN b ELSE Op(s[Min(t)], more[t \ {Min(t)}])
        BY <3>1, <3>2, <3>3
      <4>2. more = [t \in SUBSET (m..n) |-> more[t]]
        OBVIOUS
      <4> HIDE DEF more
      <4> QED
        BY <4>1, <4>2 DEF PartialRight
    <3> HIDE DEF more
    <3> QED
      BY <2>7, <3>4
  <2> QED
    BY <1>2, <2>7
<1> QED
  BY <1>3, <1>4

\* The fold of a sequence is the first of any folds of its suffixes.
LEMMA RightIsFirst ==
    ASSUME NEW S, NEW s \in Seq(S), NEW b, NEW p, RightStages(p, b, s, Len(s))
    PROVE  Right(s, b) = p[1]
<1> DEFINE n == Len(s)
           it == CHOOSE f : PartialRight(f, b, s, 1, n)
<1>1. n \in Nat /\ DOMAIN s = 1..n
  OBVIOUS
<1>2. Right(s, b) = it[1..n]
  <2>1. Right(s, b) = (CHOOSE f : f = [t \in SUBSET (DOMAIN s) |->
                        IF t = {} THEN b ELSE Op(s[Min(t)], f[t \ {Min(t)}])])[DOMAIN s]
    BY DEF Right, FoldRight, MapThenFoldSet
  <2> QED
    BY <1>1, <2>1 DEF PartialRight
<1>3. PartialRight(it, b, s, 1, n)
  <2>1. n + 1 - n = 1
    BY <1>1
  <2> QED
    BY <1>1, <2>1, PartialRightExists
<1> HIDE DEF it, n
<1> DEFINE T == {k \in 0..n : it[(n + 1 - k)..n] # p[n + 1 - k]}
<1>4. SUFFICES ASSUME T # {} PROVE FALSE
  <2>1. n \notin T
    BY <1>4
  <2>2. n + 1 - n = 1 /\ n \in 0..n
    BY <1>1
  <2> QED
    BY <1>2, <2>1, <2>2
<1>5. PICK k \in T : \A j \in T : k <= j
  <2>1. T \in SUBSET Nat
    BY <1>1
  <2> HIDE DEF T
  <2> QED
    BY <1>4, <2>1, Least
<1>6. CASE k = 0
  <2>1. (n + 1 - 0)..n = {} /\ n + 1 - 0 = n + 1
    BY <1>1
  <2>2. it[{}] = b /\ p[n + 1] = b
    BY <1>1, <1>3 DEF PartialRight, RightStages, n
  <2> QED
    BY <1>5, <1>6, <2>1, <2>2
<1>7. CASE k # 0
  <2> DEFINE m == n + 1 - k
  <2>1. k - 1 \in 0..n /\ k - 1 \notin T /\ m \in 1..n /\ n + 1 - (k - 1) = m + 1
    BY <1>1, <1>5, <1>7
  <2>2. it[(m + 1)..n] = p[m + 1]
    BY <2>1
  <2> HIDE DEF m
  <2>3. m..n \in SUBSET (1..n) /\ m..n # {} /\ Min(m..n) = m /\ (m..n) \ {m} = (m + 1)..n
    BY <1>1, <2>1, MinOfSuffix
  <2>4. it[m..n] = Op(s[m], it[(m + 1)..n])
    BY <1>3, <2>3 DEF PartialRight
  <2>5. p[m] = Op(s[m], p[m + 1])
    BY <2>1 DEF RightStages, n
  <2>6. it[m..n] # p[m]
    BY <1>5 DEF m
  <2> QED
    BY <2>2, <2>4, <2>5, <2>6
<1> QED
  BY <1>6, <1>7

\* The folds of the suffixes exist.
LEMMA RightStagesExist ==
    ASSUME NEW S, NEW s \in Seq(S), NEW b
    PROVE  \E p : RightStages(p, b, s, Len(s))
<1> DEFINE n == Len(s)
<1>1. n \in Nat /\ n + 1 - n = 1
  OBVIOUS
<1>2. PICK it : PartialRight(it, b, s, 1, n)
  BY <1>1, PartialRightExists
<1> DEFINE p == [m \in 1..(n + 1) |-> it[m..n]]
<1>3. p[n + 1] = b
  <2>1. (n + 1)..n = {} /\ n + 1 \in 1..(n + 1)
    BY <1>1
  <2>2. it[{}] = b
    BY <1>2 DEF PartialRight
  <2> QED
    BY <2>1, <2>2
<1>4. ASSUME NEW m \in 1..n PROVE p[m] = Op(s[m], p[m + 1])
  <2>1. m..n \in SUBSET (1..n) /\ m..n # {} /\ Min(m..n) = m /\ (m..n) \ {m} = (m + 1)..n
    BY <1>1, MinOfSuffix
  <2>2. it[m..n] = Op(s[m], it[(m + 1)..n])
    BY <1>2, <2>1 DEF PartialRight
  <2>3. m \in 1..(n + 1) /\ m + 1 \in 1..(n + 1)
    BY <1>1
  <2> QED
    BY <2>2, <2>3
<1> HIDE DEF p
<1> QED
  BY <1>3, <1>4 DEF RightStages

\* From the right, the first element of a sequence comes last.
LEMMA RightHead ==
    ASSUME NEW S, NEW s \in Seq(S), s # <<>>, NEW b
    PROVE  Right(s, b) = Op(Head(s), Right(Tail(s), b))
<1>1. /\ Tail(s) \in Seq(S) /\ Len(Tail(s)) = Len(s) - 1 /\ Len(s) \in Nat \ {0}
      /\ \A i \in 1..Len(Tail(s)) : Tail(s)[i] = s[i + 1]
      /\ Head(s) = s[1]
  OBVIOUS
<1>2. PICK p : RightStages(p, b, s, Len(s))
  BY RightStagesExist
<1> DEFINE q == [i \in 1..Len(s) |-> p[i + 1]]
<1>3. q[Len(Tail(s)) + 1] = b
  BY <1>1, <1>2 DEF RightStages
<1>4. ASSUME NEW i \in 1..Len(Tail(s)) PROVE q[i] = Op(Tail(s)[i], q[i + 1])
  BY <1>1, <1>2, <1>4 DEF RightStages
<1>5. q[1] = p[2]
  BY <1>1
<1> HIDE DEF q
<1>6. RightStages(q, b, Tail(s), Len(Tail(s)))
  BY <1>3, <1>4 DEF RightStages
<1>7. Right(s, b) = p[1] /\ Right(Tail(s), b) = q[1]
  BY <1>1, <1>2, <1>6, RightIsFirst
<1>8. p[1] = Op(s[1], p[1 + 1])
  BY <1>1, <1>2 DEF RightStages
<1> QED
  BY <1>1, <1>5, <1>7, <1>8

LEMMA RightEmpty == ASSUME NEW b PROVE Right(<<>>, b) = b
<1>1. <<>> \in Seq({}) /\ Len(<<>>) = 0
  OBVIOUS
<1>2. PICK p : RightStages(p, b, <<>>, 0)
  BY <1>1, RightStagesExist
<1>3. Right(<<>>, b) = p[1]
  BY <1>1, <1>2, RightIsFirst
<1>4. p[0 + 1] = b
  BY <1>2 DEF RightStages
<1> QED
  BY <1>3, <1>4
=============================================================================
