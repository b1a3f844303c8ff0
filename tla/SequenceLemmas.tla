--------------------------- MODULE SequenceLemmas ---------------------------
(* What the sequence operators used by the models return: length, type and *)
(* elements; and recursive functions, which exist where a rank is lowered. *)
(* Cited by the proofs about the models.                                   *)
EXTENDS Integers, SequencesExt, SequenceTheorems, FiniteSetTheorems, TLAPS

\* A set of naturals that is not empty has a least one.  (This stands in for
\* induction: the set of the counterexamples has no least member.)
LEMMA LeastNatural ==
    ASSUME NEW S \in SUBSET Nat, S # {}
    PROVE  \E n \in S : \A m \in S : n <= m
<1> DEFINE T == {1 .. n : n \in S}
<1>1. T \subseteq FiniteSubsetsOf(Nat) /\ T # {}
  <2>1. ASSUME NEW n \in S
        PROVE  1 .. n \in SUBSET Nat /\ IsFiniteSet(1 .. n)
    BY FS_Interval
  <2> QED  BY <2>1 DEF FiniteSubsetsOf
<1>2. IsWellFoundedOn(StrictSubsetOrdering(Nat), FiniteSubsetsOf(Nat))
  BY FS_StrictSubsetOrderingWellFounded
<1>3. PICK x \in T : \A y \in T : ~ (<<y, x>> \in StrictSubsetOrdering(Nat))
  <2> HIDE DEF T
  <2> QED  BY <1>1, <1>2, WFMin
<1>4. PICK n \in S : x = 1 .. n
  BY <1>3
<1>5. ASSUME NEW m \in S, m < n
      PROVE  FALSE
  <2>1. 1 .. m \in T /\ 1 .. m \subseteq 1 .. n /\ n \in 1 .. n /\ n \notin 1 .. m
    BY <1>5
  <2>2. <<1 .. m, 1 .. n>> \in StrictSubsetOrdering(Nat)
    BY <2>1 DEF StrictSubsetOrdering
  <2> QED  BY <1>3, <1>4, <2>1, <2>2
<1> QED  BY <1>5

\* The greatest of a set of indices.
LEMMA MaxFacts ==
    ASSUME NEW n \in Nat, NEW S \in SUBSET (0 .. n), S # {}
    PROVE  Max(S) \in S /\ \A m \in S : m <= Max(S)
<1> DEFINE T == {n - m : m \in S}
<1>1. PICK k \in T : \A m \in T : k <= m
  <2>1. \A m \in S : n - m \in Nat /\ n - m \in T
    OBVIOUS
  <2>2. T \in SUBSET Nat /\ T # {}
    BY <2>1
  <2> HIDE DEF T
  <2> QED  BY <2>2, LeastNatural
<1>2. PICK x \in S : k = n - x
  BY <1>1
<1>3. \A m \in S : x >= m
  BY <1>1, <1>2
<1> QED  BY <1>2, <1>3 DEF Max

\* The least of a set of naturals.
LEMMA MinFacts ==
    ASSUME NEW S \in SUBSET Nat, S # {}
    PROVE  Min(S) \in S /\ \A m \in S : Min(S) <= m
BY LeastNatural DEF Min

\* A slice of a sequence, by bounds within it.
LEMMA SliceFacts ==
    ASSUME NEW S, NEW s \in Seq(S), NEW m \in 1 .. Len(s) + 1,
           NEW n \in 0 .. Len(s), m <= n + 1
    PROVE  /\ SubSeq(s, m, n) \in Seq(S)
           /\ Len(SubSeq(s, m, n)) = n - m + 1
           /\ \A i \in 1 .. n - m + 1 : SubSeq(s, m, n)[i] = s[m + i - 1]
<1>1. Len(s) \in Nat /\ \A i \in 1 .. Len(s) : s[i] \in S
  BY LenProperties, ElementOfSeq
<1>2. m \in Int /\ n \in Int /\ \A i \in m .. n : s[i] \in S
  BY <1>1
<1> QED  BY <1>1, <1>2, SubSeqProperties

\* The whole of a sequence, and none of it.
LEMMA WholeSlice ==
    ASSUME NEW S, NEW s \in Seq(S)
    PROVE  SubSeq(s, 1, Len(s)) = s /\ SubSeq(s, 1, 0) = << >>
<1>1. Len(s) \in Nat /\ 1 \in 1 .. Len(s) + 1 /\ Len(s) \in 0 .. Len(s) /\ 0 \in 0 .. Len(s)
  BY LenProperties
<1>2. /\ SubSeq(s, 1, Len(s)) \in Seq(S) /\ Len(SubSeq(s, 1, Len(s))) = Len(s) - 1 + 1
      /\ \A i \in 1 .. Len(s) - 1 + 1 : SubSeq(s, 1, Len(s))[i] = s[1 + i - 1]
  BY <1>1, SliceFacts
<1>3. SubSeq(s, 1, Len(s)) = s
  BY <1>1, <1>2, SeqEqual
<1>4. SubSeq(s, 1, 0) \in Seq(S) /\ Len(SubSeq(s, 1, 0)) = 0 - 1 + 1
  BY <1>1, SliceFacts
<1> QED  BY <1>3, <1>4, EmptySeq

\* Two elements appended at once are appended one after the other.
LEMMA AppendTwice ==
    ASSUME NEW S, NEW s \in Seq(S), NEW a \in S, NEW b \in S
    PROVE  s \o <<a, b>> = Append(Append(s, a), b)
OBVIOUS

\* Front drops the last element and keeps the others where they are.
LEMMA FrontFacts ==
    ASSUME NEW S, NEW s \in Seq(S), s # <<>>
    PROVE  /\ Front(s) \in Seq(S)
           /\ Len(Front(s)) = Len(s) - 1
           /\ \A i \in 1 .. Len(s) - 1 : Front(s)[i] = s[i]
           /\ Len(s) \in Nat \ {0}
           /\ Last(s) = s[Len(s)]
           /\ Last(s) \in S
<1>1. Len(s) \in Nat \ {0}
  BY EmptySeq
<1>2. /\ SubSeq(s, 1, Len(s) - 1) \in Seq(S)
      /\ Len(SubSeq(s, 1, Len(s) - 1)) = Len(s) - 1
      /\ \A i \in 1 .. Len(s) - 1 : SubSeq(s, 1, Len(s) - 1)[i] = s[i]
  <2>1. /\ 1 \in 1 .. Len(s) + 1 /\ Len(s) - 1 \in 0 .. Len(s)
        /\ 1 <= (Len(s) - 1) + 1
    BY <1>1
  <2>2. /\ SubSeq(s, 1, Len(s) - 1) \in Seq(S)
        /\ Len(SubSeq(s, 1, Len(s) - 1)) = (Len(s) - 1) - 1 + 1
        /\ \A i \in 1 .. (Len(s) - 1) - 1 + 1 :
              SubSeq(s, 1, Len(s) - 1)[i] = s[1 + i - 1]
    BY <1>1, <2>1, SliceFacts
  <2> QED  BY <1>1, <2>2
<1>3. Last(s) = s[Len(s)] /\ s[Len(s)] \in S
  BY <1>1, ElementOfSeq DEF Last
<1> QED  BY <1>1, <1>2, <1>3 DEF Front

\* InsertAt puts e at p and shifts what follows.
LEMMA InsertAtFacts ==
    ASSUME NEW S, NEW s \in Seq(S), NEW e \in S, NEW p \in 1 .. Len(s) + 1
    PROVE  /\ InsertAt(s, p, e) \in Seq(S)
           /\ Len(InsertAt(s, p, e)) = Len(s) + 1
           /\ \A i \in 1 .. Len(s) + 1 :
                InsertAt(s, p, e)[i] = IF i < p THEN s[i]
                                       ELSE IF i = p THEN e ELSE s[i - 1]
<1> DEFINE a == SubSeq(s, 1, p - 1)
           b == SubSeq(s, p, Len(s))
           c == a \o <<e>>
<1>1. Len(s) \in Nat /\ p \in Nat
  BY LenProperties
<1>2. /\ a \in Seq(S) /\ Len(a) = p - 1
      /\ \A i \in 1 .. p - 1 : a[i] = s[i]
  <2>1. 1 \in 1 .. Len(s) + 1 /\ p - 1 \in 0 .. Len(s) /\ 1 <= (p - 1) + 1
    BY <1>1
  <2>2. /\ a \in Seq(S) /\ Len(a) = (p - 1) - 1 + 1
        /\ \A i \in 1 .. (p - 1) - 1 + 1 : a[i] = s[1 + i - 1]
    BY <2>1, SliceFacts
  <2> QED  BY <1>1, <2>2
<1>3. /\ b \in Seq(S) /\ Len(b) = Len(s) - p + 1
      /\ \A i \in 1 .. Len(s) - p + 1 : b[i] = s[p + i - 1]
  <2>1. Len(s) \in 0 .. Len(s) /\ p <= Len(s) + 1
    BY <1>1
  <2> QED  BY <2>1, SliceFacts
<1>4. InsertAt(s, p, e) = c \o b
  BY DEF InsertAt
<1>5. <<e>> \in Seq(S) /\ Len(<<e>>) = 1 /\ <<e>>[1] = e
  OBVIOUS
<1> HIDE DEF a, b
<1>6. /\ c \in Seq(S) /\ Len(c) = p
      /\ \A i \in 1 .. p : c[i] = IF i < p THEN s[i] ELSE e
  <2>1. /\ c \in Seq(S) /\ Len(c) = Len(a) + Len(<<e>>)
        /\ \A i \in 1 .. Len(a) + Len(<<e>>) :
              c[i] = IF i <= Len(a) THEN a[i] ELSE <<e>>[i - Len(a)]
    BY <1>2, <1>5, ConcatProperties
  <2> QED  BY <1>1, <1>2, <1>5, <2>1
<1> HIDE DEF c
<1>7. /\ c \o b \in Seq(S) /\ Len(c \o b) = Len(c) + Len(b)
      /\ \A i \in 1 .. Len(c) + Len(b) :
            (c \o b)[i] = IF i <= Len(c) THEN c[i] ELSE b[i - Len(c)]
  BY <1>3, <1>6, ConcatProperties
<1>8. Len(c \o b) = Len(s) + 1
  BY <1>1, <1>3, <1>6, <1>7
<1>9. ASSUME NEW i \in 1 .. Len(s) + 1
      PROVE  (c \o b)[i] = IF i < p THEN s[i] ELSE IF i = p THEN e ELSE s[i - 1]
  BY <1>1, <1>3, <1>6, <1>7, <1>8
<1> QED  BY <1>4, <1>7, <1>8, <1>9

\* RemoveAt closes the gap at p.
LEMMA RemoveAtFacts ==
    ASSUME NEW S, NEW s \in Seq(S), NEW p \in 1 .. Len(s)
    PROVE  /\ RemoveAt(s, p) \in Seq(S)
           /\ Len(RemoveAt(s, p)) = Len(s) - 1
           /\ \A i \in 1 .. Len(s) - 1 :
                RemoveAt(s, p)[i] = IF i < p THEN s[i] ELSE s[i + 1]
<1> DEFINE a == SubSeq(s, 1, p - 1)
           b == SubSeq(s, p + 1, Len(s))
<1>1. Len(s) \in Nat /\ p \in Nat
  BY LenProperties
<1>2. /\ a \in Seq(S) /\ Len(a) = p - 1
      /\ \A i \in 1 .. p - 1 : a[i] = s[i]
  <2>1. 1 \in 1 .. Len(s) + 1 /\ p - 1 \in 0 .. Len(s) /\ 1 <= (p - 1) + 1
    BY <1>1
  <2>2. /\ a \in Seq(S) /\ Len(a) = (p - 1) - 1 + 1
        /\ \A i \in 1 .. (p - 1) - 1 + 1 : a[i] = s[1 + i - 1]
    BY <2>1, SliceFacts
  <2> QED  BY <1>1, <2>2
<1>3. /\ b \in Seq(S) /\ Len(b) = Len(s) - p
      /\ \A i \in 1 .. Len(s) - p : b[i] = s[p + i]
  <2>1. /\ p + 1 \in 1 .. Len(s) + 1 /\ Len(s) \in 0 .. Len(s)
        /\ p + 1 <= Len(s) + 1
    BY <1>1
  <2>2. /\ b \in Seq(S) /\ Len(b) = Len(s) - (p + 1) + 1
        /\ \A i \in 1 .. Len(s) - (p + 1) + 1 : b[i] = s[(p + 1) + i - 1]
    BY <2>1, SliceFacts
  <2> QED  BY <1>1, <2>2
<1>4. RemoveAt(s, p) = a \o b
  BY DEF RemoveAt
<1> HIDE DEF a, b
<1>5. /\ a \o b \in Seq(S) /\ Len(a \o b) = Len(a) + Len(b)
      /\ \A i \in 1 .. Len(a) + Len(b) :
            (a \o b)[i] = IF i <= Len(a) THEN a[i] ELSE b[i - Len(a)]
  BY <1>2, <1>3, ConcatProperties
<1>6. Len(a \o b) = Len(s) - 1
  BY <1>1, <1>2, <1>3, <1>5
<1>7. ASSUME NEW i \in 1 .. Len(s) - 1
      PROVE  (a \o b)[i] = IF i < p THEN s[i] ELSE s[i + 1]
  <2>1. i \in 1 .. Len(a) + Len(b)
    BY <1>5, <1>6
  <2>2. CASE i < p
    <3>1. i <= Len(a) /\ i \in 1 .. p - 1
      BY <1>1, <1>2, <2>2
    <3>2. (a \o b)[i] = a[i]
      BY <1>5, <2>1, <3>1
    <3> QED  BY <1>2, <2>2, <3>1, <3>2
  <2>3. CASE ~ (i < p)
    <3>1. /\ ~ (i <= Len(a)) /\ i - Len(a) \in 1 .. Len(s) - p
          /\ p + (i - Len(a)) = i + 1
      BY <1>1, <1>2, <2>3
    <3>2. (a \o b)[i] = b[i - Len(a)]
      BY <1>5, <2>1, <3>1
    <3> QED  BY <1>3, <2>3, <3>1, <3>2
  <2> QED  BY <2>2, <2>3
<1> QED  BY <1>4, <1>5, <1>6, <1>7
----------------------------------------------------------------------------
(* Recursion.  A function that is defined by recursion along next exists,   *)
(* if next lowers a rank.                                                   *)

Unfolds(g, p, stop, base, step, next) ==
    g[p] = IF p \in stop THEN base[p] ELSE step[p][g[next[p]]]

\* A function defined by recursion exists: otherwise there is a least rank up
\* to which none does.
LEMMA Recursion ==
    ASSUME NEW D, NEW V, NEW v \in V, NEW stop, NEW n \in Nat,
           NEW rank \in [D -> 0 .. n], NEW next,
           NEW base \in [D -> V], NEW step \in [D -> [V -> V]],
           \A p \in D \ stop : next[p] \in D /\ rank[next[p]] < rank[p]
    PROVE  \E g \in [D -> V] : \A p \in D : Unfolds(g, p, stop, base, step, next)
<1> DEFINE Upto(m) == \E g \in [D -> V] :
                          \A p \in D : rank[p] < m => Unfolds(g, p, stop, base, step, next)
           Missing == {m \in Nat : ~ Upto(m)}
<1>1. Upto(0)
  <2>1. [p \in D |-> v] \in [D -> V]
    OBVIOUS
  <2>2. \A p \in D : ~ (rank[p] < 0)
    OBVIOUS
  <2> QED  BY <2>1, <2>2
<1>2. ASSUME NEW m \in Nat, Upto(m) PROVE Upto(m + 1)
  <2>1. PICK g \in [D -> V] :
            \A p \in D : rank[p] < m => Unfolds(g, p, stop, base, step, next)
    BY <1>2
  <2> DEFINE h == [p \in D |-> IF rank[p] < m THEN g[p]
                               ELSE IF p \in stop THEN base[p]
                               ELSE IF rank[p] = m THEN step[p][g[next[p]]] ELSE v]
  <2>2. h \in [D -> V]
    <3>1. \A p \in D \ stop : step[p] \in [V -> V] /\ g[next[p]] \in V
      OBVIOUS
    <3>2. \A p \in D \ stop : step[p][g[next[p]]] \in V
      BY <3>1
    <3> QED  BY <3>2
  <2>3. ASSUME NEW p \in D, rank[p] < m + 1
        PROVE  Unfolds(h, p, stop, base, step, next)
    <3>0. rank[p] \in Int
      OBVIOUS
    <3>1. CASE p \in stop
      BY <2>1, <3>1 DEF Unfolds
    <3>2. CASE p \notin stop
      <4>1. /\ next[p] \in D /\ rank[next[p]] < rank[p]
            /\ rank[next[p]] \in Int
        BY <3>2
      <4>2. rank[next[p]] < m
        BY <3>0, <4>1, <2>3
      <4>3. h[next[p]] = g[next[p]]
        BY <4>1, <4>2
      <4>4. h[p] = step[p][g[next[p]]]
        <5>1. CASE rank[p] < m
          BY <2>1, <3>2, <5>1 DEF Unfolds
        <5>2. CASE rank[p] = m
          BY <3>2, <5>2
        <5> QED  BY <3>0, <2>3, <5>1, <5>2
      <4> HIDE DEF h
      <4> QED  BY <3>2, <4>3, <4>4 DEF Unfolds
    <3> QED  BY <3>1, <3>2
  <2> HIDE DEF h
  <2> QED  BY <2>2, <2>3
<1> HIDE DEF Upto
<1>3. Missing = {}
  <2> SUFFICES ASSUME Missing # {} PROVE FALSE
    OBVIOUS
  <2>1. PICK m \in Missing : \A k \in Missing : m <= k
    BY LeastNatural
  <2>2. m # 0 /\ m \in Nat /\ ~ Upto(m)
    BY <1>1, <2>1
  <2>3. m - 1 \in Nat /\ m = (m - 1) + 1 /\ ~ (m <= m - 1)
    BY <2>2
  <2>4. Upto(m - 1)
    BY <2>1, <2>3
  <2>5. Upto((m - 1) + 1)
    BY <1>2, <2>3, <2>4
  <2> QED  BY <2>2, <2>3, <2>5
<1>4. Upto(n + 1)
  BY <1>3
<1>5. \A p \in D : rank[p] < n + 1
  OBVIOUS
<1> QED  BY <1>4, <1>5 DEF Upto

\* Induction along a rank, over a set.
LEMMA RankInduction ==
    ASSUME NEW D, NEW n \in Nat, NEW rank \in [D -> 0 .. n], NEW S,
           \A p \in D : (\A q \in D : rank[q] < rank[p] => q \in S) => p \in S
    PROVE  D \subseteq S
<1> DEFINE Ranks == {rank[p] : p \in D \ S}
<1> SUFFICES ASSUME D \ S # {} PROVE FALSE
  OBVIOUS
<1>1. Ranks \in SUBSET Nat /\ Ranks # {}
  OBVIOUS
<1> HIDE DEF Ranks
<1>2. PICK m \in Ranks : \A k \in Ranks : m <= k
  BY <1>1, LeastNatural
<1>3. PICK p \in D \ S : m = rank[p]
  BY <1>2 DEF Ranks
<1>4. \A q \in D \ S : rank[p] <= rank[q]
  BY <1>2, <1>3 DEF Ranks
<1>5. \A q \in D : rank[q] \in Int
  OBVIOUS
<1>6. \A q \in D : rank[q] < rank[p] => q \in S
  BY <1>4, <1>5
<1> QED  BY <1>6

\* Induction along the segments of a name.
LEMMA SegmentInduction ==
    ASSUME NEW n \in Nat, NEW S, 1 \in S, \A k \in 1 .. n - 1 : k \in S => k + 1 \in S
    PROVE  1 .. n \subseteq S
<1> DEFINE D == 1 .. n
           rank == [k \in D |-> k]
<1>1. rank \in [D -> 0 .. n]
  OBVIOUS
<1>2. \A p \in D : (\A q \in D : rank[q] < rank[p] => q \in S) => p \in S
  <2> SUFFICES ASSUME NEW p \in D, \A q \in D : rank[q] < rank[p] => q \in S PROVE p \in S
    OBVIOUS
  <2>1. CASE p = 1
    BY <2>1
  <2>2. CASE p # 1
    <3>1. p - 1 \in 1 .. n - 1 /\ p - 1 \in D /\ p - 1 < p /\ p = (p - 1) + 1
      BY <2>2
    <3>2. p - 1 \in S
      BY <3>1
    <3> QED  BY <3>1, <3>2
  <2> QED  BY <2>1, <2>2
<1> HIDE DEF D, rank
<1>3. D \subseteq S
  BY <1>1, <1>2, RankInduction
<1> QED  BY <1>3 DEF D
=============================================================================
