------------------------------ MODULE SeqFacts ------------------------------
(***************************************************************************)
(* What the proofs need of sequences beyond SequenceTheorems: a sequence   *)
(* cut in two, as a batch is taken off a queue, and two put together, as a *)
(* batch is put back. And of the naturals: the smallest and the largest of *)
(* a set of them, and induction, for a set.                                *)
(***************************************************************************)
EXTENDS SequenceTheorems, FunctionTheorems, FiniteSetTheorems, WellFoundedInduction, TLAPS

\* The first n elements and the rest, element by element
LEMMA SplitSeq ==
  ASSUME NEW S, NEW s \in Seq(S), NEW n \in 0..Len(s)
  PROVE  /\ SubSeq(s, 1, n) \in Seq(S) /\ Len(SubSeq(s, 1, n)) = n
         /\ \A i \in 1..n : SubSeq(s, 1, n)[i] = s[i]
         /\ SubSeq(s, n + 1, Len(s)) \in Seq(S) /\ Len(SubSeq(s, n + 1, Len(s))) = Len(s) - n
         /\ \A i \in 1..(Len(s) - n) : SubSeq(s, n + 1, Len(s))[i] = s[n + i]
<1>1. Len(s) \in Nat /\ \A i \in 1..Len(s) : s[i] \in S
  BY ElementOfSeq, LenProperties
<1>2. /\ SubSeq(s, 1, n) \in Seq(S) /\ Len(SubSeq(s, 1, n)) = n
      /\ \A i \in 1..n : SubSeq(s, 1, n)[i] = s[i]
  <2>1. /\ SubSeq(s, 1, n) \in Seq(S)
        /\ Len(SubSeq(s, 1, n)) = IF 1 <= n THEN n - 1 + 1 ELSE 0
        /\ \A i \in 1..(n - 1 + 1) : SubSeq(s, 1, n)[i] = s[1 + i - 1]
    <3>1. 1 \in Int /\ n \in Int /\ \A i \in 1..n : s[i] \in S
      BY <1>1
    <3> QED BY <3>1, SubSeqProperties
  <2> QED BY <2>1, <1>1
<1>3. /\ SubSeq(s, n + 1, Len(s)) \in Seq(S) /\ Len(SubSeq(s, n + 1, Len(s))) = Len(s) - n
      /\ \A i \in 1..(Len(s) - n) : SubSeq(s, n + 1, Len(s))[i] = s[n + i]
  <2>1. /\ SubSeq(s, n + 1, Len(s)) \in Seq(S)
        /\ Len(SubSeq(s, n + 1, Len(s))) = IF n + 1 <= Len(s) THEN Len(s) - (n + 1) + 1 ELSE 0
        /\ \A i \in 1..(Len(s) - (n + 1) + 1) : SubSeq(s, n + 1, Len(s))[i] = s[n + 1 + i - 1]
    <3>1. n + 1 \in Int /\ Len(s) \in Int /\ \A i \in (n + 1)..Len(s) : s[i] \in S
      BY <1>1
    <3> QED BY <3>1, SubSeqProperties
  <2> QED BY <2>1, <1>1
<1> QED BY <1>2, <1>3

\* ... the elements of the two are the elements of the whole
LEMMA SplitRange ==
  ASSUME NEW S, NEW s \in Seq(S), NEW n \in 0..Len(s)
  PROVE  /\ Range(SubSeq(s, 1, n)) \in SUBSET S
         /\ Range(SubSeq(s, n + 1, Len(s))) \in SUBSET S
         /\ Range(s) = Range(SubSeq(s, 1, n)) \cup Range(SubSeq(s, n + 1, Len(s)))
<1> DEFINE p == SubSeq(s, 1, n)
           q == SubSeq(s, n + 1, Len(s))
<1>1. /\ p \in Seq(S) /\ Len(p) = n /\ \A i \in 1..n : p[i] = s[i]
      /\ q \in Seq(S) /\ Len(q) = Len(s) - n /\ \A i \in 1..(Len(s) - n) : q[i] = s[n + i]
  BY SplitSeq
<1>2. Range(p) \in SUBSET S /\ Range(q) \in SUBSET S
  BY <1>1, RangeOfSeq
<1>3. Range(s) = {s[i] : i \in 1..Len(s)} /\ Range(p) = {p[i] : i \in 1..n}
      /\ Range(q) = {q[i] : i \in 1..(Len(s) - n)}
  BY <1>1, RangeEquality
<1> HIDE DEF p, q
<1>4. \A i \in 1..Len(s) : s[i] \in Range(p) \cup Range(q)
  <2> TAKE i \in 1..Len(s)
  <2>1. CASE i <= n
    BY <2>1, <1>1, <1>3
  <2>2. CASE i > n
    <3>1. i - n \in 1..(Len(s) - n) /\ s[i] = q[i - n]
      BY <2>2, <1>1
    <3> QED BY <3>1, <1>3
  <2> QED BY <2>1, <2>2
<1>5. \A i \in 1..n : p[i] \in Range(s)
  BY <1>1, <1>3
<1>6. \A i \in 1..(Len(s) - n) : q[i] \in Range(s)
  BY <1>1, <1>3
<1>7. Range(s) = Range(p) \cup Range(q)
  BY <1>3, <1>4, <1>5, <1>6
<1> QED BY <1>2, <1>7 DEF p, q

\* ... and what is in the whole once is in one of the two, once
LEMMA SplitInjective ==
  ASSUME NEW S, NEW s \in Seq(S), NEW n \in 0..Len(s), IsInjective(s)
  PROVE  /\ IsInjective(SubSeq(s, 1, n))
         /\ IsInjective(SubSeq(s, n + 1, Len(s)))
         /\ Range(SubSeq(s, 1, n)) \cap Range(SubSeq(s, n + 1, Len(s))) = {}
<1> DEFINE p == SubSeq(s, 1, n)
           q == SubSeq(s, n + 1, Len(s))
<1>1. /\ p \in Seq(S) /\ Len(p) = n /\ \A i \in 1..n : p[i] = s[i]
      /\ q \in Seq(S) /\ Len(q) = Len(s) - n /\ \A i \in 1..(Len(s) - n) : q[i] = s[n + i]
  BY SplitSeq
<1>2. DOMAIN s = 1..Len(s) /\ DOMAIN p = 1..n /\ DOMAIN q = 1..(Len(s) - n)
  BY <1>1, LenProperties
<1>3. Range(p) = {p[i] : i \in 1..n} /\ Range(q) = {q[i] : i \in 1..(Len(s) - n)}
  BY <1>1, RangeEquality
<1> HIDE DEF p, q
<1>4. \A i, j \in 1..Len(s) : s[i] = s[j] => i = j
  BY <1>2 DEF IsInjective
<1>5. IsInjective(p)
  BY <1>1, <1>2, <1>4 DEF IsInjective
<1>6. IsInjective(q)
  BY <1>1, <1>2, <1>4 DEF IsInjective
<1>7. ASSUME NEW i \in 1..n, NEW j \in 1..(Len(s) - n) PROVE p[i] # q[j]
  <2>1. p[i] = s[i] /\ q[j] = s[n + j]
    BY <1>1
  <2>2. i \in 1..Len(s) /\ n + j \in 1..Len(s) /\ i # n + j
    BY LenProperties
  <2> QED BY <1>4, <2>1, <2>2
<1>8. Range(p) \cap Range(q) = {}
  BY <1>3, <1>7
<1> QED BY <1>5, <1>6, <1>8 DEF p, q

\* Two sequences without an element in common, each without repeats, make one without
LEMMA ConcatInjective ==
  ASSUME NEW S, NEW s \in Seq(S), NEW t \in Seq(S), IsInjective(s), IsInjective(t),
         Range(s) \cap Range(t) = {}
  PROVE  IsInjective(s \o t)
<1> DEFINE c == s \o t
<1>1. c \in Seq(S) /\ Len(c) = Len(s) + Len(t)
      /\ \A i \in 1..(Len(s) + Len(t)) : c[i] = IF i <= Len(s) THEN s[i] ELSE t[i - Len(s)]
  BY ConcatProperties
<1>2. /\ DOMAIN s = 1..Len(s) /\ DOMAIN t = 1..Len(t) /\ DOMAIN c = 1..(Len(s) + Len(t))
      /\ Len(s) \in Nat /\ Len(t) \in Nat
  BY <1>1, LenProperties
<1>3. Range(s) = {s[i] : i \in 1..Len(s)} /\ Range(t) = {t[i] : i \in 1..Len(t)}
  BY RangeEquality
<1> HIDE DEF c
<1>4. \A i \in 1..Len(s), j \in 1..Len(t) : s[i] # t[j]
  BY <1>3
<1>5. ASSUME NEW i \in 1..(Len(s) + Len(t)), NEW j \in 1..(Len(s) + Len(t)), c[i] = c[j]
      PROVE  i = j
  <2>1. CASE i <= Len(s) /\ j <= Len(s)
    <3>1. i \in DOMAIN s /\ j \in DOMAIN s
      BY <2>1, <1>2
    <3>2. s[i] = s[j]
      BY <2>1, <1>1, <1>5
    <3> QED BY <3>1, <3>2 DEF IsInjective
  <2>2. CASE i <= Len(s) /\ ~(j <= Len(s))
    <3>1. j - Len(s) \in 1..Len(t) /\ i \in 1..Len(s)
      BY <2>2, <1>2
    <3> QED BY <3>1, <2>2, <1>1, <1>4, <1>5
  <2>3. CASE ~(i <= Len(s)) /\ j <= Len(s)
    <3>1. i - Len(s) \in 1..Len(t) /\ j \in 1..Len(s)
      BY <2>3, <1>2
    <3> QED BY <3>1, <2>3, <1>1, <1>4, <1>5
  <2>4. CASE ~(i <= Len(s)) /\ ~(j <= Len(s))
    <3>1. i - Len(s) \in 1..Len(t) /\ j - Len(s) \in 1..Len(t)
      BY <2>4, <1>2
    <3>2. t[i - Len(s)] = t[j - Len(s)]
      BY <2>4, <1>1, <1>5
    <3>3. i - Len(s) = j - Len(s)
      BY <3>1, <3>2, <1>2 DEF IsInjective
    <3> QED BY <3>3, <1>2
  <2> QED BY <2>1, <2>2, <2>3, <2>4
<1>6. IsInjective(c)
  BY <1>2, <1>5 DEF IsInjective
<1> QED BY <1>6 DEF c

\* The queue's tail: the elements of Append, and no repeat if the new one is new
LEMMA AppendFacts ==
  ASSUME NEW S, NEW s \in Seq(S), NEW e \in S
  PROVE  /\ Range(Append(s, e)) = Range(s) \cup {e}
         /\ IsInjective(s) /\ e \notin Range(s) => IsInjective(Append(s, e))
<1> DEFINE one == <<e>>
<1>1. one \in Seq(S) /\ Len(one) = 1 /\ one[1] = e
  OBVIOUS
<1>2. Append(s, e) = s \o one
  BY AppendIsConcat
<1> HIDE DEF one
<1>3. Range(one) = {one[i] : i \in 1..1}
  BY <1>1, RangeEquality
<1>4. Range(one) = {e}
  BY <1>1, <1>3
<1>5. IsInjective(one)
  <2>1. DOMAIN one = 1..1
    BY <1>1, LenProperties
  <2>2. \A i, j \in 1..1 : i = j
    OBVIOUS
  <2> QED BY <2>1, <2>2 DEF IsInjective
<1>6. Range(s \o one) = Range(s) \cup Range(one)
  BY <1>1, RangeConcatenation
<1>7. IsInjective(s) /\ e \notin Range(s) => IsInjective(s \o one)
  BY <1>1, <1>4, <1>5, ConcatInjective
<1> QED BY <1>2, <1>4, <1>6, <1>7

\* A sequence has finitely many elements
LEMMA RangeFinite ==
  ASSUME NEW S, NEW s \in Seq(S)
  PROVE  IsFiniteSet(Range(s)) /\ Cardinality(Range(s)) \in Nat
<1>1. s \in [1..Len(s) -> S] /\ Len(s) \in Nat
  BY LenProperties
<1>2. s \in Surjection(1..Len(s), Range(s))
  BY <1>1, Fun_RangeProperties
<1>3. IsFiniteSet(1..Len(s))
  BY <1>1, FS_Interval
<1>4. IsFiniteSet(Range(s))
  BY <1>2, <1>3, FS_Surjection
<1> QED BY <1>4, FS_CardinalityType


-----------------------------------------------------------------------------
(* Naturals *)

\* A set of naturals that is not empty has a smallest
LEMMA Smallest ==
  ASSUME NEW T, T \subseteq Nat, T # {}
  PROVE  \E n \in T : \A m \in T : n <= m
<1> DEFINE R == {ss \in Nat \X Nat : ss[1] < ss[2]}
<1>1. IsWellFoundedOn(R, Nat)
  BY NatLessThanWellFounded DEF OpToRel
<1>2. \E n \in T : \A m \in T : ~(<<m, n>> \in R)
  <2> HIDE DEF R
  <2> QED BY <1>1, WFMin
<1>3. PICK n \in T : \A m \in T : ~(<<m, n>> \in R)
  BY <1>2
<1>4. ASSUME NEW m \in T PROVE n <= m
  <2>1. n \in Nat /\ m \in Nat /\ ~(m < n)
    BY <1>3
  <2> QED BY <2>1
<1> QED BY <1>3, <1>4

\* ... and a largest, if it is bounded
LEMMA Largest ==
  ASSUME NEW N \in Nat, NEW S, S \subseteq 0..N, S # {}
  PROVE  \E n \in S : \A m \in S : m <= n
<1> DEFINE T == {n \in Nat : N - n \in S}
<1>1. T \subseteq Nat /\ T # {}
  <2>1. PICK n \in S : TRUE
    OBVIOUS
  <2>2. N - n \in Nat /\ N - (N - n) = n
    OBVIOUS
  <2> QED BY <2>2
<1>2. PICK n \in T : \A m \in T : n <= m
  <2> HIDE DEF T
  <2> QED BY <1>1, Smallest
<1>3. ASSUME NEW m \in S PROVE m <= N - n
  <2>1. N - m \in Nat /\ N - (N - m) = m
    OBVIOUS
  <2>2. N - m \in T
    BY <2>1
  <2> QED BY <1>2, <2>1, <2>2
<1> QED BY <1>2, <1>3

\* Induction over the naturals, for a set
LEMMA SetInduction ==
  ASSUME NEW P, 0 \in P, \A n \in Nat : n \in P => n + 1 \in P
  PROVE  Nat \subseteq P
<1> DEFINE T == {n \in Nat : n \notin P}
<1> SUFFICES ASSUME T # {} PROVE FALSE
  OBVIOUS
<1>1. PICK n \in T : \A m \in T : n <= m
  <2>1. T \subseteq Nat
    OBVIOUS
  <2> HIDE DEF T
  <2> QED BY <2>1, Smallest
<1>2. n # 0 /\ n - 1 \in Nat /\ n - 1 + 1 = n
  OBVIOUS
<1>3. n - 1 \in P
  BY <1>1, <1>2
<1> QED BY <1>2, <1>3

=============================================================================
