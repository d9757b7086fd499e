---------------------------- MODULE FilterProofs ----------------------------
(***************************************************************************)
(* What Kept keeps of a sequence when an element is appended, of two       *)
(* sequences one after the other, and of one sequence with two sets.       *)
(* Kept is defined by a recursive function, so the proofs are by induction *)
(* on the length; Induction takes a set of numbers where the library's     *)
(* theorem takes a predicate.                                              *)
(***************************************************************************)
EXTENDS Filters, SequenceTheorems, WellFoundedInduction, TLAPS

(* A set of numbers with a member has a smallest one.                      *)
LEMMA Smallest ==
    ASSUME NEW T \in SUBSET Nat, T # {}
    PROVE  \E m \in T : \A n \in T : m <= n
<1>1. \E m \in T : \A n \in T : <<n, m>> \notin OpToRel(<, Nat)
  BY NatLessThanWellFounded, WFMin
<1>2. \A m, n \in Nat : n < m => <<n, m>> \in OpToRel(<, Nat)
  BY DEF OpToRel
<1>3. \E m \in T : \A n \in T : ~(n < m)
  BY <1>1, <1>2, Zenon
<1>4. QED
  BY <1>3

(* Induction, with a set of numbers in the place of a predicate.           *)
LEMMA Induction ==
    ASSUME NEW T, 0 \in T, \A n \in Nat : n \in T => n + 1 \in T
    PROVE  Nat \subseteq T
<1> SUFFICES ASSUME Nat \ T # {} PROVE FALSE
  OBVIOUS
<1>1. PICK m \in Nat \ T : \A n \in Nat \ T : m <= n
  BY Smallest
<1>2. m # 0 /\ m - 1 \in Nat
  BY <1>1
<1>3. m - 1 \in T
  BY <1>1, <1>2
<1>4. QED
  BY <1>1, <1>2, <1>3

-----------------------------------------------------------------------------

(* One more element: what was kept before, and the element if it is in K.  *)
KeptUpTo(f, s, K, n) ==
    IF n = 0 THEN <<>>
    ELSE IF s[n] \in K THEN Append(f[n - 1], s[n])
    ELSE f[n - 1]

Fills(f, s, K, m) == f = [n \in 0 .. m |-> KeptUpTo(f, s, K, n)]

(* A function that solves the equation solves it at each point.            *)
LEMMA FillsPoints ==
    ASSUME NEW f, NEW s, NEW K, NEW m \in Nat, Fills(f, s, K, m)
    PROVE  \A n \in 0 .. m : f[n] = KeptUpTo(f, s, K, n)
<1> DEFINE e(n) == KeptUpTo(f, s, K, n)
<1>1. f = [n \in 0 .. m |-> e(n)]
  BY DEF Fills
<1> HIDE DEF e
<1>2. \A n \in 0 .. m : f[n] = e(n)
  BY <1>1
<1>3. QED
  BY <1>2 DEF e

(* And the other way round.                                                *)
LEMMA PointsFill ==
    ASSUME NEW f, NEW s, NEW K, NEW m \in Nat, f = [n \in 0 .. m |-> f[n]],
           \A n \in 0 .. m : f[n] = KeptUpTo(f, s, K, n)
    PROVE  Fills(f, s, K, m)
<1> DEFINE e(n) == KeptUpTo(f, s, K, n)
<1> HIDE DEF e
<1>1. \A n \in 0 .. m : f[n] = e(n)
  BY DEF e
<1>2. f = [n \in 0 .. m |-> e(n)]
  BY <1>1
<1>3. QED
  BY <1>2 DEF e, Fills

(* The recursive equation has a solution, which is built one point after   *)
(* the other.                                                              *)
LEMMA KeptExists ==
    ASSUME NEW S, NEW s \in Seq(S), NEW K
    PROVE  \E f : Fills(f, s, K, Len(s))
<1> DEFINE T == { m \in Nat : \E f : Fills(f, s, K, m) }
<1>1. 0 \in T
  <2> DEFINE f == [n \in 0 .. 0 |-> <<>>]
  <2>1. \A n \in 0 .. 0 : f[n] = KeptUpTo(f, s, K, n)
    BY DEF KeptUpTo
  <2>2. Fills(f, s, K, 0)
    BY <2>1, PointsFill
  <2>3. QED
    BY <2>2
<1>2. ASSUME NEW m \in Nat, m \in T PROVE m + 1 \in T
  <2>1. PICK f : Fills(f, s, K, m)
    BY <1>2
  <2> DEFINE g == [n \in 0 .. (m + 1) |-> IF n = m + 1 THEN KeptUpTo(f, s, K, n) ELSE f[n]]
  <2>2. \A n \in 0 .. m : f[n] = KeptUpTo(f, s, K, n)
    BY <2>1, FillsPoints
  <2>3. \A n \in 0 .. (m + 1) : g[n] = KeptUpTo(f, s, K, n)
    BY <2>2
  <2>4. \A n \in 0 .. (m + 1) : n # 0 => g[n - 1] = f[n - 1]
    OBVIOUS
  <2>5. g = [n \in 0 .. (m + 1) |-> g[n]]
    OBVIOUS
  <2> HIDE DEF g
  <2>6. \A n \in 0 .. (m + 1) : g[n] = KeptUpTo(g, s, K, n)
    BY <2>3, <2>4 DEF KeptUpTo
  <2>7. Fills(g, s, K, m + 1)
    BY <2>5, <2>6, PointsFill
  <2>8. QED
    BY <2>7
<1>3. Nat \subseteq T
  <2> HIDE DEF T
  <2>1. QED
    BY <1>1, <1>2, Induction
<1>4. QED
  BY <1>3, LenProperties

(* So KeptOfFirst, which is chosen to be one, is one.                      *)
LEMMA KeptEquation ==
    ASSUME NEW S, NEW s \in Seq(S), NEW K
    PROVE  Fills(KeptOfFirst(s, K), s, K, Len(s))
<1>1. KeptOfFirst(s, K) = CHOOSE f : Fills(f, s, K, Len(s))
  BY DEF KeptOfFirst, KeptUpTo, Fills
<1>2. QED
  BY <1>1, KeptExists

(* The equation of KeptOfFirst.                                            *)
LEMMA KeptPoints ==
    ASSUME NEW S, NEW s \in Seq(S), NEW K
    PROVE  /\ KeptOfFirst(s, K)[0] = <<>>
           /\ \A n \in 1 .. Len(s) :
                 KeptOfFirst(s, K)[n] =
                     IF s[n] \in K THEN Append(KeptOfFirst(s, K)[n - 1], s[n])
                     ELSE KeptOfFirst(s, K)[n - 1]
<1>1. Len(s) \in Nat
  BY LenProperties
<1>2. \A n \in 0 .. Len(s) : KeptOfFirst(s, K)[n] = KeptUpTo(KeptOfFirst(s, K), s, K, n)
  BY <1>1, KeptEquation, FillsPoints
<1>3. QED
  BY <1>1, <1>2 DEF KeptUpTo

(* What is kept of the first elements is a sequence of members of K.       *)
LEMMA KeptOfFirstType ==
    ASSUME NEW S, NEW s \in Seq(S), NEW K
    PROVE  \A n \in 0 .. Len(s) : KeptOfFirst(s, K)[n] \in Seq(S \intersect K)
<1> DEFINE f == KeptOfFirst(s, K)
           R == S \intersect K
           T == { n \in Nat : n <= Len(s) => f[n] \in Seq(R) }
<1>1. Len(s) \in Nat
  BY LenProperties
<1>2. 0 \in T
  <2>1. f[0] = <<>>
    BY KeptPoints
  <2>2. f[0] \in Seq(R)
    BY <2>1, EmptySeq
  <2> HIDE DEF f
  <2>3. QED
    BY <2>2
<1>3. ASSUME NEW n \in Nat, n \in T PROVE n + 1 \in T
  <2> SUFFICES ASSUME n + 1 <= Len(s) PROVE f[n + 1] \in Seq(R)
    OBVIOUS
  <2>1. f[n] \in Seq(R) /\ n + 1 \in 1 .. Len(s) /\ (n + 1) - 1 = n
    BY <1>1, <1>3
  <2>2. f[n + 1] = IF s[n + 1] \in K THEN Append(f[n], s[n + 1]) ELSE f[n]
    BY <2>1, KeptPoints
  <2>3. s[n + 1] \in S
    BY <2>1, ElementOfSeq
  <2> HIDE DEF f
  <2>4. CASE s[n + 1] \in K
    BY <2>1, <2>2, <2>3, <2>4, AppendProperties
  <2>5. CASE s[n + 1] \notin K
    BY <2>1, <2>2, <2>5
  <2>6. QED
    BY <2>4, <2>5
<1>4. Nat \subseteq T
  <2> HIDE DEF T
  <2>1. QED
    BY <1>2, <1>3, Induction
<1>5. QED
  BY <1>1, <1>4

(* What is kept is of S and of K.                                          *)
LEMMA KeptType ==
    ASSUME NEW S, NEW s \in Seq(S), NEW K
    PROVE  Kept(s, K) \in Seq(S \intersect K) /\ Kept(s, K) \in Seq(S)
<1>1. Len(s) \in 0 .. Len(s)
  BY LenProperties
<1>2. Kept(s, K) \in Seq(S \intersect K)
  BY <1>1, KeptOfFirstType DEF Kept
<1>3. QED
  BY <1>2, SeqMonotonic

(* Nothing is kept of nothing.                                             *)
LEMMA KeptEmpty == \A K : Kept(<<>>, K) = <<>>
<1> TAKE K
<1>1. PICK s \in Seq({}) : s = <<>>
  BY EmptySeq
<1>2. KeptOfFirst(s, K)[0] = <<>>
  BY KeptPoints
<1>3. Kept(s, K) = <<>>
  BY <1>1, <1>2, EmptySeq DEF Kept
<1>4. QED
  BY <1>1, <1>3

(* The first elements do not depend on what comes after them.              *)
LEMMA KeptAppend ==
    ASSUME NEW S, NEW s \in Seq(S), NEW e \in S, NEW K
    PROVE  Kept(Append(s, e), K) = IF e \in K THEN Append(Kept(s, K), e) ELSE Kept(s, K)
<1> DEFINE t == Append(s, e)
           f == KeptOfFirst(s, K)
           g == KeptOfFirst(t, K)
           T == { n \in Nat : n <= Len(s) => g[n] = f[n] }
<1>1. /\ t \in Seq(S) /\ Len(s) \in Nat /\ Len(t) = Len(s) + 1
      /\ t[Len(s) + 1] = e /\ \A i \in 1 .. Len(s) : t[i] = s[i]
  BY AppendProperties, LenProperties
<1> HIDE DEF t
<1>2. /\ g[0] = <<>>
      /\ \A n \in 1 .. Len(t) : g[n] = IF t[n] \in K THEN Append(g[n - 1], t[n]) ELSE g[n - 1]
  BY <1>1, KeptPoints
<1>3. /\ f[0] = <<>>
      /\ \A n \in 1 .. Len(s) : f[n] = IF s[n] \in K THEN Append(f[n - 1], s[n]) ELSE f[n - 1]
  BY KeptPoints
<1>4. Kept(s, K) = f[Len(s)] /\ Kept(t, K) = g[Len(t)]
  BY DEF Kept
<1> HIDE DEF f, g
<1>5. 0 \in T
  BY <1>2, <1>3
<1>6. ASSUME NEW n \in Nat, n \in T PROVE n + 1 \in T
  <2> SUFFICES ASSUME n + 1 <= Len(s) PROVE g[n + 1] = f[n + 1]
    OBVIOUS
  <2>1. g[n] = f[n] /\ n + 1 \in 1 .. Len(s) /\ n + 1 \in 1 .. Len(t) /\ (n + 1) - 1 = n
    BY <1>1, <1>6
  <2>2. QED
    BY <1>1, <1>2, <1>3, <2>1
<1>7. Nat \subseteq T
  <2> HIDE DEF T
  <2>1. QED
    BY <1>5, <1>6, Induction
<1>8. g[Len(s)] = f[Len(s)]
  BY <1>1, <1>7
<1>9. g[Len(t)] = IF e \in K THEN Append(g[Len(s)], e) ELSE g[Len(s)]
  <2>1. Len(t) \in 1 .. Len(t) /\ Len(t) - 1 = Len(s)
    BY <1>1
  <2>2. QED
    BY <1>1, <1>2, <2>1
<1>10. QED
  BY <1>4, <1>8, <1>9 DEF t

(* What is kept of the one, then what is kept of the other.                *)
LEMMA KeptConcat ==
    ASSUME NEW S, NEW s \in Seq(S), NEW t \in Seq(S), NEW K
    PROVE  Kept(s \o t, K) = Kept(s, K) \o Kept(t, K)
<1> DEFINE Splits(u) == Kept(s \o u, K) = Kept(s, K) \o Kept(u, K)
           T == { n \in Nat : \A u \in Seq(S) : Len(u) = n => Splits(u) }
<1>1. 0 \in T
  <2> SUFFICES ASSUME NEW u \in Seq(S), Len(u) = 0 PROVE Splits(u)
    OBVIOUS
  <2>1. u = <<>>
    BY EmptySeq
  <2>2. s \o u = s /\ Kept(s, K) \o <<>> = Kept(s, K)
    BY <2>1, KeptType, ConcatEmptySeq
  <2>3. QED
    BY <2>1, <2>2, KeptEmpty
<1>2. ASSUME NEW n \in Nat, n \in T PROVE n + 1 \in T
  <2> SUFFICES ASSUME NEW u \in Seq(S), Len(u) = n + 1 PROVE Splits(u)
    OBVIOUS
  <2>1. u # <<>>
    BY EmptySeq
  <2>2. PICK v \in Seq(S), e \in S : u = Append(v, e)
    BY <2>1, SequenceEmptyOrAppend
  <2>3. Len(v) = n /\ s \o v \in Seq(S)
    BY <2>2, AppendProperties, LenProperties, ConcatProperties
  <2>4. Kept(s \o v, K) = Kept(s, K) \o Kept(v, K)
    BY <1>2, <2>3
  <2>5. s \o u = Append(s \o v, e)
    <3>1. u = v \o <<e>> /\ <<e>> \in Seq(S) /\ Append(s \o v, e) = (s \o v) \o <<e>>
      BY <2>2, <2>3, AppendIsConcat
    <3>2. QED
      BY <3>1, ConcatAssociative
  <2>6. Kept(s \o u, K) = IF e \in K THEN Append(Kept(s \o v, K), e) ELSE Kept(s \o v, K)
    <3> DEFINE w == s \o v
    <3>1. w \in Seq(S) /\ s \o u = Append(w, e)
      BY <2>3, <2>5
    <3> HIDE DEF w
    <3>2. Kept(s \o u, K) = IF e \in K THEN Append(Kept(w, K), e) ELSE Kept(w, K)
      BY <3>1, KeptAppend
    <3>3. QED
      BY <3>2 DEF w
  <2>7. Kept(u, K) = IF e \in K THEN Append(Kept(v, K), e) ELSE Kept(v, K)
    BY <2>2, KeptAppend
  <2>8. Kept(s, K) \in Seq(S) /\ Kept(v, K) \in Seq(S)
    BY KeptType
  <2>9. Kept(s, K) \o Append(Kept(v, K), e) = Append(Kept(s, K) \o Kept(v, K), e)
    <3> DEFINE a == Kept(s, K)  b == Kept(v, K)
    <3>1. a \in Seq(S) /\ b \in Seq(S)
      BY <2>8
    <3> HIDE DEF a, b
    <3>2. Append(b, e) = b \o <<e>> /\ <<e>> \in Seq(S) /\ a \o b \in Seq(S)
      BY <3>1, AppendIsConcat, ConcatProperties
    <3>3. Append(a \o b, e) = (a \o b) \o <<e>>
      BY <3>2, AppendIsConcat
    <3>4. a \o Append(b, e) = Append(a \o b, e)
      BY <3>1, <3>2, <3>3, ConcatAssociative
    <3>5. QED
      BY <3>4 DEF a, b
  <2>10. QED
    BY <2>4, <2>6, <2>7, <2>9
<1>3. Nat \subseteq T
  <2> HIDE DEF T
  <2>1. QED
    BY <1>1, <1>2, Induction
<1>4. QED
  BY <1>3, LenProperties

(* An element that is not kept may be anywhere.                            *)
LEMMA KeptMiddle ==
    ASSUME NEW S, NEW s \in Seq(S), NEW t \in Seq(S), NEW e \in S, NEW K, e \notin K
    PROVE  Kept(Append(s, e) \o t, K) = Kept(s \o t, K)
<1>1. PICK u \in Seq(S) : u = Append(s, e)
  BY AppendProperties
<1>2. Kept(u \o t, K) = Kept(u, K) \o Kept(t, K)
  BY KeptConcat
<1>3. Kept(s \o t, K) = Kept(s, K) \o Kept(t, K)
  BY KeptConcat
<1>4. Kept(u, K) = Kept(s, K)
  BY <1>1, KeptAppend
<1>5. QED
  BY <1>1, <1>2, <1>3, <1>4

(* Of K only the elements that are in s matter.                            *)
LEMMA KeptSame ==
    ASSUME NEW S, NEW s \in Seq(S), NEW K, NEW L, \A i \in 1 .. Len(s) : s[i] \in K <=> s[i] \in L
    PROVE  Kept(s, K) = Kept(s, L)
<1> DEFINE f == KeptOfFirst(s, K)
           g == KeptOfFirst(s, L)
           T == { n \in Nat : n <= Len(s) => g[n] = f[n] }
<1>1. /\ f[0] = <<>> /\ g[0] = <<>> /\ Len(s) \in Nat
      /\ \A n \in 1 .. Len(s) : f[n] = IF s[n] \in K THEN Append(f[n - 1], s[n]) ELSE f[n - 1]
      /\ \A n \in 1 .. Len(s) : g[n] = IF s[n] \in L THEN Append(g[n - 1], s[n]) ELSE g[n - 1]
  BY KeptPoints, LenProperties
<1>2. Kept(s, K) = f[Len(s)] /\ Kept(s, L) = g[Len(s)]
  BY DEF Kept
<1> HIDE DEF f, g
<1>3. 0 \in T
  BY <1>1
<1>4. ASSUME NEW n \in Nat, n \in T PROVE n + 1 \in T
  <2> SUFFICES ASSUME n + 1 <= Len(s) PROVE g[n + 1] = f[n + 1]
    OBVIOUS
  <2>1. g[n] = f[n] /\ n + 1 \in 1 .. Len(s) /\ (n + 1) - 1 = n
    BY <1>1, <1>4
  <2>2. QED
    BY <1>1, <2>1
<1>5. Nat \subseteq T
  <2> HIDE DEF T
  <2>1. QED
    BY <1>3, <1>4, Induction
<1>6. QED
  BY <1>1, <1>2, <1>5

(* All is kept of a sequence whose elements are all in K.                  *)
LEMMA KeptAll ==
    ASSUME NEW S, NEW s \in Seq(S), NEW K, \A i \in 1 .. Len(s) : s[i] \in K
    PROVE  Kept(s, K) = s
<1> DEFINE Whole(u) == (\A i \in 1 .. Len(u) : u[i] \in K) => Kept(u, K) = u
           T == { n \in Nat : \A u \in Seq(S) : Len(u) = n => Whole(u) }
<1>1. 0 \in T
  <2> SUFFICES ASSUME NEW u \in Seq(S), Len(u) = 0 PROVE Whole(u)
    OBVIOUS
  <2>1. u = <<>>
    BY EmptySeq
  <2>2. QED
    BY <2>1, KeptEmpty
<1>2. ASSUME NEW n \in Nat, n \in T PROVE n + 1 \in T
  <2> SUFFICES ASSUME NEW u \in Seq(S), Len(u) = n + 1, \A i \in 1 .. Len(u) : u[i] \in K
               PROVE  Kept(u, K) = u
    OBVIOUS
  <2>1. u # <<>>
    BY EmptySeq
  <2>2. PICK v \in Seq(S), e \in S : u = Append(v, e)
    BY <2>1, SequenceEmptyOrAppend
  <2>3. /\ Len(v) \in Nat /\ Len(u) = Len(v) + 1 /\ u[Len(v) + 1] = e
        /\ \A i \in 1 .. Len(v) : u[i] = v[i]
    BY <2>2, AppendProperties, LenProperties
  <2>4. Len(v) = n /\ e \in K /\ \A i \in 1 .. Len(v) : v[i] \in K
    BY <2>3
  <2>5. Kept(v, K) = v
    BY <1>2, <2>4
  <2>6. Kept(u, K) = Append(Kept(v, K), e)
    BY <2>2, <2>4, KeptAppend
  <2>7. QED
    BY <2>2, <2>5, <2>6
<1>3. Nat \subseteq T
  <2> HIDE DEF T
  <2>1. QED
    BY <1>1, <1>2, Induction
<1>4. QED
  BY <1>3, LenProperties

(* And nothing of one that has no element in K.                            *)
LEMMA KeptNone ==
    ASSUME NEW S, NEW s \in Seq(S), NEW K, \A i \in 1 .. Len(s) : s[i] \notin K
    PROVE  Kept(s, K) = <<>>
<1>1. Kept(s, K) = Kept(s, {})
  BY KeptSame
<1>2. Kept(s, {}) \in Seq(S \intersect {})
  BY KeptType
<1>3. S \intersect {} = {}
  OBVIOUS
<1>4. Kept(s, {}) \in Seq({})
  BY <1>2, <1>3
<1>5. QED
  <2> DEFINE k == Kept(s, {})
  <2>1. k \in Seq({})
    BY <1>4
  <2> HIDE DEF k
  <2>2. k = <<>>
    <3> SUFFICES ASSUME k # <<>> PROVE FALSE
      OBVIOUS
    <3>1. PICK v \in Seq({}), e \in {} : k = Append(v, e)
      BY <2>1, SequenceEmptyOrAppend
    <3>2. QED
      BY <3>1
  <2>3. QED
    BY <1>1, <2>2 DEF k
=============================================================================
