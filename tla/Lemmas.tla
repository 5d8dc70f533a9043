------------------------------- MODULE Lemmas -------------------------------
(***************************************************************************)
(* Lemmas that several proofs need: how often an element occurs in a       *)
(* sequence, and what Append, Tail and taking an element out do to that    *)
(* number; the least counterexample as a principle of induction; what      *)
(* concatenation and parts of sequences hold; the sums of CheckSum.        *)
(***************************************************************************)
EXTENDS Integers, Sequences, FiniteSets, CheckSum, FiniteSetTheorems,
        FunctionTheorems, SequenceTheorems, WellFoundedInduction, TLAPS

(* Where in a sequence of n elements a frame is.                            *)
Where(s, n, f) == {i \in 1 .. n : s[i] = f}

LEMMA AtFinite ==
  ASSUME NEW s, NEW n \in Nat, NEW f
  PROVE  IsFiniteSet(Where(s, n, f)) /\ Cardinality(Where(s, n, f)) \in Nat
  <1>1. IsFiniteSet(1 .. n)
    BY FS_Interval
  <1>2. Where(s, n, f) \in SUBSET (1 .. n)
    BY DEF Where
  <1>3. IsFiniteSet(Where(s, n, f))
    BY <1>1, <1>2, FS_Subset
  <1> QED BY <1>3, FS_CardinalityType

LEMMA CountAdded ==
  ASSUME NEW s, NEW t, NEW n \in Nat, NEW m \in Nat, m = n + 1, NEW f,
         \A i \in 1 .. n : t[i] = s[i]
  PROVE  Cardinality(Where(t, m, f)) = Cardinality(Where(s, n, f)) + IF t[m] = f THEN 1 ELSE 0
  <1>1. IsFiniteSet(Where(s, n, f)) /\ Cardinality(Where(s, n, f)) \in Nat
    BY AtFinite
  <1>2. m \notin Where(s, n, f)
    BY DEF Where
  <1>3. CASE t[m] = f
    <2>1. Where(t, m, f) = Where(s, n, f) \cup {m}
      BY <1>3 DEF Where
    <2> QED BY <1>1, <1>2, <1>3, <2>1, FS_AddElement
  <1>4. CASE t[m] # f
    <2>1. Where(t, m, f) = Where(s, n, f)
      BY <1>4 DEF Where
    <2> QED BY <1>1, <1>4, <2>1
  <1> QED BY <1>3, <1>4

(* Taking the element at k out moves those behind it by one.                *)
LEMMA CountRemoved ==
  ASSUME NEW s, NEW t, NEW n \in Nat \ {0}, NEW k \in 1 .. n, NEW f,
         \A i \in 1 .. n - 1 : t[i] = s[IF i < k THEN i ELSE i + 1]
  PROVE  Cardinality(Where(s, n, f)) = Cardinality(Where(t, n - 1, f)) + IF s[k] = f THEN 1 ELSE 0
  <1> DEFINE S == Where(s, n, f) \ {k}
             T == Where(t, n - 1, f)
             m == [i \in T |-> IF i < k THEN i ELSE i + 1]
  <1>1. IsFiniteSet(T) /\ Cardinality(T) \in Nat
    BY AtFinite
  <1>2. IsFiniteSet(Where(s, n, f)) /\ Cardinality(Where(s, n, f)) \in Nat
    BY AtFinite
  <1>3. m \in [T -> S]
    BY DEF Where
  <1>4. \A a, b \in T : m[a] = m[b] => a = b
    BY DEF Where
  <1>5. \A c \in S : \E a \in T : m[a] = c
    <2> SUFFICES ASSUME NEW c \in S PROVE \E a \in T : m[a] = c
      OBVIOUS
    <2>1. CASE c < k
      <3>1. c \in T /\ m[c] = c
        BY <2>1 DEF Where
      <3> QED BY <3>1
    <2>2. CASE c > k
      <3>1. c - 1 \in T /\ m[c - 1] = c
        BY <2>2 DEF Where
      <3> QED BY <3>1
    <2> QED BY <2>1, <2>2 DEF Where
  <1>6. ExistsBijection(T, S)
    <2> HIDE DEF S, T, m
    <2>1. m \in Bijection(T, S)
      BY <1>3, <1>4, <1>5, Fun_IsBij
    <2> QED BY <2>1, Fun_ExistsBij
  <1>7. Cardinality(S) = Cardinality(T)
    BY <1>1, <1>6, FS_Bijection
  <1>8. Cardinality(S) = IF k \in Where(s, n, f) THEN Cardinality(Where(s, n, f)) - 1
                                              ELSE Cardinality(Where(s, n, f))
    BY <1>2, FS_RemoveElement
  <1>9. k \in Where(s, n, f) <=> s[k] = f
    BY DEF Where
  <1> QED BY <1>1, <1>2, <1>7, <1>8, <1>9

-----------------------------------------------------------------------------
Of(s, f) == Cardinality({i \in DOMAIN s : s[i] = f})
One(e, f) == IF e = f THEN 1 ELSE 0

LEMMA OfAt ==
  ASSUME NEW S, NEW s \in Seq(S), NEW f PROVE Of(s, f) = Cardinality(Where(s, Len(s), f))
  <1>1. {i \in DOMAIN s : s[i] = f} = Where(s, Len(s), f)
    BY DEF Where
  <1> QED BY <1>1 DEF Of

LEMMA OfTyped ==
  ASSUME NEW S, NEW s \in Seq(S), NEW f PROVE Of(s, f) \in Nat
  <1>1. Len(s) \in Nat
    OBVIOUS
  <1> QED BY <1>1, OfAt, AtFinite

LEMMA OfNone ==
  ASSUME NEW S, NEW s \in Seq(S), NEW f, f \notin S PROVE Of(s, f) = 0
  <1>1. {i \in DOMAIN s : s[i] = f} = {}
    OBVIOUS
  <1> QED BY <1>1, FS_EmptySet DEF Of

LEMMA OfAppend ==
  ASSUME NEW S, NEW s \in Seq(S), NEW e \in S, NEW f
  PROVE  Of(Append(s, e), f) = Of(s, f) + One(e, f)
  <1> DEFINE t == Append(s, e)
  <1>1. t \in Seq(S) /\ Len(t) = Len(s) + 1 /\ Len(s) \in Nat /\ t[Len(s) + 1] = e
    OBVIOUS
  <1>2. \A i \in 1 .. Len(s) : t[i] = s[i]
    OBVIOUS
  <1> HIDE DEF t
  <1>3. Cardinality(Where(t, Len(t), f)) = Cardinality(Where(s, Len(s), f)) + IF e = f THEN 1 ELSE 0
    BY <1>1, <1>2, CountAdded
  <1>4. Of(t, f) = Of(s, f) + One(e, f)
    BY <1>1, <1>3, OfAt DEF One
  <1> QED BY <1>4 DEF t

LEMMA OfTail ==
  ASSUME NEW S, NEW s \in Seq(S), s # <<>>, NEW f
  PROVE  Of(s, f) = Of(Tail(s), f) + One(Head(s), f)
  <1> DEFINE t == Tail(s)
  <1>1. t \in Seq(S) /\ Len(t) = Len(s) - 1 /\ Len(s) \in Nat \ {0} /\ s[1] = Head(s)
    OBVIOUS
  <1>2. \A i \in 1 .. Len(s) - 1 : t[i] = s[IF i < 1 THEN i ELSE i + 1]
    OBVIOUS
  <1>3. 1 \in 1 .. Len(s)
    BY <1>1
  <1> HIDE DEF t
  <1>4. Cardinality(Where(s, Len(s), f)) = Cardinality(Where(t, Len(s) - 1, f)) + IF s[1] = f THEN 1 ELSE 0
    <2> DEFINE n == Len(s)
    <2>1. n \in Nat \ {0} /\ 1 \in 1 .. n /\ \A i \in 1 .. n - 1 : t[i] = s[IF i < 1 THEN i ELSE i + 1]
      BY <1>1, <1>2, <1>3
    <2> HIDE DEF n
    <2>2. Cardinality(Where(s, n, f)) = Cardinality(Where(t, n - 1, f)) + IF s[1] = f THEN 1 ELSE 0
      BY <2>1, CountRemoved
    <2> QED BY <2>2 DEF n
  <1>5. Of(s, f) = Of(t, f) + One(Head(s), f)
    BY <1>1, <1>4, OfAt DEF One
  <1> QED BY <1>5 DEF t

----------------------------------------------------------------------------
(* What holds of 0, and of n + 1 when of n, holds of every number: else     *)
(* there were a least one of which it does not.                             *)
LEMMA Upward ==
  ASSUME NEW T, 0 \in T, \A n \in Nat : n \in T => n + 1 \in T
  PROVE  \A n \in Nat : n \in T
<1> DEFINE U == {n \in Nat : n \notin T}
           R == OpToRel(<, Nat)
<1> SUFFICES ASSUME U # {} PROVE FALSE
  OBVIOUS
<1>1. IsWellFoundedOn(R, Nat)
  BY NatLessThanWellFounded
<1>2. \A x, y \in Nat : y < x => <<y, x>> \in R
  BY DEF OpToRel
<1>3. U \subseteq Nat
  OBVIOUS
<1> HIDE DEF R
<1>4. \E x \in U : \A y \in U : ~(<<y, x>> \in R)
  <2> HIDE DEF U
  <2> QED
   BY <1>1, <1>3, WFMin
<1>5. PICK x \in U : \A y \in U : ~(<<y, x>> \in R)
  BY <1>4
<1>6. x \in Nat \ {0} /\ x - 1 \in Nat /\ x - 1 + 1 = x /\ x - 1 < x
  OBVIOUS
<1>7. x - 1 \notin U
  BY <1>2, <1>5, <1>6
<1> QED
  BY <1>6, <1>7

(* The sums of a sequence of bytes, each from the one before.               *)
LEMMA SumsAre ==
  ASSUME NEW s \in Seq(0 .. 7)
  PROVE  Sums(s) = [n \in 0 .. Len(s) |-> IF n = 0 THEN 0 ELSE (Sums(s)[n - 1] + s[n]) % 8]
<1> DEFINE N == Len(s)
           Is(g, m) == g = [n \in 0 .. m |-> IF n = 0 THEN 0 ELSE (g[n - 1] + s[n]) % 8]
           T == {m \in Nat : m <= N => \E g : Is(g, m)}
<1>0. N \in Nat
  OBVIOUS
<1> HIDE DEF N
<1>1. 0 \in T
  <2> DEFINE g == [n \in 0 .. 0 |-> 0]
  <2>1. Is(g, 0)
    OBVIOUS
  <2> QED
    BY <2>1
<1>2. ASSUME NEW m \in Nat, m \in T PROVE m + 1 \in T
  <2> SUFFICES ASSUME m + 1 <= N PROVE \E g : Is(g, m + 1)
    OBVIOUS
  <2>1. PICK g : Is(g, m)
    BY <1>0, <1>2
  <2> DEFINE h == [n \in 0 .. m + 1 |-> IF n = m + 1 THEN (g[m] + s[m + 1]) % 8 ELSE g[n]]
  <2>2. \A n \in 0 .. m + 1 : h[n] = IF n = 0 THEN 0 ELSE (h[n - 1] + s[n]) % 8
    <3> TAKE n \in 0 .. m + 1
    <3>1. CASE n = m + 1
      BY <3>1
    <3>2. CASE n # m + 1
      <4>1. n \in 0 .. m /\ h[n] = g[n]
        BY <3>2
      <4>2. n # 0 => n - 1 \in 0 .. m + 1 /\ n - 1 # m + 1
        BY <4>1
      <4>3. n # 0 => h[n - 1] = g[n - 1]
        BY <4>2
      <4> QED
        BY <2>1, <4>1, <4>3
    <3> QED
      BY <3>1, <3>2
  <2>3. h = [n \in 0 .. m + 1 |-> IF n = 0 THEN 0 ELSE (h[n - 1] + s[n]) % 8]
    <3>1. h = [n \in 0 .. m + 1 |-> h[n]]
      OBVIOUS
    <3> HIDE DEF h
    <3> QED
      BY <2>2, <3>1
  <2> QED
    BY <2>3
<1>3. N \in T
  BY <1>0, <1>1, <1>2, Upward
<1>4. PICK g : Is(g, N)
  BY <1>0, <1>3
<1>5. Sums(s) = CHOOSE f : f = [n \in 0 .. Len(s) |-> IF n = 0 THEN 0 ELSE (f[n - 1] + s[n]) % 8]
  BY DEF Sums
<1>6. Is(Sums(s), N)
  BY <1>4, <1>5 DEF N
<1> QED
  BY <1>6 DEF N

(* They are bytes.                                                          *)
LEMMA SumsTyped ==
  ASSUME NEW s \in Seq(0 .. 7)
  PROVE  /\ Sums(s)[0] = 0
         /\ \A n \in 1 .. Len(s) : Sums(s)[n] = (Sums(s)[n - 1] + s[n]) % 8
         /\ \A n \in 0 .. Len(s) : Sums(s)[n] \in 0 .. 7
<1> DEFINE N == Len(s)
           f == Sums(s)
           T == {m \in Nat : m <= N => f[m] \in 0 .. 7}
<1>0. N \in Nat
  OBVIOUS
<1>1. f = [n \in 0 .. N |-> IF n = 0 THEN 0 ELSE (f[n - 1] + s[n]) % 8]
  BY SumsAre
<1>2. \A n \in 1 .. N : s[n] \in 0 .. 7
  OBVIOUS
<1> HIDE DEF N, f
<1>3. f[0] = 0 /\ \A n \in 1 .. N : f[n] = (f[n - 1] + s[n]) % 8
  BY <1>0, <1>1
<1>4. 0 \in T
  BY <1>3
<1>5. ASSUME NEW m \in Nat, m \in T PROVE m + 1 \in T
  <2> SUFFICES ASSUME m + 1 <= N PROVE f[m + 1] \in 0 .. 7
    OBVIOUS
  <2>1. m + 1 \in 1 .. N /\ m + 1 - 1 = m /\ m <= N
    BY <1>0
  <2>2. f[m] \in 0 .. 7 /\ f[m + 1] = (f[m] + s[m + 1]) % 8 /\ s[m + 1] \in 0 .. 7
    BY <1>2, <1>3, <1>5, <2>1
  <2> QED
    BY <2>2
<1>6. \A m \in Nat : m \in T
  BY <1>4, <1>5, Upward
<1>7. \A m \in 0 .. N : f[m] \in 0 .. 7
  BY <1>0, <1>6
<1> QED
  BY <1>3, <1>7 DEF N, f

LEMMA ConcatGives ==
  ASSUME NEW S, NEW a \in Seq(S), NEW b \in Seq(S)
  PROVE  /\ a \o b \in Seq(S)
         /\ Len(a) \in Nat /\ Len(b) \in Nat /\ Len(a \o b) = Len(a) + Len(b)
         /\ \A i \in 1 .. Len(a) : (a \o b)[i] = a[i]
         /\ \A i \in 1 .. Len(b) : (a \o b)[Len(a) + i] = b[i]
<1>1. Len(a) \in Nat /\ Len(b) \in Nat
  OBVIOUS
<1>2. /\ a \o b \in Seq(S) /\ Len(a \o b) = Len(a) + Len(b)
      /\ \A i \in 1 .. Len(a) + Len(b) : (a \o b)[i] = IF i <= Len(a) THEN a[i] ELSE b[i - Len(a)]
  BY ConcatProperties
<1> DEFINE m == Len(a)
           n == Len(b)
<1>3. ASSUME NEW i \in 1 .. m PROVE i \in 1 .. m + n /\ i <= m
  BY <1>1
<1>4. ASSUME NEW i \in 1 .. n PROVE m + i \in 1 .. m + n /\ ~(m + i <= m) /\ m + i - m = i
  BY <1>1
<1> QED
  BY <1>1, <1>2, <1>3, <1>4

LEMMA SubSeqGrows ==
  ASSUME NEW S, NEW s \in Seq(S), NEW i \in 1 .. Len(s)
  PROVE  Append(SubSeq(s, 1, i - 1), s[i]) = SubSeq(s, 1, i)
BY SubSeqRecursiveSecond

LEMMA SubSeqWhole ==
  ASSUME NEW S, NEW s \in Seq(S)
  PROVE  SubSeq(s, 1, Len(s)) = s /\ SubSeq(s, 1, 0) = <<>>
BY SubSeqFull, SubSeqEmpty

LEMMA LenIn ==
  ASSUME NEW S, NEW d \in Seq(S), NEW k \in Nat, Len(d) <= k
  PROVE  Len(d) \in 0 .. k
<1> DEFINE n == Len(d)
<1>1. n \in Nat /\ n <= k
  OBVIOUS
<1> HIDE DEF n
<1>2. n \in 0 .. k
  BY <1>1
<1> QED
  BY <1>2 DEF n

LEMMA AppendHas ==
  ASSUME NEW S, NEW s \in Seq(S), NEW x \in S
  PROVE  \A i \in DOMAIN Append(s, x) :
           Append(s, x)[i] = x \/ \E j \in DOMAIN s : Append(s, x)[i] = s[j]
<1> DEFINE n == Len(s)
           z == Append(s, x)
<1>1. n \in Nat /\ DOMAIN z = 1 .. n + 1 /\ DOMAIN s = 1 .. n
      /\ z[n + 1] = x /\ \A i \in 1 .. n : z[i] = s[i]
  OBVIOUS
<1> HIDE DEF n, z
<1>2. \A i \in 1 .. n + 1 : i = n + 1 \/ i \in 1 .. n
  BY <1>1
<1> QED
  BY <1>1, <1>2 DEF z

LEMMA TailHas ==
  ASSUME NEW S, NEW s \in Seq(S), s # <<>>
  PROVE  /\ Head(s) \in S /\ Tail(s) \in Seq(S) /\ \E i \in DOMAIN s : Head(s) = s[i]
         /\ \A i \in DOMAIN Tail(s) : \E j \in DOMAIN s : Tail(s)[i] = s[j]
<1> DEFINE n == Len(s)
           z == Tail(s)
           m == Len(z)
<1>1. n \in Nat /\ n > 0 /\ DOMAIN s = 1 .. n /\ Head(s) = s[1] /\ Head(s) \in S
  BY EmptySeq
<1>2. z \in Seq(S) /\ m = n - 1 /\ \A i \in 1 .. m : z[i] = s[i + 1]
  <2>1. z \in Seq(S)
    BY HeadTailProperties
  <2>2. m = n - 1
    BY HeadTailProperties
  <2>3. \A i \in 1 .. m : z[i] = s[i + 1]
    BY HeadTailProperties
  <2> HIDE DEF z, m, n
  <2> QED
    BY <2>1, <2>2, <2>3
<1>3. DOMAIN z = 1 .. m
  BY <1>2
<1> HIDE DEF z, m, n
<1>4. \A i \in 1 .. m : i + 1 \in 1 .. n
  BY <1>1, <1>2
<1>5. 1 \in 1 .. n
  BY <1>1
<1> QED
  BY <1>1, <1>2, <1>3, <1>4, <1>5 DEF z
=============================================================================
