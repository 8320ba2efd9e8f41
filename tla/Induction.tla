----------------------------- MODULE Induction ------------------------------
(***************************************************************************)
(* Induction as facts about sets of natural numbers, sequences taken apart *)
(* from their beginning, and what FlattenSeq, a recursive function of      *)
(* SequencesExt, computes for every sequence.                              *)
(***************************************************************************)
EXTENDS Integers, Sequences, SequencesExt, SequenceTheorems, WellFoundedInduction, TLAPS

LessOnNat == OpToRel(<, Nat)

\* The order of the natural numbers, as a relation.
LEMMA LessPairs == \A x, y \in Nat : <<x, y>> \in LessOnNat <=> x < y
  BY DEF LessOnNat, OpToRel

\* A set of natural numbers with a member has a least one.
LEMMA LeastNatural ==
  ASSUME NEW T \in SUBSET Nat, T # {}
  PROVE  \E x \in T : \A y \in T : x <= y
<1>1. IsWellFoundedOn(LessOnNat, Nat)
  BY NatLessThanWellFounded DEF LessOnNat
<1>2. T \subseteq Nat
  OBVIOUS
<1>3. PICK x \in T : \A y \in T : ~ (<<y, x>> \in LessOnNat)
  <2> HIDE DEF LessOnNat
  <2> QED
    BY <1>1, <1>2, WFMin
<1>4. ASSUME NEW y \in T PROVE x <= y
  <2>1. ~ (y < x)
    BY <1>3, LessPairs
  <2> QED
    BY <2>1
<1> QED
  BY <1>4

\* A set that has 0, and with a number the next one, has every number.
LEMMA SetInduction ==
  ASSUME NEW T, 0 \in T, \A n \in Nat : n \in T => n + 1 \in T
  PROVE  Nat \subseteq T
<1> SUFFICES ASSUME Nat \ T # {} PROVE FALSE
  OBVIOUS
<1>1. PICK x \in Nat \ T : \A y \in Nat \ T : x <= y
  BY LeastNatural
<1>2. x # 0 /\ x - 1 \in Nat
  OBVIOUS
<1>3. x - 1 \in T
  BY <1>1, <1>2
<1>4. (x - 1) + 1 = x
  BY <1>2
<1> QED
  BY <1>2, <1>3, <1>4

\* The same up to a number: from 1 to n.
LEMMA UpToInduction ==
  ASSUME NEW n \in Nat, NEW T, n > 0 => 1 \in T,
         \A i \in 1 .. n - 1 : i \in T => i + 1 \in T
  PROVE  1 .. n \subseteq T
<1> DEFINE U == { i \in Nat : i \in 1 .. n => i \in T }
<1>1. 0 \in U
  OBVIOUS
<1>2. ASSUME NEW i \in Nat, i \in U PROVE i + 1 \in U
  <2>1. CASE i = 0
    BY <2>1
  <2>2. CASE i \in 1 .. n - 1
    BY <1>2, <2>2
  <2>3. CASE i # 0 /\ i \notin 1 .. n - 1
    BY <2>3
  <2> QED
    BY <2>1, <2>2, <2>3
<1>3. Nat \subseteq U
  <2> HIDE DEF U
  <2> QED
    BY <1>1, <1>2, SetInduction
<1> QED
  BY <1>3

\* A set that has every number whose predecessors it has, has every number.
LEMMA StrongInduction ==
  ASSUME NEW T, \A n \in Nat : (\A k \in Nat : k < n => k \in T) => n \in T
  PROVE  Nat \subseteq T
<1> SUFFICES ASSUME Nat \ T # {} PROVE FALSE
  OBVIOUS
<1>1. PICK x \in Nat \ T : \A y \in Nat \ T : x <= y
  BY LeastNatural
<1>2. \A k \in Nat : k < x => k \in T
  BY <1>1
<1> QED
  BY <1>1, <1>2

-----------------------------------------------------------------------------
(* Sequences from their beginning *)

\* What is left of a sequence at a position.
From(s, n) == SubSeq(s, n, Len(s))

\* The first of what is left of a sequence.
LEMMA TakeOne ==
  ASSUME NEW S, NEW s \in Seq(S), NEW n \in Nat \ {0}, NEW c \in S, NEW t \in Seq(S),
         From(s, n) = Cons(c, t)
  PROVE  n \in 1 .. Len(s) /\ s[n] = c /\ t = From(s, n + 1)
<1>0. SubSeq(s, n, Len(s)) = <<c>> \o t
  BY DEF From, Cons
<1>1. Len(s) \in Nat /\ \A i \in 1 .. Len(s) : s[i] \in S
  BY LenProperties, ElementOfSeq
<1>2. /\ <<c>> \in Seq(S) /\ Len(<<c>>) = 1 /\ <<c>>[1] = c
  OBVIOUS
<1>3. Len(<<c>> \o t) > 0 /\ (<<c>> \o t)[1] = c
  <2>1. Len(t) \in Nat
    BY LenProperties
  <2>2. /\ Len(<<c>> \o t) = Len(<<c>>) + Len(t)
        /\ \A i \in 1 .. Len(<<c>>) + Len(t) :
             (<<c>> \o t)[i] = IF i <= Len(<<c>>) THEN <<c>>[i] ELSE t[i - Len(<<c>>)]
    BY <1>2, ConcatProperties
  <2>3. 1 \in 1 .. Len(<<c>>) + Len(t) /\ 1 <= Len(<<c>>)
    BY <1>2, <2>1
  <2> QED
    BY <1>2, <2>1, <2>2, <2>3
<1>4. n <= Len(s)
  <2> SUFFICES ASSUME ~(n <= Len(s)) PROVE FALSE
    OBVIOUS
  <2>1. SubSeq(s, n, Len(s)) = <<>>
    BY <1>1, SubSeqEmpty
  <2>2. Len(<<>>) = 0
    BY EmptySeq
  <2> QED
    BY <1>0, <1>3, <2>1, <2>2
<1>5. n \in 1 .. Len(s) /\ Len(s) \in n .. Len(s)
  BY <1>1, <1>4
<1> DEFINE u == SubSeq(s, n + 1, Len(s))
<1>6. SubSeq(s, n, Len(s)) = << s[n] >> \o u
  BY <1>5, SubSeqRecursiveFirst
<1>7. u \in Seq(S)
  <2>1. \A i \in n + 1 .. Len(s) : s[i] \in S
    BY <1>1
  <2> QED
    BY <1>1, <2>1, SubSeqProperties
<1> HIDE DEF u
<1>8. s[n] \in S /\ << s[n] >> \in Seq(S) /\ Len(<< s[n] >>) = 1 /\ << s[n] >>[1] = s[n]
  BY <1>1, <1>5
<1>9. (<< s[n] >> \o u)[1] = s[n]
  <2>1. Len(u) \in Nat
    BY <1>7, LenProperties
  <2>2. \A i \in 1 .. Len(<< s[n] >>) + Len(u) :
             (<< s[n] >> \o u)[i] = IF i <= Len(<< s[n] >>) THEN << s[n] >>[i] ELSE u[i - Len(<< s[n] >>)]
    BY <1>7, <1>8, ConcatProperties
  <2>3. 1 \in 1 .. Len(<< s[n] >>) + Len(u) /\ 1 <= Len(<< s[n] >>)
    BY <1>8, <2>1
  <2> QED
    BY <1>8, <2>2, <2>3
<1>10. s[n] = c
  BY <1>0, <1>3, <1>6, <1>9
<1>11. u = t
  <2>1. <<c>> \o u = <<c>> \o t
    BY <1>0, <1>6, <1>10
  <2>2. \A v, w, x \in Seq(S) : v \o w = v \o x => w = x
    BY ConcatSimplifications
  <2> QED
    BY <1>2, <1>7, <2>1, <2>2
<1> QED
  BY <1>5, <1>10, <1>11 DEF u, From

\* A sequence is its first member and the others.
LEMMA HeadThenTail ==
  ASSUME NEW S, NEW t \in Seq(S), t # <<>>
  PROVE  t = Cons(Head(t), Tail(t)) /\ Head(t) \in S /\ Tail(t) \in Seq(S)
<1>1. Len(t) \in Nat \ {0} /\ Head(t) = t[1] /\ SubSeq(t, 1, Len(t)) = t
  BY EmptySeq, SubSeqFull
<1>2. 1 \in 1 .. Len(t) /\ Len(t) \in 1 .. Len(t)
  BY <1>1
<1>3. SubSeq(t, 1, Len(t)) = <<t[1]>> \o SubSeq(t, 2, Len(t))
  BY <1>2, SubSeqRecursiveFirst
<1>4. Tail(t) = SubSeq(t, 2, Len(t))
  BY TailIsSubSeq
<1>5. Head(t) \in S /\ Tail(t) \in Seq(S)
  BY HeadTailProperties
<1> QED
  BY <1>1, <1>3, <1>4, <1>5 DEF Cons

\* Head and tail of a sequence that is put together of them.
LEMMA ConsParts ==
  ASSUME NEW S, NEW c \in S, NEW s \in Seq(S)
  PROVE  Cons(c, s) \in Seq(S) /\ Cons(c, s) # <<>> /\ Head(Cons(c, s)) = c /\ Tail(Cons(c, s)) = s
<1> DEFINE h == <<c>>
           t == h \o s
<1>1. h \in Seq(S) /\ Len(h) = 1 /\ h[1] = c /\ Len(s) \in Nat
  BY LenProperties
<1>2. /\ t \in Seq(S) /\ Len(t) = Len(h) + Len(s)
      /\ \A i \in 1 .. Len(h) + Len(s) : t[i] = IF i <= Len(h) THEN h[i] ELSE s[i - Len(h)]
  <2> HIDE DEF h
  <2> QED
    BY <1>1, ConcatProperties
<1>3. t = Cons(c, s)
  BY DEF Cons
<1> HIDE DEF h, t
<1>4. t # <<>> /\ t[1] = c /\ Head(t) = t[1]
  <2>1. 1 \in 1 .. Len(h) + Len(s) /\ Len(t) # 0
    BY <1>1, <1>2
  <2>2. Len(<<>>) = 0
    BY EmptySeq
  <2>3. t # <<>>
    BY <2>1, <2>2
  <2>4. t[1] = c
    BY <1>1, <1>2, <2>1
  <2> QED
    BY <1>2, <2>3, <2>4
<1>5. /\ Tail(t) \in Seq(S) /\ Len(Tail(t)) = Len(t) - 1
      /\ \A i \in 1 .. Len(Tail(t)) : Tail(t)[i] = t[i + 1]
  BY <1>2, <1>4, HeadTailProperties
<1>6. Len(Tail(t)) = Len(s)
  BY <1>1, <1>2, <1>5
<1>7. ASSUME NEW i \in 1 .. Len(s) PROVE Tail(t)[i] = s[i]
  <2>1. i + 1 \in 1 .. Len(h) + Len(s) /\ ~(i + 1 <= Len(h)) /\ (i + 1) - Len(h) = i
    BY <1>1
  <2>2. t[i + 1] = s[(i + 1) - Len(h)]
    BY <1>2, <2>1
  <2> QED
    BY <1>5, <1>6, <2>1, <2>2
<1>8. Tail(t) = s
  BY <1>5, <1>6, <1>7, SeqEqual
<1> QED
  BY <1>2, <1>3, <1>4, <1>8

-----------------------------------------------------------------------------
(* FlattenSeq *)

\* f[i] is the concatenation of the first i of ss.
IsFlatten(f, ss) ==
  f = [i \in 1 .. Len(ss) |-> IF i = 1 THEN ss[i] ELSE f[i - 1] \o ss[i]]

\* A function that is f up to n and continues there has the same equation.
LEMMA FlattenExists ==
  ASSUME NEW ss, Len(ss) \in Nat
  PROVE  \E f : IsFlatten(f, ss)
<1> DEFINE Up(f, n) == f = [i \in 1 .. n |-> IF i = 1 THEN ss[i] ELSE f[i - 1] \o ss[i]]
           T == { n \in Nat : \E f : Up(f, n) }
<1>1. 0 \in T
  <2>1. Up(<<>>, 0)
    OBVIOUS
  <2> QED
    BY <2>1
<1>2. ASSUME NEW n \in Nat, n \in T PROVE n + 1 \in T
  <2>1. PICK f : Up(f, n)
    BY <1>2
  <2>2. \A i \in 1 .. n : f[i] = IF i = 1 THEN ss[i] ELSE f[i - 1] \o ss[i]
    BY <2>1
  <2> DEFINE g == [i \in 1 .. n + 1 |-> IF i = 1 THEN ss[i] ELSE f[i - 1] \o ss[i]]
  <2>3. ASSUME NEW i \in 1 .. n PROVE g[i] = f[i]
    BY <2>2
  <2>4. ASSUME NEW i \in 1 .. n + 1 PROVE g[i] = IF i = 1 THEN ss[i] ELSE g[i - 1] \o ss[i]
    <3>1. i # 1 => i - 1 \in 1 .. n
      OBVIOUS
    <3>2. i # 1 => g[i - 1] = f[i - 1]
      BY <2>3, <3>1
    <3>3. g[i] = IF i = 1 THEN ss[i] ELSE f[i - 1] \o ss[i]
      OBVIOUS
    <3> HIDE DEF g
    <3> QED
      BY <3>2, <3>3
  <2>5. Up(g, n + 1)
    <3>1. g = [i \in 1 .. n + 1 |-> g[i]]
      OBVIOUS
    <3> HIDE DEF g
    <3> QED
      BY <2>4, <3>1
  <2>6. \E h : Up(h, n + 1)
    <3> HIDE DEF g, Up
    <3> QED
      BY <2>5
  <2> HIDE DEF Up
  <2> QED
    BY <2>6
<1>3. Nat \subseteq T
  <2> HIDE DEF T
  <2> QED
    BY <1>1, <1>2, SetInduction
<1> QED
  BY <1>3 DEF IsFlatten

Flatten(ss) == CHOOSE f : IsFlatten(f, ss)

\* FlattenSeq takes the last of the functions values.
LEMMA FlattenSeqDef ==
  ASSUME NEW ss, Len(ss) \in Nat
  PROVE  /\ IsFlatten(Flatten(ss), ss)
         /\ FlattenSeq(ss) = IF Len(ss) = 0 THEN ss ELSE Flatten(ss)[Len(ss)]
<1>1. IsFlatten(Flatten(ss), ss)
  BY FlattenExists DEF Flatten
<1>2. FlattenSeq(ss) = IF Len(ss) = 0 THEN ss ELSE Flatten(ss)[Len(ss)]
  BY DEF FlattenSeq, Flatten, IsFlatten
<1> QED
  BY <1>1, <1>2

\* The empty sequence.
LEMMA FlattenEmpty == FlattenSeq(<<>>) = <<>>
  BY FlattenSeqDef, EmptySeq

\* The partial concatenations are sequences.
LEMMA FlattenPartType ==
  ASSUME NEW S, NEW ss \in Seq(Seq(S)), NEW i \in 1 .. Len(ss)
  PROVE  Flatten(ss)[i] \in Seq(S)
<1> DEFINE f == Flatten(ss)
           T == { j \in 1 .. Len(ss) : f[j] \in Seq(S) }
<1>1. Len(ss) \in Nat
  BY LenProperties
<1>2. \A j \in 1 .. Len(ss) : f[j] = IF j = 1 THEN ss[j] ELSE f[j - 1] \o ss[j]
  <2>1. IsFlatten(f, ss)
    BY <1>1, FlattenSeqDef
  <2> HIDE DEF f
  <2> QED
    BY <2>1 DEF IsFlatten
<1>3. \A j \in 1 .. Len(ss) : ss[j] \in Seq(S)
  BY ElementOfSeq
<1> HIDE DEF f
<1>4. Len(ss) > 0 => 1 \in T
  BY <1>1, <1>2, <1>3
<1>5. ASSUME NEW j \in 1 .. Len(ss) - 1, j \in T PROVE j + 1 \in T
  <2>1. j + 1 \in 1 .. Len(ss) /\ j + 1 # 1 /\ (j + 1) - 1 = j
    BY <1>1
  <2>2. f[j + 1] = f[j] \o ss[j + 1]
    BY <1>2, <2>1
  <2>3. f[j] \o ss[j + 1] \in Seq(S)
    BY <1>3, <1>5, <2>1, ConcatProperties
  <2> QED
    BY <2>1, <2>2, <2>3
<1>6. 1 .. Len(ss) \subseteq T
  <2> HIDE DEF T
  <2> QED
    BY <1>1, <1>4, <1>5, UpToInduction
<1> QED
  BY <1>6 DEF f

\* Concatenation is associative.
LEMMA ConcatMoves ==
  ASSUME NEW S
  PROVE  \A a, b, c \in Seq(S) : (a \o b) \o c = a \o (b \o c)
<1> SUFFICES ASSUME NEW a \in Seq(S), NEW b \in Seq(S), NEW c \in Seq(S)
             PROVE  (a \o b) \o c = a \o (b \o c)
  OBVIOUS
<1> QED
  BY ConcatAssociative

\* Concatenating sequences over S makes one.
LEMMA FlattenType ==
  ASSUME NEW S, NEW ss \in Seq(Seq(S))
  PROVE  FlattenSeq(ss) \in Seq(S)
<1>1. Len(ss) \in Nat
  BY LenProperties
<1>2. CASE Len(ss) = 0
  <2>1. ss = <<>>
    BY <1>2, EmptySeq
  <2> QED
    BY <2>1, FlattenEmpty, EmptySeq
<1>3. CASE Len(ss) # 0
  <2>1. Len(ss) \in 1 .. Len(ss)
    BY <1>1, <1>3
  <2> QED
    BY <1>1, <1>3, <2>1, FlattenSeqDef, FlattenPartType
<1> QED
  BY <1>2, <1>3

\* The first sequence comes first.
LEMMA FlattenHeadTail ==
  ASSUME NEW S, NEW ss \in Seq(Seq(S)), ss # <<>>
  PROVE  FlattenSeq(ss) = Head(ss) \o FlattenSeq(Tail(ss))
<1> DEFINE n  == Len(ss)
           tt == Tail(ss)
           f  == Flatten(ss)
           g  == Flatten(tt)
           T  == { i \in 1 .. n - 1 : f[i + 1] = ss[1] \o g[i] }
<1>1. n \in Nat \ {0} /\ Head(ss) = ss[1] /\ ss[1] \in Seq(S)
  <2>1. Len(ss) \in Nat /\ Len(ss) # 0 /\ Head(ss) = ss[1]
    BY LenProperties, EmptySeq
  <2> QED
    BY <2>1, ElementOfSeq
<1>2. tt \in Seq(Seq(S)) /\ Len(tt) = n - 1 /\ \A i \in 1 .. n - 1 : tt[i] = ss[i + 1]
  BY HeadTailProperties
<1>3. /\ \A i \in 1 .. n : f[i] = IF i = 1 THEN ss[i] ELSE f[i - 1] \o ss[i]
      /\ FlattenSeq(ss) = f[n]
  <2>1. IsFlatten(f, ss) /\ FlattenSeq(ss) = f[n]
    BY <1>1, FlattenSeqDef
  <2> HIDE DEF f
  <2> QED
    BY <2>1 DEF IsFlatten
<1>4. /\ \A i \in 1 .. n - 1 : g[i] = IF i = 1 THEN tt[i] ELSE g[i - 1] \o tt[i]
      /\ FlattenSeq(tt) = IF n - 1 = 0 THEN tt ELSE g[n - 1]
  <2>1. IsFlatten(g, tt) /\ FlattenSeq(tt) = IF n - 1 = 0 THEN tt ELSE g[n - 1]
    <3>1. Len(tt) \in Nat
      BY <1>1, <1>2
    <3> HIDE DEF tt
    <3> QED
      BY <1>2, <3>1, FlattenSeqDef
  <2> HIDE DEF g, tt
  <2> QED
    BY <1>2, <2>1 DEF IsFlatten
<1>5. \A i \in 1 .. n - 1 : g[i] \in Seq(S) /\ tt[i] \in Seq(S)
  <2>1. \A i \in 1 .. n - 1 : i \in 1 .. Len(tt)
    BY <1>2
  <2> HIDE DEF tt
  <2> QED
    BY <1>2, <2>1, FlattenPartType, ElementOfSeq
<1>a. n \in Nat /\ n >= 1
  BY <1>1
<1> HIDE DEF f, g, tt, n
<1>6. ASSUME n - 1 > 0 PROVE 1 \in T
  <2>1. 1 \in 1 .. n /\ 2 \in 1 .. n /\ 1 \in 1 .. n - 1 /\ 2 # 1 /\ 2 - 1 = 1 /\ 1 + 1 = 2
    BY <1>a, <1>6
  <2>2. f[2] = f[1] \o ss[2]
    BY <1>3, <2>1
  <2>3. f[1] = ss[1]
    BY <1>3, <2>1
  <2>4. g[1] = ss[2]
    BY <1>2, <1>4, <2>1
  <2>5. f[1 + 1] = ss[1] \o g[1]
    BY <2>1, <2>2, <2>3, <2>4
  <2> QED
    BY <2>1, <2>5
<1>7. ASSUME NEW i \in 1 .. (n - 1) - 1, i \in T PROVE i + 1 \in T
  <2> DEFINE j == i + 1
             k == j + 1
  <2>1. /\ i \in 1 .. n - 1 /\ j \in 1 .. n - 1 /\ k \in 1 .. n
        /\ j # 1 /\ k # 1 /\ j - 1 = i /\ k - 1 = j
    BY <1>a
  <2> HIDE DEF j, k
  <2>2. f[k] = f[j] \o ss[k]
    BY <1>3, <2>1
  <2>3. g[j] = g[i] \o tt[j]
    BY <1>4, <2>1
  <2>4. tt[j] = ss[k]
    BY <1>2, <2>1 DEF k
  <2>5. f[j] = ss[1] \o g[i]
    BY <1>7 DEF j
  <2>6. (ss[1] \o g[i]) \o tt[j] = ss[1] \o (g[i] \o tt[j])
    <3> DEFINE a == ss[1]
               b == g[i]
               c == tt[j]
    <3>1. a \in Seq(S) /\ b \in Seq(S) /\ c \in Seq(S)
      BY <1>1, <1>5, <2>1
    <3> HIDE DEF a, b, c
    <3>2. (a \o b) \o c = a \o (b \o c)
      BY <3>1, ConcatMoves, SMTT(60)
    <3> QED
      BY <3>2 DEF a, b, c
  <2>7. f[k] = ss[1] \o g[j]
    BY <2>2, <2>3, <2>4, <2>5, <2>6
  <2>8. j \in T
    BY <2>1, <2>7 DEF k
  <2> QED
    BY <2>8 DEF j
<1>8. 1 .. n - 1 \subseteq T
  <2>1. n - 1 \in Nat
    BY <1>a
  <2> HIDE DEF T
  <2> QED
    BY <1>6, <1>7, <2>1, UpToInduction
<1>9. CASE n = 1
  <2>1. tt = <<>>
    BY <1>2, <1>9, EmptySeq
  <2>2. FlattenSeq(tt) = <<>> /\ FlattenSeq(ss) = ss[1]
    BY <1>1, <1>3, <1>9, <2>1, FlattenEmpty
  <2> QED
    BY <1>1, <2>2, ConcatEmptySeq DEF tt
<1>10. CASE n # 1
  <2>1. n - 1 \in 1 .. n - 1 /\ (n - 1) + 1 = n
    BY <1>a, <1>10
  <2>2. f[n] = ss[1] \o g[n - 1]
    BY <1>8, <2>1
  <2>3. FlattenSeq(tt) = g[n - 1]
    BY <1>a, <1>4, <1>10
  <2>4. FlattenSeq(ss) = ss[1] \o FlattenSeq(tt)
    BY <1>3, <2>2, <2>3
  <2> QED
    BY <1>1, <2>4 DEF tt
<1> QED
  BY <1>9, <1>10

\* The concatenation of what f makes of the members of s.
Spread(f, s) == FlattenSeq([i \in 1 .. Len(s) |-> f[s[i]]])

\* Of no members it makes nothing.
LEMMA SpreadEmpty == ASSUME NEW f PROVE Spread(f, <<>>) = <<>>
<1>1. Len(<<>>) = 0
  BY EmptySeq
<1>2. [i \in 1 .. Len(<<>>) |-> f[<<>>[i]]] = <<>>
  BY <1>1
<1> QED
  BY <1>2, FlattenEmpty DEF Spread

\* It takes the members one by one.
LEMMA SpreadStep ==
  ASSUME NEW S, NEW T, NEW f \in [T -> Seq(S)], NEW s \in Seq(T)
  PROVE  /\ Spread(f, s) \in Seq(S)
         /\ s # <<>> => Spread(f, s) = f[Head(s)] \o Spread(f, Tail(s))
<1> DEFINE Parts(u) == [i \in 1 .. Len(u) |-> f[u[i]]]
<1>1. \A u : Spread(f, u) = FlattenSeq(Parts(u))
  BY DEF Spread
<1>2. ASSUME NEW u \in Seq(T)
      PROVE  Parts(u) \in Seq(Seq(S)) /\ Len(Parts(u)) = Len(u)
  <2>1. Len(u) \in Nat /\ \A i \in 1 .. Len(u) : u[i] \in T
    BY LenProperties, ElementOfSeq
  <2>2. \A i \in 1 .. Len(u) : f[u[i]] \in Seq(S)
    BY <2>1
  <2> QED
    BY <2>1, <2>2, IsASeq
<1>4. ASSUME s # <<>>
      PROVE  /\ Head(Parts(s)) = f[Head(s)] /\ Tail(Parts(s)) = Parts(Tail(s))
             /\ Parts(s) # <<>>
  <2>1. /\ Len(s) \in Nat \ {0} /\ Head(s) = s[1]
        /\ Tail(s) \in Seq(T) /\ Len(Tail(s)) = Len(s) - 1
        /\ \A i \in 1 .. Len(s) - 1 : Tail(s)[i] = s[i + 1]
    BY <1>4, EmptySeq, HeadTailProperties
  <2>2. Parts(s) # <<>>
    BY <1>2, <2>1, EmptySeq
  <2> DEFINE pp == Parts(s)
             qq == Parts(Tail(s))
  <2>3. /\ Tail(pp) \in Seq(Seq(S)) /\ Len(Tail(pp)) = Len(s) - 1
        /\ \A i \in 1 .. Len(s) - 1 : Tail(pp)[i] = pp[i + 1]
    <3> HIDE DEF pp
    <3> QED
      BY <1>2, <2>2, HeadTailProperties DEF pp
  <2>4. qq \in Seq(Seq(S)) /\ Len(qq) = Len(s) - 1
    BY <1>2, <2>1
  <2>5. ASSUME NEW i \in 1 .. Len(s) - 1 PROVE Tail(pp)[i] = qq[i]
    <3>1. i + 1 \in 1 .. Len(s)
      BY <2>1
    <3>2. pp[i + 1] = f[s[i + 1]]
      BY <3>1
    <3>3. qq[i] = f[Tail(s)[i]]
      BY <2>1
    <3> HIDE DEF pp, qq
    <3> QED
      BY <2>1, <2>3, <3>2, <3>3
  <2>6. Tail(pp) = qq
    <3> HIDE DEF pp, qq
    <3> QED
      BY <2>3, <2>4, <2>5, SeqEqual
  <2>7. pp[1] = f[s[1]]
    BY <2>1
  <2>8. Head(pp) = pp[1]
    <3> HIDE DEF pp
    <3> QED
      BY <1>2, <2>2 DEF pp
  <2> QED
    BY <2>1, <2>2, <2>6, <2>7, <2>8
<1> HIDE DEF Parts
<1>5. Spread(f, s) \in Seq(S)
  BY <1>1, <1>2, FlattenType
<1>6. ASSUME s # <<>>
      PROVE  Spread(f, s) = f[Head(s)] \o Spread(f, Tail(s))
  <2>1. FlattenSeq(Parts(s)) = Head(Parts(s)) \o FlattenSeq(Tail(Parts(s)))
    BY <1>2, <1>4, <1>6, FlattenHeadTail
  <2> QED
    BY <1>1, <1>4, <1>6, <2>1
<1> QED
  BY <1>5, <1>6

\* What the spread of a sequence begins with.
LEMMA SpreadCons ==
  ASSUME NEW S, NEW T, NEW f \in [T -> Seq(S)], NEW c \in T, NEW s \in Seq(T)
  PROVE  Spread(f, Cons(c, s)) = f[c] \o Spread(f, s)
<1>1. Cons(c, s) \in Seq(T) /\ Cons(c, s) # <<>> /\ Head(Cons(c, s)) = c /\ Tail(Cons(c, s)) = s
  BY ConsParts
<1> DEFINE t == Cons(c, s)
<1>2. Spread(f, t) = f[Head(t)] \o Spread(f, Tail(t))
  <2>1. t \in Seq(T) /\ t # <<>>
    BY <1>1
  <2>2. \A u \in Seq(T) : u # <<>> => Spread(f, u) = f[Head(u)] \o Spread(f, Tail(u))
    BY SpreadStep
  <2> HIDE DEF t
  <2> QED
    BY <2>1, <2>2
<1> QED
  BY <1>1, <1>2
=============================================================================
