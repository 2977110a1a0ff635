----------------------------- MODULE DataLemmas -----------------------------
(***************************************************************************)
(* Induction over the natural numbers and least elements, stated with sets *)
(* in place of predicates, and what Append makes of a sequence: what the   *)
(* proofs about filtered sequences and first matches rest on.              *)
(***************************************************************************)
EXTENDS Integers, SequenceTheorems, WellFoundedInduction, TLAPS

\* Every set of natural numbers that has a member has a least one.
LEMMA LeastElement ==
    ASSUME NEW S \in SUBSET Nat, S # {}
    PROVE  \E n \in S : \A m \in S : n <= m
<1>1. PICK n \in S : \A m \in S : ~(<<m, n>> \in OpToRel(<, Nat))
  BY NatLessThanWellFounded, WFMin
<1>2. \A m \in S : ~(m < n)
  BY <1>1 DEF OpToRel
<1>. QED BY <1>2

\* A set with 0 in it and, with each number, the next one has all of them.
LEMMA SetInduction ==
    ASSUME NEW S, 0 \in S, \A n \in Nat : n \in S => n + 1 \in S
    PROVE  Nat \subseteq S
<1>1. SUFFICES ASSUME Nat \ S # {} PROVE FALSE
  OBVIOUS
<1>2. PICK n \in Nat \ S : \A m \in Nat \ S : n <= m
  BY <1>1, LeastElement
<1>3. n - 1 \in Nat /\ n - 1 \in S
  BY <1>2
<1>. QED BY <1>3

-----------------------------------------------------------------------------
(* Sequences.                                                              *)

LEMMA Longer ==
    ASSUME NEW S, NEW s \in Seq(S), NEW c \in Nat, c = Len(s), NEW x \in S,
           NEW u, u = Append(s, x)
    PROVE  /\ u \in Seq(S) /\ Len(u) = c + 1 /\ u[c + 1] = x
           /\ \A i \in 1..c : u[i] = s[i]
BY AppendProperties

\* A sequence of whatever its elements are stays one.
LEMMA OneMore ==
    ASSUME NEW s, s \in Seq({s[i] : i \in DOMAIN s}), NEW x, NEW u, u = Append(s, x)
    PROVE  /\ Len(s) \in Nat /\ Len(u) = Len(s) + 1
           /\ u \in Seq({u[i] : i \in DOMAIN u})
           /\ \A i \in 1..Len(s) : u[i] = s[i]
           /\ u[Len(s) + 1] = x
<1>. DEFINE T == {s[i] : i \in DOMAIN s} \union {x}
<1>1. s \in Seq(T) /\ x \in T
  BY SeqMonotonic
<1>2. PICK c \in Nat : c = Len(s)
  BY <1>1, LenProperties
<1>. HIDE DEF T
<1>3. /\ u \in Seq(T) /\ Len(u) = c + 1 /\ u[c + 1] = x
      /\ \A i \in 1..c : u[i] = s[i]
  BY <1>1, <1>2, AppendProperties
<1>4. DOMAIN u = 1..Len(u)
  BY <1>3, LenProperties
<1>5. u \in [1..Len(u) -> {u[i] : i \in DOMAIN u}]
  <2>1. u \in [1..Len(u) -> T]
    BY <1>3, LenProperties
  <2>. QED BY <1>4, <2>1
<1>6. u \in Seq({u[i] : i \in DOMAIN u})
  <2>1. PICK R : R = {u[i] : i \in DOMAIN u}
    OBVIOUS
  <2>2. PICK m \in Nat : m = Len(u)
    BY <1>2, <1>3
  <2>3. u \in [1..m -> R]
    BY <1>5, <2>1, <2>2
  <2>4. u \in Seq(R)
    <3>1. u \in UNION {[1..n -> R] : n \in Nat}
      BY <2>3
    <3>2. Seq(R) = UNION {[1..n -> R] : n \in Nat}
      BY SeqDef, Zenon
    <3>. QED BY <3>1, <3>2, Zenon
  <2>. QED BY <2>1, <2>4
<1>. QED BY <1>2, <1>3, <1>6

\* The short sequences, made one element at a time.
LEMMA Appends ==
    ASSUME NEW a, NEW b, NEW c
    PROVE  /\ Append(<<>>, a) = <<a>>
           /\ Append(<<a>>, b) = <<a, b>>
           /\ Append(<<a, b>>, c) = <<a, b, c>>
<1>1. PICK S : a \in S /\ b \in S /\ c \in S
  <2>1. a \in {a, b, c} /\ b \in {a, b, c} /\ c \in {a, b, c}
    OBVIOUS
  <2>. QED BY <2>1
<1>2. Append(<<>>, a) = <<a>>
  <2>1. PICK s : s = <<>>
    OBVIOUS
  <2>2. PICK u : u = Append(s, a)
    OBVIOUS
  <2>3. PICK v : v = <<a>>
    OBVIOUS
  <2>4. PICK n \in Nat : n = 0
    OBVIOUS
  <2>5. s = <<>> /\ u = Append(s, a) /\ v = <<a>> /\ n = 0
    BY <2>1, <2>2, <2>3, <2>4
  <2>6. s \in Seq(S) /\ Len(s) = n
    BY <2>5, EmptySeq
  <2>7. u \in Seq(S) /\ Len(u) = n + 1 /\ u[n + 1] = a
    BY <1>1, <2>5, <2>6, Longer
  <2>8. v \in Seq(S) /\ Len(v) = 1 /\ v[1] = a
    BY <1>1, <2>5
  <2>9. n + 1 = 1 /\ \A i \in 1..1 : i = 1
    BY <2>5
  <2>. QED BY <2>5, <2>7, <2>8, <2>9, SeqEqual
<1>3. Append(<<a>>, b) = <<a, b>>
  <2>1. PICK s : s = <<a>>
    OBVIOUS
  <2>2. PICK u : u = Append(s, b)
    OBVIOUS
  <2>3. PICK v : v = <<a, b>>
    OBVIOUS
  <2>4. PICK n \in Nat : n = 1
    OBVIOUS
  <2>5. s = <<a>> /\ u = Append(s, b) /\ v = <<a, b>> /\ n = 1
    BY <2>1, <2>2, <2>3, <2>4
  <2>6. s \in Seq(S) /\ Len(s) = n /\ s[1] = a
    BY <1>1, <2>5
  <2>7. /\ u \in Seq(S) /\ Len(u) = n + 1 /\ u[n + 1] = b
        /\ \A i \in 1..n : u[i] = s[i]
    BY <1>1, <2>5, <2>6, Longer
  <2>8. v \in Seq(S) /\ Len(v) = 2 /\ v[1] = a /\ v[2] = b
    BY <1>1, <2>5
  <2>9. n + 1 = 2 /\ 1 \in 1..n /\ \A i \in 1..2 : i = 1 \/ i = 2
    BY <2>5
  <2>10. Len(u) = 2 /\ Len(v) = 2 /\ \A i \in 1..2 : u[i] = v[i]
    BY <2>6, <2>7, <2>8, <2>9
  <2>. QED BY <2>5, <2>7, <2>8, <2>10, SeqEqual
<1>4. Append(<<a, b>>, c) = <<a, b, c>>
  <2>1. PICK s : s = <<a, b>>
    OBVIOUS
  <2>2. PICK u : u = Append(s, c)
    OBVIOUS
  <2>3. PICK v : v = <<a, b, c>>
    OBVIOUS
  <2>4. PICK n \in Nat : n = 2
    OBVIOUS
  <2>5. s = <<a, b>> /\ u = Append(s, c) /\ v = <<a, b, c>> /\ n = 2
    BY <2>1, <2>2, <2>3, <2>4
  <2>6. s \in Seq(S) /\ Len(s) = n /\ s[1] = a /\ s[2] = b
    BY <1>1, <2>5
  <2>7. /\ u \in Seq(S) /\ Len(u) = n + 1 /\ u[n + 1] = c
        /\ \A i \in 1..n : u[i] = s[i]
    BY <1>1, <2>5, <2>6, Longer
  <2>8. v \in Seq(S) /\ Len(v) = 3 /\ v[1] = a /\ v[2] = b /\ v[3] = c
    BY <1>1, <2>5
  <2>9. n + 1 = 3 /\ 1 \in 1..n /\ 2 \in 1..n /\ \A i \in 1..3 : i = 1 \/ i = 2 \/ i = 3
    BY <2>5
  <2>10. Len(u) = 3 /\ Len(v) = 3 /\ \A i \in 1..3 : u[i] = v[i]
    BY <2>6, <2>7, <2>8, <2>9
  <2>. QED BY <2>5, <2>7, <2>8, <2>10, SeqEqual
<1>. QED BY <1>2, <1>3, <1>4

LEMMA Two ==
    ASSUME NEW S, NEW d \in S, NEW e \in S
    PROVE  <<d, e>> = <<d>> \o <<e>> /\ <<d>> \in Seq(S) /\ <<e>> \in Seq(S)
<1>1. <<d>> \in Seq(S) /\ <<e>> \in Seq(S)
  OBVIOUS
<1>2. PICK s : s = <<d>>
  OBVIOUS
<1>3. Append(s, e) = s \o <<e>>
  BY <1>1, <1>2, AppendIsConcat
<1>4. Append(<<d>>, e) = <<d, e>>
  BY Appends
<1>. QED BY <1>1, <1>2, <1>3, <1>4, Zenon
=============================================================================
