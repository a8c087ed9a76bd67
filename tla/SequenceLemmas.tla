--------------------------- MODULE SequenceLemmas ---------------------------
(* Sequences without repetitions, as the idle list of a pool is one: what it    *)
(* contains after an element is taken, pushed at either end, or erased. And how  *)
(* to reason about a text character by character: induction over the numbers up  *)
(* to its length, and a function defined from one number to the next.            *)
EXTENDS Integers, Sequences, FiniteSets, FiniteSetTheorems, FunctionTheorems,
        SequenceTheorems, WellFoundedInduction, TLAPS

Elements(q) == {q[i] : i \in DOMAIN q}
Distinct(q) == \A i, j \in DOMAIN q : q[i] = q[j] => i = j

Without(q, n) == SubSeq(q, 1, n - 1) \o SubSeq(q, n + 1, Len(q))

(* What closeAll leaves: an empty deque.                                       *)
LEMMA EmptyElements == Elements(<< >>) = {} /\ Distinct(<< >>)
BY DEF Elements, Distinct

(* Taking the front of the deque takes one connection out of it.                *)
LEMMA TailElements ==
  ASSUME NEW S, NEW q \in Seq(S), q # << >>, Distinct(q)
  PROVE  /\ Head(q) \in S /\ Head(q) \in Elements(q)
         /\ Tail(q) \in Seq(S) /\ Distinct(Tail(q))
         /\ Elements(Tail(q)) = Elements(q) \ {Head(q)}
<1>1. Len(q) \in Nat /\ Len(q) > 0 /\ DOMAIN q = 1..Len(q)
  OBVIOUS
<1>2. /\ Tail(q) \in Seq(S) /\ Len(Tail(q)) = Len(q) - 1 /\ DOMAIN Tail(q) = 1..(Len(q) - 1)
      /\ \A i \in 1..(Len(q) - 1) : Tail(q)[i] = q[i + 1]
  BY <1>1
<1>3. Head(q) = q[1]
  BY <1>1
<1>4. Distinct(Tail(q))
  BY <1>1, <1>2 DEF Distinct
<1>5. ASSUME NEW x \in Elements(Tail(q)) PROVE x \in Elements(q) \ {Head(q)}
  BY <1>1, <1>2, <1>3 DEF Distinct, Elements
<1>6. ASSUME NEW x \in Elements(q), x # Head(q) PROVE x \in Elements(Tail(q))
  <2>1. PICK i \in 1..Len(q) : x = q[i]
    BY <1>1 DEF Elements
  <2>2. i - 1 \in 1..(Len(q) - 1) /\ Tail(q)[i - 1] = q[i]
    BY <1>1, <1>2, <1>3, <1>6, <2>1
  <2> QED
    BY <1>2, <2>1, <2>2 DEF Elements
<1>7. Head(q) \in S /\ Head(q) \in Elements(q)
  BY <1>1, <1>3 DEF Elements
<1>8. Elements(Tail(q)) = Elements(q) \ {Head(q)}
  BY <1>5, <1>6
<1> QED
  BY <1>2, <1>4, <1>7, <1>8

(* Pushing a connection that is not in the deque, at either end.                *)
LEMMA AppendElements ==
  ASSUME NEW S, NEW q \in Seq(S), Distinct(q), NEW k \in S, k \notin Elements(q)
  PROVE  /\ Append(q, k) \in Seq(S) /\ Distinct(Append(q, k))
         /\ Elements(Append(q, k)) = Elements(q) \cup {k}
<1>1. Len(q) \in Nat /\ DOMAIN q = 1..Len(q)
  OBVIOUS
<1>2. /\ Append(q, k) \in Seq(S) /\ DOMAIN Append(q, k) = 1..(Len(q) + 1)
      /\ \A i \in 1..Len(q) : Append(q, k)[i] = q[i]
      /\ Append(q, k)[Len(q) + 1] = k
  BY <1>1
<1>3. Distinct(Append(q, k))
  BY <1>1, <1>2 DEF Distinct, Elements
<1>4. ASSUME NEW x \in Elements(Append(q, k)) PROVE x \in Elements(q) \cup {k}
  BY <1>1, <1>2 DEF Elements
<1>5. ASSUME NEW x \in Elements(q) PROVE x \in Elements(Append(q, k))
  BY <1>1, <1>2 DEF Elements
<1>6. k \in Elements(Append(q, k))
  BY <1>1, <1>2 DEF Elements
<1> QED
  BY <1>2, <1>3, <1>4, <1>5, <1>6

(* The same at the front, where addConnection pushes.                          *)
LEMMA ConsElements ==
  ASSUME NEW S, NEW q \in Seq(S), Distinct(q), NEW k \in S, k \notin Elements(q)
  PROVE  /\ <<k>> \o q \in Seq(S) /\ Distinct(<<k>> \o q)
         /\ Elements(<<k>> \o q) = Elements(q) \cup {k}
<1> DEFINE r == <<k>> \o q
<1>1. Len(q) \in Nat /\ DOMAIN q = 1..Len(q)
  OBVIOUS
<1>2. /\ r \in Seq(S) /\ DOMAIN r = 1..(Len(q) + 1)
      /\ \A i \in 2..(Len(q) + 1) : r[i] = q[i - 1]
      /\ r[1] = k
  BY <1>1
<1> HIDE DEF r
<1>3. Distinct(r)
  <2> SUFFICES ASSUME NEW i \in DOMAIN r, NEW j \in DOMAIN r, r[i] = r[j], i < j PROVE FALSE
    BY <1>1, <1>2 DEF Distinct
  <2>1. j - 1 \in DOMAIN q /\ r[j] = q[j - 1]
    BY <1>1, <1>2
  <2>2. CASE i = 1
    BY <1>2, <2>1, <2>2 DEF Elements
  <2>3. CASE i # 1
    <3>1. i - 1 \in DOMAIN q /\ r[i] = q[i - 1]
      BY <1>1, <1>2, <2>3
    <3>2. i - 1 = j - 1
      BY <2>1, <3>1 DEF Distinct
    <3> QED
      BY <1>1, <1>2, <3>2
  <2> QED
    BY <2>2, <2>3
<1>4. ASSUME NEW x \in Elements(r) PROVE x \in Elements(q) \cup {k}
  BY <1>1, <1>2 DEF Elements
<1>5. ASSUME NEW x \in Elements(q) PROVE x \in Elements(r)
  <2>1. PICK i \in 1..Len(q) : x = q[i]
    BY <1>1 DEF Elements
  <2>2. i + 1 \in 2..(Len(q) + 1) /\ r[i + 1] = x
    BY <1>1, <1>2, <2>1
  <2> QED
    BY <1>1, <1>2, <2>2 DEF Elements
<1>6. k \in Elements(r)
  BY <1>1, <1>2 DEF Elements
<1>7. r \in Seq(S) /\ Distinct(r) /\ Elements(r) = Elements(q) \cup {k}
  BY <1>2, <1>3, <1>4, <1>5, <1>6
<1> QED
  BY <1>7 DEF r

(* How many connections lie behind place n of a deque of m.                     *)
LEMMA RestLength ==
  ASSUME NEW m \in Nat, NEW n \in 1..m
  PROVE  m - n = IF n + 1 <= m THEN m - (n + 1) + 1 ELSE 0
OBVIOUS

(* Erasing the connection at one place.                                         *)
LEMMA WithoutElements ==
  ASSUME NEW S, NEW q \in Seq(S), Distinct(q), NEW n \in 1..Len(q)
  PROVE  /\ Without(q, n) \in Seq(S) /\ Distinct(Without(q, n))
         /\ Elements(Without(q, n)) = Elements(q) \ {q[n]}
<1> DEFINE l == SubSeq(q, 1, n - 1)
           t == SubSeq(q, n + 1, Len(q))
           r == Without(q, n)
<1>1. Len(q) \in Nat /\ DOMAIN q = 1..Len(q)
  OBVIOUS
<1>2. l \in Seq(S) /\ Len(l) = n - 1 /\ \A i \in 1..(n - 1) : l[i] = q[i]
  BY <1>1
<1>3. t \in Seq(S) /\ Len(t) = Len(q) - n /\ \A i \in 1..(Len(q) - n) : t[i] = q[n + i]
  <2>1. /\ t \in Seq(S) /\ Len(t) = IF n + 1 <= Len(q) THEN Len(q) - (n + 1) + 1 ELSE 0
        /\ \A i \in 1..(Len(q) - (n + 1) + 1) : t[i] = q[(n + 1) + i - 1]
    <3>1. \A i \in (n + 1)..Len(q) : q[i] \in S
      BY <1>1
    <3> QED
      BY <1>1, <3>1, SubSeqProperties
  <2> HIDE DEF t
  <2>2. Len(t) = Len(q) - n
    <3>1. Len(q) - n = IF n + 1 <= Len(q) THEN Len(q) - (n + 1) + 1 ELSE 0
      BY <1>1, RestLength
    <3> QED
      BY <2>1, <3>1
  <2>3. ASSUME NEW i \in 1..(Len(q) - n) PROVE t[i] = q[n + i]
    <3>1. i \in 1..(Len(q) - (n + 1) + 1) /\ (n + 1) + i - 1 = n + i
      BY <1>1
    <3> QED
      BY <2>1, <3>1
  <2> QED
    BY <2>1, <2>2, <2>3
<1>4. r = l \o t
  BY DEF Without
<1> HIDE DEF l, t, r
<1>5. /\ r \in Seq(S) /\ Len(r) = Len(q) - 1 /\ DOMAIN r = 1..(Len(q) - 1)
      /\ \A i \in 1..(Len(q) - 1) : r[i] = IF i < n THEN q[i] ELSE q[i + 1]
  <2>1. r \in Seq(S) /\ Len(r) = Len(l) + Len(t)
    BY <1>2, <1>3, <1>4, ConcatProperties
  <2>2. Len(r) = Len(q) - 1
    BY <1>1, <1>2, <1>3, <2>1
  <2>3. ASSUME NEW i \in 1..(Len(q) - 1) PROVE r[i] = IF i < n THEN q[i] ELSE q[i + 1]
    <3>1. r[i] = IF i <= Len(l) THEN l[i] ELSE t[i - Len(l)]
      BY <1>1, <1>2, <1>3, <1>4, <2>2, ConcatProperties
    <3>2. CASE i < n
      BY <1>1, <1>2, <3>1, <3>2
    <3>3. CASE i >= n
      <4>1. i - Len(l) \in 1..(Len(q) - n) /\ n + (i - Len(l)) = i + 1
        BY <1>1, <1>2, <3>3
      <4>2. t[i - Len(l)] = q[n + (i - Len(l))]
        BY <1>3, <4>1
      <4> QED
        BY <1>1, <1>2, <3>1, <3>3, <4>1, <4>2
    <3> QED
      BY <1>1, <3>2, <3>3
  <2> QED
    BY <2>1, <2>2, <2>3
<1>6. Distinct(r)
  BY <1>1, <1>5, SMTT(30) DEF Distinct
<1>7. ASSUME NEW x \in Elements(r) PROVE x \in Elements(q) \ {q[n]}
  BY <1>1, <1>5, SMTT(30) DEF Distinct, Elements
<1>8. ASSUME NEW x \in Elements(q), x # q[n] PROVE x \in Elements(r)
  <2>1. PICK i \in 1..Len(q) : x = q[i]
    BY <1>1 DEF Elements
  <2>2. CASE i < n
    BY <1>1, <1>5, <2>1, <2>2 DEF Elements
  <2>3. CASE i > n
    <3>1. i - 1 \in DOMAIN r /\ r[i - 1] = x
      BY <1>1, <1>5, <2>1, <2>3
    <3> QED
      BY <3>1 DEF Elements
  <2> QED
    BY <1>1, <1>8, <2>1, <2>2, <2>3
<1>9. r \in Seq(S) /\ Distinct(r) /\ Elements(r) = Elements(q) \ {q[n]}
  BY <1>5, <1>6, <1>7, <1>8
<1> QED
  BY <1>9 DEF r

(* A deque of distinct connections has as many as it is long.                   *)
LEMMA ElementsCount ==
  ASSUME NEW S, NEW q \in Seq(S), Distinct(q)
  PROVE  IsFiniteSet(Elements(q)) /\ Cardinality(Elements(q)) = Len(q)
<1>1. Len(q) \in Nat /\ DOMAIN q = 1..Len(q) /\ q \in [1..Len(q) -> Elements(q)]
  BY DEF Elements
<1>2. q \in Bijection(1..Len(q), Elements(q))
  BY <1>1 DEF Distinct, Elements, Bijection, Injection, Surjection, IsInjective
<1>3. IsFiniteSet(1..Len(q)) /\ Cardinality(1..Len(q)) = Len(q)
  BY <1>1, FS_Interval
<1>4. ExistsBijection(1..Len(q), Elements(q))
  BY <1>2 DEF ExistsBijection
<1> QED
  BY <1>3, <1>4, FS_Bijection

-----------------------------------------------------------------------------
(* Every set of numbers has a least one.                                        *)
LEMMA LeastNumber ==
  ASSUME NEW T, T \subseteq Nat, T # {}
  PROVE  \E x \in T : \A y \in T : x <= y
<1>1. PICK R : R = OpToRel(<, Nat)
  OBVIOUS
<1>2. IsWellFoundedOn(R, Nat)
  BY <1>1, NatLessThanWellFounded
<1>3. PICK x \in T : \A y \in T : ~(<<y, x>> \in R)
  BY <1>2, WFMin
<1>4. \A y \in T : ~(y < x)
  BY <1>1, <1>3 DEF OpToRel
<1> QED
  BY <1>4

(* Induction: what holds of 0 and passes on to the next number holds of all the *)
(* numbers up to n, for the set of those it holds of.                           *)
LEMMA EveryNumber ==
  ASSUME NEW n \in Nat, NEW H, 0 \in H, \A i \in 1..n : i - 1 \in H => i \in H
  PROVE  0..n \subseteq H
<1> SUFFICES ASSUME ~(0..n \subseteq H) PROVE FALSE
  OBVIOUS
<1>1. PICK T : T = {i \in 0..n : i \notin H}
  OBVIOUS
<1>2. T \subseteq Nat /\ T # {}
  BY <1>1
<1>3. PICK x \in T : \A y \in T : x <= y
  BY ONLY <1>2, LeastNumber
<1>4. x \in 1..n
  BY <1>1
<1>5. x - 1 \in 0..n /\ ~(x <= x - 1)
  BY ONLY <1>4, n \in Nat
<1>6. x - 1 \in H
  BY <1>1, <1>3, <1>5
<1> QED
  BY <1>1, <1>4, <1>6

(* Recursion: a function that is given at 0 and from there step by step.        *)
IsRun(F, S, base, n, h) == h \in [0..n -> S] /\ h[0] = base /\ \A i \in 1..n : h[i] = F[<<i, h[i - 1]>>]
LEMMA Recursion ==
  ASSUME NEW n \in Nat, NEW S, NEW base \in S, NEW F \in [(1..n) \X S -> S]
  PROVE  \E h : IsRun(F, S, base, n, h)
<1>1. PICK H : H = {m \in 0..n : \E h : IsRun(F, S, base, m, h)}
  OBVIOUS
<1>2. 0 \in H
  <2>1. PICK h : h = [i \in 0..0 |-> base]
    OBVIOUS
  <2>2. IsRun(F, S, base, 0, h)
    BY <2>1 DEF IsRun
  <2> QED
    BY <1>1, <2>2
<1>3. ASSUME NEW m \in 1..n, m - 1 \in H PROVE m \in H
  <2>1. PICK h : IsRun(F, S, base, m - 1, h)
    BY <1>1, <1>3
  <2>2. h[m - 1] \in S
    BY <2>1 DEF IsRun
  <2>3. PICK e \in S : e = F[<<m, h[m - 1]>>]
    BY <2>2
  <2>4. PICK g : g = [i \in 0..m |-> IF i = m THEN e ELSE h[i]]
    OBVIOUS
  <2>5. /\ g[m] = e /\ \A i \in 0..(m - 1) : g[i] = h[i]
        /\ \A i \in 0..m : i \in 0..(m - 1) \/ i = m
    BY <2>4
  <2>6. g \in [0..m -> S]
    <3>1. ASSUME NEW i \in 0..m PROVE g[i] \in S
      BY <2>1, <2>5 DEF IsRun
    <3> QED
      BY <2>4, <3>1
  <2>7. g[0] = base
    BY <2>1, <2>5 DEF IsRun
  <2>8. ASSUME NEW i \in 1..m PROVE g[i] = F[<<i, g[i - 1]>>]
    <3>1. i - 1 \in 0..(m - 1) /\ (i = m \/ i \in 1..(m - 1))
      OBVIOUS
    <3>2. g[i - 1] = h[i - 1]
      BY <2>5, <3>1
    <3>3. CASE i = m
      BY <2>3, <2>5, <3>2, <3>3
    <3>4. CASE i \in 1..(m - 1)
      <4>1. g[i] = h[i]
        BY <2>5, <3>4
      <4>2. h[i] = F[<<i, h[i - 1]>>]
        BY <2>1, <3>4 DEF IsRun
      <4> QED
        BY <3>2, <4>1, <4>2
    <3> QED
      BY <3>1, <3>3, <3>4
  <2>9. IsRun(F, S, base, m, g)
    BY <2>6, <2>7, <2>8 DEF IsRun
  <2> QED
    BY <1>1, <2>9
<1>4. 0..n \subseteq H
  BY <1>2, <1>3, EveryNumber
<1> QED
  BY <1>1, <1>4
=============================================================================
