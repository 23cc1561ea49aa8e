---------------------------- MODULE DataTheorems ----------------------------
(***************************************************************************)
(* Facts about the library operators the models are built from, for every *)
(* argument: what FlattenSeq and SumFunction, both defined by recursion,   *)
(* compute.  Induction is over sets: a property of the naturals is the set *)
(* of those that have it, and a set that is not all of Nat leaves out a    *)
(* smallest number (WFMin of WellFoundedInduction).                        *)
(***************************************************************************)
EXTENDS Integers, Sequences, FiniteSets, SequencesExt, FiniteSetTheorems,
        SequenceTheorems, WellFoundedInduction, TLAPS

(* A set of naturals has a smallest element.                               *)
LEMMA SmallestNat ==
  ASSUME NEW T \in SUBSET Nat, T # {}
  PROVE  \E x \in T : \A y \in T : x <= y
<1> DEFINE R == OpToRel(<, Nat)
<1>1. IsWellFoundedOn(R, Nat)
  BY NatLessThanWellFounded
<1>2. \A x, y \in Nat : x < y => <<x, y>> \in R
  BY DEF OpToRel
<1> HIDE DEF R
<1>3. PICK x \in T : \A y \in T : ~ (<<y, x>> \in R)
  BY <1>1, WFMin
<1>4. \A y \in T : x \in Nat /\ y \in Nat /\ ~(y < x)
  BY <1>2, <1>3
<1>5. \A y \in T : x <= y
  BY <1>4
<1> QED
  BY <1>5

(* Induction: a set that holds 0 and every successor holds every natural.  *)
LEMMA NatSetInduction ==
  ASSUME NEW T, 0 \in T, \A n \in Nat : n \in T => n + 1 \in T
  PROVE  Nat \subseteq T
<1> SUFFICES ASSUME Nat \ T # {} PROVE FALSE
  OBVIOUS
<1>1. PICK x \in Nat \ T : \A y \in Nat \ T : x <= y
  BY SmallestNat
<1>2. x # 0 /\ x - 1 \in Nat
  BY <1>1
<1>3. x - 1 \in T
  BY <1>1, <1>2
<1> QED
  BY <1>2, <1>3

(* A sequence that has a length has an element.                            *)
LEMMA NotEmpty == ASSUME NEW X, NEW s \in Seq(X), Len(s) > 0 PROVE s # <<>>
<1>1. Len(<<>>) = 0
  OBVIOUS
<1> QED
  BY <1>1

(* f holds the concatenations of the first sequences of s, as the recursion *)
(* in FlattenSeq computes them.                                            *)
Flattens(s, f, k) ==
  /\ DOMAIN f = 1..k
  /\ \A i \in 1..k : f[i] = IF i = 1 THEN s[i] ELSE f[i - 1] \o s[i]

(* There is such a function: the recursion in FlattenSeq defines one.      *)
LEMMA FlattenExists ==
  ASSUME NEW X, NEW s \in Seq(Seq(X)), NEW k \in 0..Len(s)
  PROVE  \E f \in [1..k -> Seq(X)] : Flattens(s, f, k)
<1> DEFINE T == {n \in Nat : n <= Len(s) => \E f \in [1..n -> Seq(X)] : Flattens(s, f, n)}
<1>0. \A i \in 1..Len(s) : s[i] \in Seq(X)
  OBVIOUS
<1>1. 0 \in T
  <2>1. [i \in 1..0 |-> <<>>] \in [1..0 -> Seq(X)]
    OBVIOUS
  <2>2. Flattens(s, [i \in 1..0 |-> <<>>], 0)
    BY DEF Flattens
  <2> QED
    BY <2>1, <2>2
<1>2. ASSUME NEW n \in Nat, n \in T PROVE n + 1 \in T
  <2> SUFFICES ASSUME n + 1 <= Len(s)
               PROVE  \E f \in [1..n + 1 -> Seq(X)] : Flattens(s, f, n + 1)
    OBVIOUS
  <2>1. PICK f \in [1..n -> Seq(X)] : Flattens(s, f, n)
    BY <1>2
  <2> DEFINE e == IF n = 0 THEN s[1] ELSE f[n] \o s[n + 1]
             g == [i \in 1..n + 1 |-> IF i = n + 1 THEN e ELSE f[i]]
  <2>2. e \in Seq(X)
    <3>1. CASE n = 0
      BY <3>1, <1>0
    <3>2. CASE n # 0
      <4>1. f[n] \in Seq(X) /\ s[n + 1] \in Seq(X)
        BY <3>2, <1>0
      <4> QED
        BY <4>1, <3>2
    <3> QED
      BY <3>1, <3>2
  <2>3. g \in [1..n + 1 -> Seq(X)]
    BY <2>2
  <2>4. Flattens(s, g, n + 1)
    <3>1. DOMAIN g = 1..n + 1
      OBVIOUS
    <3>2. ASSUME NEW i \in 1..n + 1
          PROVE  g[i] = IF i = 1 THEN s[i] ELSE g[i - 1] \o s[i]
      <4>1. CASE i = n + 1
        <5>1. CASE n = 0
          BY <4>1, <5>1
        <5>2. CASE n # 0
          <6>1. i # 1 /\ i - 1 = n /\ n \in 1..n + 1 /\ n # n + 1
            BY <4>1, <5>2
          <6>2. g[n] = f[n] /\ g[i] = f[n] \o s[n + 1]
            BY <6>1, <4>1, <5>2
          <6> QED
            BY <6>1, <6>2, <4>1
        <5> QED
          BY <5>1, <5>2
      <4>2. CASE i # n + 1
        <5>1. i \in 1..n /\ (i # 1 => i - 1 \in 1..n /\ i - 1 # n + 1 /\ i - 1 \in 1..n + 1)
          BY <4>2
        <5>2. f[i] = IF i = 1 THEN s[i] ELSE f[i - 1] \o s[i]
          BY <5>1, <2>1 DEF Flattens
        <5>3. g[i] = f[i] /\ (i # 1 => g[i - 1] = f[i - 1])
          BY <5>1, <4>2
        <5> QED
          BY <5>2, <5>3
      <4> QED
        BY <4>1, <4>2
    <3> QED
      BY <3>1, <3>2 DEF Flattens
  <2> QED
    BY <2>3, <2>4
<1> HIDE DEF T
<1>3. Nat \subseteq T
  BY <1>1, <1>2, NatSetInduction
<1>4. k \in Nat /\ k <= Len(s) /\ k \in T
  BY <1>3
<1> QED
  BY <1>4 DEF T


(* s and t begin with the same j elements.                                 *)
Same(s, t, j) == \A i \in 1..j : s[i] = t[i]

(* It is unique, and depends on nothing but the sequences concatenated.    *)
LEMMA FlattenAgree ==
  ASSUME NEW s, NEW t, NEW f, NEW g, NEW k \in Nat, NEW m \in Nat, NEW j \in Nat,
         Flattens(s, f, k), Flattens(t, g, m), j <= k, j <= m,
         Same(s, t, j)
  PROVE  Same(f, g, j)
<1> DEFINE T == {n \in Nat : n + 1 <= j => f[n + 1] = g[n + 1]}
<1>1. \A i \in 1..j : /\ f[i] = IF i = 1 THEN s[i] ELSE f[i - 1] \o s[i]
                      /\ g[i] = IF i = 1 THEN s[i] ELSE g[i - 1] \o s[i]
  <2> SUFFICES ASSUME NEW i \in 1..j
               PROVE  /\ f[i] = IF i = 1 THEN s[i] ELSE f[i - 1] \o s[i]
                      /\ g[i] = IF i = 1 THEN s[i] ELSE g[i - 1] \o s[i]
    OBVIOUS
  <2>1. i \in 1..k /\ i \in 1..m /\ s[i] = t[i]
    BY DEF Same
  <2> QED
    BY <2>1 DEF Flattens
<1>2. 0 \in T
  <2> SUFFICES ASSUME 1 <= j PROVE f[1] = g[1]
    OBVIOUS
  <2>1. 1 \in 1..j
    OBVIOUS
  <2> QED
    BY <2>1, <1>1
<1>3. ASSUME NEW n \in Nat, n \in T PROVE n + 1 \in T
  <2> SUFFICES ASSUME n + 2 <= j PROVE f[n + 2] = g[n + 2]
    OBVIOUS
  <2> DEFINE i == n + 2
  <2>1. i \in 1..j /\ i # 1 /\ i - 1 = n + 1 /\ f[n + 1] = g[n + 1]
    BY <1>3
  <2> HIDE DEF i
  <2>2. f[i] = f[i - 1] \o s[i] /\ g[i] = g[i - 1] \o s[i]
    BY <1>1, <2>1
  <2>3. f[i] = g[i]
    BY <2>1, <2>2
  <2> QED
    BY <2>3 DEF i
<1> HIDE DEF T
<1>4. Nat \subseteq T
  BY <1>2, <1>3, NatSetInduction
<1> SUFFICES ASSUME NEW i \in 1..j PROVE f[i] = g[i]
  BY DEF Same
<1>5. i - 1 \in Nat /\ i - 1 + 1 = i /\ i <= j
  OBVIOUS
<1>6. i - 1 \in T
  BY <1>4, <1>5
<1> QED
  BY <1>5, <1>6 DEF T

(* FlattenSeq is the last of those concatenations.                         *)
LEMMA FlattenIs ==
  ASSUME NEW X, NEW s \in Seq(Seq(X)), s # <<>>
  PROVE  \E f \in [1..Len(s) -> Seq(X)] : Flattens(s, f, Len(s)) /\ FlattenSeq(s) = f[Len(s)]
<1> DEFINE n == Len(s)
           flatten[i \in 1..n] == IF i = 1 THEN s[i] ELSE flatten[i - 1] \o s[i]
<1>1. n \in Nat /\ n # 0
  OBVIOUS
<1>2. FlattenSeq(s) = flatten[n]
  BY <1>1 DEF FlattenSeq
<1>3. PICK f \in [1..n -> Seq(X)] : Flattens(s, f, n)
  <2>1. n \in 0..Len(s)
    BY <1>1
  <2> HIDE DEF n
  <2> QED
    BY <2>1, FlattenExists
<1>4. f = [i \in 1..n |-> IF i = 1 THEN s[i] ELSE f[i - 1] \o s[i]]
  BY <1>3 DEF Flattens
<1>5. flatten = [i \in 1..n |-> IF i = 1 THEN s[i] ELSE flatten[i - 1] \o s[i]]
  BY <1>4
<1> HIDE DEF flatten, n
<1>6. Flattens(s, flatten, n)
  BY <1>5 DEF Flattens
<1>7. flatten[n] = f[n]
  <2>1. n \in 1..n /\ n <= n /\ n \in Nat
    BY <1>1
  <2>2. Same(s, s, n)
    BY DEF Same
  <2>3. Same(flatten, f, n)
    BY <1>3, <1>6, <2>1, <2>2, FlattenAgree
  <2> QED
    BY <2>1, <2>3 DEF Same
<1> QED
  BY <1>2, <1>3, <1>7 DEF n

(* Nothing, concatenated.                                                  *)
LEMMA FlattenEmpty == FlattenSeq(<<>>) = <<>>
BY DEF FlattenSeq

(* A sequence more is a sequence more at the end.                          *)
LEMMA FlattenAppend ==
  ASSUME NEW X, NEW s \in Seq(Seq(X)), NEW e \in Seq(X)
  PROVE  /\ FlattenSeq(s) \in Seq(X)
         /\ FlattenSeq(Append(s, e)) = FlattenSeq(s) \o e
<1> DEFINE t == Append(s, e)
           n == Len(s)
<1>1. t \in Seq(Seq(X)) /\ Len(t) = n + 1
  OBVIOUS
<1>6. n \in Nat /\ t # <<>> /\ t[n + 1] = e
  <2>1. n \in Nat /\ t[n + 1] = e
    OBVIOUS
  <2>2. Len(t) # 0
    BY <1>1, <2>1
  <2> QED
    BY <2>1, <2>2
<1>7. \A i \in 1..n : s[i] = t[i]
  OBVIOUS
<1>2. n \in Nat /\ t # <<>> /\ t[n + 1] = e /\ \A i \in 1..n : s[i] = t[i]
  BY <1>6, <1>7
<1> HIDE DEF t
<1>3. PICK g \in [1..Len(t) -> Seq(X)] : Flattens(t, g, Len(t)) /\ FlattenSeq(t) = g[Len(t)]
  BY <1>1, <1>2, FlattenIs
<1>4. CASE n = 0
  <2>1. s = <<>>
    BY <1>4
  <2>2. FlattenSeq(s) = <<>> /\ Len(t) = 1 /\ t[1] = e
    BY <1>1, <1>2, <1>4, <2>1, FlattenEmpty
  <2>3. g[1] = t[1]
    BY <1>3, <2>2 DEF Flattens
  <2>4. FlattenSeq(t) = e
    BY <1>3, <2>2, <2>3
  <2> QED
    BY <2>2, <2>4 DEF t
<1>5. CASE n # 0
  <2>1. s # <<>>
    BY <1>5
  <2>2. PICK f \in [1..n -> Seq(X)] : Flattens(s, f, n) /\ FlattenSeq(s) = f[n]
    BY <2>1, FlattenIs
  <2>7. Len(t) = n + 1 /\ Flattens(t, g, n + 1)
    BY <1>1, <1>3
  <2> HIDE DEF n
  <2>3. n \in 1..n /\ n <= n + 1 /\ n + 1 \in Nat /\ n + 1 \in 1..(n + 1) /\ n + 1 # 1 /\ n + 1 - 1 = n
    BY <1>2, <1>5
  <2>4. g[n] = f[n]
    <3>0. Same(s, t, n)
      BY <1>2 DEF Same
    <3>1. Same(f, g, n)
      BY <3>0, <1>2, <2>7, <2>2, <2>3, FlattenAgree
    <3> QED
      BY <3>1, <2>3 DEF Same
  <2>5. g[n + 1] = g[n] \o e
    <3> DEFINE i == n + 1
    <3>1. i \in 1..(n + 1) /\ i # 1 /\ i - 1 = n
      BY <2>3
    <3> HIDE DEF i
    <3>2. g[i] = g[i - 1] \o t[i]
      BY <3>1, <2>7 DEF Flattens
    <3>3. g[i] = g[n] \o t[i]
      BY <3>1, <3>2
    <3> QED
      BY <3>3, <1>2 DEF i
  <2>6. f[n] \in Seq(X)
    BY <2>2, <2>3
  <2> QED
    BY <1>1, <1>3, <2>2, <2>4, <2>5, <2>6 DEF t
<1> QED
  BY <1>4, <1>5
-----------------------------------------------------------------------------
(* The element a fold takes out of a set first.                            *)
Some(s) == CHOOSE x \in s : TRUE

(* It is one of them.                                                      *)
LEMMA SomeIn == ASSUME NEW s, s # {} PROVE Some(s) \in s
BY DEF Some

(* What a fold of + does on the sets of D.                                 *)
Sums(f, h, D) == \A s \in D : h[s] = IF s = {} THEN 0 ELSE f[Some(s)] + h[s \ {Some(s)}]

(* A finite set without one of its elements.                               *)
LEMMA Smaller ==
  ASSUME NEW s, IsFiniteSet(s), NEW x \in s
  PROVE  /\ IsFiniteSet(s \ {x}) /\ Cardinality(s) \in Nat /\ Cardinality(s) > 0
         /\ Cardinality(s \ {x}) = Cardinality(s) - 1
<1>1. IsFiniteSet(s \ {x}) /\ Cardinality(s \ {x}) = Cardinality(s) - 1
  BY FS_RemoveElement
<1>2. Cardinality(s) \in Nat /\ Cardinality(s) # 0
  BY FS_CardinalityType, FS_EmptySet
<1> QED
  BY <1>1, <1>2

(* The parts of a finite set are finite.                                   *)
LEMMA FiniteParts ==
  ASSUME NEW S, IsFiniteSet(S), NEW s \in SUBSET S
  PROVE  IsFiniteSet(s) /\ Cardinality(s) \in Nat
BY FS_Subset, FS_CardinalityType

(* A fold of + over a finite set exists: its recursion defines a function. *)
LEMMA SumsExist ==
  ASSUME NEW f, NEW S, IsFiniteSet(S), \A x \in S : f[x] \in Nat
  PROVE  \E h \in [SUBSET S -> Nat] : Sums(f, h, SUBSET S)
<1> DEFINE P(n) == {s \in SUBSET S : Cardinality(s) <= n}
           T == {n \in Nat : \E h \in [SUBSET S -> Nat] : Sums(f, h, P(n))}
<1>1. 0 \in T
  <2> DEFINE h == [s \in SUBSET S |-> 0]
  <2>1. ASSUME NEW s \in P(0) PROVE s = {}
    <3>1. IsFiniteSet(s) /\ Cardinality(s) = 0
      BY FiniteParts
    <3> QED
      BY <3>1, FS_EmptySet
  <2>2. h \in [SUBSET S -> Nat] /\ Sums(f, h, P(0))
    BY <2>1 DEF Sums
  <2> HIDE DEF h
  <2> QED
    BY <2>2
<1>2. ASSUME NEW n \in Nat, n \in T PROVE n + 1 \in T
  <2>1. PICK h \in [SUBSET S -> Nat] : Sums(f, h, P(n))
    BY <1>2
  <2> DEFINE g == [s \in SUBSET S |-> IF Cardinality(s) <= n \/ s = {} THEN h[s]
                                      ELSE f[Some(s)] + h[s \ {Some(s)}]]
  <2>2. ASSUME NEW s \in SUBSET S, s # {}
        PROVE  /\ Some(s) \in s /\ f[Some(s)] \in Nat
               /\ s \ {Some(s)} \in SUBSET S /\ h[s \ {Some(s)}] \in Nat
               /\ Cardinality(s) \in Nat /\ Cardinality(s \ {Some(s)}) = Cardinality(s) - 1
    <3>1. Some(s) \in s
      BY <2>2, SomeIn
    <3>2. IsFiniteSet(s)
      BY FiniteParts
    <3>3. Cardinality(s) \in Nat /\ Cardinality(s \ {Some(s)}) = Cardinality(s) - 1
      BY <3>1, <3>2, Smaller
    <3>4. s \ {Some(s)} \in SUBSET S
      OBVIOUS
    <3> QED
      BY <3>1, <3>3, <3>4
  <2>3. g \in [SUBSET S -> Nat]
    BY <2>2
  <2>4. ASSUME NEW s \in P(n + 1)
        PROVE  g[s] = IF s = {} THEN 0 ELSE f[Some(s)] + g[s \ {Some(s)}]
    <3>1. CASE s = {}
      <4>1. {} \in P(n)
        <5>1. Cardinality({}) = 0
          BY FS_EmptySet
        <5> QED
          BY <5>1
      <4>2. h[{}] = 0
        BY <2>1, <4>1 DEF Sums
      <4>3. g[{}] = h[{}]
        OBVIOUS
      <4> QED
        BY <3>1, <4>2, <4>3
    <3>2. CASE s # {}
      <4> DEFINE t == s \ {Some(s)}
      <4>1. /\ t \in SUBSET S /\ Cardinality(s) \in Nat /\ Cardinality(t) = Cardinality(s) - 1
            /\ s \in SUBSET S /\ Cardinality(s) <= n + 1
        BY <2>2, <3>2
      <4>2. g[t] = h[t]
        BY <4>1
      <4>3. g[s] = f[Some(s)] + h[t]
        <5>1. CASE Cardinality(s) <= n
          <6>1. s \in P(n)
            BY <5>1, <4>1
          <6>2. h[s] = f[Some(s)] + h[t]
            BY <2>1, <3>2, <6>1 DEF Sums
          <6>3. g[s] = h[s]
            BY <5>1, <4>1
          <6> QED
            BY <6>2, <6>3
        <5>2. CASE ~(Cardinality(s) <= n)
          BY <5>2, <3>2, <4>1
        <5> QED
          BY <5>1, <5>2
      <4> QED
        BY <3>2, <4>2, <4>3
    <3> QED
      BY <3>1, <3>2
  <2> HIDE DEF g
  <2>5. Sums(f, g, P(n + 1))
    BY <2>4 DEF Sums
  <2> HIDE DEF P
  <2> QED
    BY <2>3, <2>5
<1> HIDE DEF T
<1>3. Nat \subseteq T
  BY <1>1, <1>2, NatSetInduction
<1>4. Cardinality(S) \in Nat
  BY FS_CardinalityType
<1>5. PICK h \in [SUBSET S -> Nat] : Sums(f, h, P(Cardinality(S)))
  BY <1>3, <1>4 DEF T
<1>6. P(Cardinality(S)) = SUBSET S
  BY FS_Subset
<1> QED
  BY <1>5, <1>6

(* f and g agree on S.                                                     *)
SameOn(f, g, S) == \A x \in S : f[x] = g[x]

(* Two folds of the same values agree.                                     *)
LEMMA SumsAgree ==
  ASSUME NEW f, NEW g, NEW h, NEW k, NEW S, IsFiniteSet(S),
         Sums(f, h, SUBSET S), Sums(g, k, SUBSET S), SameOn(f, g, S)
  PROVE  h[S] = k[S]
<1> DEFINE T == {n \in Nat : \A s \in SUBSET S : Cardinality(s) = n => h[s] = k[s]}
<1>1. 0 \in T
  <2> SUFFICES ASSUME NEW s \in SUBSET S, Cardinality(s) = 0 PROVE h[s] = k[s]
    OBVIOUS
  <2>1. s = {}
    BY FiniteParts, FS_EmptySet
  <2> QED
    BY <2>1 DEF Sums
<1>2. ASSUME NEW n \in Nat, n \in T PROVE n + 1 \in T
  <2> SUFFICES ASSUME NEW s \in SUBSET S, Cardinality(s) = n + 1 PROVE h[s] = k[s]
    OBVIOUS
  <2>1. s # {} /\ IsFiniteSet(s)
    BY FiniteParts, FS_EmptySet
  <2>2. Some(s) \in s
    BY <2>1, SomeIn
  <2>3. Cardinality(s \ {Some(s)}) = n /\ s \ {Some(s)} \in SUBSET S
    BY <2>1, <2>2, Smaller
  <2>4. h[s \ {Some(s)}] = k[s \ {Some(s)}]
    BY <1>2, <2>3
  <2>5. f[Some(s)] = g[Some(s)]
    BY <2>2 DEF SameOn
  <2>6. h[s] = f[Some(s)] + h[s \ {Some(s)}] /\ k[s] = g[Some(s)] + k[s \ {Some(s)}]
    BY <2>1 DEF Sums
  <2> QED
    BY <2>4, <2>5, <2>6
<1> HIDE DEF T
<1>3. Nat \subseteq T
  BY <1>1, <1>2, NatSetInduction
<1>4. Cardinality(S) \in Nat
  BY FS_CardinalityType
<1> QED
  BY <1>3, <1>4 DEF T

(* SumFunctionOnSet is what that recursion computes for the whole set.     *)
LEMMA SumIs ==
  ASSUME NEW f, NEW S, IsFiniteSet(S), \A x \in S : f[x] \in Nat
  PROVE  \E h \in [SUBSET S -> Nat] : Sums(f, h, SUBSET S) /\ SumFunctionOnSet(f, S) = h[S]
<1> DEFINE iter[s \in SUBSET S] ==
             IF s = {} THEN 0 ELSE LET x == CHOOSE x \in s : TRUE IN f[x] + iter[s \ {x}]
<1>1. SumFunctionOnSet(f, S) = iter[S]
  BY DEF SumFunctionOnSet, FoldFunctionOnSet, MapThenFoldSet
<1>2. PICK h \in [SUBSET S -> Nat] : Sums(f, h, SUBSET S)
  BY SumsExist
<1>3. h = [s \in SUBSET S |->
             IF s = {} THEN 0 ELSE LET x == CHOOSE x \in s : TRUE IN f[x] + h[s \ {x}]]
  BY <1>2 DEF Sums, Some
<1>4. iter = [s \in SUBSET S |->
             IF s = {} THEN 0 ELSE LET x == CHOOSE x \in s : TRUE IN f[x] + iter[s \ {x}]]
  BY <1>3
<1> HIDE DEF iter
<1>5. Sums(f, iter, SUBSET S)
  BY <1>4 DEF Some, Sums
<1>6. SameOn(f, f, S)
  BY DEF SameOn
<1>7. iter[S] = h[S]
  BY <1>2, <1>5, <1>6, SumsAgree
<1> QED
  BY <1>1, <1>2, <1>7

(* The values of f on S are naturals.                                      *)
NatOn(f, S) == \A x \in S : f[x] \in Nat

(* The sum of nothing.                                                     *)
LEMMA SumEmpty == ASSUME NEW f PROVE SumFunctionOnSet(f, {}) = 0
<1>1. IsFiniteSet({}) /\ \A x \in {} : f[x] \in Nat
  BY FS_EmptySet
<1>2. PICK h \in [SUBSET {} -> Nat] : Sums(f, h, SUBSET {}) /\ SumFunctionOnSet(f, {}) = h[{}]
  BY <1>1, SumIs
<1> QED
  BY <1>2 DEF Sums

(* A sum of naturals is one.                                               *)
LEMMA SumNat ==
  ASSUME NEW f, NEW S, IsFiniteSet(S), NatOn(f, S) PROVE SumFunctionOnSet(f, S) \in Nat
<1>1. PICK h \in [SUBSET S -> Nat] : Sums(f, h, SUBSET S) /\ SumFunctionOnSet(f, S) = h[S]
  BY SumIs DEF NatOn
<1>2. S \in SUBSET S
  OBVIOUS
<1> QED
  BY <1>1, <1>2

(* The sum depends on nothing but the values that are added.               *)
LEMMA SumSame ==
  ASSUME NEW f, NEW g, NEW S, IsFiniteSet(S), NatOn(f, S), SameOn(f, g, S)
  PROVE  SumFunctionOnSet(f, S) = SumFunctionOnSet(g, S)
<1>1. NatOn(g, S)
  BY DEF NatOn, SameOn
<1>2. PICK h \in [SUBSET S -> Nat] : Sums(f, h, SUBSET S) /\ SumFunctionOnSet(f, S) = h[S]
  BY SumIs DEF NatOn
<1>3. PICK k \in [SUBSET S -> Nat] : Sums(g, k, SUBSET S) /\ SumFunctionOnSet(g, S) = k[S]
  BY <1>1, SumIs DEF NatOn
<1> QED
  BY <1>2, <1>3, SumsAgree

(* The fold's own first step.                                              *)
LEMMA SumStep ==
  ASSUME NEW f, NEW S, IsFiniteSet(S), NatOn(f, S), S # {}
  PROVE  SumFunctionOnSet(f, S) = f[Some(S)] + SumFunctionOnSet(f, S \ {Some(S)})
<1> DEFINE R == S \ {Some(S)}
<1>1. PICK h \in [SUBSET S -> Nat] : Sums(f, h, SUBSET S) /\ SumFunctionOnSet(f, S) = h[S]
  BY SumIs DEF NatOn
<1>2. IsFiniteSet(R) /\ NatOn(f, R)
  BY FS_Subset DEF NatOn
<1>3. h[S] = f[Some(S)] + h[R]
  BY <1>1 DEF Sums
<1>4. Sums(f, h, SUBSET R) /\ SameOn(f, f, R)
  BY <1>1 DEF Sums, SameOn
<1> HIDE DEF R
<1>5. PICK k \in [SUBSET R -> Nat] : Sums(f, k, SUBSET R) /\ SumFunctionOnSet(f, R) = k[R]
  BY <1>2, SumIs DEF NatOn
<1>6. h[R] = k[R]
  BY <1>2, <1>4, <1>5, SumsAgree
<1> QED
  BY <1>1, <1>3, <1>5, <1>6 DEF R

(* Any element may be taken out first.                                     *)
LEMMA SumRemove ==
  ASSUME NEW f, NEW S, IsFiniteSet(S), NatOn(f, S), NEW x \in S
  PROVE  /\ SumFunctionOnSet(f, S) = f[x] + SumFunctionOnSet(f, S \ {x})
         /\ SumFunctionOnSet(f, S) \in Nat /\ SumFunctionOnSet(f, S \ {x}) \in Nat
         /\ f[x] \in Nat
<1> DEFINE Sum(s) == SumFunctionOnSet(f, s)
           T == {n \in Nat : \A s \in SUBSET S : Cardinality(s) = n =>
                                \A y \in s : Sum(s) = f[y] + Sum(s \ {y})}
<1>0. ASSUME NEW s \in SUBSET S PROVE IsFiniteSet(s) /\ NatOn(f, s) /\ Sum(s) \in Nat
  <2>1. IsFiniteSet(s) /\ NatOn(f, s)
    BY FS_Subset DEF NatOn
  <2> QED
    BY <2>1, SumNat
<1>1. 0 \in T
  <2>1. \A s \in SUBSET S : Cardinality(s) = 0 => s = {}
    BY <1>0, FS_EmptySet
  <2> QED
    BY <2>1
<1>2. ASSUME NEW n \in Nat, n \in T PROVE n + 1 \in T
  <2> SUFFICES ASSUME NEW s \in SUBSET S, Cardinality(s) = n + 1, NEW y \in s
               PROVE  Sum(s) = f[y] + Sum(s \ {y})
    OBVIOUS
  <2> DEFINE c == Some(s)
  <2>1. c \in s
    BY SomeIn
  <2>2. IsFiniteSet(s) /\ NatOn(f, s)
    BY <1>0
  <2>3. Sum(s) = f[c] + Sum(s \ {c})
    BY <2>2, SumStep
  <2> HIDE DEF c
  <2>4. CASE y = c
    BY <2>3, <2>4
  <2>5. CASE y # c
    <3> DEFINE u == s \ {y, c}
    <3>1. /\ s \ {c} \in SUBSET S /\ s \ {y} \in SUBSET S
          /\ y \in s \ {c} /\ c \in s \ {y}
          /\ (s \ {c}) \ {y} = u /\ (s \ {y}) \ {c} = u /\ u \in SUBSET S
      BY <2>1, <2>5
    <3>2. Cardinality(s \ {c}) = n /\ Cardinality(s \ {y}) = n
      BY <2>1, <2>2, Smaller
    <3> HIDE DEF u
    <3>3. Sum(s \ {c}) = f[y] + Sum(u)
      BY <1>2, <3>1, <3>2
    <3>4. Sum(s \ {y}) = f[c] + Sum(u)
      BY <1>2, <3>1, <3>2
    <3>5. Sum(u) \in Nat /\ f[c] \in Nat /\ f[y] \in Nat
      BY <1>0, <3>1, <2>2, <2>1 DEF NatOn
    <3> HIDE DEF Sum
    <3> QED
      BY <2>3, <3>3, <3>4, <3>5
  <2> QED
    BY <2>4, <2>5
<1> HIDE DEF T
<1>3. Nat \subseteq T
  BY <1>1, <1>2, NatSetInduction
<1>4. Cardinality(S) \in Nat
  BY FS_CardinalityType
<1>5. Sum(S) = f[x] + Sum(S \ {x})
  BY <1>3, <1>4 DEF T
<1>6. Sum(S) \in Nat /\ Sum(S \ {x}) \in Nat /\ f[x] \in Nat
  BY <1>0 DEF NatOn
<1> QED
  BY <1>5, <1>6
(* SumFunction of a sequence of naturals.                                  *)
LEMMA SeqNatOn ==
  ASSUME NEW s \in Seq(Nat)
  PROVE  /\ IsFiniteSet(1..Len(s)) /\ DOMAIN s = 1..Len(s) /\ NatOn(s, 1..Len(s))
         /\ SumFunction(s) = SumFunctionOnSet(s, 1..Len(s)) /\ SumFunction(s) \in Nat
<1>1. DOMAIN s = 1..Len(s) /\ Len(s) \in Nat
  OBVIOUS
<1>2. IsFiniteSet(1..Len(s))
  BY <1>1, FS_Interval
<1>3. NatOn(s, 1..Len(s))
  BY DEF NatOn
<1>4. SumFunction(s) = SumFunctionOnSet(s, 1..Len(s))
  BY <1>1 DEF SumFunction
<1> QED
  BY <1>1, <1>2, <1>3, <1>4, SumNat

(* The sum of an empty sequence.                                           *)
LEMMA SeqSumEmpty == ASSUME NEW s \in Seq(Nat), Len(s) = 0 PROVE SumFunction(s) = 0
<1>1. 1..Len(s) = {}
  OBVIOUS
<1>2. SumFunction(s) = SumFunctionOnSet(s, 1..Len(s))
  BY SeqNatOn
<1> QED
  BY <1>1, <1>2, SumEmpty

(* An element more.                                                        *)
LEMMA SeqSumAppend ==
  ASSUME NEW s \in Seq(Nat), NEW e \in Nat
  PROVE  SumFunction(Append(s, e)) = SumFunction(s) + e
<1> DEFINE n == Len(s)
<1>0. SUFFICES ASSUME NEW t, t = Append(s, e) PROVE SumFunction(t) = SumFunction(s) + e
  OBVIOUS
<1>1. t \in Seq(Nat) /\ Len(t) = n + 1 /\ n \in Nat /\ t[n + 1] = e
  BY <1>0
<1>2. SameOn(t, s, 1..n)
  BY <1>0 DEF SameOn
<1>3. /\ IsFiniteSet(1..(n + 1)) /\ NatOn(t, 1..(n + 1)) /\ SumFunction(t) = SumFunctionOnSet(t, 1..(n + 1))
  BY <1>1, SeqNatOn
<1>4. /\ IsFiniteSet(1..n) /\ NatOn(s, 1..n) /\ SumFunction(s) = SumFunctionOnSet(s, 1..n)
      /\ SumFunction(s) \in Nat
  BY SeqNatOn
<1> DEFINE D == 1..(n + 1)
           x == n + 1
<1>5. x \in D /\ D \ {x} = 1..n
  BY <1>1
<1>6. SumFunctionOnSet(t, D) = t[x] + SumFunctionOnSet(t, 1..n)
  <2>1. IsFiniteSet(D) /\ NatOn(t, D)
    BY <1>3
  <2> HIDE DEF D, x
  <2>2. SumFunctionOnSet(t, D) = t[x] + SumFunctionOnSet(t, D \ {x})
    BY <2>1, <1>5, SumRemove
  <2> QED
    BY <2>2, <1>5
<1>7. NatOn(t, 1..n)
  BY <1>2, <1>4 DEF NatOn, SameOn
<1>8. SumFunctionOnSet(t, 1..n) = SumFunctionOnSet(s, 1..n)
  BY <1>2, <1>4, <1>7, SumSame
<1> QED
  BY <1>1, <1>3, <1>4, <1>6, <1>8

(* The first element taken off.                                            *)
LEMMA SeqSumTail ==
  ASSUME NEW q \in Seq(Nat), q # <<>>
  PROVE  SumFunction(q) = q[1] + SumFunction(Tail(q)) /\ SumFunction(Tail(q)) \in Nat /\ q[1] \in Nat
<1> DEFINE T == {n \in Nat : \A s \in Seq(Nat) : Len(s) = n + 1 =>
                               SumFunction(s) = s[1] + SumFunction(Tail(s))}
<1>1. ASSUME NEW s \in Seq(Nat), s # <<>>,
             \A u \in Seq(Nat) : Len(u) = Len(s) - 1 /\ u # <<>> =>
                SumFunction(u) = u[1] + SumFunction(Tail(u))
      PROVE  SumFunction(s) = s[1] + SumFunction(Tail(s))
  <2>1. PICK u \in Seq(Nat), e \in Nat : s = Append(u, e)
    BY <1>1, SequenceEmptyOrAppend
  <2>2. Len(u) = Len(s) - 1 /\ Len(u) \in Nat /\ s[Len(u) + 1] = e
    BY <2>1
  <2>3. Tail(s) = IF u = <<>> THEN <<>> ELSE Append(Tail(u), e)
    BY <2>1, HeadTailAppend
  <2>4. SumFunction(s) = SumFunction(u) + e
    BY <2>1, SeqSumAppend
  <2>5. CASE u = <<>>
    <3>1. Len(u) = 0 /\ Tail(s) = <<>> /\ <<>> \in Seq(Nat) /\ Len(<<>>) = 0
      BY <2>3, <2>5
    <3>2. SumFunction(u) = 0 /\ SumFunction(Tail(s)) = 0
      BY <3>1, SeqSumEmpty
    <3>3. Len(u) + 1 = 1
      BY <3>1
    <3>4. s[1] = e
      BY <2>2, <3>3
    <3> QED
      BY <2>4, <3>2, <3>4
  <2>6. CASE u # <<>>
    <3>1. u[1] = s[1] /\ u[1] \in Nat
      BY <2>1, <2>6
    <3>2. Tail(u) \in Seq(Nat)
      BY <2>6, HeadTailProperties
    <3>3. SumFunction(u) = u[1] + SumFunction(Tail(u))
      BY <1>1, <2>2, <2>6
    <3>4. SumFunction(Tail(s)) = SumFunction(Tail(u)) + e
      BY <2>3, <2>6, <3>2, SeqSumAppend
    <3>5. SumFunction(Tail(u)) \in Nat
      BY <3>2, SeqNatOn
    <3> QED
      BY <2>4, <3>1, <3>3, <3>4, <3>5
  <2> QED
    BY <2>5, <2>6
<1>2. 0 \in T
  <2> SUFFICES ASSUME NEW s \in Seq(Nat), Len(s) = 1
               PROVE  SumFunction(s) = s[1] + SumFunction(Tail(s))
    OBVIOUS
  <2>1. \A u \in Seq(Nat) : Len(u) = Len(s) - 1 => u = <<>>
    BY EmptySeq
  <2>2. s # <<>>
    BY NotEmpty, SMTT(30)
  <2>3. \A u \in Seq(Nat) : Len(u) = Len(s) - 1 /\ u # <<>> =>
                SumFunction(u) = u[1] + SumFunction(Tail(u))
    BY <2>1
  <2> QED
    BY <1>1, <2>2, <2>3
<1>3. ASSUME NEW n \in Nat, n \in T PROVE n + 1 \in T
  <2> SUFFICES ASSUME NEW s \in Seq(Nat), Len(s) = n + 2
               PROVE  SumFunction(s) = s[1] + SumFunction(Tail(s))
    OBVIOUS
  <2>1. s # <<>> /\ Len(s) - 1 = n + 1
    OBVIOUS
  <2> QED
    BY <1>1, <1>3, <2>1
<1> HIDE DEF T
<1>4. Nat \subseteq T
  BY <1>2, <1>3, NatSetInduction
<1>5. Len(q) - 1 \in Nat /\ Len(q) = Len(q) - 1 + 1 /\ q[1] \in Nat
  OBVIOUS
<1>6. Tail(q) \in Seq(Nat)
  BY HeadTailProperties
<1>7. SumFunction(q) = q[1] + SumFunction(Tail(q))
  BY <1>4, <1>5 DEF T
<1>8. SumFunction(Tail(q)) \in Nat
  BY <1>6, SeqNatOn
<1> QED
  BY <1>5, <1>7, <1>8

(* One element changed.                                                    *)
LEMMA SeqSumExcept ==
  ASSUME NEW s \in Seq(Nat), NEW k \in 1..Len(s), NEW v \in Nat
  PROVE  /\ SumFunction([s EXCEPT ![k] = v]) + s[k] = SumFunction(s) + v
         /\ SumFunction(s) >= s[k] /\ s[k] \in Nat /\ SumFunction(s) \in Nat
         /\ SumFunction([s EXCEPT ![k] = v]) \in Nat
<1> DEFINE D == 1..Len(s)
<1>0. SUFFICES ASSUME NEW t, t = [s EXCEPT ![k] = v]
             PROVE  /\ SumFunction(t) + s[k] = SumFunction(s) + v
                    /\ SumFunction(s) >= s[k] /\ s[k] \in Nat /\ SumFunction(s) \in Nat
                    /\ SumFunction(t) \in Nat
  OBVIOUS
<1>1. t \in Seq(Nat) /\ Len(t) = Len(s) /\ t[k] = v
  BY <1>0
<1>2. SameOn(t, s, D \ {k})
  BY <1>0 DEF SameOn
<1>3. IsFiniteSet(D) /\ NatOn(t, D) /\ SumFunction(t) = SumFunctionOnSet(t, D)
  BY <1>1, SeqNatOn
<1>4. /\ NatOn(s, D) /\ SumFunction(s) = SumFunctionOnSet(s, D)
  BY SeqNatOn
<1>5. k \in D /\ IsFiniteSet(D \ {k}) /\ NatOn(t, D \ {k})
  BY <1>3, FS_Subset DEF NatOn
<1> HIDE DEF D
<1>6. /\ SumFunctionOnSet(t, D) = t[k] + SumFunctionOnSet(t, D \ {k})
      /\ SumFunctionOnSet(t, D) \in Nat /\ SumFunctionOnSet(t, D \ {k}) \in Nat
      /\ t[k] \in Nat
  <2>1. k \in D /\ IsFiniteSet(D) /\ NatOn(t, D)
    BY <1>3, <1>5
  <2> QED
    BY <2>1, SumRemove, Zenon
<1>7. SumFunctionOnSet(s, D) = s[k] + SumFunctionOnSet(s, D \ {k}) /\ s[k] \in Nat
  BY <1>3, <1>4, <1>5, SumRemove
<1>8. SumFunctionOnSet(t, D \ {k}) = SumFunctionOnSet(s, D \ {k})
  BY <1>2, <1>5, SumSame
<1>9. SumFunction(t) = v + SumFunctionOnSet(s, D \ {k})
  BY <1>1, <1>3, <1>6, <1>8
<1>10. SumFunctionOnSet(s, D \ {k}) \in Nat
  BY <1>6, <1>8
<1> QED
  BY <1>4, <1>7, <1>9, <1>10
=============================================================================
