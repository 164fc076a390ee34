---------------------------- MODULE StartupProofs ----------------------------
(***************************************************************************)
(* Theorems about Startup: any configuration file, any sections, peers and *)
(* routines in it, in any order.                                           *)
(***************************************************************************)
EXTENDS Startup, AwgConfigProofs, SequenceTheorems, FiniteSetTheorems

-----------------------------------------------------------------------------
(* Places in order.                                                        *)

\* A set of numbers has a first one.
LEMMA First ==
    ASSUME NEW S, S \subseteq Nat, S # {}
    PROVE  \E m \in S : \A k \in S : m <= k
<1>1. PICK m \in S : \A k \in S : <<k, m>> \notin OpToRel(<, Nat)
  BY NatLessThanWellFounded, WFMin
<1>2. \A k \in S : ~(k < m)
  BY <1>1 DEF OpToRel
<1> QED
  BY <1>2

\* The first of a set is what Min says.
LEMMA MinIsFirst ==
    ASSUME NEW S, S \subseteq Nat, NEW m \in S, \A k \in S : m <= k
    PROVE  Min(S) = m
<1>1. \A k \in S : (\A l \in S : k <= l) => k = m
  BY SMT
<1> QED
  BY <1>1 DEF Min

\* One place.
LEMMA OnePlace == 1..1 = {1}
  OBVIOUS

\* What holds of 0, and of a number's successor, holds of all.
LEMMA Induction ==
    ASSUME NEW S, 0 \in S, \A n \in Nat : n \in S => n + 1 \in S
    PROVE  Nat \subseteq S
<1> DEFINE Rest == {n \in Nat : n \notin S}
<1> SUFFICES ASSUME Rest # {} PROVE FALSE
  OBVIOUS
<1>1. PICK m \in Rest : \A k \in Rest : m <= k
  BY First
<1>2. m \in Nat /\ m # 0 /\ m - 1 \in Nat /\ m - 1 \notin Rest
  BY <1>1
<1>3. (m - 1) + 1 \in S
  BY <1>2
<1> QED
  BY <1>2, <1>3

Upto(S, i) == {j \in S : j <= i}
Rank(S, i) == Cardinality(Upto(S, i))

\* The rank of a place is its number, and grows with the place.
LEMMA Ranks ==
    ASSUME NEW S, S \subseteq Nat, IsFiniteSet(S)
    PROVE  /\ Cardinality(S) \in Nat
           /\ \A i \in S : Rank(S, i) \in 1..Cardinality(S)
           /\ \A i, k \in S : i < k <=> Rank(S, i) < Rank(S, k)
<1>1. Cardinality(S) \in Nat
  BY FS_CardinalityType
<1>2. \A i : IsFiniteSet(Upto(S, i)) /\ Rank(S, i) \in Nat /\ Rank(S, i) <= Cardinality(S)
  BY FS_Subset, FS_CardinalityType DEF Upto, Rank
<1>3. ASSUME NEW i \in S PROVE Rank(S, i) \in 1..Cardinality(S)
  <2>1. i \in Upto(S, i)
    BY <1>3 DEF Upto
  <2>2. Rank(S, i) # 0
    BY <1>2, <2>1, FS_EmptySet DEF Rank
  <2> QED BY <1>1, <1>2, <2>2
<1>4. ASSUME NEW i \in S, NEW k \in S, i < k PROVE Rank(S, i) < Rank(S, k)
  <2>1. Upto(S, i) \subseteq Upto(S, k) /\ Upto(S, i) # Upto(S, k)
    <3>0. i \in Nat /\ k \in Nat
      BY <1>4
    <3>1. k \in Upto(S, k) /\ k \notin Upto(S, i)
      BY <1>4, <3>0 DEF Upto
    <3>2. ASSUME NEW j \in Upto(S, i) PROVE j \in Upto(S, k)
      <4>1. j \in S /\ j \in Nat /\ j <= i
        BY <3>2 DEF Upto
      <4>2. j <= k
        BY <1>4, <3>0, <4>1
      <4> QED BY <4>1, <4>2 DEF Upto
    <3> QED BY <3>1, <3>2
  <2>2. Rank(S, i) <= Rank(S, k) /\ Rank(S, i) # Rank(S, k)
    BY <1>2, <2>1, FS_Subset DEF Rank
  <2> QED BY <1>2, <2>2
<1>5. ASSUME NEW i \in S, NEW k \in S, Rank(S, i) < Rank(S, k) PROVE i < k
  <2>1. i < k \/ i = k \/ k < i
    OBVIOUS
  <2>2. CASE k < i
    BY <1>2, <1>4, <1>5, <2>2
  <2> QED BY <1>2, <1>5, <2>1, <2>2
<1> QED
  BY <1>1, <1>3, <1>4, <1>5

\* Nth finds every place once, in order.
LEMMA Nths ==
    ASSUME NEW S, S \subseteq Nat, IsFiniteSet(S)
    PROVE  /\ \A n \in 1..Cardinality(S) : Nth(S, n) \in S /\ Rank(S, Nth(S, n)) = n
           /\ \A i \in S : Nth(S, Rank(S, i)) = i
<1> DEFINE r == [i \in S |-> Rank(S, i)]
<1>1. /\ Cardinality(S) \in Nat
      /\ \A i \in S : Rank(S, i) \in 1..Cardinality(S)
      /\ \A i, k \in S : i < k <=> Rank(S, i) < Rank(S, k)
  BY Ranks
<1>2. \A i, k \in S : Rank(S, i) = Rank(S, k) => i = k
  BY <1>1
<1>3. r \in Injection(S, 1..Cardinality(S))
  BY <1>1, <1>2 DEF Injection, IsInjective
<1>4. IsFiniteSet(1..Cardinality(S)) /\ Cardinality(1..Cardinality(S)) = Cardinality(S)
  BY <1>1, FS_Interval
<1>5. r \in Surjection(S, 1..Cardinality(S))
  BY <1>3, <1>4, FS_Injection
<1>6. ASSUME NEW n \in 1..Cardinality(S)
      PROVE  \E i \in S : Rank(S, i) = n
  BY <1>5 DEF Surjection
<1>7. ASSUME NEW n \in 1..Cardinality(S)
      PROVE  Nth(S, n) \in S /\ Rank(S, Nth(S, n)) = n
  BY <1>6 DEF Nth, Rank, Upto
<1> QED
  BY <1>1, <1>2, <1>7

\* A finite set of numbers has a last one, which is what Max says.
LEMMA MaxIsLast ==
    ASSUME NEW S, S \subseteq Nat, IsFiniteSet(S), S # {}
    PROVE  Max(S) \in S /\ \A k \in S : k <= Max(S)
<1> DEFINE n == Cardinality(S)
<1>1. /\ n \in Nat
      /\ \A i \in S : Rank(S, i) \in 1..n
      /\ \A i, k \in S : i < k <=> Rank(S, i) < Rank(S, k)
  BY Ranks
<1>2. n \in 1..n
  BY <1>1, FS_EmptySet
<1>3. Nth(S, n) \in S /\ Rank(S, Nth(S, n)) = n
  BY <1>2, Nths
<1>4. ASSUME NEW k \in S PROVE k <= Nth(S, n)
  <2> HIDE DEF n
  <2>0. \A i \in S : i < k <=> Rank(S, i) < Rank(S, k)
    BY <1>1, <1>4
  <2>1. Rank(S, k) \in 1..n /\ (Nth(S, n) < k <=> n < Rank(S, k))
    BY <1>1, <1>3, <1>4, <2>0
  <2>2. ~(Nth(S, n) < k)
    BY <1>1, <2>1
  <2>3. Nth(S, n) \in Nat /\ k \in Nat
    BY <1>3, <1>4
  <2> QED BY <2>2, <2>3
<1>5. \E x \in S : \A y \in S : x >= y
  BY <1>3, <1>4
<1> QED
  BY <1>5 DEF Max

\* The last of some places up to n.
LEMMA MaxUpto ==
    ASSUME NEW n \in Nat, NEW s \in SUBSET (1..n), s # {}
    PROVE  Max(s) \in s /\ Max(s) \in 1..n /\ (n \in s => Max(s) = n)
<1>1. s \subseteq Nat /\ IsFiniteSet(s)
  <2>1. IsFiniteSet(1..n) /\ s \subseteq 1..n
    BY FS_Interval
  <2>2. IsFiniteSet(s)
    BY <2>1, FS_Subset
  <2> QED BY <2>1, <2>2
<1>2. Max(s) \in s /\ \A k \in s : k <= Max(s)
  BY <1>1, MaxIsLast
<1> DEFINE m == Max(s)
<1>3. m \in 1..n /\ (n \in s => n <= m)
  BY <1>2
<1> HIDE DEF m
<1>4. n \in s => m = n
  BY <1>3
<1> QED
  BY <1>2, <1>3, <1>4 DEF m

\* f takes the places S to the places T.
Moves(S, f, T) ==
    /\ S \subseteq Nat /\ IsFiniteSet(S)
    /\ f \in [S -> Nat] /\ \A i, k \in S : i < k => f[i] < f[k]
    /\ T = {f[i] : i \in S}

\* A mapping that keeps the order of places keeps their numbers.
LEMMA OrderKept ==
    ASSUME NEW S, NEW f, NEW T, Moves(S, f, T)
    PROVE  /\ IsFiniteSet(T) /\ Cardinality(T) = Cardinality(S)
           /\ \A n \in 1..Cardinality(S) : Nth(T, n) = f[Nth(S, n)]
<1> USE DEF Moves
<1>1. \A i, k \in S : i \in Nat /\ k \in Nat /\ f[i] \in Nat /\ f[k] \in Nat
  OBVIOUS
<1>2. \A i, k \in S : f[i] = f[k] => i = k
  <2> SUFFICES ASSUME NEW i \in S, NEW k \in S, f[i] = f[k], i # k PROVE FALSE
    OBVIOUS
  <2>1. i < k \/ k < i
    BY <1>1
  <2>2. f[i] < f[k] \/ f[k] < f[i]
    BY <2>1
  <2> QED BY <1>1, <2>2
<1>3. \A i, k \in S : f[i] <= f[k] <=> i <= k
  <2> SUFFICES ASSUME NEW i \in S, NEW k \in S PROVE f[i] <= f[k] <=> i <= k
    OBVIOUS
  <2>1. i < k \/ i = k \/ k < i
    BY <1>1
  <2>2. i < k => f[i] < f[k]
    OBVIOUS
  <2>3. k < i => f[k] < f[i]
    OBVIOUS
  <2> QED BY <1>1, <2>1, <2>2, <2>3
<1>4. ASSUME NEW U \in SUBSET S, NEW V, V = {f[i] : i \in U}
      PROVE  IsFiniteSet(V) /\ Cardinality(V) = Cardinality(U)
  <2> DEFINE g == [i \in U |-> f[i]]
  <2>1. g \in Bijection(U, V)
    BY <1>2, <1>4 DEF Bijection, Injection, Surjection, IsInjective
  <2>2. IsFiniteSet(U)
    BY FS_Subset
  <2> QED BY <2>1, <2>2, FS_Bijection DEF ExistsBijection
<1>5. IsFiniteSet(T) /\ Cardinality(T) = Cardinality(S)
  <2>1. T = {f[i] : i \in S} /\ S \in SUBSET S
    OBVIOUS
  <2> QED BY <1>4, <2>1
<1>6. ASSUME NEW i \in S PROVE Rank(T, f[i]) = Rank(S, i)
  <2>1. Upto(S, i) \in SUBSET S
    BY DEF Upto
  <2>2. Upto(T, f[i]) = {f[j] : j \in Upto(S, i)}
    BY <1>3 DEF Upto
  <2> QED BY <1>4, <2>1, <2>2 DEF Rank
<1>7. T \subseteq Nat
  OBVIOUS
<1>8. ASSUME NEW n \in 1..Cardinality(S) PROVE Nth(T, n) = f[Nth(S, n)]
  <2>1. Nth(S, n) \in S /\ Rank(S, Nth(S, n)) = n
    BY Nths
  <2>2. f[Nth(S, n)] \in T /\ Rank(T, f[Nth(S, n)]) = n
    BY <1>6, <2>1
  <2> QED BY <1>5, <1>7, <2>2, Nths
<1> QED
  BY <1>5, <1>8

-----------------------------------------------------------------------------
(* Lists, and what FlattenSeq makes of a list of lists.                    *)

\* A function on 1..n is a list of its values.
LEMMA ListOf ==
    ASSUME NEW X, NEW n \in Nat, NEW s, s = [i \in 1..n |-> s[i]], \A i \in 1..n : s[i] \in X
    PROVE  s \in Seq(X) /\ Len(s) = n
<1>1. s \in [1..n -> X]
  OBVIOUS
<1>2. s \in Seq(X)
  BY <1>1, SeqDef
<1>3. DOMAIN s = 1..Len(s) /\ Len(s) \in Nat
  BY <1>2, LenProperties
<1> QED
  BY <1>1, <1>2, <1>3

\* What is appended comes behind what was there.
LEMMA Appended ==
    ASSUME NEW X, NEW a \in Seq(X), NEW b \in Seq(X), NEW c, c = a \o b
    PROVE  /\ c \in Seq(X) /\ Len(c) = Len(a) + Len(b)
           /\ Len(a) \in Nat /\ Len(b) \in Nat
           /\ \A i \in 1..Len(a) : c[i] = a[i]
           /\ \A j \in 1..Len(b) : c[Len(a) + j] = b[j]
           /\ \A i \in 1..Len(c) : i \in 1..Len(a) \/ \E j \in 1..Len(b) : i = Len(a) + j
<1>1. Len(a) \in Nat /\ Len(b) \in Nat
  BY LenProperties
<1>2. /\ a \o b \in Seq(X) /\ Len(a \o b) = Len(a) + Len(b)
      /\ \A i \in 1..(Len(a) + Len(b)) :
            (a \o b)[i] = IF i <= Len(a) THEN a[i] ELSE b[i - Len(a)]
  BY ConcatProperties
<1>3. ASSUME NEW j \in 1..Len(b) PROVE c[Len(a) + j] = b[j]
  <2>1. Len(a) + j \in 1..(Len(a) + Len(b)) /\ ~(Len(a) + j <= Len(a))
        /\ (Len(a) + j) - Len(a) = j
    BY <1>1
  <2> QED BY <1>2, <2>1
<1>4. ASSUME NEW i \in 1..Len(a) PROVE c[i] = a[i]
  <2>1. i \in 1..(Len(a) + Len(b)) /\ i <= Len(a)
    BY <1>1
  <2> QED BY <1>2, <2>1
<1>5. ASSUME NEW i \in 1..(Len(a) + Len(b)), i \notin 1..Len(a)
      PROVE  \E j \in 1..Len(b) : i = Len(a) + j
  <2>1. i - Len(a) \in 1..Len(b) /\ i = Len(a) + (i - Len(a))
    BY <1>1, <1>5
  <2> QED BY <2>1
<1> QED
  BY <1>1, <1>2, <1>3, <1>4, <1>5

\* The recursive function in FlattenSeq exists, for every length: so it appends
\* one list after the other.
LEMMA FlattenSteps ==
    ASSUME NEW X, NEW seqs \in Seq(Seq(X))
    PROVE  \E f : /\ f[0] = <<>>
                  /\ \A i \in 1..Len(seqs) : f[i] = f[i - 1] \o seqs[i]
                  /\ FlattenSeq(seqs) = f[Len(seqs)]
<1> DEFINE n == Len(seqs)
           G(g, k) == g = [i \in 1..k |-> IF i = 1 THEN seqs[i] ELSE g[i - 1] \o seqs[i]]
           flatten == CHOOSE g : g = [i \in 1..n |-> IF i = 1 THEN seqs[i] ELSE g[i - 1] \o seqs[i]]
<1>1. n \in Nat /\ \A i \in 1..n : seqs[i] \in Seq(X)
  BY LenProperties, ElementOfSeq
<1>2. CASE n = 0
  <2> DEFINE f == [i \in {0} |-> <<>>]
  <2>1. FlattenSeq(seqs) = seqs /\ seqs = <<>>
    BY <1>2, EmptySeq DEF FlattenSeq
  <2>2. f[0] = <<>>
    OBVIOUS
  <2> HIDE DEF f
  <2> QED BY <1>2, <2>1, <2>2
<1>3. CASE n # 0
  <2> HIDE DEF n
  <2> DEFINE S == {k \in Nat : \E g : G(g, k)}
  <2>1. 0 \in S
    <3> DEFINE e == [i \in 1..0 |-> 0]
    <3>1. e = [i \in 1..0 |-> IF i = 1 THEN seqs[i] ELSE e[i - 1] \o seqs[i]]
      OBVIOUS
    <3>2. G(e, 0)
      BY <3>1
    <3> HIDE DEF e, G
    <3> QED BY <3>2
  <2>2. ASSUME NEW k \in Nat, k \in S PROVE k + 1 \in S
    <3>1. PICK g : G(g, k)
      BY <2>2
    <3> DEFINE e == [i \in 1..(k + 1) |->
                        IF i = k + 1 THEN (IF i = 1 THEN seqs[i] ELSE g[i - 1] \o seqs[i]) ELSE g[i]]
    <3>2. ASSUME NEW i \in 1..(k + 1)
          PROVE  e[i] = IF i = 1 THEN seqs[i] ELSE e[i - 1] \o seqs[i]
      <4>1. CASE i = 1
        BY <3>1, <4>1
      <4>2. CASE i # 1
        <5>1. i - 1 \in 1..k /\ i - 1 \in 1..(k + 1) /\ i - 1 # k + 1
          BY <4>2
        <5>2. e[i - 1] = g[i - 1]
          BY <5>1
        <5>3. CASE i = k + 1
          BY <4>2, <5>2, <5>3
        <5>4. CASE i # k + 1
          <6>1. i \in 1..k /\ e[i] = g[i]
            BY <5>4
          <6>2. g[i] = g[i - 1] \o seqs[i]
            BY <3>1, <4>2, <6>1
          <6> HIDE DEF e, G
          <6> QED BY <4>2, <5>2, <6>1, <6>2
        <5> QED BY <5>3, <5>4
      <4> QED BY <4>1, <4>2
    <3>3. DOMAIN e = 1..(k + 1) /\ e = [i \in 1..(k + 1) |-> e[i]]
      OBVIOUS
    <3>4. G(e, k + 1)
      <4> HIDE DEF e
      <4> QED BY <3>2, <3>3
    <3> HIDE DEF e, G
    <3> QED BY <3>4
  <2>3. Nat \subseteq S
    <3> HIDE DEF S
    <3> QED BY <2>1, <2>2, Induction
  <2>4. \E g : G(g, n)
    BY <1>1, <2>3
  <2>5. G(flatten, n)
    BY <2>4
  <2> HIDE DEF flatten
  <2>6. \A i \in 1..n : flatten[i] = IF i = 1 THEN seqs[i] ELSE flatten[i - 1] \o seqs[i]
    BY <2>5
  <2> DEFINE f == [i \in 0..n |-> IF i = 0 THEN <<>> ELSE flatten[i]]
  <2>7. f[0] = <<>> /\ \A i \in 1..n : f[i] = flatten[i]
    BY <1>1
  <2>8. ASSUME NEW i \in 1..n PROVE f[i] = f[i - 1] \o seqs[i]
    <3> HIDE DEF f
    <3>1. CASE i = 1
      <4>1. f[i] = seqs[i] /\ f[i - 1] = <<>>
        BY <2>6, <2>7, <3>1
      <4> QED BY <1>1, <4>1, ConcatEmptySeq
    <3>2. CASE i # 1
      <4>1. i - 1 \in 1..n
        BY <1>1, <3>2
      <4> QED BY <2>6, <2>7, <3>2, <4>1
    <3> QED BY <3>1, <3>2
  <2>9. FlattenSeq(seqs) = flatten[n]
    BY <1>3 DEF FlattenSeq, flatten, n
  <2>10. f[n] = flatten[n]
    BY <1>1, <1>3
  <2> HIDE DEF f
  <2> QED BY <2>7, <2>8, <2>9, <2>10 DEF n
<1> QED
  BY <1>2, <1>3

\* A list of lists of X flattens to a list of X, in which the j-th element of the
\* k-th list comes j places behind the end of the lists before.
LEMMA Flattened ==
    ASSUME NEW X, NEW seqs \in Seq(Seq(X))
    PROVE  /\ FlattenSeq(seqs) \in Seq(X)
           /\ \E end :
                 /\ end[0] = 0 /\ end[Len(seqs)] = Len(FlattenSeq(seqs))
                 /\ \A k \in 0..Len(seqs) : end[k] \in 0..Len(FlattenSeq(seqs))
                 /\ \A k \in 1..Len(seqs) :
                       /\ end[k] = end[k - 1] + Len(seqs[k])
                       /\ \A j \in 1..Len(seqs[k]) :
                             FlattenSeq(seqs)[end[k - 1] + j] = seqs[k][j]
<1> DEFINE n == Len(seqs)
<1>1. n \in Nat /\ \A i \in 1..n : seqs[i] \in Seq(X)
  BY LenProperties, ElementOfSeq
<1>2. PICK f : /\ f[0] = <<>>
               /\ \A i \in 1..n : f[i] = f[i - 1] \o seqs[i]
               /\ FlattenSeq(seqs) = f[n]
  BY FlattenSteps
<1> HIDE DEF n
<1> DEFINE Good(k) ==
              /\ f[k] \in Seq(X)
              /\ \A i \in 0..k : f[i] \in Seq(X) /\ Len(f[i]) \in 0..Len(f[k])
              /\ \A i \in 1..k :
                    /\ Len(f[i]) = Len(f[i - 1]) + Len(seqs[i])
                    /\ \A j \in 1..Len(seqs[i]) : f[k][Len(f[i - 1]) + j] = seqs[i][j]
           S == {k \in Nat : k <= n => Good(k)}
<1>3. 0 \in S
  <2>1. f[0] \in Seq(X) /\ Len(f[0]) = 0
    BY <1>2, EmptySeq
  <2>2. \A i \in 0..0 : i = 0
    OBVIOUS
  <2>3. Good(0)
    BY <2>1, <2>2
  <2> HIDE DEF Good
  <2> QED BY <2>3
<1>4. ASSUME NEW k \in Nat, k \in S PROVE k + 1 \in S
  <2> HIDE DEF Good
  <2> SUFFICES ASSUME k + 1 <= n PROVE Good(k + 1)
    OBVIOUS
  <2>1. k + 1 \in 1..n /\ Good(k) /\ (k + 1) - 1 = k
    BY <1>1, <1>4
  <2> USE DEF Good
  <2> DEFINE a == f[k]
             b == seqs[k + 1]
             c == f[k + 1]
  <2>2. a \in Seq(X) /\ b \in Seq(X) /\ c = a \o b
    BY <1>1, <1>2, <2>1
  <2>3. /\ c \in Seq(X) /\ Len(c) = Len(a) + Len(b)
        /\ \A i \in 1..Len(a) : c[i] = a[i]
        /\ \A j \in 1..Len(b) : c[Len(a) + j] = b[j]
        /\ Len(a) \in Nat /\ Len(b) \in Nat
    <3> HIDE DEF a, b, c
    <3>1. Len(a) \in Nat /\ Len(b) \in Nat
      BY <2>2, LenProperties
    <3>2. /\ a \o b \in Seq(X) /\ Len(a \o b) = Len(a) + Len(b)
          /\ \A i \in 1..(Len(a) + Len(b)) :
                (a \o b)[i] = IF i <= Len(a) THEN a[i] ELSE b[i - Len(a)]
      BY <2>2, ConcatProperties
    <3>3. ASSUME NEW j \in 1..Len(b) PROVE c[Len(a) + j] = b[j]
      <4>1. Len(a) + j \in 1..(Len(a) + Len(b)) /\ ~(Len(a) + j <= Len(a))
            /\ (Len(a) + j) - Len(a) = j
        BY <3>1
      <4> QED BY <2>2, <3>2, <4>1
    <3>4. ASSUME NEW i \in 1..Len(a) PROVE c[i] = a[i]
      <4>1. i \in 1..(Len(a) + Len(b)) /\ i <= Len(a)
        BY <3>1
      <4> QED BY <2>2, <3>2, <4>1
    <3> QED BY <2>2, <3>1, <3>2, <3>3, <3>4
  <2>4. ASSUME NEW i \in 0..(k + 1)
        PROVE  f[i] \in Seq(X) /\ Len(f[i]) \in 0..Len(c)
    <3>1. CASE i = k + 1
      <4>1. f[i] = c
        BY <3>1
      <4> HIDE DEF a, b, c
      <4> QED BY <2>3, <4>1
    <3>2. CASE i \in 0..k
      <4>1. f[i] \in Seq(X) /\ Len(f[i]) \in 0..Len(a)
        BY <2>1, <3>2
      <4> HIDE DEF a, c
      <4> QED BY <2>3, <4>1
    <3> QED BY <3>1, <3>2
  <2>5. ASSUME NEW i \in 1..(k + 1)
        PROVE  /\ Len(f[i]) = Len(f[i - 1]) + Len(seqs[i])
               /\ \A j \in 1..Len(seqs[i]) : c[Len(f[i - 1]) + j] = seqs[i][j]
    <3>1. CASE i = k + 1
      BY <2>1, <2>3, <3>1
    <3>2. CASE i \in 1..k
      <4>1. /\ Len(f[i]) = Len(f[i - 1]) + Len(seqs[i])
            /\ \A j \in 1..Len(seqs[i]) : a[Len(f[i - 1]) + j] = seqs[i][j]
        BY <2>1, <3>2
      <4>2. i \in 0..k /\ i - 1 \in 0..k
        BY <3>2
      <4>3. Len(f[i]) \in 0..Len(a) /\ Len(f[i - 1]) \in 0..Len(a)
        BY <2>1, <4>2
      <4>4. Len(seqs[i]) \in Nat
        BY <1>1, <2>1, <3>2, LenProperties
      <4> HIDE DEF a, c
      <4>5. ASSUME NEW j \in 1..Len(seqs[i])
            PROVE  c[Len(f[i - 1]) + j] = seqs[i][j]
        <5> DEFINE e == Len(f[i - 1])
                   l == Len(seqs[i])
                   la == Len(a)
                   ei == Len(f[i])
        <5>0. ei \in 0..la /\ e \in 0..la /\ ei = e + l /\ l \in Nat /\ la \in Nat
          BY <2>3, <4>1, <4>3, <4>4
        <5>1. e \in Nat /\ l \in Nat /\ e + l \in 0..la /\ j \in 1..l /\ la \in Nat
          <6> HIDE DEF e, la, ei
          <6> QED BY <5>0
        <5>2. e + j \in 1..la
          <6> HIDE DEF e, l, la
          <6> QED BY <5>1
        <5> QED BY <2>3, <4>1, <5>2
      <4>6. Len(f[i]) = Len(f[i - 1]) + Len(seqs[i])
        BY <4>1
      <4> QED BY <4>5, <4>6
    <3>3. i = k + 1 \/ i \in 1..k
      OBVIOUS
    <3> HIDE DEF c
    <3> QED BY <3>1, <3>2, <3>3
  <2> QED BY <2>3, <2>4, <2>5
<1>5. Good(n)
  <2> HIDE DEF S
  <2>1. n \in S
    BY <1>1, <1>3, <1>4, Induction
  <2> USE DEF S
  <2> HIDE DEF Good
  <2> QED BY <1>1, <2>1
<1> DEFINE end == [k \in 0..n |-> Len(f[k])]
<1>6. /\ end[0] = 0 /\ end[n] = Len(f[n])
      /\ \A k \in 0..n : end[k] \in 0..Len(f[n])
  BY <1>1, <1>2, <1>5, EmptySeq
<1>7. ASSUME NEW k \in 1..n
      PROVE  /\ end[k] = end[k - 1] + Len(seqs[k])
             /\ \A j \in 1..Len(seqs[k]) : f[n][end[k - 1] + j] = seqs[k][j]
  <2>1. k \in 0..n /\ k - 1 \in 0..n
    BY <1>1
  <2>2. end[k] = Len(f[k]) /\ end[k - 1] = Len(f[k - 1])
    BY <2>1
  <2> HIDE DEF end
  <2> QED BY <1>5, <2>2
<1> HIDE DEF end
<1> QED
  BY <1>2, <1>5, <1>6, <1>7 DEF n

-----------------------------------------------------------------------------
(* The import: what withLocalSocks leaves where.                           *)

\* A file whose headers stand alone on their lines.
Plain(lines) ==
    IsFile(lines) /\ \A i \in DOMAIN lines : lines[i].type # "annotated"

\* From h to i the section does not change.
Quiet(lines, h, i) == \A j \in (h + 1)..i : ~IsHeading(lines[j])

Kept(lines) == {i \in DOMAIN lines : NotInSocksSection(lines, i)}

\* Where a line that is kept ends up; the keys before the first header stay there.
Position(lines, i) == Rank(Kept(lines), i)

\* Places in a file are numbers, finitely many of them.
LEMMA Places ==
    ASSUME NEW lines, IsFile(lines), NEW S, S \subseteq DOMAIN lines
    PROVE  /\ Len(lines) \in Nat /\ DOMAIN lines = 1..Len(lines)
           /\ S \subseteq Nat /\ IsFiniteSet(S) /\ Cardinality(S) \in Nat
<1>1. Len(lines) \in Nat /\ DOMAIN lines = 1..Len(lines)
  BY LenProperties DEF IsFile
<1>2. IsFiniteSet(1..Len(lines))
  BY <1>1, FS_Interval
<1> QED
  BY <1>1, <1>2, FS_Subset, FS_CardinalityType

\* A line belongs to the last header before it, and is kept if that one is.
LEMMA SectionOfLine ==
    ASSUME NEW lines, Plain(lines), NEW h \in DOMAIN lines, NEW i \in DOMAIN lines,
           h <= i, IsHeading(lines[h]), Quiet(lines, h, i)
    PROVE  i \in Kept(lines) <=> lines[h].name # "Socks5"
<1> DEFINE headers == {j \in 1..i : lines[j].type = "section"}
<1>1. Len(lines) \in Nat /\ DOMAIN lines = 1..Len(lines)
  BY Places DEF Plain
<1>2. headers \subseteq DOMAIN lines
  BY <1>1
<1>3. headers \subseteq Nat /\ IsFiniteSet(headers)
  BY <1>2, Places DEF Plain
<1>4. h \in headers
  BY <1>1 DEF Plain, IsHeading
<1>5. \A k \in headers : k <= h
  BY <1>1 DEF Quiet, IsHeading
<1>6. Max(headers) \in headers /\ h <= Max(headers)
  BY <1>3, <1>4, MaxIsLast
<1> DEFINE last == Max(headers)
<1>7. last <= h /\ last \in Nat /\ h \in Nat /\ h <= last
  <2> HIDE DEF headers, last
  <2>1. last \in headers /\ h <= last
    BY <1>6 DEF last
  <2>2. h \in Nat
    BY <1>1
  <2> QED BY <1>3, <1>5, <2>1, <2>2
<1>8. Max(headers) = h
  <2> HIDE DEF last
  <2>1. last = h
    BY <1>7
  <2> QED BY <2>1 DEF last
<1> QED
  BY <1>4, <1>8 DEF Kept, NotInSocksSection

\* Before the first header all is kept.
LEMMA BeforeSections ==
    ASSUME NEW lines, Plain(lines), NEW i \in DOMAIN lines, Quiet(lines, 0, i)
    PROVE  i \in Kept(lines)
<1>1. {j \in 1..i : lines[j].type = "section"} = {}
  BY DEF Quiet, IsHeading
<1> QED
  BY <1>1 DEF Kept, NotInSocksSection

\* Every line is before the first header, or has a last header before it.
LEMMA LastHeader ==
    ASSUME NEW lines, Plain(lines), NEW i \in DOMAIN lines
    PROVE  \/ Quiet(lines, 0, i)
           \/ \E h \in DOMAIN lines : h <= i /\ IsHeading(lines[h]) /\ Quiet(lines, h, i)
<1> DEFINE headers == {j \in 1..i : IsHeading(lines[j])}
<1>1. Len(lines) \in Nat /\ DOMAIN lines = 1..Len(lines)
  BY Places DEF Plain
<1>2. headers \subseteq DOMAIN lines
  BY <1>1
<1>3. headers \subseteq Nat /\ IsFiniteSet(headers)
  BY <1>2, Places DEF Plain
<1>4. CASE headers = {}
  BY <1>4 DEF Quiet
<1>5. CASE headers # {}
  <2> DEFINE h == Max(headers)
  <2>1. h \in headers /\ \A k \in headers : k <= h
    BY <1>3, <1>5, MaxIsLast
  <2>2. h \in DOMAIN lines /\ h <= i /\ IsHeading(lines[h])
    BY <1>2, <2>1
  <2> HIDE DEF h
  <2>3. Quiet(lines, h, i)
    BY <1>1, <2>1, <2>2 DEF Quiet
  <2> QED BY <2>2, <2>3
<1> QED
  BY <1>4, <1>5

\* A header is kept unless it is [Socks5].
LEMMA HeaderKept ==
    ASSUME NEW lines, Plain(lines), NEW h \in DOMAIN lines, IsHeading(lines[h])
    PROVE  h \in Kept(lines) <=> lines[h].name # "Socks5"
<1>1. h <= h /\ Quiet(lines, h, h)
  BY Places DEF Plain, Quiet
<1> QED
  BY <1>1, SectionOfLine

\* What belongs to a header that is kept is kept.
LEMMA SectionKept ==
    ASSUME NEW lines, Plain(lines), NEW i \in DOMAIN lines,
           NEW h \in {0} \cup Kept(lines), h = 0 \/ IsHeading(lines[h]),
           h <= i, Quiet(lines, h, i)
    PROVE  i \in Kept(lines)
<1>1. CASE h = 0
  BY <1>1, BeforeSections
<1>2. CASE h # 0
  <2>1. h \in DOMAIN lines /\ h \in Kept(lines) /\ IsHeading(lines[h])
    BY <1>2 DEF Kept
  <2> QED BY <2>1, HeaderKept, SectionOfLine
<1> QED
  BY <1>1, <1>2

\* Between two lines that are kept there is a header if there is one that is kept.
LEMMA QuietIfKeptAre ==
    ASSUME NEW lines, Plain(lines), NEW i \in Kept(lines), NEW h \in Nat,
           \A j \in Kept(lines) : h < j /\ j <= i => ~IsHeading(lines[j])
    PROVE  Quiet(lines, h, i)
<1>1. Len(lines) \in Nat /\ DOMAIN lines = 1..Len(lines) /\ i \in DOMAIN lines
  BY Places DEF Plain, Kept
<1> SUFFICES ASSUME NEW g \in (h + 1)..i, IsHeading(lines[g]) PROVE FALSE
  BY DEF Quiet
<1>2. g \in 1..i
  BY <1>1
<1>3. ~Quiet(lines, 0, i)
  BY <1>2 DEF Quiet
<1>4. PICK last \in DOMAIN lines :
          last <= i /\ IsHeading(lines[last]) /\ Quiet(lines, last, i)
  BY <1>1, <1>3, LastHeader
<1>5. g <= last
  BY <1>1, <1>2, <1>4 DEF Quiet
<1>6. last \in Kept(lines)
  BY <1>1, <1>4, SectionOfLine, HeaderKept
<1> QED
  BY <1>1, <1>4, <1>5, <1>6

\* Positions are in the order of the lines.
LEMMA Positions ==
    ASSUME NEW lines, IsFile(lines)
    PROVE  /\ Cardinality(Kept(lines)) \in Nat
           /\ \A i \in Kept(lines) : i \in 1..Len(lines)
           /\ Position(lines, 0) = 0
           /\ \A i \in Kept(lines) : Position(lines, i) \in 1..Cardinality(Kept(lines))
           /\ \A h \in {0} \cup Kept(lines), i \in Kept(lines) :
                 h < i <=> Position(lines, h) < Position(lines, i)
           /\ \A n \in 1..Cardinality(Kept(lines)) :
                 Nth(Kept(lines), n) \in Kept(lines) /\ Position(lines, Nth(Kept(lines), n)) = n
           /\ \A i \in Kept(lines) : Nth(Kept(lines), Position(lines, i)) = i
<1> DEFINE S == Kept(lines)
<1>1. /\ Len(lines) \in Nat /\ S \subseteq 1..Len(lines)
      /\ S \subseteq Nat /\ IsFiniteSet(S) /\ Cardinality(S) \in Nat
  <2>1. S \subseteq DOMAIN lines
    BY DEF Kept
  <2> QED BY <2>1, Places
<1> HIDE DEF S
<1>2. /\ \A i \in S : Rank(S, i) \in 1..Cardinality(S)
      /\ \A i, k \in S : i < k <=> Rank(S, i) < Rank(S, k)
      /\ \A n \in 1..Cardinality(S) : Nth(S, n) \in S /\ Rank(S, Nth(S, n)) = n
      /\ \A i \in S : Nth(S, Rank(S, i)) = i
  BY <1>1, Ranks, Nths
<1>3. Rank(S, 0) = 0
  <2>1. \A i \in S : ~(i <= 0)
    BY <1>1
  <2>2. Upto(S, 0) = {}
    BY <2>1 DEF Upto
  <2> QED BY <2>2, FS_EmptySet DEF Rank
<1>4. \A i \in S : 0 < i /\ 0 < Rank(S, i)
  BY <1>1, <1>2
<1>5. \A h \in {0} \cup S, i \in S : h < i <=> Rank(S, h) < Rank(S, i)
  BY <1>2, <1>3, <1>4
<1> QED
  BY <1>1, <1>2, <1>3, <1>5 DEF S, Position

\* The lines of the new section.
LEMMA LocalLines ==
    /\ Blank.type = "blank" /\ ~IsHeading(Blank)
    /\ Header("Socks5").type = "section" /\ Header("Socks5").name = "Socks5"
    /\ IsHeading(Header("Socks5"))
    /\ ~IsHeading(Line("key", "BindAddress", <<LocalPort>>))
    /\ Blank.value = <<>> /\ Header("Socks5").value = <<>>
    /\ Line("key", "BindAddress", <<LocalPort>>).value = <<LocalPort>>
<1> QED
  BY DEF IsHeading, Blank, Header, Line

\* The result: the lines that are kept, in order, and the local proxy behind.
LEMMA ImportedFile ==
    ASSUME NEW lines, IsFile(lines), NEW f, f = WithLocalSocks(lines),
           NEW m, m = Cardinality(Kept(lines))
    PROVE  /\ m \in Nat
           /\ Len(f) = m + 3 /\ DOMAIN f = 1..(m + 3)
           /\ \A i \in Kept(lines) : f[Position(lines, i)] = lines[i]
           /\ f[m + 1] = Blank
           /\ f[m + 2] = Header("Socks5")
           /\ f[m + 3] = Line("key", "BindAddress", <<LocalPort>>)
<1> DEFINE X == {lines[i] : i \in DOMAIN lines} \cup
                {Blank, Header("Socks5"), Line("key", "BindAddress", <<LocalPort>>)}
           kept == At(lines, Kept(lines))
           element(n) == lines[Nth(Kept(lines), n)]
<1>1. /\ m \in Nat
      /\ \A n \in 1..m : Nth(Kept(lines), n) \in Kept(lines)
      /\ \A i \in Kept(lines) :
            Position(lines, i) \in 1..m /\ Nth(Kept(lines), Position(lines, i)) = i
  BY Positions
<1>2. f = kept \o LocalSection
  BY DEF WithLocalSocks, Kept
<1>3. kept = [n \in 1..m |-> element(n)]
  BY DEF At
<1>4. \A n \in 1..m : element(n) \in X
  BY <1>1 DEF Kept
<1>5. kept \in Seq(X) /\ Len(kept) = m
  <2> HIDE DEF element, X, kept
  <2>1. kept \in [1..m -> X]
    BY <1>3, <1>4
  <2>2. kept \in Seq(X)
    BY <1>1, <2>1, SeqDef
  <2>3. DOMAIN kept = 1..Len(kept) /\ Len(kept) \in Nat
    BY <2>2, LenProperties
  <2> QED BY <1>1, <2>1, <2>2, <2>3
<1>6. /\ LocalSection \in Seq(X) /\ Len(LocalSection) = 3
      /\ LocalSection[1] = Blank /\ LocalSection[2] = Header("Socks5")
      /\ LocalSection[3] = Line("key", "BindAddress", <<LocalPort>>)
  <2> DEFINE last == Line("key", "BindAddress", <<LocalPort>>)
  <2>1. Blank \in X /\ Header("Socks5") \in X /\ last \in X
    OBVIOUS
  <2>2. LocalSection = <<Blank, Header("Socks5"), last>>
    BY DEF LocalSection
  <2> HIDE DEF last, X
  <2>3. LocalSection \in Seq(X) /\ Len(LocalSection) = 3
        /\ LocalSection[1] = Blank /\ LocalSection[2] = Header("Socks5") /\ LocalSection[3] = last
    BY <2>1, <2>2
  <2> QED BY <2>3 DEF last
<1>7. /\ f \in Seq(X) /\ Len(f) = m + 3
      /\ \A n \in 1..(m + 3) : f[n] = IF n <= m THEN kept[n] ELSE LocalSection[n - m]
  <2> HIDE DEF kept, X
  <2>1. kept \in Seq(X) /\ LocalSection \in Seq(X)
    BY <1>5, <1>6
  <2>2. /\ kept \o LocalSection \in Seq(X)
        /\ Len(kept \o LocalSection) = Len(kept) + Len(LocalSection)
        /\ \A n \in 1..(Len(kept) + Len(LocalSection)) :
              (kept \o LocalSection)[n] =
              IF n <= Len(kept) THEN kept[n] ELSE LocalSection[n - Len(kept)]
    BY <2>1, ConcatProperties
  <2>3. Len(kept) = m /\ Len(LocalSection) = 3
    BY <1>5, <1>6
  <2> QED BY <1>2, <2>2, <2>3
<1>8. DOMAIN f = 1..(m + 3)
  <2> HIDE DEF X
  <2> QED BY <1>7, LenProperties
<1>9. ASSUME NEW i \in Kept(lines) PROVE f[Position(lines, i)] = lines[i]
  <2>1. Position(lines, i) \in 1..m /\ element(Position(lines, i)) = lines[i]
    BY <1>1
  <2> HIDE DEF element
  <2>2. kept[Position(lines, i)] = lines[i]
    BY <1>3, <2>1
  <2> QED BY <1>1, <1>7, <2>1, <2>2
<1>10. /\ f[m + 1] = LocalSection[1] /\ f[m + 2] = LocalSection[2] /\ f[m + 3] = LocalSection[3]
  BY <1>1, <1>7
<1> QED
  BY <1>1, <1>6, <1>7, <1>8, <1>9, <1>10

\* The texts of a file that may have been imported.
Texts == STRING \cup {LocalPort, "", "0", Several}

\* What is imported, or not, is a file, and its values are lists of texts.
LEMMA FilesAreFiles ==
    ASSUME NEW lines, IsFile(lines), NEW f, f \in {lines, WithLocalSocks(lines)}
    PROVE  /\ Len(f) \in Nat /\ DOMAIN f = 1..Len(f)
           /\ \A n \in DOMAIN f : f[n].value \in Seq(Texts)
<1>1. ASSUME NEW n \in DOMAIN lines PROVE lines[n].value \in Seq(Texts)
  <2>1. lines[n].value \in Seq(STRING)
    <3> DEFINE LinesOfFiles == [type : {"section", "annotated", "key", "blank", "junk"},
                                name : STRING, value : Seq(STRING)]
    <3>1. lines \in Seq(LinesOfFiles)
      BY DEF IsFile
    <3>2. n \in 1..Len(lines)
      BY Places
    <3>3. lines[n] \in LinesOfFiles
      <4> HIDE DEF LinesOfFiles
      <4> QED BY <3>1, <3>2, ElementOfSeq
    <3> QED BY <3>3
  <2>2. STRING \subseteq Texts
    BY DEF Texts
  <2> QED BY <2>1, <2>2, SeqMonotonic
<1>2. CASE f = lines
  BY <1>1, <1>2, Places
<1>3. CASE f = WithLocalSocks(lines)
  <2> DEFINE m == Cardinality(Kept(lines))
  <2>1. /\ m \in Nat
        /\ Len(f) = m + 3 /\ DOMAIN f = 1..(m + 3)
        /\ \A i \in Kept(lines) : f[Position(lines, i)] = lines[i]
        /\ f[m + 1] = Blank
        /\ f[m + 2] = Header("Socks5")
        /\ f[m + 3] = Line("key", "BindAddress", <<LocalPort>>)
    BY <1>3, ImportedFile
  <2>2. \A n \in 1..m :
            Nth(Kept(lines), n) \in Kept(lines) /\ Position(lines, Nth(Kept(lines), n)) = n
    BY Positions
  <2>3. /\ f[m + 1].value \in Seq(Texts) /\ f[m + 2].value \in Seq(Texts)
        /\ f[m + 3].value \in Seq(Texts)
    <3>1. f[m + 1].value = <<>> /\ f[m + 2].value = <<>> /\ f[m + 3].value = <<LocalPort>>
      BY <2>1, LocalLines
    <3>2. <<>> \in Seq(Texts) /\ <<LocalPort>> \in Seq(Texts)
      BY DEF Texts
    <3> QED BY <3>1, <3>2
  <2>4. ASSUME NEW n \in 1..m PROVE f[n].value \in Seq(Texts)
    <3>1. Nth(Kept(lines), n) \in DOMAIN lines /\ f[n] = lines[Nth(Kept(lines), n)]
      BY <2>1, <2>2 DEF Kept
    <3> QED BY <1>1, <3>1
  <2>5. ASSUME NEW n \in DOMAIN f PROVE f[n].value \in Seq(Texts)
    <3> HIDE DEF m
    <3>1. n \in 1..m \/ n = m + 1 \/ n = m + 2 \/ n = m + 3
      BY <2>1
    <3> QED BY <2>3, <2>4, <3>1
  <2> QED BY <2>1, <2>5
<1> QED
  BY <1>2, <1>3

\* The keys of a section that is kept are kept, and follow its header.
LEMMA KeysKept ==
    ASSUME NEW lines, Plain(lines), NEW f, f = WithLocalSocks(lines),
           NEW h \in {0} \cup Kept(lines), h = 0 \/ IsHeading(lines[h]), NEW key
    PROVE  /\ KeyLines(lines, h, key) \subseteq Kept(lines)
           /\ KeyLines(f, Position(lines, h), key) =
                 {Position(lines, i) : i \in KeyLines(lines, h, key)}
<1> DEFINE P(i) == Position(lines, i)
           m == Cardinality(Kept(lines))
           K == Kept(lines)
<1>1. /\ m \in Nat
      /\ Len(f) = m + 3
      /\ \A i \in K : f[P(i)] = lines[i]
      /\ f[m + 1] = Blank /\ f[m + 2] = Header("Socks5")
  <2>1. IsFile(lines)
    BY DEF Plain
  <2> QED BY <2>1, ImportedFile
<1>2. /\ Len(lines) \in Nat /\ DOMAIN lines = 1..Len(lines)
      /\ \A i \in K : i \in 1..Len(lines) /\ P(i) \in 1..m
      /\ h \in Nat /\ P(h) \in 0..m
      /\ \A i \in K : h < i <=> P(h) < P(i)
      /\ \A i, k \in K : i < k <=> P(i) < P(k)
      /\ \A n \in 1..m : Nth(K, n) \in K /\ P(Nth(K, n)) = n
  BY Positions, Places DEF Plain
<1>3. ASSUME NEW i \in KeyLines(lines, h, key)
      PROVE  i \in K /\ h < i /\ lines[i].type = "key" /\ lines[i].name = key
             /\ Quiet(lines, h, i)
  <2>1. i \in DOMAIN lines /\ h < i /\ lines[i].type = "key" /\ lines[i].name = key
        /\ Quiet(lines, h, i)
    BY <1>2 DEF KeyLines, Quiet
  <2>2. i \in Nat /\ h <= i
    BY <1>2, <2>1
  <2> QED BY <2>1, <2>2, SectionKept
<1>4. ASSUME NEW i \in KeyLines(lines, h, key)
      PROVE  P(i) \in KeyLines(f, P(h), key)
  <2> DEFINE q == P(i)
             p == P(h)
  <2>1. q \in 1..m /\ p \in Nat /\ p < q
    BY <1>2, <1>3
  <2>2. f[q].type = "key" /\ f[q].name = key
    BY <1>1, <1>3
  <2>3. ASSUME NEW j \in (p + 1)..q PROVE ~IsHeading(f[j])
    <3> DEFINE k == Nth(K, j)
    <3>1. j \in 1..m /\ p < j /\ j <= q
      <4> HIDE DEF p, q, m
      <4> QED BY <1>1, <2>1
    <3>2. k \in K /\ P(k) = j
      BY <1>2, <3>1
    <3>3. h < k /\ ~(i < k)
      <4> HIDE DEF K, k
      <4>1. (h < k <=> p < j) /\ (i < k <=> q < j)
        BY <1>2, <1>3, <3>2
      <4> HIDE DEF p, q
      <4>2. ~(q < j)
        BY <1>1, <2>1, <3>1
      <4> QED BY <3>1, <4>1, <4>2
    <3>4. k \in (h + 1)..i
      <4> HIDE DEF K, k
      <4>1. k \in Nat /\ i \in Nat
        BY <1>2, <1>3, <3>2
      <4> QED BY <1>2, <3>3, <4>1
    <3>5. ~IsHeading(lines[k])
      BY <1>3, <3>4 DEF Quiet
    <3> QED BY <1>1, <3>2, <3>5
  <2> HIDE DEF p, q, m
  <2>4. q \in (p + 1)..Len(f)
    BY <1>1, <2>1
  <2>5. q \in KeyLines(f, p, key)
    BY <2>2, <2>3, <2>4 DEF KeyLines
  <2> QED BY <2>5 DEF p, q
<1>5. ASSUME NEW q \in KeyLines(f, P(h), key)
      PROVE  \E i \in KeyLines(lines, h, key) : q = P(i)
  <2> DEFINE p == P(h)
             k == Nth(K, q)
  <2>1. q \in (p + 1)..(m + 3) /\ f[q].type = "key" /\ f[q].name = key
        /\ \A j \in (p + 1)..q : ~IsHeading(f[j])
    BY <1>1 DEF KeyLines
  <2>2. q # m + 1 /\ q # m + 2
    <3>1. f[m + 1].type = "blank" /\ f[m + 2].type = "section"
      BY <1>1, LocalLines
    <3> HIDE DEF m
    <3> QED BY <2>1, <3>1
  <2>3. q # m + 3
    <3> SUFFICES ASSUME q = m + 3 PROVE FALSE
      OBVIOUS
    <3>0. p \in 0..m
      BY <1>2
    <3> HIDE DEF p, m
    <3>1. m + 2 \in (p + 1)..q
      BY <1>1, <3>0
    <3>2. IsHeading(f[m + 2])
      BY <1>1 DEF Header, Line, IsHeading
    <3> QED BY <2>1, <3>1, <3>2
  <2>4. q \in 1..m /\ p < q /\ p \in Nat
    <3>0. p \in 0..m
      BY <1>2
    <3> HIDE DEF p, m
    <3> QED BY <1>1, <2>1, <2>2, <2>3, <3>0
  <2>5. k \in K /\ P(k) = q
    BY <1>2, <2>4
  <2>6. h < k /\ k \in 1..Len(lines)
    BY <1>2, <2>4, <2>5
  <2>7. lines[k] = f[q]
    BY <1>1, <2>5
  <2> HIDE DEF k
  <2>8. ASSUME NEW j \in K, h < j, j <= k PROVE ~IsHeading(lines[j])
    <3>1. P(j) \in 1..m /\ p < P(j) /\ (k < j <=> q < P(j))
      BY <1>2, <2>5, <2>8
    <3>2. ~(k < j)
      BY <1>2, <2>5, <2>8
    <3> DEFINE z == P(j)
    <3>3. z \in 1..m /\ p < z /\ ~(q < z)
      BY <3>1, <3>2
    <3>4. z \in (p + 1)..q
      <4> HIDE DEF z, p, m
      <4> QED BY <1>1, <2>4, <3>3
    <3>5. ~IsHeading(f[z]) /\ f[z] = lines[j]
      BY <1>1, <2>1, <3>4
    <3> QED BY <3>5
  <2>9. Quiet(lines, h, k)
    BY <1>2, <2>5, <2>8, QuietIfKeptAre
  <2>10. k \in KeyLines(lines, h, key)
    <3>1. k \in (h + 1)..Len(lines)
      BY <1>2, <2>6
    <3> QED BY <2>1, <2>7, <2>9, <3>1 DEF KeyLines, Quiet
  <2> QED BY <2>5, <2>10
<1> QED
  BY <1>3, <1>4, <1>5

\* So their values are what they were.
LEMMA ValueKept ==
    ASSUME NEW lines, Plain(lines), NEW f, f = WithLocalSocks(lines),
           NEW h \in {0} \cup Kept(lines), h = 0 \/ IsHeading(lines[h]), NEW key
    PROVE  Value(f, Position(lines, h), key) = Value(lines, h, key)
<1> DEFINE S == KeyLines(lines, h, key)
           T == KeyLines(f, Position(lines, h), key)
           P(i) == Position(lines, i)
<1>1. S \subseteq Kept(lines) /\ T = {P(i) : i \in S}
  BY KeysKept
<1>2. /\ \A i \in Kept(lines) : i \in Nat /\ P(i) \in Nat
      /\ \A i, k \in Kept(lines) : i < k <=> P(i) < P(k)
      /\ \A i \in Kept(lines) : f[P(i)] = lines[i]
  <2>1. IsFile(lines)
    BY DEF Plain
  <2> QED BY <2>1, Positions, ImportedFile
<1>3. CASE S = {}
  <2>1. T = {}
    BY <1>1, <1>3
  <2> QED BY <1>3, <2>1 DEF Value
<1>4. CASE S # {}
  <2> HIDE DEF S, T
  <2>1. S \subseteq Nat /\ T \subseteq Nat /\ T # {}
    BY <1>1, <1>2, <1>4
  <2>2. PICK i \in S : \A k \in S : i <= k
    BY <1>4, <2>1, First
  <2>3. P(i) \in T /\ \A k \in S : P(i) <= P(k)
    <3>1. P(i) \in T
      BY <1>1
    <3>2. ASSUME NEW k \in S PROVE P(i) <= P(k)
      <4>1. i <= k /\ i \in Nat /\ k \in Nat /\ P(i) \in Nat /\ P(k) \in Nat
            /\ (k < i <=> P(k) < P(i))
        BY <1>1, <1>2, <2>2
      <4> DEFINE pi == P(i)
                 pk == P(k)
      <4>2. i <= k /\ i \in Nat /\ k \in Nat /\ pi \in Nat /\ pk \in Nat
            /\ (k < i <=> pk < pi)
        BY <4>1
      <4> HIDE DEF pi, pk
      <4>3. pi <= pk
        BY <4>2
      <4> QED BY <4>3 DEF pi, pk
    <3> QED BY <3>1, <3>2
  <2>4. \A q \in T : P(i) <= q
    BY <1>1, <2>3
  <2>5. Min(S) = i /\ Min(T) = P(i)
    BY <2>1, <2>2, <2>3, <2>4, MinIsFirst
  <2>6. f[P(i)] = lines[i]
    BY <1>1, <1>2
  <2> USE DEF S, T
  <2> QED BY <1>4, <2>1, <2>5, <2>6 DEF Value
<1> QED
  BY <1>3, <1>4

\* The new section: one key.
LEMMA LocalProxy ==
    ASSUME NEW lines, Plain(lines), NEW f, f = WithLocalSocks(lines),
           NEW m, m = Cardinality(Kept(lines))
    PROVE  /\ Value(f, m + 2, "BindAddress") = <<LocalPort>>
           /\ Value(f, m + 2, "Username") = <<>>
<1>1. /\ m \in Nat /\ Len(f) = m + 3
      /\ f[m + 3] = Line("key", "BindAddress", <<LocalPort>>)
  <2>1. IsFile(lines)
    BY DEF Plain
  <2> QED BY <2>1, ImportedFile
<1>2. /\ f[m + 3].type = "key" /\ f[m + 3].name = "BindAddress"
      /\ f[m + 3].value = <<LocalPort>> /\ ~IsHeading(f[m + 3])
  BY <1>1 DEF Line, IsHeading
<1>3. ((m + 2) + 1)..Len(f) = {m + 3} /\ ((m + 2) + 1)..(m + 3) = {m + 3}
  BY <1>1
<1>4. KeyLines(f, m + 2, "BindAddress") = {m + 3}
  BY <1>2, <1>3 DEF KeyLines
<1>5. KeyLines(f, m + 2, "Username") = {}
  BY <1>2, <1>3 DEF KeyLines
<1>6. Min({m + 3}) = m + 3
  <2>1. {m + 3} \subseteq Nat /\ \A k \in {m + 3} : m + 3 <= k
    BY <1>1
  <2> QED BY <2>1, MinIsFirst
<1> QED
  BY <1>2, <1>4, <1>5, <1>6 DEF Value

\* Sections of other names are kept, in order.
LEMMA SectionsKept ==
    ASSUME NEW lines, Plain(lines), NEW f, f = WithLocalSocks(lines),
           NEW N, "Socks5" \notin N,
           NEW S, S = {h \in Headings(lines) : lines[h].name \in N},
           NEW T, T = {h \in Headings(f) : f[h].name \in N}
    PROVE  /\ S \subseteq Kept(lines)
           /\ T = {Position(lines, h) : h \in S}
           /\ InOrder(T) = [n \in DOMAIN InOrder(S) |-> Position(lines, InOrder(S)[n])]
           /\ \A n \in DOMAIN InOrder(S) : InOrder(S)[n] \in S
<1> DEFINE K == Kept(lines)
           m == Cardinality(K)
           P == [i \in S |-> Position(lines, i)]
<1>1. /\ m \in Nat
      /\ DOMAIN f = 1..(m + 3)
      /\ \A i \in K : f[Position(lines, i)] = lines[i]
      /\ f[m + 1] = Blank /\ f[m + 2] = Header("Socks5")
      /\ f[m + 3] = Line("key", "BindAddress", <<LocalPort>>)
  <2>1. IsFile(lines)
    BY DEF Plain
  <2> QED BY <2>1, ImportedFile
<1>2. /\ \A i \in K : i \in Nat /\ Position(lines, i) \in 1..m
      /\ \A i, k \in K : i < k <=> Position(lines, i) < Position(lines, k)
      /\ \A n \in 1..m : Nth(K, n) \in K /\ Position(lines, Nth(K, n)) = n
  BY Positions DEF Plain
<1>3. S \subseteq K
  BY HeaderKept DEF Headings
<1>4. ASSUME NEW h \in S PROVE Position(lines, h) \in T
  <2>1. h \in K /\ IsHeading(lines[h]) /\ lines[h].name \in N
    BY <1>3 DEF Headings
  <2>2. Position(lines, h) \in 1..m /\ f[Position(lines, h)] = lines[h]
    BY <1>1, <1>2, <2>1
  <2> HIDE DEF m
  <2>3. Position(lines, h) \in DOMAIN f
    BY <1>1, <2>2
  <2> QED BY <2>1, <2>2, <2>3 DEF Headings
<1>5. ASSUME NEW q \in T PROVE \E h \in S : q = Position(lines, h)
  <2>1. q \in 1..(m + 3) /\ IsHeading(f[q]) /\ f[q].name \in N
    BY <1>1 DEF Headings
  <2>2. /\ ~IsHeading(f[m + 1]) /\ f[m + 2].name = "Socks5"
        /\ ~IsHeading(f[m + 3])
    BY <1>1, LocalLines
  <2>3. q \in 1..m
    <3> HIDE DEF m
    <3>1. q # m + 1 /\ q # m + 2 /\ q # m + 3
      BY <2>1, <2>2
    <3> QED BY <1>1, <2>1, <3>1
  <2> DEFINE h == Nth(K, q)
  <2>4. h \in K /\ Position(lines, h) = q /\ f[q] = lines[h]
    BY <1>1, <1>2, <2>3
  <2>5. h \in S
    BY <2>1, <2>4 DEF Headings, Kept
  <2> QED BY <2>4, <2>5
<1>6. T = {Position(lines, h) : h \in S} /\ T = {P[i] : i \in S}
  <2>1. T = {Position(lines, h) : h \in S}
    BY <1>4, <1>5
  <2> QED BY <2>1
<1>7. /\ S \subseteq Nat /\ IsFiniteSet(S) /\ Cardinality(S) \in Nat
  <2>1. S \subseteq DOMAIN lines
    BY DEF Headings
  <2> QED BY <2>1, Places DEF Plain
<1>8. /\ P \in [S -> Nat]
      /\ \A i, k \in S : i < k => P[i] < P[k]
  BY <1>2, <1>3
<1>9. /\ Cardinality(T) = Cardinality(S)
      /\ \A n \in 1..Cardinality(S) : Nth(T, n) = P[Nth(S, n)]
  <2>1. Moves(S, P, T)
    BY <1>6, <1>7, <1>8 DEF Moves
  <2> HIDE DEF P, K, m
  <2> QED BY ONLY <2>1, OrderKept
<1>10. \A n \in 1..Cardinality(S) : Nth(S, n) \in S
  BY <1>7, Nths
<1> QED
  BY <1>3, <1>6, <1>9, <1>10 DEF InOrder

\* What is read of such a section is what was read before.
LEMMA SectionsReadAlike ==
    ASSUME NEW lines, Plain(lines), NEW f, f = WithLocalSocks(lines),
           NEW h \in Kept(lines), IsHeading(lines[h])
    PROVE  /\ PeerOf(f, Position(lines, h)) = PeerOf(lines, h)
           /\ RoutineOf(f, Position(lines, h)) = RoutineOf(lines, h)
<1>0. h \in {0} \cup Kept(lines)
  OBVIOUS
<1>1. ASSUME NEW key PROVE Value(f, Position(lines, h), key) = Value(lines, h, key)
  BY <1>0, ValueKept
<1>2. f[Position(lines, h)] = lines[h]
  <2>1. IsFile(lines)
    BY DEF Plain
  <2> QED BY <2>1, ImportedFile
<1>3. PeerOf(f, Position(lines, h)) = PeerOf(lines, h)
  BY <1>1 DEF PeerOf
<1>4. RoutineOf(f, Position(lines, h)) = RoutineOf(lines, h)
  BY <1>1, <1>2 DEF RoutineOf
<1> QED
  BY <1>3, <1>4

\* The import keeps the peers, in their order.
LEMMA PeersKept ==
    ASSUME NEW lines, Plain(lines), NEW f, f = WithLocalSocks(lines)
    PROVE  PeersOf(f) = PeersOf(lines)
<1> DEFINE N == {"Peer"}
           S == {h \in Headings(lines) : lines[h].name \in N}
           T == {h \in Headings(f) : f[h].name \in N}
<1>0. "Socks5" \notin N
  OBVIOUS
<1>1. S = SectionsByName(lines, "Peer") /\ T = SectionsByName(f, "Peer")
  BY DEF SectionsByName
<1>2. /\ S \subseteq Kept(lines)
      /\ InOrder(T) = [n \in DOMAIN InOrder(S) |-> Position(lines, InOrder(S)[n])]
      /\ \A n \in DOMAIN InOrder(S) : InOrder(S)[n] \in S
  <2> HIDE DEF N
  <2> QED BY <1>0, SectionsKept
<1>3. \A h \in S : h \in Kept(lines) /\ IsHeading(lines[h])
  BY <1>2 DEF Headings
<1> HIDE DEF S, T
<1>4. \A h \in S : PeerOf(f, Position(lines, h)) = PeerOf(lines, h)
  BY <1>3, SectionsReadAlike
<1>5. PeersOf(lines) = [n \in DOMAIN InOrder(S) |-> PeerOf(lines, InOrder(S)[n])]
  BY <1>1 DEF PeersOf
<1>6. PeersOf(f) = [n \in DOMAIN InOrder(T) |-> PeerOf(f, InOrder(T)[n])]
  BY <1>1 DEF PeersOf
<1> DEFINE s == InOrder(S)
<1> HIDE DEF s
<1>7. InOrder(T) = [n \in DOMAIN s |-> Position(lines, s[n])]
      /\ \A n \in DOMAIN s : s[n] \in S
  BY <1>2 DEF s
<1>8. PeersOf(f) = [n \in DOMAIN s |-> PeerOf(f, Position(lines, s[n]))]
  BY <1>6, <1>7
<1>9. \A n \in DOMAIN s : PeerOf(f, Position(lines, s[n])) = PeerOf(lines, s[n])
  BY <1>4, <1>7
<1>10. PeersOf(lines) = [n \in DOMAIN s |-> PeerOf(lines, s[n])]
  BY <1>5 DEF s
<1> QED
  BY <1>8, <1>9, <1>10

\* It keeps the routines that are not local SOCKS5 proxies, in their order.
LEMMA OtherRoutinesKept ==
    ASSUME NEW lines, Plain(lines), NEW f, f = WithLocalSocks(lines)
    PROVE  OtherRoutines(f) = OtherRoutines(lines)
<1> DEFINE N == RoutineKinds \ {"Socks5"}
           S == {h \in Headings(lines) : lines[h].name \in N}
           T == {h \in Headings(f) : f[h].name \in N}
<1>0. "Socks5" \notin N
  OBVIOUS
<1>1. /\ S = {h \in RoutinesAt(lines) : lines[h].name # "Socks5"}
      /\ T = {h \in RoutinesAt(f) : f[h].name # "Socks5"}
  BY DEF RoutinesAt
<1>2. /\ S \subseteq Kept(lines)
      /\ InOrder(T) = [n \in DOMAIN InOrder(S) |-> Position(lines, InOrder(S)[n])]
      /\ \A n \in DOMAIN InOrder(S) : InOrder(S)[n] \in S
  <2> HIDE DEF N
  <2> QED BY <1>0, SectionsKept
<1>3. \A h \in S : h \in Kept(lines) /\ IsHeading(lines[h])
  BY <1>2 DEF Headings
<1> HIDE DEF S, T
<1>4. \A h \in S : RoutineOf(f, Position(lines, h)) = RoutineOf(lines, h)
  BY <1>3, SectionsReadAlike
<1>5. OtherRoutines(lines) = [n \in DOMAIN InOrder(S) |-> RoutineOf(lines, InOrder(S)[n])]
  BY <1>1 DEF OtherRoutines
<1>6. OtherRoutines(f) = [n \in DOMAIN InOrder(T) |-> RoutineOf(f, InOrder(T)[n])]
  BY <1>1 DEF OtherRoutines
<1> DEFINE s == InOrder(S)
<1> HIDE DEF s
<1>7. InOrder(T) = [n \in DOMAIN s |-> Position(lines, s[n])]
      /\ \A n \in DOMAIN s : s[n] \in S
  BY <1>2 DEF s
<1>8. OtherRoutines(f) = [n \in DOMAIN s |-> RoutineOf(f, Position(lines, s[n]))]
  BY <1>6, <1>7
<1>9. \A n \in DOMAIN s : RoutineOf(f, Position(lines, s[n])) = RoutineOf(lines, s[n])
  BY <1>4, <1>7
<1>10. OtherRoutines(lines) = [n \in DOMAIN s |-> RoutineOf(lines, s[n])]
  BY <1>5 DEF s
<1> QED
  BY <1>8, <1>9, <1>10

\* It leaves one SOCKS5 section, the new one.
LEMMA OneLocalProxy ==
    ASSUME NEW lines, Plain(lines), NEW f, f = WithLocalSocks(lines)
    PROVE  \E local \in RoutinesAt(f) :
              /\ {h \in RoutinesAt(f) : f[h].name = "Socks5"} = {local}
              /\ RoutineOf(f, local).bind = LocalPort
              /\ RoutineOf(f, local).username = ""
<1> DEFINE m == Cardinality(Kept(lines))
<1>1. /\ m \in Nat
      /\ DOMAIN f = 1..(m + 3)
      /\ \A i \in Kept(lines) : f[Position(lines, i)] = lines[i]
      /\ f[m + 1] = Blank /\ f[m + 2] = Header("Socks5")
      /\ f[m + 3] = Line("key", "BindAddress", <<LocalPort>>)
  <2>1. IsFile(lines)
    BY DEF Plain
  <2> QED BY <2>1, ImportedFile
<1>2. /\ ~IsHeading(f[m + 1]) /\ IsHeading(f[m + 2]) /\ f[m + 2].name = "Socks5"
      /\ ~IsHeading(f[m + 3])
  BY <1>1, LocalLines
<1>3. ASSUME NEW q \in 1..m PROVE ~(IsHeading(f[q]) /\ f[q].name = "Socks5")
  <2> DEFINE h == Nth(Kept(lines), q)
  <2>1. h \in Kept(lines) /\ Position(lines, h) = q
    BY Positions DEF Plain
  <2>2. f[q] = lines[h] /\ h \in DOMAIN lines
    BY <1>1, <2>1 DEF Kept
  <2> QED BY <2>1, <2>2, HeaderKept
<1>4. ASSUME NEW q \in 1..(m + 3), IsHeading(f[q]), f[q].name = "Socks5" PROVE q = m + 2
  <2>1. q \notin 1..m /\ q # m + 1 /\ q # m + 3
    BY <1>2, <1>3, <1>4
  <2> QED BY <1>1, <2>1
<1>5. m + 2 \in DOMAIN f
  BY <1>1
<1>6. {h \in RoutinesAt(f) : f[h].name = "Socks5"} = {m + 2}
  BY <1>1, <1>2, <1>4, <1>5 DEF RoutinesAt, Headings, RoutineKinds
<1>7. Value(f, m + 2, "BindAddress") = <<LocalPort>> /\ Value(f, m + 2, "Username") = <<>>
  BY LocalProxy
<1>8. Text(<<LocalPort>>) = LocalPort /\ Text(<<>>) = ""
  BY DEF Text
<1> HIDE DEF m
<1>9. RoutineOf(f, m + 2).bind = LocalPort /\ RoutineOf(f, m + 2).username = ""
  BY <1>2, <1>7, <1>8 DEF RoutineOf, Expands
<1> QED
  BY <1>6, <1>9

-----------------------------------------------------------------------------
(* What is read of a file.                                                 *)

\* A value is a list of texts, empty where there is no key.
LEMMA ValuesAreLists ==
    ASSUME NEW f, Len(f) \in Nat, DOMAIN f = 1..Len(f),
           \A n \in DOMAIN f : f[n].value \in Seq(Texts),
           NEW h \in Nat, NEW key
    PROVE  Value(f, h, key) \in Seq(Texts) /\ Text(Value(f, h, key)) \in Texts
<1> DEFINE S == KeyLines(f, h, key)
<1>1. S \subseteq DOMAIN f /\ S \subseteq Nat
  BY DEF KeyLines
<1>2. Value(f, h, key) \in Seq(Texts)
  <2>1. CASE S = {}
    BY <2>1 DEF Value
  <2>2. CASE S # {}
    <3> HIDE DEF S
    <3>1. PICK i \in S : \A k \in S : i <= k
      BY <1>1, <2>2, First
    <3>2. Min(S) = i /\ f[i].value \in Seq(Texts)
      BY <1>1, <3>1, MinIsFirst
    <3> USE DEF S
    <3> QED BY <2>2, <3>2 DEF Value
  <2> QED BY <2>1, <2>2
<1>3. ASSUME NEW v \in Seq(Texts) PROVE Text(v) \in Texts
  <2>1. "" \in Texts /\ Several \in Texts
    BY DEF Texts
  <2>2. CASE v = <<>>
    <3>1. Len(v) # 1
      BY <2>2, EmptySeq
    <3>2. Text(v) = ""
      BY <2>2, <3>1 DEF Text
    <3> QED BY <2>1, <3>2
  <2>3. CASE v # <<>> /\ Len(v) = 1
    <3>1. v[1] \in Texts
      BY <2>3, ElementOfSeq
    <3> QED BY <2>3, <3>1 DEF Text
  <2>4. CASE v # <<>> /\ Len(v) # 1
    BY <2>1, <2>4 DEF Text
  <2> QED BY <2>2, <2>3, <2>4
<1> QED
  BY <1>2, <1>3

\* What parseAllowedIPs accepts is a list of blocks.
LEMMA PartsAreBlocks ==
    ASSUME NEW value \in Seq(Texts), AllIn(value, AllBlocks)
    PROVE  Parts(value) \in Seq(AllBlocks)
<1> DEFINE S == {i \in DOMAIN value : value[i] # ""}
           parts == Parts(value)
<1>1. Len(value) \in Nat /\ DOMAIN value = 1..Len(value)
  BY LenProperties
<1>2. S \subseteq Nat /\ IsFiniteSet(S) /\ Cardinality(S) \in Nat
  <2>1. S \subseteq DOMAIN value
    OBVIOUS
  <2> HIDE DEF S
  <2>2. IsFiniteSet(1..Len(value))
    BY <1>1, FS_Interval
  <2> QED BY <1>1, <2>1, <2>2, FS_Subset, FS_CardinalityType
<1>3. \A i \in S : value[i] \in AllBlocks
  BY DEF AllIn
<1>4. parts = [n \in 1..Cardinality(S) |-> value[Nth(S, n)]]
  BY DEF Parts, At
<1> HIDE DEF S, parts
<1>5. \A n \in 1..Cardinality(S) : Nth(S, n) \in S
  BY <1>2, Nths
<1>6. parts = [n \in 1..Cardinality(S) |-> parts[n]]
      /\ \A n \in 1..Cardinality(S) : parts[n] \in AllBlocks
  BY <1>3, <1>4, <1>5
<1> QED
  BY <1>2, <1>6, ListOf DEF parts

\* Peers that are accepted are as many as their sections, each with a key.
LEMMA PeersAreTyped ==
    ASSUME NEW f, Len(f) \in Nat, DOMAIN f = 1..Len(f),
           \A n \in DOMAIN f : f[n].value \in Seq(Texts),
           PeersReadable(f), NEW ps, ps = PeersOf(f)
    PROVE  \E k \in Nat :
              /\ DOMAIN ps = 1..k
              /\ \A n \in 1..k :
                    /\ ps[n].publicKey \in KeyTexts \cap Texts
                    /\ ps[n].presharedKey \in (KeyTexts \cup {ZeroKey}) \cap Texts
                    /\ ps[n].keepAlive \in Texts
                    /\ ps[n].endpoint \in Seq(Texts)
                    /\ ps[n].allowedIPs \in Seq(AllBlocks)
<1> DEFINE S == SectionsByName(f, "Peer")
           k == Cardinality(S)
<1>1. S \subseteq Nat /\ IsFiniteSet(S) /\ k \in Nat
  <2>1. S \subseteq 1..Len(f) /\ IsFiniteSet(1..Len(f))
    BY FS_Interval DEF SectionsByName, Headings
  <2> QED BY <2>1, FS_Subset, FS_CardinalityType
<1>2. \A n \in 1..k : Nth(S, n) \in S
  BY <1>1, Nths
<1>3. ASSUME NEW h \in S
      PROVE  /\ PeerOf(f, h).publicKey \in KeyTexts \cap Texts
             /\ PeerOf(f, h).presharedKey \in (KeyTexts \cup {ZeroKey}) \cap Texts
             /\ PeerOf(f, h).keepAlive \in Texts
             /\ PeerOf(f, h).endpoint \in Seq(Texts)
             /\ PeerOf(f, h).allowedIPs \in Seq(AllBlocks)
  <2>1. PeerReadable(f, h) /\ h \in Nat
    BY <1>1 DEF PeersReadable
  <2>2. ASSUME NEW key
        PROVE  Value(f, h, key) \in Seq(Texts) /\ Text(Value(f, h, key)) \in Texts
    BY <2>1, ValuesAreLists
  <2>3. Text(Value(f, h, "PublicKey")) \in KeyTexts \cap Texts
    BY <2>1, <2>2 DEF PeerReadable, IsKey
  <2>4. Value(f, h, "PreSharedKey") # <<>> =>
            Text(Value(f, h, "PreSharedKey")) \in KeyTexts \cap Texts
    BY <2>1, <2>2 DEF PeerReadable, IsKey
  <2>5. Parts(Value(f, h, "AllowedIPs")) \in Seq(AllBlocks)
    <3>1. AllIn(Value(f, h, "AllowedIPs"), AllBlocks)
      BY <2>1 DEF PeerReadable
    <3>2. Value(f, h, "AllowedIPs") \in Seq(Texts)
      BY <2>2
    <3> QED BY <3>1, <3>2, PartsAreBlocks
  <2>6. ZeroKey \in Texts /\ "0" \in Texts
    BY DEF Texts, ZeroKey
  <2>7. Value(f, h, "Endpoint") \in Seq(Texts)
        /\ Text(Value(f, h, "PersistentKeepalive")) \in Texts
    BY <2>2
  <2> QED BY <2>3, <2>4, <2>5, <2>6, <2>7 DEF PeerOf
<1>4. ps = [n \in 1..k |-> PeerOf(f, Nth(S, n))]
  BY DEF PeersOf, InOrder
<1> HIDE DEF S, k
<1>5. DOMAIN ps = 1..k /\ \A n \in 1..k : ps[n] = PeerOf(f, Nth(S, n))
  BY <1>4
<1>6. ASSUME NEW n \in 1..k
      PROVE  /\ ps[n].publicKey \in KeyTexts \cap Texts
             /\ ps[n].presharedKey \in (KeyTexts \cup {ZeroKey}) \cap Texts
             /\ ps[n].keepAlive \in Texts
             /\ ps[n].endpoint \in Seq(Texts)
             /\ ps[n].allowedIPs \in Seq(AllBlocks)
  <2>1. Nth(S, n) \in S /\ ps[n] = PeerOf(f, Nth(S, n))
    BY <1>2, <1>5
  <2> QED BY <1>3, <2>1
<1> QED
  BY <1>1, <1>5, <1>6

\* The lines of a request.
RequestLines ==
    ({"public_key", "persistent_keepalive_interval", "preshared_key", "endpoint"} \X Texts)
        \cup ({"allowed_ip"} \X AllBlocks)

\* What PeerOf makes of an accepted section.
TypedPeer(p) ==
    /\ p.publicKey \in Texts /\ p.presharedKey \in Texts /\ p.keepAlive \in Texts
    /\ p.endpoint \in Seq(Texts) /\ p.allowedIPs \in Seq(AllBlocks)

\* What the first j lines of a request give for a field.
GivenFor(req, j, field) == {req[i][2] : i \in {i \in 1..j : req[i][1] = field}}

\* The blocks a peer's section claims.
ClaimedBy(p) == {ClaimsOf(p)[n] : n \in DOMAIN ClaimsOf(p)}

\* A peer's request begins with its key, and then gives its preshared key, its
\* endpoint if it has one, and what it claims.
LEMMA RequestShape ==
    ASSUME NEW p, TypedPeer(p), NEW req, req = PeerRequest(p)
    PROVE  /\ req \in Seq(RequestLines) /\ Len(req) \in Nat /\ Len(req) >= 1
           /\ req[1] = <<"public_key", p.publicKey>>
           /\ \A i \in 2..Len(req) : req[i][1] # "public_key"
           /\ GivenFor(req, Len(req), "allowed_ip") = ClaimedBy(p)
           /\ GivenFor(req, Len(req), "preshared_key") = {p.presharedKey}
           /\ GivenFor(req, Len(req), "endpoint") = {p.endpoint[n] : n \in DOMAIN p.endpoint}
<1> DEFINE about == <<<<"public_key", p.publicKey>>,
                      <<"persistent_keepalive_interval", p.keepAlive>>,
                      <<"preshared_key", p.presharedKey>>>>
           where == [i \in DOMAIN p.endpoint |-> <<"endpoint", p.endpoint[i]>>]
           claims == [i \in DOMAIN ClaimsOf(p) |-> <<"allowed_ip", ClaimsOf(p)[i]>>]
<1> USE DEF TypedPeer
<1>1. /\ about \in Seq(RequestLines) /\ Len(about) = 3
      /\ about[1] = <<"public_key", p.publicKey>>
      /\ about[2] = <<"persistent_keepalive_interval", p.keepAlive>>
      /\ about[3] = <<"preshared_key", p.presharedKey>>
  BY DEF RequestLines
<1>2. /\ where \in Seq(RequestLines) /\ Len(where) \in Nat
      /\ DOMAIN p.endpoint = 1..Len(where)
      /\ \A j \in 1..Len(where) : where[j] = <<"endpoint", p.endpoint[j]>>
  <2>1. Len(p.endpoint) \in Nat /\ DOMAIN p.endpoint = 1..Len(p.endpoint)
        /\ \A i \in 1..Len(p.endpoint) : p.endpoint[i] \in Texts
    BY LenProperties, ElementOfSeq
  <2>2. \A i \in 1..Len(p.endpoint) :
            where[i] \in RequestLines /\ where[i] = <<"endpoint", p.endpoint[i]>>
    BY <2>1 DEF RequestLines
  <2>3. where = [i \in 1..Len(p.endpoint) |-> where[i]]
    BY <2>1
  <2> HIDE DEF where
  <2>4. where \in Seq(RequestLines) /\ Len(where) = Len(p.endpoint)
    BY <2>1, <2>2, <2>3, ListOf
  <2> QED BY <2>1, <2>2, <2>4
<1>3. /\ claims \in Seq(RequestLines) /\ Len(claims) \in Nat
      /\ \A j \in 1..Len(claims) : claims[j][1] = "allowed_ip" /\ claims[j][2] \in ClaimedBy(p)
      /\ \A b \in ClaimedBy(p) : \E j \in 1..Len(claims) : claims[j] = <<"allowed_ip", b>>
  <2> DEFINE blocks == ClaimsOf(p)
             l == Len(blocks)
  <2>1. blocks \in Seq(AllBlocks)
    <3>1. Everything \in Seq(AllBlocks)
      BY DEF Everything, AllBlocks
    <3> QED BY <3>1 DEF ClaimsOf
  <2>2. claims = [i \in DOMAIN blocks |-> <<"allowed_ip", blocks[i]>>]
        /\ ClaimedBy(p) = {blocks[n] : n \in DOMAIN blocks}
    BY DEF ClaimedBy
  <2> HIDE DEF blocks, claims
  <2>3. l \in Nat /\ DOMAIN blocks = 1..l /\ \A i \in 1..l : blocks[i] \in AllBlocks
    BY <2>1, LenProperties, ElementOfSeq
  <2>4. \A i \in 1..l : claims[i] \in RequestLines /\ claims[i] = <<"allowed_ip", blocks[i]>>
    BY <2>2, <2>3 DEF RequestLines
  <2>5. claims = [i \in 1..l |-> claims[i]]
    BY <2>2, <2>3
  <2>6. ClaimedBy(p) = {blocks[n] : n \in 1..l}
    BY <2>2, <2>3
  <2> HIDE DEF l
  <2>7. claims \in Seq(RequestLines) /\ Len(claims) = l
    BY <2>3, <2>4, <2>5, ListOf
  <2> QED BY <2>3, <2>4, <2>6, <2>7
<1>4. req = (about \o where) \o claims
  BY DEF PeerRequest
<1> HIDE DEF about, where, claims
<1> DEFINE head == about \o where
           w == Len(where)
           c == Len(claims)
<1>5. /\ head \in Seq(RequestLines) /\ Len(head) = 3 + w
      /\ \A i \in 1..3 : head[i] = about[i]
      /\ \A j \in 1..w : head[3 + j] = where[j]
      /\ \A i \in 1..(3 + w) : i \in 1..3 \/ \E j \in 1..w : i = 3 + j
  <2>1. about \in Seq(RequestLines) /\ where \in Seq(RequestLines) /\ head = about \o where
    BY <1>1, <1>2
  <2> HIDE DEF head
  <2>2. /\ head \in Seq(RequestLines) /\ Len(head) = Len(about) + Len(where)
        /\ \A i \in 1..Len(about) : head[i] = about[i]
        /\ \A j \in 1..Len(where) : head[Len(about) + j] = where[j]
        /\ \A i \in 1..Len(head) :
              i \in 1..Len(about) \/ \E j \in 1..Len(where) : i = Len(about) + j
    BY <2>1, Appended
  <2> QED BY <1>1, <2>2
<1> HIDE DEF head
<1>6. /\ req \in Seq(RequestLines) /\ Len(req) = (3 + w) + c
      /\ \A i \in 1..(3 + w) : req[i] = head[i]
      /\ \A j \in 1..c : req[(3 + w) + j] = claims[j]
      /\ \A i \in 1..Len(req) : i \in 1..(3 + w) \/ \E j \in 1..c : i = (3 + w) + j
  <2>1. head \in Seq(RequestLines) /\ claims \in Seq(RequestLines) /\ req = head \o claims
    BY <1>3, <1>4, <1>5 DEF head
  <2>2. /\ req \in Seq(RequestLines) /\ Len(req) = Len(head) + Len(claims)
        /\ \A i \in 1..Len(head) : req[i] = head[i]
        /\ \A j \in 1..Len(claims) : req[Len(head) + j] = claims[j]
        /\ \A i \in 1..Len(req) :
              i \in 1..Len(head) \/ \E j \in 1..Len(claims) : i = Len(head) + j
    BY <2>1, Appended
  <2> QED BY <1>5, <2>2
<1>7. w \in Nat /\ c \in Nat
  BY <1>2, <1>3
<1> HIDE DEF w, c
<1>8. \A i \in 1..3 : i \in 1..(3 + w) /\ i \in 1..Len(req)
  BY <1>6, <1>7
<1>9. /\ req[1] = <<"public_key", p.publicKey>>
      /\ req[2][1] = "persistent_keepalive_interval"
      /\ req[3] = <<"preshared_key", p.presharedKey>>
  <2>1. \A i \in 1..3 : req[i] = about[i]
    BY <1>5, <1>6, <1>8
  <2>2. req[1] = about[1] /\ req[2] = about[2] /\ req[3] = about[3]
    BY <2>1
  <2> QED BY <1>1, <2>2
<1>10. ASSUME NEW j \in 1..w
       PROVE  3 + j \in 1..Len(req) /\ req[3 + j] = <<"endpoint", p.endpoint[j]>>
  <2>1. 3 + j \in 1..(3 + w) /\ 3 + j \in 1..Len(req)
    BY <1>6, <1>7
  <2> QED BY <1>2, <1>5, <1>6, <2>1 DEF w
<1>11. ASSUME NEW j \in 1..c
       PROVE  (3 + w) + j \in 1..Len(req) /\ req[(3 + w) + j] = claims[j]
  <2>1. (3 + w) + j \in 1..Len(req)
    BY <1>6, <1>7
  <2> QED BY <1>6, <2>1
<1>12. ASSUME NEW i \in 1..Len(req)
       PROVE  \/ i \in {1, 2, 3}
              \/ \E j \in 1..w : i = 3 + j /\ req[i] = <<"endpoint", p.endpoint[j]>>
              \/ \E j \in 1..c : i = (3 + w) + j /\ req[i] = claims[j]
  <2>1. CASE i \in 1..(3 + w)
    BY <1>5, <1>10, <2>1
  <2>2. CASE i \notin 1..(3 + w)
    BY <1>6, <1>11, <2>2
  <2> QED BY <2>1, <2>2
<1>13. \A i \in 2..Len(req) : req[i][1] # "public_key"
  <2> SUFFICES ASSUME NEW i \in 2..Len(req) PROVE req[i][1] # "public_key"
    OBVIOUS
  <2>1. i \in 1..Len(req) /\ i # 1
    BY <1>6, <1>7
  <2>2. i = 2 \/ i = 3 \/ (\E j \in 1..w : req[i] = <<"endpoint", p.endpoint[j]>>)
        \/ \E j \in 1..c : req[i] = claims[j]
    BY <1>12, <2>1
  <2> QED BY <1>3, <1>9, <2>2 DEF c
<1>14. GivenFor(req, Len(req), "allowed_ip") = ClaimedBy(p)
  <2>1. ASSUME NEW i \in 1..Len(req), req[i][1] = "allowed_ip" PROVE req[i][2] \in ClaimedBy(p)
    <3>1. i = 1 \/ i = 2 \/ i = 3 \/ (\E j \in 1..w : req[i] = <<"endpoint", p.endpoint[j]>>)
          \/ \E j \in 1..c : req[i] = claims[j]
      BY <1>12
    <3> QED BY <1>3, <1>9, <2>1, <3>1 DEF c
  <2>2. ASSUME NEW b \in ClaimedBy(p)
        PROVE  \E i \in 1..Len(req) : req[i][1] = "allowed_ip" /\ req[i][2] = b
    <3>1. PICK j \in 1..c : claims[j] = <<"allowed_ip", b>>
      BY <1>3 DEF c
    <3> QED BY <1>11, <3>1
  <2> QED BY <2>1, <2>2 DEF GivenFor
<1>15. GivenFor(req, Len(req), "preshared_key") = {p.presharedKey}
  <2>1. ASSUME NEW i \in 1..Len(req), req[i][1] = "preshared_key"
        PROVE  req[i][2] = p.presharedKey
    <3>1. i = 1 \/ i = 2 \/ i = 3 \/ (\E j \in 1..w : req[i] = <<"endpoint", p.endpoint[j]>>)
          \/ \E j \in 1..c : req[i] = claims[j]
      BY <1>12
    <3> QED BY <1>3, <1>9, <2>1, <3>1 DEF c
  <2>2. 3 \in 1..Len(req)
    BY <1>8
  <2> QED BY <1>9, <2>1, <2>2 DEF GivenFor
<1>16. GivenFor(req, Len(req), "endpoint") = {p.endpoint[n] : n \in DOMAIN p.endpoint}
  <2>1. ASSUME NEW i \in 1..Len(req), req[i][1] = "endpoint"
        PROVE  \E n \in DOMAIN p.endpoint : req[i][2] = p.endpoint[n]
    <3>1. i = 1 \/ i = 2 \/ i = 3 \/ (\E j \in 1..w : req[i] = <<"endpoint", p.endpoint[j]>>)
          \/ \E j \in 1..c : req[i] = claims[j]
      BY <1>12
    <3>2. DOMAIN p.endpoint = 1..w
      BY <1>2 DEF w
    <3>3. \A j \in 1..c : claims[j][1] # "endpoint"
      BY <1>3 DEF c
    <3>4. PICK j \in 1..w : req[i] = <<"endpoint", p.endpoint[j]>>
      BY <1>9, <2>1, <3>1, <3>3
    <3> QED BY <3>2, <3>4
  <2>2. ASSUME NEW n \in DOMAIN p.endpoint
        PROVE  \E i \in 1..Len(req) : req[i][1] = "endpoint" /\ req[i][2] = p.endpoint[n]
    <3>1. n \in 1..w
      BY <1>2 DEF w
    <3> QED BY <1>10, <3>1
  <2> DEFINE there == {p.endpoint[n] : n \in DOMAIN p.endpoint}
  <2>3. \A value \in GivenFor(req, Len(req), "endpoint") : value \in there
    BY <2>1 DEF GivenFor
  <2>4. \A value \in there : value \in GivenFor(req, Len(req), "endpoint")
    <3> SUFFICES ASSUME NEW n \in DOMAIN p.endpoint
                 PROVE  p.endpoint[n] \in GivenFor(req, Len(req), "endpoint")
      OBVIOUS
    <3> QED BY <2>2 DEF GivenFor
  <2> HIDE DEF there
  <2>5. GivenFor(req, Len(req), "endpoint") = there
    BY <2>3, <2>4
  <2> QED BY <2>5 DEF there
<1> QED
  BY <1>6, <1>7, <1>9, <1>13, <1>14, <1>15, <1>16

\* The request for accepted peers gives away blocks and nothing else.
LEMMA RequestIsTyped ==
    ASSUME NEW ps, NEW k \in Nat, DOMAIN ps = 1..k, \A n \in 1..k : TypedPeer(ps[n])
    PROVE  PeersRequest(ps) \in Seq(RequestLines)
<1> DEFINE requests == [n \in DOMAIN ps |-> PeerRequest(ps[n])]
<1>1. ASSUME NEW n \in 1..k PROVE requests[n] \in Seq(RequestLines)
  <2>1. requests[n] = PeerRequest(ps[n]) /\ TypedPeer(ps[n])
    OBVIOUS
  <2> QED BY <2>1, RequestShape
<1>2. requests = [n \in 1..k |-> requests[n]] /\ PeersRequest(ps) = FlattenSeq(requests)
  BY DEF PeersRequest
<1> HIDE DEF requests
<1>3. requests \in Seq(Seq(RequestLines))
  BY <1>1, <1>2, ListOf
<1> QED
  BY <1>2, <1>3, Flattened

-----------------------------------------------------------------------------
(* What the device makes of the request.                                   *)

\* The recursive function in Configured, over the subsets of 1..n by their last
\* elements, exists: so it handles the lines one after the other.
LEMMA ConfiguredSteps ==
    ASSUME NEW n \in Nat, NEW L, DOMAIN L = 1..n
    PROVE  \E g : /\ g[0] = EmptyDevice
                  /\ \A i \in 1..n : g[i] = Handle(g[i - 1], L[i])
                  /\ Configured(L) = g[n]
<1> DEFINE Body(it, s) == IF s = {} THEN EmptyDevice
                          ELSE Handle(it[s \ {Max(s)}], L[Max(s)])
           Rec(it, k) == it = [s \in SUBSET (1..k) |-> Body(it, s)]
           iter == CHOOSE it : it = [s \in SUBSET (1..n) |-> Body(it, s)]
<1>1. Configured(L) = iter[1..n]
  BY DEF Configured, FoldLeft, MapThenFoldSet
<1> DEFINE S == {k \in Nat : \E it : Rec(it, k)}
<1>2. 0 \in S
  <2> DEFINE it == [s \in SUBSET (1..0) |-> EmptyDevice]
  <2>1. \A s \in SUBSET (1..0) : Body(it, s) = EmptyDevice
    OBVIOUS
  <2>2. Rec(it, 0)
    <3> HIDE DEF Body
    <3> QED BY <2>1
  <2> HIDE DEF it, Rec
  <2> QED BY <2>2
<1>3. ASSUME NEW k \in Nat, k \in S PROVE k + 1 \in S
  <2>1. PICK old : Rec(old, k)
    BY <1>3
  <2> DEFINE it == [s \in SUBSET (1..(k + 1)) |->
                      IF k + 1 \in s THEN Handle(old[s \ {k + 1}], L[k + 1]) ELSE old[s]]
  <2>2. ASSUME NEW s \in SUBSET (1..(k + 1)) PROVE it[s] = Body(it, s)
    <3>1. CASE k + 1 \in s
      <4>1. Max(s) = k + 1
        BY <3>1, MaxUpto
      <4>2. s \ {k + 1} \in SUBSET (1..(k + 1)) /\ k + 1 \notin s \ {k + 1}
        OBVIOUS
      <4>3. it[s \ {k + 1}] = old[s \ {k + 1}]
        BY <4>2
      <4>4. it[s] = Handle(old[s \ {k + 1}], L[k + 1])
        BY <3>1
      <4> HIDE DEF it
      <4> QED BY <3>1, <4>1, <4>3, <4>4
    <3>2. CASE k + 1 \notin s
      <4>1. s \in SUBSET (1..k)
        BY <3>2
      <4>2. it[s] = old[s] /\ old[s] = Body(old, s)
        <5>1. it[s] = old[s]
          BY <3>2
        <5> HIDE DEF it, Body
        <5> QED BY <2>1, <4>1, <5>1
      <4>3. CASE s = {}
        <5> HIDE DEF it
        <5> QED BY <4>2, <4>3
      <4>4. CASE s # {}
        <5>1. s \ {Max(s)} \in SUBSET (1..(k + 1)) /\ k + 1 \notin s \ {Max(s)}
          BY <3>2
        <5>2. it[s \ {Max(s)}] = old[s \ {Max(s)}]
          BY <5>1
        <5> HIDE DEF it
        <5> QED BY <4>2, <4>4, <5>2
      <4> QED BY <4>3, <4>4
    <3> QED BY <3>1, <3>2
  <2>3. Rec(it, k + 1)
    <3>1. it = [s \in SUBSET (1..(k + 1)) |-> it[s]]
      OBVIOUS
    <3> HIDE DEF it, Body
    <3> QED BY <2>2, <3>1
  <2> HIDE DEF it, Rec
  <2> QED BY <2>3
<1>4. n \in S
  <2> HIDE DEF S
  <2> QED BY <1>2, <1>3, Induction
<1>5. iter = [s \in SUBSET (1..n) |-> Body(iter, s)]
  <2>1. \E it : it = [s \in SUBSET (1..n) |-> Body(it, s)]
    BY <1>4
  <2> HIDE DEF Body
  <2> QED BY <2>1
<1> HIDE DEF iter
<1>6. \A s \in SUBSET (1..n) : iter[s] = Body(iter, s)
  <2> HIDE DEF Body
  <2> QED BY <1>5
<1> DEFINE g == [i \in 0..n |-> iter[1..i]]
<1>7. g[0] = EmptyDevice
  <2>1. 1..0 = {} /\ 1..0 \in SUBSET (1..n) /\ 0 \in 0..n
    OBVIOUS
  <2>2. iter[1..0] = EmptyDevice
    BY <1>6, <2>1
  <2> QED BY <2>1, <2>2
<1>8. ASSUME NEW i \in 1..n PROVE g[i] = Handle(g[i - 1], L[i])
  <2>0. i \in 1..i /\ i \in Nat
    OBVIOUS
  <2>1. 1..i \in SUBSET (1..n) /\ 1..i # {} /\ (1..i) \ {i} = 1..(i - 1)
        /\ i \in 0..n /\ i - 1 \in 0..n
    <3>1. 1..i \subseteq 1..n /\ i \in 0..n /\ i - 1 \in 0..n
      OBVIOUS
    <3>2. \A j : j \in (1..i) \ {i} <=> j \in 1..(i - 1)
      OBVIOUS
    <3> QED BY <2>0, <3>1, <3>2
  <2>2. Max(1..i) = i
    <3>1. 1..i \in SUBSET (1..i) /\ 1..i # {}
      BY <2>0
    <3> QED BY <2>0, <3>1, MaxUpto
  <2>3. iter[1..i] = Handle(iter[(1..i) \ {i}], L[i])
    BY <1>6, <2>1, <2>2
  <2>4. g[i] = iter[1..i] /\ g[i - 1] = iter[1..(i - 1)]
    BY <2>1
  <2> HIDE DEF g
  <2> QED BY <2>1, <2>3, <2>4
<1>9. Configured(L) = g[n]
  BY <1>1
<1> HIDE DEF g
<1> QED
  BY <1>7, <1>8, <1>9

\* What the device has for a field of a peer.
SettingOf(settings, key, field) ==
    {settings[what] : what \in {<<key, field>>} \cap DOMAIN settings}

\* A device has what EmptyDevice has.
IsDevice(d) == d = [selected |-> d.selected, owner |-> d.owner, settings |-> d.settings]

\* A device in which no line of a request has been handled yet is a device.
LEMMA EmptyIsDevice ==
    /\ IsDevice(EmptyDevice) /\ DOMAIN EmptyDevice.owner = {}
    /\ \A key, field : SettingOf(EmptyDevice.settings, key, field) = {}
<1>1. /\ EmptyDevice.selected = "" /\ EmptyDevice.owner = <<>> /\ EmptyDevice.settings = <<>>
      /\ EmptyDevice = [selected |-> "", owner |-> <<>>, settings |-> <<>>]
  BY DEF EmptyDevice
<1>2. DOMAIN EmptyDevice.owner = {} /\ DOMAIN EmptyDevice.settings = {}
  <2>1. DOMAIN <<>> = {}
    OBVIOUS
  <2>2. DOMAIN EmptyDevice.owner = DOMAIN <<>> /\ DOMAIN EmptyDevice.settings = DOMAIN <<>>
    BY <1>1
  <2> QED BY <2>1, <2>2
<1> QED
  BY <1>1, <1>2 DEF IsDevice, SettingOf

\* What a line of a request changes in the device.
LEMMA Handled ==
    ASSUME NEW d, IsDevice(d), NEW line, NEW field, NEW value,
           line = <<field, value>>, NEW e, e = Handle(d, line)
    PROVE  /\ IsDevice(e)
           /\ field = "public_key" =>
                 e.selected = value /\ e.owner = d.owner /\ e.settings = d.settings
           /\ field = "allowed_ip" =>
                 /\ e.selected = d.selected /\ e.settings = d.settings
                 /\ e.owner = Updated(d.owner, value, d.selected)
           /\ field \notin {"public_key", "allowed_ip"} =>
                 /\ e.selected = d.selected /\ e.owner = d.owner
                 /\ e.settings = Updated(d.settings, <<d.selected, field>>, value)
<1> DEFINE s == d.selected
           o == d.owner
           t == d.settings
           owner == Updated(o, value, s)
           settings == Updated(t, <<s, field>>, value)
<1>1. d = [selected |-> s, owner |-> o, settings |-> t]
  BY DEF IsDevice
<1>2. e = CASE field = "public_key" -> [d EXCEPT !.selected = value]
            [] field = "allowed_ip" -> [d EXCEPT !.owner = owner]
            [] OTHER -> [d EXCEPT !.settings = settings]
  <2>1. line[1] = field /\ line[2] = value
    OBVIOUS
  <2> QED BY <2>1 DEF Handle
<1> HIDE DEF s, o, t, owner, settings
<1>3. /\ [d EXCEPT !.selected = value] = [selected |-> value, owner |-> o, settings |-> t]
      /\ [d EXCEPT !.owner = owner] = [selected |-> s, owner |-> owner, settings |-> t]
      /\ [d EXCEPT !.settings = settings] = [selected |-> s, owner |-> o, settings |-> settings]
  BY <1>1
<1>4. CASE field = "public_key"
  <2>1. e = [selected |-> value, owner |-> o, settings |-> t]
    BY <1>2, <1>3, <1>4
  <2> QED BY <1>4, <2>1 DEF IsDevice, s, o, t
<1>5. CASE field = "allowed_ip"
  <2>1. e = [selected |-> s, owner |-> owner, settings |-> t]
    BY <1>2, <1>3, <1>5
  <2> QED BY <1>5, <2>1 DEF IsDevice, s, o, t, owner
<1>6. CASE field # "public_key" /\ field # "allowed_ip"
  <2>1. e = [selected |-> s, owner |-> o, settings |-> settings]
    BY <1>2, <1>3, <1>6
  <2> QED BY <1>6, <2>1 DEF IsDevice, s, o, t, settings
<1> QED
  BY <1>4, <1>5, <1>6

\* A setting is the one that was made last.
LEMMA SettingUpdated ==
    ASSUME NEW settings, NEW x, NEW value,
           NEW new, new = Updated(settings, x, value), NEW key, NEW field
    PROVE  /\ x = <<key, field>> => SettingOf(new, key, field) = {value}
           /\ x # <<key, field>> => SettingOf(new, key, field) = SettingOf(settings, key, field)
<1> DEFINE y == <<key, field>>
<1> HIDE DEF y
<1>2. /\ DOMAIN new = DOMAIN settings \cup {x} /\ new[x] = value
      /\ \A z \in DOMAIN settings : z # x => new[z] = settings[z]
  BY DEF Updated
<1>3. SettingOf(new, key, field) = {new[what] : what \in {y} \cap DOMAIN new}
      /\ SettingOf(settings, key, field) = {settings[what] : what \in {y} \cap DOMAIN settings}
  BY DEF SettingOf, y
<1>4. CASE x = y
  <2>1. {y} \cap DOMAIN new = {x}
    BY <1>2, <1>4
  <2>2. SettingOf(new, key, field) = {new[what] : what \in {x}}
    BY <1>3, <2>1
  <2>3. SettingOf(new, key, field) = {value}
    BY <1>2, <2>2
  <2> QED BY <1>4, <2>3 DEF y
<1>5. CASE x # y
  <2>1. {y} \cap DOMAIN new = {y} \cap DOMAIN settings
    BY <1>2, <1>5
  <2>2. \A what \in {y} \cap DOMAIN settings : new[what] = settings[what]
    BY <1>2, <1>5
  <2>3. SettingOf(new, key, field) = SettingOf(settings, key, field)
    BY <1>3, <2>1, <2>2
  <2> QED BY <1>5, <2>3 DEF y
<1> QED
  BY <1>4, <1>5

\* Device e is device d after the first j lines of a peer's request.
AfterLines(d, req, j, key, e) ==
    /\ IsDevice(e) /\ e.selected = key
    /\ DOMAIN e.owner = DOMAIN d.owner \cup GivenFor(req, j, "allowed_ip")
    /\ \A block \in DOMAIN e.owner :
          e.owner[block] = IF block \in GivenFor(req, j, "allowed_ip") THEN key
                                                                       ELSE d.owner[block]
    /\ \A other, field :
          other # key => SettingOf(e.settings, other, field) = SettingOf(d.settings, other, field)
    /\ \A field \in {"endpoint", "preshared_key"} :
          IF GivenFor(req, j, field) = {}
          THEN SettingOf(e.settings, key, field) = SettingOf(d.settings, key, field)
          ELSE /\ SettingOf(e.settings, key, field) # {}
               /\ SettingOf(e.settings, key, field) \subseteq GivenFor(req, j, field)

\* One more line gives one more value, or nothing.
LEMMA GivenStep ==
    ASSUME NEW req, NEW j \in Nat, NEW field
    PROVE  GivenFor(req, j + 1, field) =
             GivenFor(req, j, field) \cup IF req[j + 1][1] = field THEN {req[j + 1][2]} ELSE {}
<1>1. \A i : i \in 1..(j + 1) <=> i \in 1..j \/ i = j + 1
  OBVIOUS
<1> DEFINE before == GivenFor(req, j, field)
           after == GivenFor(req, j + 1, field)
<1>2. \A value : value \in before <=> \E i \in 1..j : req[i][1] = field /\ req[i][2] = value
  BY DEF GivenFor
<1>3. \A value : value \in after <=> \E i \in 1..(j + 1) : req[i][1] = field /\ req[i][2] = value
  BY DEF GivenFor
<1> HIDE DEF before, after
<1>4. ASSUME NEW value
      PROVE  value \in after <=> value \in before \/ (req[j + 1][1] = field /\ value = req[j + 1][2])
  BY <1>1, <1>2, <1>3
<1> QED
  BY <1>4 DEF before, after

\* After the lines of a peer, the device knows of it what they say, and of the other
\* peers what it knew.
LEMMA RequestHandled ==
    ASSUME NEW req, NEW n \in Nat, n >= 1, NEW key, req[1] = <<"public_key", key>>,
           \A i \in 2..n : req[i][1] # "public_key" /\ req[i] = <<req[i][1], req[i][2]>>,
           NEW d, IsDevice(d), NEW h, h[0] = d,
           \A i \in 1..n : h[i] = Handle(h[i - 1], req[i])
    PROVE  AfterLines(d, req, n, key, h[n])
<1> DEFINE S == {j \in Nat : j + 1 <= n => AfterLines(d, req, j + 1, key, h[j + 1])}
<1>1. 0 \in S
  <2>1. 1 \in 1..n /\ h[1] = Handle(d, req[1])
    <3>1. 1 \in 1..n /\ 1 - 1 = 0
      OBVIOUS
    <3> QED BY <3>1
  <2>2. /\ IsDevice(h[1]) /\ h[1].selected = key
        /\ h[1].owner = d.owner /\ h[1].settings = d.settings
    <3> DEFINE e == h[1]
               o == d.owner
               t == d.settings
    <3>1. e = [d EXCEPT !.selected = key]
      <4>1. req[1][1] = "public_key" /\ req[1][2] = key
        OBVIOUS
      <4> QED BY <2>1, <4>1 DEF Handle
    <3>2. d = [selected |-> d.selected, owner |-> o, settings |-> t]
      BY DEF IsDevice
    <3> HIDE DEF e, o, t
    <3>3. e = [selected |-> key, owner |-> o, settings |-> t]
      BY <3>1, <3>2
    <3> QED BY <3>3 DEF IsDevice, e, o, t
  <2>3. \A field \in {"endpoint", "preshared_key", "allowed_ip"} : GivenFor(req, 1, field) = {}
    <3>1. \A i \in 1..1 : i = 1
      OBVIOUS
    <3>2. req[1][1] = "public_key"
      OBVIOUS
    <3> QED BY <3>1, <3>2 DEF GivenFor
  <2>4. AfterLines(d, req, 1, key, h[1])
    BY <2>2, <2>3 DEF AfterLines
  <2>5. 0 + 1 = 1
    OBVIOUS
  <2> QED BY <2>4, <2>5
<1>2. ASSUME NEW m \in Nat, m \in S PROVE m + 1 \in S
  <2> DEFINE j == m + 1
             e == h[j]
             line == req[j + 1]
             about == line[1]
             value == line[2]
             f == h[j + 1]
  <2> SUFFICES ASSUME j + 1 <= n PROVE AfterLines(d, req, j + 1, key, f)
    OBVIOUS
  <2>1. AfterLines(d, req, j, key, e)
    BY <1>2
  <2>2. j \in Nat /\ j + 1 \in 1..n /\ j + 1 \in 2..n /\ (j + 1) - 1 = j
    OBVIOUS
  <2>3. f = Handle(e, line) /\ about # "public_key" /\ line = <<about, value>>
    BY <2>2
  <2> HIDE DEF j, e, f, line
  <2>4. IsDevice(e) /\ e.selected = key
    BY <2>1 DEF AfterLines
  <2> HIDE DEF about, value
  <2>5. /\ IsDevice(f) /\ f.selected = key
        /\ about = "allowed_ip" =>
              f.settings = e.settings /\ f.owner = Updated(e.owner, value, key)
        /\ about # "allowed_ip" =>
              /\ f.owner = e.owner
              /\ f.settings = Updated(e.settings, <<key, about>>, value)
    BY <2>3, <2>4, Handled
  <2>6. ASSUME NEW field
        PROVE  GivenFor(req, j + 1, field) =
                 GivenFor(req, j, field) \cup IF about = field THEN {value} ELSE {}
    BY <2>2, GivenStep DEF line, about, value
  <2>7. /\ DOMAIN f.owner = DOMAIN d.owner \cup GivenFor(req, j + 1, "allowed_ip")
        /\ \A block \in DOMAIN f.owner :
              f.owner[block] = IF block \in GivenFor(req, j + 1, "allowed_ip") THEN key
                                                                         ELSE d.owner[block]
    <3> DEFINE old == GivenFor(req, j, "allowed_ip")
               new == GivenFor(req, j + 1, "allowed_ip")
    <3>1. new = old \cup IF about = "allowed_ip" THEN {value} ELSE {}
      BY <2>6
    <3>2. /\ DOMAIN e.owner = DOMAIN d.owner \cup old
          /\ \A block \in DOMAIN e.owner :
                e.owner[block] = IF block \in old THEN key ELSE d.owner[block]
      BY <2>1 DEF AfterLines
    <3> HIDE DEF old, new
    <3>3. CASE about = "allowed_ip"
      <4>1. /\ DOMAIN f.owner = DOMAIN e.owner \cup {value}
            /\ \A block \in DOMAIN f.owner :
                  f.owner[block] = IF block = value THEN key ELSE e.owner[block]
        BY <2>5, <3>3 DEF Updated
      <4>2. new = old \cup {value}
        BY <3>1, <3>3
      <4> QED BY <3>2, <4>1, <4>2 DEF new
    <3>4. CASE about # "allowed_ip"
      <4>1. new = old /\ f.owner = e.owner
        BY <2>5, <3>1, <3>4
      <4> QED BY <3>2, <4>1 DEF new
    <3> QED BY <3>3, <3>4
  <2>8. ASSUME NEW other, NEW field, other # key
        PROVE  SettingOf(f.settings, other, field) = SettingOf(d.settings, other, field)
    <3>1. SettingOf(e.settings, other, field) = SettingOf(d.settings, other, field)
      BY <2>1, <2>8 DEF AfterLines
    <3>2. SettingOf(f.settings, other, field) = SettingOf(e.settings, other, field)
      <4>1. CASE about = "allowed_ip"
        BY <2>5, <4>1
      <4>2. CASE about # "allowed_ip"
        <5>1. f.settings = Updated(e.settings, <<key, about>>, value)
          BY <2>5, <4>2
        <5> DEFINE x == <<key, about>>
        <5>2. f.settings = Updated(e.settings, x, value) /\ x # <<other, field>>
          BY <2>8, <5>1
        <5> HIDE DEF x
        <5> QED BY <5>2, SettingUpdated
      <4> QED BY <4>1, <4>2
    <3> QED BY <3>1, <3>2
  <2>9. ASSUME NEW field \in {"endpoint", "preshared_key"}
        PROVE  IF GivenFor(req, j + 1, field) = {}
               THEN SettingOf(f.settings, key, field) = SettingOf(d.settings, key, field)
               ELSE /\ SettingOf(f.settings, key, field) # {}
                    /\ SettingOf(f.settings, key, field) \subseteq GivenFor(req, j + 1, field)
    <3> DEFINE old == GivenFor(req, j, field)
               new == GivenFor(req, j + 1, field)
               was == SettingOf(e.settings, key, field)
               is == SettingOf(f.settings, key, field)
               first == SettingOf(d.settings, key, field)
    <3>1. new = old \cup IF about = field THEN {value} ELSE {}
      BY <2>6
    <3>2. IF old = {} THEN was = first ELSE was # {} /\ was \subseteq old
      BY <2>1 DEF AfterLines
    <3>3. is = IF about = field THEN {value} ELSE was
      <4>1. CASE about = "allowed_ip"
        BY <2>5, <4>1
      <4>2. CASE about # "allowed_ip"
        <5>1. f.settings = Updated(e.settings, <<key, about>>, value)
          BY <2>5, <4>2
        <5> DEFINE x == <<key, about>>
        <5>2. /\ f.settings = Updated(e.settings, x, value)
              /\ x = <<key, field>> <=> field = about
          BY <5>1
        <5> HIDE DEF x
        <5>3. CASE x = <<key, field>>
          BY <5>2, <5>3, SettingUpdated
        <5>4. CASE x # <<key, field>>
          BY <5>2, <5>4, SettingUpdated
        <5> QED BY <5>3, <5>4
      <4> QED BY <4>1, <4>2
    <3> HIDE DEF old, new, was, is, first
    <3>4. IF new = {} THEN is = first ELSE is # {} /\ is \subseteq new
      BY <3>1, <3>2, <3>3
    <3> QED BY <3>4 DEF new, is, first
  <2> QED BY <2>5, <2>7, <2>8, <2>9 DEF AfterLines
<1>3. n - 1 \in Nat /\ (n - 1) + 1 = n /\ n <= n
  OBVIOUS
<1>4. n - 1 \in S
  <2> HIDE DEF S
  <2> QED BY <1>1, <1>2, <1>3, Induction
<1> QED
  BY <1>3, <1>4

\* What the device has to have for a field of a peer that is named once.
Meant(p, field) ==
    IF field = "endpoint" THEN {p.endpoint[n] : n \in DOMAIN p.endpoint} ELSE {p.presharedKey}

\* The device knows the first k peers: a block belongs to the last of them that claims it,
\* a peer that is named once has its own settings, and nobody else has any.
KnowsPeers(ps, k, d) ==
    /\ IsDevice(d)
    /\ \A i \in 1..k : \A block \in ClaimedBy(ps[i]) :
          (\A other \in (i + 1)..k : block \notin ClaimedBy(ps[other])) =>
              block \in DOMAIN d.owner /\ d.owner[block] = ps[i].publicKey
    /\ \A i \in 1..k : \A field \in {"endpoint", "preshared_key"} :
          (\A other \in (1..k) \ {i} : ps[other].publicKey # ps[i].publicKey) =>
              SettingOf(d.settings, ps[i].publicKey, field) = Meant(ps[i], field)
    /\ \A key, field :
          (\A i \in 1..k : ps[i].publicKey # key) => SettingOf(d.settings, key, field) = {}

\* A peer's request makes the device know one more peer.
LEMMA PeerKnown ==
    ASSUME NEW ps, NEW k \in Nat, NEW d, KnowsPeers(ps, k, d), NEW p, p = ps[k + 1],
           NEW req, NEW n, NEW e, AfterLines(d, req, n, p.publicKey, e),
           GivenFor(req, n, "allowed_ip") = ClaimedBy(p),
           \A field \in {"endpoint", "preshared_key"} : GivenFor(req, n, field) = Meant(p, field),
           \A x, y \in Meant(p, "endpoint") : x = y
    PROVE  KnowsPeers(ps, k + 1, e)
<1>1. IsDevice(e)
  BY DEF AfterLines
<1>2. ASSUME NEW i \in 1..(k + 1), NEW block \in ClaimedBy(ps[i]),
             \A other \in (i + 1)..(k + 1) : block \notin ClaimedBy(ps[other])
      PROVE  block \in DOMAIN e.owner /\ e.owner[block] = ps[i].publicKey
  <2>1. CASE i = k + 1
    BY <2>1 DEF AfterLines
  <2>2. CASE i # k + 1
    <3>1. i \in 1..k /\ k + 1 \in (i + 1)..(k + 1)
          /\ \A other \in (i + 1)..k : other \in (i + 1)..(k + 1)
      BY <2>2
    <3>2. block \notin ClaimedBy(p)
      BY <1>2, <3>1
    <3>3. block \in DOMAIN d.owner /\ d.owner[block] = ps[i].publicKey
      BY <1>2, <3>1 DEF KnowsPeers
    <3> QED BY <3>2, <3>3 DEF AfterLines
  <2> QED BY <2>1, <2>2
<1>3. ASSUME NEW key, NEW field, \A i \in 1..(k + 1) : ps[i].publicKey # key
      PROVE  SettingOf(e.settings, key, field) = {}
  <2>1. k + 1 \in 1..(k + 1) /\ \A i \in 1..k : i \in 1..(k + 1)
    OBVIOUS
  <2>2. key # p.publicKey /\ \A i \in 1..k : ps[i].publicKey # key
    BY <1>3, <2>1
  <2>3. SettingOf(d.settings, key, field) = {}
    BY <2>2 DEF KnowsPeers
  <2> QED BY <2>2, <2>3 DEF AfterLines
<1>4. ASSUME NEW i \in 1..(k + 1), NEW field \in {"endpoint", "preshared_key"},
             \A other \in (1..(k + 1)) \ {i} : ps[other].publicKey # ps[i].publicKey
      PROVE  SettingOf(e.settings, ps[i].publicKey, field) = Meant(ps[i], field)
  <2>1. CASE i = k + 1
    <3> DEFINE key == p.publicKey
               meant == Meant(p, field)
               is == SettingOf(e.settings, key, field)
               was == SettingOf(d.settings, key, field)
    <3>1. ps[i] = p
      BY <2>1
    <3>2. \A other \in 1..k : other \in (1..(k + 1)) \ {i}
      BY <2>1
    <3>3. \A other \in 1..k : ps[other].publicKey # key
      BY <1>4, <3>1, <3>2
    <3>4. was = {}
      BY <3>3 DEF KnowsPeers
    <3>5. IF meant = {} THEN is = was ELSE is # {} /\ is \subseteq meant
      <4>1. GivenFor(req, n, field) = meant
        OBVIOUS
      <4>2. IF GivenFor(req, n, field) = {} THEN is = was
            ELSE is # {} /\ is \subseteq GivenFor(req, n, field)
        BY DEF AfterLines
      <4> HIDE DEF meant, is, was
      <4> QED BY <4>1, <4>2
    <3>6. \A x, y \in meant : x = y
      <4>1. CASE field = "endpoint"
        BY <4>1
      <4>2. CASE field = "preshared_key"
        <5>1. meant = {p.presharedKey}
          BY <4>2 DEF Meant
        <5> HIDE DEF meant
        <5> QED BY <5>1
      <4> QED BY <4>1, <4>2
    <3> HIDE DEF meant, is, was
    <3>7. is = meant
      BY <3>4, <3>5, <3>6
    <3> QED BY <3>1, <3>7 DEF meant, is
  <2>2. CASE i # k + 1
    <3>1. i \in 1..k /\ k + 1 \in (1..(k + 1)) \ {i}
          /\ \A other \in (1..k) \ {i} : other \in (1..(k + 1)) \ {i}
      BY <2>2
    <3>2. ps[i].publicKey # p.publicKey
      BY <1>4, <3>1
    <3>3. \A other \in (1..k) \ {i} : ps[other].publicKey # ps[i].publicKey
      BY <1>4, <3>1
    <3>4. SettingOf(d.settings, ps[i].publicKey, field) = Meant(ps[i], field)
      BY <3>1, <3>3 DEF KnowsPeers
    <3>5. SettingOf(e.settings, ps[i].publicKey, field)
            = SettingOf(d.settings, ps[i].publicKey, field)
      BY <3>2 DEF AfterLines
    <3> QED BY <3>4, <3>5
  <2> QED BY <2>1, <2>2
<1> QED
  BY <1>1, <1>2, <1>3, <1>4 DEF KnowsPeers

\* The device knows the peers it was told of.
LEMMA PeersKnown ==
    ASSUME NEW ps, NEW k \in Nat, DOMAIN ps = 1..k, \A i \in 1..k : TypedPeer(ps[i]),
           \A i \in 1..k : \A x, y \in Meant(ps[i], "endpoint") : x = y
    PROVE  KnowsPeers(ps, k, Configured(PeersRequest(ps)))
<1> DEFINE seqs == [i \in DOMAIN ps |-> PeerRequest(ps[i])]
           lines == PeersRequest(ps)
<1>1. lines = FlattenSeq(seqs)
  BY DEF PeersRequest
<1>2. ASSUME NEW i \in 1..k
      PROVE  /\ seqs[i] = PeerRequest(ps[i]) /\ seqs[i] \in Seq(RequestLines)
             /\ Len(seqs[i]) \in Nat
  <2>1. seqs[i] = PeerRequest(ps[i]) /\ TypedPeer(ps[i])
    OBVIOUS
  <2> QED BY <2>1, RequestShape
<1>3. seqs = [i \in 1..k |-> seqs[i]]
  OBVIOUS
<1> HIDE DEF seqs, lines
<1>4. seqs \in Seq(Seq(RequestLines)) /\ Len(seqs) = k
  BY <1>2, <1>3, ListOf
<1>5. lines \in Seq(RequestLines) /\ Len(lines) \in Nat /\ DOMAIN lines = 1..Len(lines)
  <2>1. lines \in Seq(RequestLines)
    BY <1>1, <1>4, Flattened
  <2> QED BY <2>1, LenProperties
<1>6. PICK end :
        /\ end[0] = 0 /\ end[k] = Len(lines)
        /\ \A i \in 0..k : end[i] \in 0..Len(lines)
        /\ \A i \in 1..k :
              /\ end[i] = end[i - 1] + Len(seqs[i])
              /\ \A j \in 1..Len(seqs[i]) : lines[end[i - 1] + j] = seqs[i][j]
  <2> DEFINE len == Len(seqs)
  <2>1. \E end :
           /\ end[0] = 0 /\ end[len] = Len(FlattenSeq(seqs))
           /\ \A i \in 0..len : end[i] \in 0..Len(FlattenSeq(seqs))
           /\ \A i \in 1..len :
                 /\ end[i] = end[i - 1] + Len(seqs[i])
                 /\ \A j \in 1..Len(seqs[i]) : FlattenSeq(seqs)[end[i - 1] + j] = seqs[i][j]
    BY <1>4, Flattened
  <2>2. len = k
    BY <1>4
  <2> HIDE DEF len
  <2> QED BY <1>1, <2>1, <2>2
<1>7. PICK g : /\ g[0] = EmptyDevice
               /\ \A i \in 1..Len(lines) : g[i] = Handle(g[i - 1], lines[i])
               /\ Configured(lines) = g[Len(lines)]
  BY <1>5, ConfiguredSteps
<1> DEFINE S == {i \in Nat : i <= k => KnowsPeers(ps, i, g[end[i]])}
<1>8. 0 \in S
  <2>1. KnowsPeers(ps, 0, EmptyDevice)
    <3>1. \A i : i \notin 1..0
      OBVIOUS
    <3> QED BY <3>1, EmptyIsDevice DEF KnowsPeers
  <2> QED BY <1>6, <1>7, <2>1
<1>9. ASSUME NEW m \in Nat, m \in S PROVE m + 1 \in S
  <2> SUFFICES ASSUME m + 1 <= k PROVE KnowsPeers(ps, m + 1, g[end[m + 1]])
    OBVIOUS
  <2> DEFINE p == ps[m + 1]
             req == PeerRequest(p)
             n == Len(req)
             from == end[m]
             d == g[from]
             h == [j \in 0..n |-> g[from + j]]
  <2>1. m + 1 \in 1..k /\ m \in 0..k /\ (m + 1) - 1 = m
    OBVIOUS
  <2>2. TypedPeer(p) /\ (\A x, y \in Meant(p, "endpoint") : x = y)
    BY <2>1
  <2>3. /\ req \in Seq(RequestLines) /\ n \in Nat /\ n >= 1
        /\ req[1] = <<"public_key", p.publicKey>>
        /\ \A i \in 2..n : req[i][1] # "public_key"
        /\ GivenFor(req, n, "allowed_ip") = ClaimedBy(p)
        /\ GivenFor(req, n, "preshared_key") = {p.presharedKey}
        /\ GivenFor(req, n, "endpoint") = {p.endpoint[i] : i \in DOMAIN p.endpoint}
    <3> HIDE DEF p
    <3>1. req = PeerRequest(p)
      OBVIOUS
    <3> HIDE DEF req
    <3> QED BY <2>2, <3>1, RequestShape
  <2>4. /\ from \in Nat /\ end[m + 1] = from + n /\ from + n <= Len(lines)
        /\ \A j \in 1..n : lines[from + j] = req[j]
    <3>1. seqs[m + 1] = req
      BY <1>2, <2>1
    <3>2. end[m] \in 0..Len(lines) /\ end[m + 1] \in 0..Len(lines)
      BY <1>6, <2>1
    <3>3. /\ end[m + 1] = end[m] + Len(seqs[m + 1])
          /\ \A j \in 1..Len(seqs[m + 1]) : lines[end[m] + j] = seqs[m + 1][j]
      BY <1>6, <2>1
    <3> HIDE DEF req
    <3> QED BY <3>1, <3>2, <3>3
  <2>5. KnowsPeers(ps, m, d)
    BY <1>9
  <2>6. IsDevice(d)
    BY <2>5 DEF KnowsPeers
  <2>7. \A i \in 2..n : req[i] = <<req[i][1], req[i][2]>>
    <3> HIDE DEF req
    <3>1. \A i \in 1..n : req[i] \in RequestLines
      BY <2>3, ElementOfSeq
    <3>2. \A line \in RequestLines : line = <<line[1], line[2]>>
      BY DEF RequestLines
    <3> QED BY <2>3, <3>1, <3>2
  <2>8. h[0] = d /\ h[n] = g[from + n]
    <3> HIDE DEF req, from
    <3>1. 0 \in 0..n /\ n \in 0..n /\ from + 0 = from
      BY <2>3, <2>4
    <3> QED BY <3>1
  <2>9. ASSUME NEW i \in 1..n PROVE h[i] = Handle(h[i - 1], req[i])
    <3> HIDE DEF p, req, from
    <3>1. /\ i \in 0..n /\ i - 1 \in 0..n /\ from + i \in 1..Len(lines)
          /\ (from + i) - 1 = from + (i - 1)
      BY <1>5, <2>3, <2>4
    <3>2. g[from + i] = Handle(g[from + (i - 1)], lines[from + i])
      BY <1>7, <3>1
    <3>3. h[i] = g[from + i] /\ h[i - 1] = g[from + (i - 1)]
      BY <3>1
    <3>4. lines[from + i] = req[i]
      BY <2>4
    <3> QED BY <3>2, <3>3, <3>4
  <2> HIDE DEF p, req, n, from, d, h
  <2>10. AfterLines(d, req, n, p.publicKey, h[n])
    BY ONLY <2>3, <2>6, <2>7, <2>8, <2>9, RequestHandled
  <2>11. \A field \in {"endpoint", "preshared_key"} : GivenFor(req, n, field) = Meant(p, field)
    BY <2>3 DEF Meant
  <2>12. KnowsPeers(ps, m + 1, h[n])
    <3>1. p = ps[m + 1]
      BY DEF p
    <3> QED BY <2>2, <2>3, <2>5, <2>10, <2>11, <3>1, PeerKnown
  <2> QED BY <2>4, <2>8, <2>12
<1>10. k \in S
  <2> HIDE DEF S
  <2> QED BY <1>8, <1>9, Induction
<1> QED
  BY <1>6, <1>7, <1>10 DEF lines

\* A text that is one of some, none of them empty or of several parts, is a value's
\* only part.
LEMMA OnlyPart ==
    ASSUME NEW value \in Seq(Texts), Text(value) \notin {"", Several}
    PROVE  Len(value) = 1 /\ DOMAIN value = {1} /\ value[1] = Text(value)
<1>1. value # <<>>
  <2> SUFFICES ASSUME value = <<>> PROVE Text(value) = ""
    OBVIOUS
  <2>1. Len(<<>>) = 0
    OBVIOUS
  <2> QED BY <2>1 DEF Text
<1>2. Len(value) = 1
  BY <1>1 DEF Text
<1>3. Text(value) = value[1]
  BY <1>1, <1>2 DEF Text
<1>4. DOMAIN value = {1}
  <2>1. DOMAIN value = 1..1
    BY <1>2, LenProperties
  <2> QED BY <2>1, OnePlace
<1> QED
  BY <1>2, <1>3, <1>4

\* The blocks that a section of a file claims.
Claims(f, h, block) ==
    IF Parts(Value(f, h, "AllowedIPs")) = <<>>
    THEN \E n \in DOMAIN Everything : Everything[n] = block
    ELSE \E n \in DOMAIN Value(f, h, "AllowedIPs") : Value(f, h, "AllowedIPs")[n] = block

\* What is read of an accepted section is what the section says.
LEMMA SectionRead ==
    ASSUME NEW f, Len(f) \in Nat, DOMAIN f = 1..Len(f),
           \A n \in DOMAIN f : f[n].value \in Seq(Texts),
           NEW h \in Nat, PeerReadable(f, h), NEW p, p = PeerOf(f, h)
    PROVE  /\ TypedPeer(p)
           /\ p.publicKey = Value(f, h, "PublicKey")[1]
           /\ Meant(p, "endpoint") =
                {Value(f, h, "Endpoint")[n] : n \in DOMAIN Value(f, h, "Endpoint")}
           /\ \A x, y \in Meant(p, "endpoint") : x = y
           /\ Value(f, h, "PreSharedKey") = <<>> => Meant(p, "preshared_key") = {ZeroKey}
           /\ Value(f, h, "PreSharedKey") # <<>> =>
                Meant(p, "preshared_key") =
                  {Value(f, h, "PreSharedKey")[n] : n \in DOMAIN Value(f, h, "PreSharedKey")}
           /\ \A block \in AllBlocks : Claims(f, h, block) <=> block \in ClaimedBy(p)
<1> DEFINE V(key) == Value(f, h, key)
           key == V("PublicKey")
           shared == V("PreSharedKey")
           where == V("Endpoint")
           keep == V("PersistentKeepalive")
           list == V("AllowedIPs")
<1>1. /\ p.publicKey = Text(key) /\ p.endpoint = where /\ p.allowedIPs = Parts(list)
      /\ p.presharedKey = IF shared = <<>> THEN ZeroKey ELSE Text(shared)
      /\ p.keepAlive = IF keep = <<>> THEN "0" ELSE Text(keep)
  BY DEF PeerOf
<1>2. /\ key \in Seq(Texts) /\ shared \in Seq(Texts) /\ where \in Seq(Texts)
      /\ list \in Seq(Texts)
      /\ Text(key) \in Texts /\ Text(shared) \in Texts /\ Text(keep) \in Texts
  BY ValuesAreLists
<1>3. /\ Text(key) \in KeyTexts /\ (shared # <<>> => Text(shared) \in KeyTexts)
      /\ where # <<>> => Text(where) \in Endpoints \cup NamedEndpoints
      /\ AllIn(list, AllBlocks)
  BY DEF PeerReadable, IsKey
<1> HIDE DEF V, key, shared, where, keep, list
<1>4. /\ \A text \in KeyTexts : text \notin {"", Several}
      /\ \A text \in Endpoints \cup NamedEndpoints : text \notin {"", Several}
      /\ "" \notin AllBlocks
  BY ConfigFileAssumption DEF AllBlocks
<1>5. Parts(list) \in Seq(AllBlocks)
  BY <1>2, <1>3, PartsAreBlocks
<1>6. TypedPeer(p)
  <2>1. ZeroKey \in Texts /\ "0" \in Texts
    BY DEF Texts, ZeroKey
  <2> QED BY <1>1, <1>2, <1>5, <2>1 DEF TypedPeer
<1>7. p.publicKey = key[1]
  BY <1>1, <1>2, <1>3, <1>4, OnlyPart
<1>8. /\ Meant(p, "endpoint") = {where[n] : n \in DOMAIN where}
      /\ \A x, y \in Meant(p, "endpoint") : x = y
  <2>1. Meant(p, "endpoint") = {where[n] : n \in DOMAIN where}
    BY <1>1 DEF Meant
  <2>2. CASE where = <<>>
    <3>1. DOMAIN where = {}
      <4>1. DOMAIN <<>> = {}
        OBVIOUS
      <4> QED BY <2>2, <4>1
    <3> QED BY <2>1, <3>1
  <2>3. CASE where # <<>>
    <3>1. DOMAIN where = {1}
      BY <1>2, <1>3, <1>4, <2>3, OnlyPart
    <3> QED BY <2>1, <3>1
  <2> QED BY <2>1, <2>2, <2>3
<1>9. /\ shared = <<>> => Meant(p, "preshared_key") = {ZeroKey}
      /\ shared # <<>> => Meant(p, "preshared_key") = {shared[n] : n \in DOMAIN shared}
  <2>1. Meant(p, "preshared_key") = {p.presharedKey}
    BY DEF Meant
  <2>2. ASSUME shared # <<>>
        PROVE  Meant(p, "preshared_key") = {shared[n] : n \in DOMAIN shared}
    <3>1. DOMAIN shared = {1} /\ shared[1] = Text(shared)
      BY <1>2, <1>3, <1>4, <2>2, OnlyPart
    <3>2. {shared[n] : n \in {1}} = {shared[1]}
      OBVIOUS
    <3> QED BY <1>1, <2>1, <2>2, <3>1, <3>2
  <2> QED BY <1>1, <2>1, <2>2
<1>10. ASSUME NEW block \in AllBlocks
       PROVE  Claims(f, h, block) <=> block \in ClaimedBy(p)
  <2> DEFINE parts == Parts(list)
             S == {i \in DOMAIN list : list[i] # ""}
  <2>1. Claims(f, h, block) <=> IF parts = <<>>
                                THEN \E n \in DOMAIN Everything : Everything[n] = block
                                ELSE \E n \in DOMAIN list : list[n] = block
    BY DEF Claims, list, V
  <2>2. ClaimedBy(p) = IF parts = <<>> THEN {Everything[n] : n \in DOMAIN Everything}
                                        ELSE {parts[n] : n \in DOMAIN parts}
    BY <1>1 DEF ClaimedBy, ClaimsOf
  <2>3. parts = [n \in 1..Cardinality(S) |-> list[Nth(S, n)]]
    BY DEF Parts, At
  <2>4. S \subseteq Nat /\ IsFiniteSet(S)
    <3>1. Len(list) \in Nat /\ DOMAIN list = 1..Len(list)
      BY <1>2, LenProperties
    <3>2. S \subseteq 1..Len(list)
      BY <3>1
    <3>3. IsFiniteSet(1..Len(list))
      BY <3>1, FS_Interval
    <3> HIDE DEF S
    <3>4. IsFiniteSet(S)
      BY <3>2, <3>3, FS_Subset
    <3> QED BY <3>2, <3>4
  <2>5. \A i \in DOMAIN list : i \in S <=> list[i] # ""
    OBVIOUS
  <2>6. S \subseteq DOMAIN list
    OBVIOUS
  <2> HIDE DEF parts, S
  <2>7. /\ \A n \in 1..Cardinality(S) : Nth(S, n) \in S
        /\ \A i \in S : Rank(S, i) \in 1..Cardinality(S) /\ Nth(S, Rank(S, i)) = i
    BY <2>4, Nths, Ranks
  <2>8. DOMAIN parts = 1..Cardinality(S)
        /\ \A n \in 1..Cardinality(S) : parts[n] = list[Nth(S, n)]
    BY <2>3
  <2>9. \A i \in DOMAIN list : list[i] \in AllBlocks \cup {""}
    BY <1>3 DEF AllIn
  <2>10. CASE parts = <<>>
    BY <2>1, <2>2, <2>10
  <2>11. CASE parts # <<>>
    <3>1. ASSUME NEW n \in DOMAIN list, list[n] = block PROVE block \in ClaimedBy(p)
      <4>1. n \in S
        BY <1>4, <2>5, <2>9, <3>1
      <4>2. Rank(S, n) \in DOMAIN parts /\ parts[Rank(S, n)] = block
        BY <2>7, <2>8, <3>1, <4>1
      <4> QED BY <2>2, <2>11, <4>2
    <3>2. ASSUME block \in ClaimedBy(p) PROVE \E n \in DOMAIN list : list[n] = block
      <4>1. PICK n \in DOMAIN parts : parts[n] = block
        BY <2>2, <2>11, <3>2
      <4>2. Nth(S, n) \in DOMAIN list /\ list[Nth(S, n)] = block
        BY <2>6, <2>7, <2>8, <4>1
      <4> QED BY <4>2
    <3> QED BY <2>1, <2>11, <3>1, <3>2
  <2> QED BY <2>10, <2>11
<1> QED
  BY <1>6, <1>7, <1>8, <1>9, <1>10 DEF key, shared, where, V

\* The k-th peer is the k-th section's, so that a device that knows all peers has what the
\* last section that claims a block says.
LEMMA DeviceKnowsSections ==
    ASSUME NEW f, Len(f) \in Nat, DOMAIN f = 1..Len(f),
           \A n \in DOMAIN f : f[n].value \in Seq(Texts),
           PeersReadable(f), NEW device, device = Configured(PeersRequest(PeersOf(f))),
           NEW h \in SectionsByName(f, "Peer"), NEW block \in AllBlocks,
           Claims(f, h, block),
           \A other \in SectionsByName(f, "Peer") : Claims(f, other, block) => other <= h,
           NEW key, key = Value(f, h, "PublicKey")[1]
    PROVE  /\ block \in DOMAIN device.owner /\ device.owner[block] = key
           /\ (\A other \in SectionsByName(f, "Peer") \ {h} :
                  Value(f, other, "PublicKey")[1] # key) =>
                 \A field \in {"endpoint", "preshared_key"} :
                    SettingOf(device.settings, key, field) = Meant(PeerOf(f, h), field)
<1> DEFINE S == SectionsByName(f, "Peer")
           k == Cardinality(S)
           ps == PeersOf(f)
           i == Rank(S, h)
           p == PeerOf(f, h)
<1>1. S \subseteq Nat /\ IsFiniteSet(S) /\ k \in Nat
  <2>1. S \subseteq 1..Len(f)
    BY DEF SectionsByName, Headings
  <2>2. IsFiniteSet(1..Len(f))
    BY FS_Interval
  <2> HIDE DEF S
  <2>3. IsFiniteSet(S)
    BY <2>1, <2>2, FS_Subset
  <2> QED BY <2>1, <2>3, FS_CardinalityType
<1>2. /\ \A n \in 1..k : Nth(S, n) \in S /\ Rank(S, Nth(S, n)) = n
      /\ \A g \in S : Rank(S, g) \in 1..k /\ Nth(S, Rank(S, g)) = g
      /\ \A g, l \in S : g < l <=> Rank(S, g) < Rank(S, l)
  BY <1>1, Nths, Ranks
<1>3. DOMAIN ps = 1..k /\ \A n \in 1..k : ps[n] = PeerOf(f, Nth(S, n))
  <2>1. ps = [n \in 1..k |-> PeerOf(f, Nth(S, n))]
    BY DEF PeersOf, InOrder
  <2> HIDE DEF ps
  <2> QED BY <2>1
<1>4. ASSUME NEW g \in S
      PROVE  /\ TypedPeer(PeerOf(f, g))
             /\ PeerOf(f, g).publicKey = Value(f, g, "PublicKey")[1]
             /\ \A x, y \in Meant(PeerOf(f, g), "endpoint") : x = y
             /\ Claims(f, g, block) <=> block \in ClaimedBy(PeerOf(f, g))
  <2>1. g \in Nat /\ PeerReadable(f, g)
    BY <1>1 DEF PeersReadable
  <2> QED BY <2>1, SectionRead
<1> HIDE DEF S, k, ps, i, p
<1>5. \A n \in 1..k : TypedPeer(ps[n]) /\ \A x, y \in Meant(ps[n], "endpoint") : x = y
  BY <1>2, <1>3, <1>4
<1>6. KnowsPeers(ps, k, device)
  <2>1. device = Configured(PeersRequest(ps))
    BY DEF ps
  <2> QED BY <1>1, <1>3, <1>5, <2>1, PeersKnown
<1>7. /\ h \in S /\ i \in 1..k /\ ps[i] = p
      /\ p.publicKey = key /\ block \in ClaimedBy(p)
  <2>1. h \in S
    BY DEF S
  <2>2. i \in 1..k /\ Nth(S, i) = h
    BY <1>2, <2>1 DEF i
  <2> QED BY <1>3, <1>4, <2>1, <2>2 DEF p
<1>8. \A n \in (i + 1)..k : block \notin ClaimedBy(ps[n])
  <2> SUFFICES ASSUME NEW n \in (i + 1)..k, block \in ClaimedBy(ps[n]) PROVE FALSE
    OBVIOUS
  <2>1. n \in 1..k /\ i < n /\ i \in Nat /\ n \in Nat
    BY <1>1, <1>7
  <2> DEFINE other == Nth(S, n)
  <2>2. other \in S /\ Rank(S, other) = n /\ ps[n] = PeerOf(f, other)
    BY <1>2, <1>3, <2>1
  <2>3. Claims(f, other, block)
    BY <1>4, <2>2
  <2>4. other <= h
    BY <2>2, <2>3 DEF S
  <2>5. h < other
    BY <1>2, <1>7, <2>1, <2>2 DEF i
  <2>6. other \in Nat /\ h \in Nat
    BY <1>1, <1>7, <2>2
  <2> HIDE DEF other
  <2> QED BY <2>4, <2>5, <2>6
<1>9. block \in DOMAIN device.owner /\ device.owner[block] = key
  BY <1>6, <1>7, <1>8 DEF KnowsPeers
<1>10. ASSUME \A other \in S \ {h} : Value(f, other, "PublicKey")[1] # key,
              NEW field \in {"endpoint", "preshared_key"}
       PROVE  SettingOf(device.settings, key, field) = Meant(p, field)
  <2>1. ASSUME NEW n \in (1..k) \ {i} PROVE ps[n].publicKey # ps[i].publicKey
    <3>1. Nth(S, n) \in S /\ Nth(S, n) # h /\ ps[n] = PeerOf(f, Nth(S, n))
      BY <1>2, <1>3, <2>1 DEF i
    <3> QED BY <1>4, <1>7, <1>10, <3>1
  <2> QED BY <1>6, <1>7, <2>1 DEF KnowsPeers
<1> QED
  BY <1>9, <1>10 DEF S, p

-----------------------------------------------------------------------------
(* The AmneziaWG parameters.                                               *)

\* A step of main takes the steps of AwgConfig, leaves its variables alone, or
\* starts a process that reads the section anew.
LEMMA ASecSteps ==
    ASSUME [StartupNext]_startupVars
    PROVE  [Next]_vars \/ (phase' = "parse" /\ UNCHANGED section)
<1>1. CASE ParseInterface
  BY <1>1 DEF ParseInterface, Next
<1>2. CASE ValidateParsedASec
  BY <1>2 DEF ValidateParsedASec, Next
<1>3. CASE ParsePeers \/ ParseRoutinesConfig \/ LockNetwork \/ Return \/ Interrupt
  BY <1>3 DEF ParsePeers, ParseRoutinesConfig, LockNetwork, Return, Interrupt
<1>4. CASE ConfigTest
  BY <1>4 DEF ConfigTest, StartProcess
<1>5. CASE ExecDaemon
  BY <1>5 DEF ExecDaemon, StartProcess
<1>6. CASE StartWireguard
  BY <1>6 DEF StartWireguard, Next
<1>7. CASE \E id \in DOMAIN routines : SpawnRoutine(id)
  BY <1>7 DEF SpawnRoutine
<1>8. CASE UNCHANGED startupVars
  BY <1>8 DEF startupVars
<1> QED
  BY <1>1, <1>2, <1>3, <1>4, <1>5, <1>6, <1>7, <1>8 DEF StartupNext, Main

\* What AwgConfig keeps it keeps from the first process to the daemon.
LEMMA ASecInvariant == StartupSpec => []ConfigInv
<1>1. StartupInit => ConfigInv
  <2> SUFFICES ASSUME StartupInit PROVE ConfigInv
    OBVIOUS
  <2>1. IsSection(section) /\ Unread
    BY StartupAssumption DEF StartupInit, IsInput
  <2> QED
    BY <2>1 DEF Unread, ConfigInv
<1>2. ConfigInv /\ [StartupNext]_startupVars => ConfigInv'
  <2> SUFFICES ASSUME ConfigInv, [StartupNext]_startupVars PROVE ConfigInv'
    OBVIOUS
  <2>1. CASE [Next]_vars
    BY <2>1, ConfigStep
  <2>2. CASE phase' = "parse" /\ UNCHANGED section
    BY <2>2 DEF ConfigInv
  <2> QED
    BY <2>1, <2>2, ASecSteps
<1> QED
  BY <1>1, <1>2, PTL DEF StartupSpec

\* wireproxy starts a device only with headers and given paddings that tell the
\* kinds of packets apart (KindsStayApart), whichever of its processes read them.
THEOREM DeviceTellsKindsApart == StartupSpec => []KindsStayApart
<1> QED
  BY KindsApart, ASecInvariant, PTL

\* The device is sent the keys of the section and what they say
\* (RequestSaysWhatSectionSays), whichever process read them.
THEOREM DeviceGetsTheSection == StartupSpec => []RequestSaysWhatSectionSays
<1> QED
  BY RequestTrue, ASecInvariant, PTL

-----------------------------------------------------------------------------
(* What main knows at each stage.                                          *)

FilesInv ==
    /\ given \in Inputs
    /\ file = IF given.import THEN WithLocalSocks(given.lines) ELSE given.lines
    /\ wgFile = DeviceFile(file)

ReadInv ==
    /\ stage \in {"load", "asec", "peers", "routines", "parsed", "locked", "up"}
    /\ stage \in {"load", "asec", "peers"} => peers = <<>>
    /\ stage \in {"routines", "parsed", "locked", "up"} =>
          PeersReadable(wgFile) /\ peers = PeersOf(wgFile)
    /\ stage \in {"load", "asec", "peers", "routines"} => routines = <<>>
    /\ stage \in {"parsed", "locked"} =>
          routines = [h \in RoutinesAt(file) |-> RoutineOf(file, h)]
    /\ stage = "up" => \A id \in DOMAIN routines : routines[id].kind \in RoutineKinds \cup {"info"}

RunInv ==
    /\ program \in {"validator", "wireproxy", "daemon"}
    /\ exit \in {"none", "ok", "refused", "panic", "noChild", "noDevice", "fatal"}
    /\ rules \subseteq AllRules
    /\ ipcRequest # <<>> =>
          PeersReadable(wgFile) /\ ipcRequest = PeersRequest(PeersOf(wgFile))
    /\ serving \subseteq DOMAIN routines
    /\ stage # "up" => serving = {}
    /\ cancelled \in BOOLEAN

StartupInv == FilesInv /\ ReadInv /\ RunInv

\* Each step keeps what main knows.
LEMMA StartupStep ==
    ASSUME StartupInv, [StartupNext]_startupVars
    PROVE  StartupInv'
<1> USE DEF StartupInv
<1>0. ASSUME UNCHANGED inputs PROVE FilesInv'
  BY <1>0 DEF FilesInv, inputs, DeviceFile
<1>1. CASE ParseInterface
  <2>1. UNCHANGED <<inputs, program, peers, routines, rules, ipcRequest, serving, cancelled>>
    BY <1>1 DEF ParseInterface, servingVars
  <2>2. \/ stage = "load" /\ stage' = "asec" /\ exit' = exit
        \/ stage = "load" /\ stage' = stage /\ exit' = "refused"
    BY <1>1 DEF ParseInterface, Running, GoToOrEnd, GoTo, End
  <2> QED BY <1>0, <2>1, <2>2 DEF ReadInv, RunInv, inputs
<1>2. CASE ValidateParsedASec
  <2>1. UNCHANGED <<inputs, program, peers, routines, rules, ipcRequest, serving, cancelled>>
    BY <1>2 DEF ValidateParsedASec, servingVars
  <2>2. \/ stage = "asec" /\ stage' = "peers" /\ exit' = exit
        \/ stage = "asec" /\ stage' = stage /\ exit' = "refused"
    BY <1>2 DEF ValidateParsedASec, Running, GoToOrEnd, GoTo, End
  <2> QED BY <1>0, <2>1, <2>2 DEF ReadInv, RunInv, inputs
<1>3. CASE ParsePeers
  <2>1. UNCHANGED <<inputs, program, routines, rules, ipcRequest, serving, cancelled>>
    BY <1>3 DEF ParsePeers, servingVars
  <2>2. \/ /\ stage = "peers" /\ stage' = "routines" /\ exit' = exit
           /\ PeersReadable(wgFile) /\ peers' = PeersOf(wgFile)
        \/ stage = "peers" /\ stage' = stage /\ exit' = "refused" /\ peers' = peers
    BY <1>3 DEF ParsePeers, Running, GoTo, End
  <2> QED BY <1>0, <2>1, <2>2 DEF ReadInv, RunInv, inputs
<1>4. CASE ParseRoutinesConfig
  <2>1. UNCHANGED <<inputs, program, peers, rules, ipcRequest, serving, cancelled>>
    BY <1>4 DEF ParseRoutinesConfig, servingVars
  <2>2. \/ /\ stage = "routines" /\ stage' = "parsed" /\ exit' = exit
           /\ routines' = [h \in RoutinesAt(file) |-> RoutineOf(file, h)]
        \/ stage = "routines" /\ stage' = stage /\ exit' = "refused" /\ routines' = routines
    BY <1>4 DEF ParseRoutinesConfig, Running, GoTo, End
  <2> QED BY <1>0, <2>1, <2>2 DEF ReadInv, RunInv, inputs
<1>5. ASSUME NEW p \in {"wireproxy", "daemon"}, StartProcess(p), stage \in {"parsed", "locked"}
      PROVE  StartupInv'
  <2>1. /\ UNCHANGED <<inputs, exit, rules, ipcRequest, serving, cancelled>>
        /\ program' = p /\ stage' = "load" /\ peers' = <<>> /\ routines' = <<>>
    BY <1>5 DEF StartProcess, servingVars
  <2>2. serving' = {}
    BY <1>5, <2>1 DEF RunInv
  <2> QED BY <1>0, <2>1, <2>2 DEF ReadInv, RunInv, inputs
<1>6. CASE ConfigTest
  <2>1. CASE StartProcess("wireproxy")
    BY <1>5, <1>6, <2>1 DEF ConfigTest, Running
  <2>2. CASE ~StartProcess("wireproxy")
    <3>1. UNCHANGED <<inputs, program, stage, peers, routines, rules, ipcRequest, serving, cancelled>>
          /\ exit' = "ok"
      BY <1>6, <2>2 DEF ConfigTest, End, servingVars
    <3> QED BY <1>0, <3>1 DEF ReadInv, RunInv, inputs
  <2> QED BY <2>1, <2>2
<1>7. CASE LockNetwork
  <2>1. UNCHANGED <<inputs, program, peers, routines, ipcRequest, serving, cancelled>>
    BY <1>7 DEF LockNetwork, servingVars
  <2>2. \/ stage = "parsed" /\ stage' = "locked" /\ exit' = exit /\ rules' \subseteq rules
        \/ stage = "parsed" /\ stage' = stage /\ exit' = "panic" /\ rules' = rules
    BY <1>7 DEF LockNetwork, Running, GoTo, End
  <2> QED BY <1>0, <2>1, <2>2 DEF ReadInv, RunInv, inputs
<1>8. CASE ExecDaemon
  <2>1. CASE StartProcess("daemon")
    BY <1>5, <1>8, <2>1 DEF ExecDaemon, Running
  <2>2. CASE ~StartProcess("daemon")
    <3>1. UNCHANGED <<inputs, program, stage, peers, routines, rules, ipcRequest, serving, cancelled>>
          /\ exit' = "noChild"
      BY <1>8, <2>2 DEF ExecDaemon, End, servingVars
    <3> QED BY <1>0, <3>1 DEF ReadInv, RunInv, inputs
  <2> QED BY <2>1, <2>2
<1>9. CASE StartWireguard
  <2>1. /\ UNCHANGED <<inputs, program, peers, rules, serving, cancelled>>
        /\ stage = "locked" /\ ipcRequest' = PeersRequest(peers)
    BY <1>9 DEF StartWireguard, Running
  <2>2. PeersReadable(wgFile) /\ peers = PeersOf(wgFile) /\ serving = {}
    BY <2>1 DEF ReadInv, RunInv
  <2>3. CASE GoTo("up") /\ routines' = AllRoutines
    <3>1. \A id \in DOMAIN AllRoutines :
              AllRoutines[id].kind \in RoutineKinds \cup {"info"}
      <4>1. \A h \in DOMAIN routines : routines[h].kind \in RoutineKinds
        <5>1. routines = [h \in RoutinesAt(file) |-> RoutineOf(file, h)]
          BY <2>1 DEF ReadInv
        <5> QED BY <5>1 DEF RoutinesAt, RoutineOf
      <4>2. HealthServer.kind = "info"
        BY DEF HealthServer
      <4> QED BY <4>1, <4>2 DEF AllRoutines
    <3>2. stage' = "up" /\ exit' = exit
      BY <2>3 DEF GoTo
    <3> QED BY <1>0, <2>1, <2>2, <2>3, <3>1, <3>2 DEF ReadInv, RunInv, inputs
  <2>4. CASE End("noDevice") /\ UNCHANGED routines
    <3>1. stage' = stage /\ exit' = "noDevice" /\ routines' = routines
      BY <2>4 DEF End
    <3> QED BY <1>0, <2>1, <2>2, <3>1 DEF ReadInv, RunInv, inputs
  <2> QED BY <1>9, <2>3, <2>4 DEF StartWireguard
<1>10. CASE Return
  <2>1. /\ UNCHANGED <<inputs, program, stage, peers, routines, rules, ipcRequest, serving, cancelled>>
        /\ exit' = "ok"
    BY <1>10 DEF Return, End, servingVars
  <2> QED BY <1>0, <2>1 DEF ReadInv, RunInv, inputs
<1>11. ASSUME NEW id \in DOMAIN routines, SpawnRoutine(id) PROVE StartupInv'
  <2>1. /\ UNCHANGED <<inputs, program, stage, peers, routines, rules, ipcRequest, cancelled>>
        /\ stage = "up" /\ serving' \subseteq serving \cup {id} /\ exit' \in {exit, "fatal"}
    BY <1>11 DEF SpawnRoutine, Running
  <2> QED BY <1>0, <1>11, <2>1 DEF ReadInv, RunInv, inputs
<1>12. CASE Interrupt
  <2>1. /\ UNCHANGED <<inputs, program, stage, exit, peers, routines, rules, ipcRequest, serving>>
        /\ cancelled' = TRUE
    BY <1>12 DEF Interrupt
  <2> QED BY <1>0, <2>1 DEF ReadInv, RunInv, inputs
<1>13. CASE UNCHANGED startupVars
  <2>1. UNCHANGED <<inputs, program, stage, exit, peers, routines, rules, ipcRequest, serving, cancelled>>
    BY <1>13 DEF startupVars, servingVars
  <2> QED BY <1>0, <2>1 DEF ReadInv, RunInv, inputs
<1> QED
  BY <1>1, <1>2, <1>3, <1>4, <1>6, <1>7, <1>8, <1>9, <1>10, <1>11, <1>12, <1>13
     DEF StartupNext, Main

\* So main knows it always.
LEMMA StartupInvariant == StartupSpec => []StartupInv
<1>1. StartupInit => StartupInv
  BY DEF StartupInit, StartupInv, FilesInv, ReadInv, RunInv
<1>2. StartupInv /\ [StartupNext]_startupVars => StartupInv'
  BY StartupStep
<1> QED
  BY <1>1, <1>2, PTL DEF StartupSpec

\* The lines wireproxy reads are a file's, imported or not.
LEMMA FilesAreTyped ==
    ASSUME FilesInv, NEW f \in {file, wgFile}
    PROVE  /\ Len(f) \in Nat /\ DOMAIN f = 1..Len(f)
           /\ \A n \in DOMAIN f : f[n].value \in Seq(Texts)
<1>1. IsFile(given.lines) /\ IsFile(given.wgFile)
  BY StartupAssumption DEF FilesInv, IsInput
<1>2. f \in {given.lines, WithLocalSocks(given.lines)} \/ f = given.wgFile
  BY DEF FilesInv, DeviceFile
<1> QED
  BY <1>1, <1>2, FilesAreFiles

-----------------------------------------------------------------------------
(* What Startup promises.                                                  *)

\* Whatever the file says, what is read of it has the types Configuration gives
\* it, keys are keys, and the device is given blocks of addresses to route and
\* nothing else (StartupTypeOK).
THEOREM StartupTypeCorrect == StartupSpec => []StartupTypeOK
<1>1. ConfigInv /\ StartupInv => StartupTypeOK
  <2> SUFFICES ASSUME ConfigInv, StartupInv PROVE StartupTypeOK
    OBVIOUS
  <2> USE DEF StartupInv
  <2>1. TypeOK
    BY ConfigTyped
  <2>2. PeersReadable(wgFile) =>
            /\ \A n \in DOMAIN PeersOf(wgFile) :
                  /\ PeersOf(wgFile)[n].publicKey \in KeyTexts
                  /\ PeersOf(wgFile)[n].presharedKey \in KeyTexts \cup {ZeroKey}
            /\ PeersRequest(PeersOf(wgFile)) \in Seq(RequestLines)
    <3> SUFFICES ASSUME PeersReadable(wgFile)
                 PROVE  /\ \A n \in DOMAIN PeersOf(wgFile) :
                              /\ PeersOf(wgFile)[n].publicKey \in KeyTexts
                              /\ PeersOf(wgFile)[n].presharedKey \in KeyTexts \cup {ZeroKey}
                        /\ PeersRequest(PeersOf(wgFile)) \in Seq(RequestLines)
      OBVIOUS
    <3> DEFINE ps == PeersOf(wgFile)
    <3>1. PICK k \in Nat :
              /\ DOMAIN ps = 1..k
              /\ \A n \in 1..k :
                    /\ ps[n].publicKey \in KeyTexts \cap Texts
                    /\ ps[n].presharedKey \in (KeyTexts \cup {ZeroKey}) \cap Texts
                    /\ ps[n].keepAlive \in Texts
                    /\ ps[n].endpoint \in Seq(Texts)
                    /\ ps[n].allowedIPs \in Seq(AllBlocks)
      BY FilesAreTyped, PeersAreTyped
    <3> HIDE DEF ps
    <3>2. PeersRequest(ps) \in Seq(RequestLines)
      <4>1. \A n \in 1..k : TypedPeer(ps[n])
        BY <3>1 DEF TypedPeer
      <4> QED BY <3>1, <4>1, RequestIsTyped
    <3> QED BY <3>1, <3>2 DEF ps
  <2>3. \A n \in DOMAIN peers :
            /\ peers[n].publicKey \in KeyTexts
            /\ peers[n].presharedKey \in KeyTexts \cup {ZeroKey}
    <3>1. peers = <<>> \/ (PeersReadable(wgFile) /\ peers = PeersOf(wgFile))
      BY DEF ReadInv
    <3>2. DOMAIN <<>> = {}
      OBVIOUS
    <3> QED BY <2>2, <3>1, <3>2
  <2>4. \A id \in DOMAIN routines : routines[id].kind \in RoutineKinds \cup {"info"}
    <3>1. CASE routines = <<>>
      BY <3>1
    <3>2. CASE routines = [h \in RoutinesAt(file) |-> RoutineOf(file, h)]
      BY <3>2 DEF RoutinesAt, RoutineOf
    <3>3. CASE stage = "up"
      BY <3>3 DEF ReadInv
    <3> QED BY <3>1, <3>2, <3>3 DEF ReadInv
  <2>5. \A n \in DOMAIN ipcRequest :
            ipcRequest[n][1] = "allowed_ip" => ipcRequest[n][2] \in AllBlocks
    <3>1. CASE ipcRequest = <<>>
      BY <3>1
    <3>2. CASE ipcRequest # <<>>
      <4>1. ipcRequest \in Seq(RequestLines)
        BY <2>2, <3>2 DEF RunInv
      <4>2. \A n \in DOMAIN ipcRequest : ipcRequest[n] \in RequestLines
        BY <4>1, LenProperties, ElementOfSeq
      <4>3. ASSUME NEW line \in RequestLines, line[1] = "allowed_ip"
            PROVE  line[2] \in AllBlocks
        BY <4>3 DEF RequestLines
      <4> QED BY <4>2, <4>3
    <3> QED BY <3>1, <3>2
  <2> QED BY <2>1, <2>3, <2>4, <2>5 DEF StartupTypeOK, ReadInv, RunInv
<1> QED
  BY <1>1, ASecInvariant, StartupInvariant, PTL

\* An imported file, whatever is in it, serves SOCKS5 on the local port, once and
\* without a password, and has the peers and the other routines it had
\* (PreparedServesLocally).
THEOREM ImportServesLocally == StartupSpec => []PreparedServesLocally
<1>1. StartupInv => PreparedServesLocally
  <2> SUFFICES ASSUME FilesInv, ReadInv, stage = "parsed", given.import,
                      \A i \in DOMAIN given.lines : given.lines[i].type # "annotated"
               PROVE  /\ \E local \in DOMAIN routines :
                            /\ {r \in DOMAIN routines : routines[r].kind = "Socks5"} = {local}
                            /\ routines[local].bind = LocalPort
                            /\ routines[local].username = ""
                      /\ OtherRoutines(file) = OtherRoutines(given.lines)
                      /\ peers = PeersOf(DeviceFile(given.lines))
    BY DEF StartupInv, PreparedServesLocally
  <2> DEFINE lines == given.lines
  <2>1. Plain(lines)
    BY StartupAssumption DEF FilesInv, IsInput, Plain
  <2>2. file = WithLocalSocks(lines)
    BY DEF FilesInv
  <2>3. OtherRoutines(file) = OtherRoutines(given.lines)
    BY <2>1, <2>2, OtherRoutinesKept
  <2>4. peers = PeersOf(DeviceFile(given.lines))
    <3>1. Value(file, 0, "WGConfig") = Value(lines, 0, "WGConfig")
      <4>1. Position(lines, 0) = 0
        BY <2>1, Positions DEF Plain
      <4>2. 0 \in {0} \cup Kept(lines)
        OBVIOUS
      <4> HIDE DEF lines
      <4>3. Value(file, Position(lines, 0), "WGConfig") = Value(lines, 0, "WGConfig")
        BY <2>1, <2>2, <4>2, ValueKept
      <4> QED BY <4>1, <4>3
    <3>2. PeersOf(file) = PeersOf(lines)
      BY <2>1, <2>2, PeersKept
    <3> QED BY <3>1, <3>2 DEF ReadInv, FilesInv, DeviceFile
  <2>5. \E local \in DOMAIN routines :
            /\ {r \in DOMAIN routines : routines[r].kind = "Socks5"} = {local}
            /\ routines[local].bind = LocalPort
            /\ routines[local].username = ""
    <3>1. routines = [h \in RoutinesAt(file) |-> RoutineOf(file, h)]
      BY DEF ReadInv
    <3>2. PICK local \in RoutinesAt(file) :
              /\ {h \in RoutinesAt(file) : file[h].name = "Socks5"} = {local}
              /\ RoutineOf(file, local).bind = LocalPort
              /\ RoutineOf(file, local).username = ""
      BY <2>1, <2>2, OneLocalProxy
    <3>3. \A h \in RoutinesAt(file) : routines[h].kind = file[h].name
      BY <3>1 DEF RoutineOf
    <3>4. {r \in DOMAIN routines : routines[r].kind = "Socks5"} = {local}
      BY <3>1, <3>2, <3>3
    <3> QED BY <3>1, <3>2, <3>4
  <2> QED BY <2>3, <2>4, <2>5
<1> QED
  BY <1>1, StartupInvariant, PTL

\* What goes to a block of addresses goes to the last peer whose section claims it, with
\* the preshared key and to the endpoint of that section (PeersKeepWhatTheyClaim):
\* CreateIPCRequest keeps the sections' order, begins each peer with its key and says
\* nothing of one peer among the lines of another.
THEOREM DeviceSendsAsClaimed == StartupSpec => []PeersKeepWhatTheyClaim
<1>1. StartupInv => PeersKeepWhatTheyClaim
  <2> DEFINE f == wgFile
             sections == SectionsByName(f, "Peer")
             device == Configured(ipcRequest)
             key(h) == Value(f, h, "PublicKey")[1]
             meant(h) == IF Value(f, h, "PreSharedKey") = <<>> THEN <<ZeroKey>>
                                                            ELSE Value(f, h, "PreSharedKey")
             Is(h, field, value) ==
                {device.settings[what] : what \in {<<key(h), field>>} \cap DOMAIN device.settings}
                  = {value[n] : n \in DOMAIN value}
             Served(h, block) ==
                /\ block \in DOMAIN device.owner /\ device.owner[block] = key(h)
                /\ (\A other \in sections \ {h} : key(other) # key(h)) =>
                      Is(h, "endpoint", Value(f, h, "Endpoint")) /\ Is(h, "preshared_key", meant(h))
  <2> SUFFICES
        ASSUME StartupInv, ipcRequest # <<>>,
               NEW h \in sections, NEW block \in AllBlocks,
               Claims(f, h, block) /\ \A other \in sections : Claims(f, other, block) => other <= h
        PROVE  Served(h, block)
    BY DEF PeersKeepWhatTheyClaim, Claims
  <2>1. /\ Len(f) \in Nat /\ DOMAIN f = 1..Len(f)
        /\ \A n \in DOMAIN f : f[n].value \in Seq(Texts)
    BY FilesAreTyped DEF StartupInv
  <2>2. PeersReadable(f) /\ device = Configured(PeersRequest(PeersOf(f)))
    BY DEF StartupInv, RunInv
  <2>3. /\ block \in DOMAIN device.owner /\ device.owner[block] = key(h)
        /\ (\A other \in sections \ {h} : key(other) # key(h)) =>
              \A field \in {"endpoint", "preshared_key"} :
                 SettingOf(device.settings, key(h), field) = Meant(PeerOf(f, h), field)
    <3> DEFINE d == device
               k == key(h)
    <3>1. d = Configured(PeersRequest(PeersOf(f))) /\ k = Value(f, h, "PublicKey")[1]
      BY <2>2
    <3> HIDE DEF d, k
    <3>2. /\ block \in DOMAIN d.owner /\ d.owner[block] = k
          /\ (\A other \in sections \ {h} : Value(f, other, "PublicKey")[1] # k) =>
                \A field \in {"endpoint", "preshared_key"} :
                   SettingOf(d.settings, k, field) = Meant(PeerOf(f, h), field)
      BY <2>1, <2>2, <3>1, DeviceKnowsSections
    <3> QED BY <3>2 DEF d, k
  <2>4. /\ Meant(PeerOf(f, h), "endpoint") =
             {Value(f, h, "Endpoint")[n] : n \in DOMAIN Value(f, h, "Endpoint")}
        /\ Meant(PeerOf(f, h), "preshared_key") = {meant(h)[n] : n \in DOMAIN meant(h)}
    <3>1. h \in Nat /\ PeerReadable(f, h)
      BY <2>1, <2>2 DEF PeersReadable, SectionsByName, Headings
    <3>2. CASE Value(f, h, "PreSharedKey") = <<>>
      <4>1. DOMAIN meant(h) = {1} /\ meant(h)[1] = ZeroKey
        BY <3>2
      <4> HIDE DEF meant
      <4>2. {meant(h)[n] : n \in DOMAIN meant(h)} = {ZeroKey}
        BY <4>1
      <4> QED BY <2>1, <3>1, <3>2, <4>2, SectionRead
    <3>3. CASE Value(f, h, "PreSharedKey") # <<>>
      BY <2>1, <3>1, <3>3, SectionRead
    <3> QED BY <3>2, <3>3
  <2>5. ASSUME \A other \in sections \ {h} : key(other) # key(h)
        PROVE  Is(h, "endpoint", Value(f, h, "Endpoint")) /\ Is(h, "preshared_key", meant(h))
    <3>1. \A field \in {"endpoint", "preshared_key"} :
             SettingOf(device.settings, key(h), field) = Meant(PeerOf(f, h), field)
      BY <2>3, <2>5
    <3>2. \A field :
             SettingOf(device.settings, key(h), field) =
               {device.settings[what] : what \in {<<key(h), field>>} \cap DOMAIN device.settings}
      BY DEF SettingOf
    <3> HIDE DEF key, meant, device, f
    <3> QED BY <2>4, <3>1, <3>2
  <2> QED BY <2>3, <2>5
<1> QED
  BY <1>1, StartupInvariant, PTL

=============================================================================
