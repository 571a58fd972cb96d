----------------------------- MODULE CommonLemmas ----------------------------
(***************************************************************************)
(* What the proofs of all the components use: sequences as stacks (Append   *)
(* pushes, Front pops and Last is the top), induction over numbers, as a     *)
(* statement about sets of numbers, recursive functions, and sorting.       *)
(***************************************************************************)
EXTENDS Integers, SequencesExt, SequenceTheorems, FiniteSetTheorems,
        WellFoundedInduction, TLAPS

\* Popping a stack keeps all the elements but the last.
LEMMA FrontIsSeq ==
  ASSUME NEW S, NEW s \in Seq(S)
  PROVE  /\ Front(s) \in Seq(S)
         /\ s # <<>> => Len(Front(s)) = Len(s) - 1
         /\ \A i \in 1 .. Len(s) - 1 : Front(s)[i] = s[i]
<1>1. /\ Len(s) \in Nat
      /\ \A i \in 1 .. Len(s) - 1 : s[i] \in S
  BY ElementOfSeq, LenProperties
<1> DEFINE n == Len(s) - 1
<1>2. n \in Int
  BY <1>1
<1>3. /\ SubSeq(s, 1, n) \in Seq(S)
      /\ Len(SubSeq(s, 1, n)) = IF 1 <= n THEN n - 1 + 1 ELSE 0
      /\ \A i \in 1 .. n - 1 + 1 : SubSeq(s, 1, n)[i] = s[1 + i - 1]
  <2> HIDE DEF n
  <2>1. \A i \in 1..n : s[i] \in S
    BY <1>1 DEF n
  <2> QED
    BY <1>2, <2>1, SubSeqProperties
<1>4. ASSUME NEW i \in 1..n
      PROVE  SubSeq(s, 1, n)[i] = s[i]
  <2> HIDE DEF n
  <2>1. i \in 1 .. n - 1 + 1 /\ 1 + i - 1 = i
    BY <1>2
  <2> QED
    BY <1>3, <2>1
<1>5. s # <<>> => Len(s) \in Nat \ {0}
  BY EmptySeq
<1>6. s # <<>> => Len(SubSeq(s, 1, n)) = n
  <2>1. s # <<>> => n \in Nat
    BY <1>5
  <2>2. n \in Nat => (IF 1 <= n THEN n - 1 + 1 ELSE 0) = n
    <3> HIDE DEF n
    <3> QED
      BY <1>2
  <2> HIDE DEF n
  <2> QED
    BY <1>3, <2>1, <2>2
<1> QED
  BY <1>3, <1>4, <1>6 DEF Front

\* The top of a stack that is not empty is one of its elements.
LEMMA LastIsElement ==
  ASSUME NEW S, NEW s \in Seq(S), s # <<>>
  PROVE  Last(s) \in S /\ Len(s) \in Nat \ {0}
BY EmptySeq, ElementOfSeq DEF Last

\* The first n elements of a sequence.
LEMMA FirstElements ==
  ASSUME NEW S, NEW s \in Seq(S), NEW n \in Int, 0 <= n, n <= Len(s)
  PROVE  /\ SubSeq(s, 1, n) \in Seq(S) /\ Len(SubSeq(s, 1, n)) = n
         /\ \A i \in 1..n : SubSeq(s, 1, n)[i] = s[i]
<1>1. Len(s) \in Nat
  OBVIOUS
<1>2. SubSeq(s, 1, n) = [i \in 1..n |-> s[i]]
  BY <1>1
<1> QED
  BY <1>1, <1>2

\* Pushing an element keeps the others.
LEMMA AppendIsSeq ==
  ASSUME NEW S, NEW s \in Seq(S), NEW x \in S
  PROVE  /\ Append(s, x) \in Seq(S)
         /\ Append(s, x) # <<>>
         /\ Len(Append(s, x)) = Len(s) + 1
         /\ \A i \in 1..Len(s) : Append(s, x)[i] = s[i]
         /\ Append(s, x)[Len(s) + 1] = x
<1>1. Len(s) \in Nat
  BY LenProperties
<1>2. /\ Append(s, x) \in Seq(S)
      /\ Len(Append(s, x)) = Len(s) + 1
      /\ \A i \in 1..Len(s) : Append(s, x)[i] = s[i]
      /\ Append(s, x)[Len(s) + 1] = x
  BY <1>1
<1> QED
  BY <1>1, <1>2, EmptySeq

\* One sequence after the other.
LEMMA JoinedIs ==
  ASSUME NEW S, NEW s \in Seq(S), NEW t \in Seq(S)
  PROVE  /\ s \o t \in Seq(S)
         /\ Len(s \o t) = Len(s) + Len(t)
         /\ \A i \in 1..Len(s) : (s \o t)[i] = s[i]
         /\ \A i \in 1..Len(t) : (s \o t)[Len(s) + i] = t[i]
<1>1. Len(s) \in Nat /\ Len(t) \in Nat
  BY LenProperties
<1>2. /\ s \o t \in Seq(S)
      /\ Len(s \o t) = Len(s) + Len(t)
      /\ \A i \in 1 .. Len(s) + Len(t) :
           (s \o t)[i] = IF i <= Len(s) THEN s[i] ELSE t[i - Len(s)]
  BY ConcatProperties
<1>3. ASSUME NEW i \in 1..Len(t)
      PROVE  (s \o t)[Len(s) + i] = t[i]
  <2>1. /\ Len(s) + i \in 1 .. Len(s) + Len(t)
        /\ ~(Len(s) + i <= Len(s)) /\ (Len(s) + i) - Len(s) = i
    BY <1>1
  <2> QED
    BY <1>2, <2>1
<1>4. \A i \in 1..Len(s) : i \in 1 .. Len(s) + Len(t)
  BY <1>1
<1> QED
  BY <1>2, <1>3, <1>4

\* A sequence is one over any set that has its elements.
LEMMA SeqOfElements ==
  ASSUME NEW S, NEW s \in Seq(S), NEW T, \A i \in 1..Len(s) : s[i] \in T
  PROVE  s \in Seq(T)
<1>1. Len(s) \in Nat /\ s \in [1..Len(s) -> S]
  BY LenProperties
<1> DEFINE n == Len(s)
<1>2. n \in Nat /\ s \in [1..n -> S] /\ \A i \in 1..n : s[i] \in T
  BY <1>1
<1> HIDE DEF n
<1>3. s \in [1..n -> T]
  BY <1>2
<1> QED
  BY <1>2, <1>3, SeqDef

-----------------------------------------------------------------------------
(* Numbers. *)

\* The least element of a set of numbers.
LEMMA LeastElement ==
  ASSUME NEW T \in SUBSET Nat, T # {}
  PROVE  \E m \in T : \A n \in T : m <= n
<1> DEFINE R == OpToRel(<, Nat)
<1>1. IsWellFoundedOn(R, Nat)
  BY NatLessThanWellFounded
<1>2. \A m, n \in Nat : <<m, n>> \in R <=> m < n
  BY DEF OpToRel
<1> HIDE DEF R
<1>3. PICK m \in T : \A n \in T : <<n, m>> \notin R
  BY <1>1, WFMin
<1>4. ASSUME NEW n \in T
      PROVE  m <= n
  <2>1. m \in Nat /\ n \in Nat /\ ~(n < m)
    BY <1>2, <1>3
  <2> HIDE DEF R
  <2> QED
    BY <2>1
<1> QED
  BY <1>4

\* A set with 0 that has the successors of its numbers has them all.
LEMMA SetInduction ==
  ASSUME NEW S, 0 \in S, \A n \in Nat : n \in S => n + 1 \in S
  PROVE  Nat \subseteq S
<1> DEFINE T == {n \in Nat : n \notin S}
<1> SUFFICES ASSUME T # {} PROVE FALSE
  OBVIOUS
<1>1. PICK m \in T : \A n \in T : m <= n
  <2>1. T \in SUBSET Nat
    OBVIOUS
  <2> HIDE DEF T
  <2> QED
    BY <2>1, LeastElement
<1>2. m - 1 \in Nat /\ m - 1 \in S
  BY <1>1
<1> QED
  BY <1>1, <1>2

\* The greatest element of a set of numbers up to a bound.
LEMMA GreatestElement ==
  ASSUME NEW n \in Nat, NEW T \in SUBSET (0..n), T # {}
  PROVE  \E m \in T : \A k \in T : k <= m
<1> DEFINE U == {n - k : k \in T}
<1>1. U \in SUBSET Nat /\ U # {}
  <2>1. \A k \in T : n - k \in Nat
    OBVIOUS
  <2> QED
    BY <2>1
<1>2. PICK u \in U : \A v \in U : u <= v
  <2> HIDE DEF U
  <2> QED
    BY <1>1, LeastElement
<1>3. PICK m \in T : u = n - m
  BY <1>2
<1>4. \A k \in T : n - m <= n - k
  BY <1>2, <1>3
<1>5. \A k \in T : k <= m
  BY <1>4
<1> QED
  BY <1>5

-----------------------------------------------------------------------------
(* Recursive functions. *)

\* F takes the value at d from the values at places of lower rank.
Recursive(D, V, r, N, F) ==
  /\ D # {} => V # {}
  /\ r \in [D -> Nat]
  /\ N \in Nat /\ \A d \in D : r[d] <= N
  /\ F \in [D -> [[D -> V] -> V]]
  /\ \A d \in D : \A g, h \in [D -> V] :
       (\A c \in D : r[c] < r[d] => g[c] = h[c]) => F[d][g] = F[d][h]

\* Such a definition defines a function.
LEMMA Recursion ==
  ASSUME NEW D, NEW V, NEW r, NEW N, NEW F, Recursive(D, V, r, N, F)
  PROVE  \E f \in [D -> V] : \A d \in D : f[d] = F[d][f]
<1> USE DEF Recursive
<1> DEFINE Good(n, f) == \A d \in D : r[d] < n => f[d] = F[d][f]
           S == {n \in Nat : \E f \in [D -> V] : Good(n, f)}
<1>1. 0 \in S
  <2>1. \E f \in [D -> V] : TRUE
    <3>1. CASE D = {}
      <4>1. [d \in D |-> d] \in [D -> V]
        BY <3>1
      <4> QED
        BY <4>1
    <3>2. CASE D # {}
      <4> PICK v \in V : TRUE
        BY <3>2
      <4>1. [d \in D |-> v] \in [D -> V]
        OBVIOUS
      <4> QED
        BY <4>1
    <3> QED
      BY <3>1, <3>2
  <2> PICK f \in [D -> V] : TRUE
    BY <2>1
  <2>2. Good(0, f)
    OBVIOUS
  <2> HIDE DEF Good
  <2> QED
    BY <2>2
<1>2. ASSUME NEW n \in Nat, n \in S
      PROVE  n + 1 \in S
  <2> PICK f \in [D -> V] : Good(n, f)
    BY <1>2
  <2> DEFINE g == [d \in D |-> IF r[d] < n THEN f[d] ELSE F[d][f]]
  <2>1. g \in [D -> V]
    OBVIOUS
  <2>2. ASSUME NEW d \in D, r[d] < n + 1
        PROVE  g[d] = F[d][g]
    <3>1. \A c \in D : r[c] < r[d] => f[c] = g[c]
      BY <2>2
    <3>2. F[d][f] = F[d][g]
      <4> HIDE DEF g
      <4> QED
        BY <2>1, <3>1
    <3>3. g[d] = F[d][f]
      <4>1. r[d] < n => f[d] = F[d][f]
        OBVIOUS
      <4> QED
        BY <4>1
    <3> QED
      BY <3>2, <3>3
  <2>3. Good(n + 1, g)
    BY <2>2
  <2> HIDE DEF g, Good
  <2> QED
    BY <2>1, <2>3
<1>3. N + 1 \in S
  <2> HIDE DEF S
  <2>1. Nat \subseteq S
    BY <1>1, <1>2, SetInduction
  <2> QED
    BY <2>1
<1> PICK f \in [D -> V] : Good(N + 1, f)
  BY <1>3
<1>4. \A d \in D : r[d] < N + 1
  OBVIOUS
<1>5. \A d \in D : f[d] = F[d][f]
  BY <1>4
<1> QED
  BY <1>5

\* Steps b + 1 to n, each of them within V.
Steps(b, n, V, F) == /\ b \in Nat /\ n \in Nat /\ b <= n
                     /\ \A i \in b + 1 .. n : \A v \in V : F[i][v] \in V

\* What such steps make of x, one after the other.
Stepped(f, b, n, x, F) == f[b] = x /\ \A i \in b + 1 .. n : f[i] = F[i][f[i - 1]]

\* There is a function of it.
LEMMA Iteration ==
  ASSUME NEW b, NEW n, NEW V, NEW x \in V, NEW F, Steps(b, n, V, F)
  PROVE  \E f \in [b..n -> V] : Stepped(f, b, n, x, F)
<1> USE DEF Steps
<1> DEFINE D == b..n
           r == [i \in D |-> i]
           G == [i \in D |-> [f \in [D -> V] |-> IF i = b THEN x ELSE F[i][f[i - 1]]]]
<1>1. \A i \in D : i # b => i - 1 \in D /\ r[i - 1] < r[i] /\ i \in b + 1 .. n
  OBVIOUS
<1>2. b \in D /\ \A i \in b + 1 .. n : i \in D /\ i # b
  OBVIOUS
<1>3. r \in [D -> Nat] /\ \A i \in D : r[i] <= n
  OBVIOUS
<1> HIDE DEF D, r
<1>4. \A i \in D : \A f \in [D -> V] : (IF i = b THEN x ELSE F[i][f[i - 1]]) \in V
  BY <1>1
<1>5. G \in [D -> [[D -> V] -> V]]
  BY <1>4
<1>6. \A i \in D : \A f \in [D -> V] : G[i][f] = IF i = b THEN x ELSE F[i][f[i - 1]]
  OBVIOUS
<1> HIDE DEF G
<1>7. ASSUME NEW d \in D, NEW g \in [D -> V], NEW h \in [D -> V],
             \A c \in D : r[c] < r[d] => g[c] = h[c]
      PROVE  G[d][g] = G[d][h]
  <2>1. d # b => g[d - 1] = h[d - 1]
    BY <1>1, <1>7
  <2>2. d # b => F[d][g[d - 1]] = F[d][h[d - 1]]
    BY <2>1
  <2> QED
    BY <1>6, <2>2
<1>8. Recursive(D, V, r, n, G)
  BY <1>3, <1>5, <1>7 DEF Recursive
<1>9. \E f \in [D -> V] : \A i \in D : f[i] = G[i][f]
  BY <1>8, Recursion
<1> QED
  BY <1>2, <1>6, <1>9 DEF D, Stepped

\* Induction on the rank: a set that has each element of D whose lower ones
\* it has, has all of D.
LEMMA RankInduction ==
  ASSUME NEW D, NEW r \in [D -> Nat], NEW T,
         \A d \in D : (\A c \in D : r[c] < r[d] => c \in T) => d \in T
  PROVE  D \subseteq T
<1> DEFINE S == {n \in Nat : \A d \in D : r[d] < n => d \in T}
<1>1. 0 \in S
  OBVIOUS
<1>2. ASSUME NEW n \in Nat, n \in S
      PROVE  n + 1 \in S
  <2>1. ASSUME NEW d \in D, r[d] < n + 1
        PROVE  d \in T
    <3>1. \A c \in D : r[c] < r[d] => r[c] < n
      BY <2>1
    <3> QED
      BY <1>2, <3>1
  <2> QED
    BY <2>1
<1>3. Nat \subseteq S
  <2> HIDE DEF S
  <2> QED
    BY <1>1, <1>2, SetInduction
<1>4. ASSUME NEW d \in D
      PROVE  d \in T
  <2>1. r[d] + 1 \in Nat /\ r[d] < r[d] + 1
    OBVIOUS
  <2> QED
    BY <1>3, <2>1
<1> QED
  BY <1>4

-----------------------------------------------------------------------------
(* Sorting. *)

\* No element of s is one that relation R puts before an earlier one.
InOrder(s, R) == \A i, j \in DOMAIN s : i < j => <<s[j], s[i]>> \notin R

\* Each part of S that is not empty has an element that R puts no other before.
HasFirsts(S, R) ==
  \A T \in SUBSET S : T # {} => \E e \in T : \A d \in T : <<d, e>> \notin R

\* The elements of such a set can be put in order.
LEMMA CanBeSorted ==
  ASSUME NEW S, IsFiniteSet(S), NEW R, HasFirsts(S, R)
  PROVE  \E s \in SetToSeqs(S) : InOrder(s, R)
<1> DEFINE K == {n \in Nat : \A T \in SUBSET S : Cardinality(T) = n =>
                    \E s \in SetToSeqs(T) : InOrder(s, R)}
<1>1. \A T \in SUBSET S : IsFiniteSet(T) /\ Cardinality(T) \in Nat
  BY FS_Subset, FS_CardinalityType
<1>2. 0 \in K
  <2>1. ASSUME NEW T \in SUBSET S, Cardinality(T) = 0
        PROVE  \E s \in SetToSeqs(T) : InOrder(s, R)
    <3> DEFINE s == [i \in 1..Cardinality(T) |-> i]
    <3>1. s \in SetToSeqs(T) /\ InOrder(s, R)
      BY <2>1 DEF SetToSeqs, InOrder
    <3> QED
      BY <3>1
  <2> QED
    BY <2>1
<1>3. ASSUME NEW n \in Nat, n \in K
      PROVE  n + 1 \in K
  <2>1. ASSUME NEW T \in SUBSET S, Cardinality(T) = n + 1
        PROVE  \E s \in SetToSeqs(T) : InOrder(s, R)
    <3>1. T # {}
      BY <2>1, FS_EmptySet
    <3> PICK e \in T : \A d \in T : <<d, e>> \notin R
      BY <3>1 DEF HasFirsts
    <3> DEFINE U == T \ {e}
    <3>2. U \in SUBSET S /\ Cardinality(U) = n
      <4>1. IsFiniteSet(T)
        BY <1>1
      <4>2. Cardinality(U) = Cardinality(T) - 1
        BY <4>1, FS_RemoveElement
      <4> QED
        BY <2>1, <4>2
    <3> HIDE DEF U
    <3> PICK s \in SetToSeqs(U) : InOrder(s, R)
      BY <1>3, <3>2
    <3>3. /\ s \in [1..n -> U]
          /\ \A i, j \in 1..n : i # j => s[i] # s[j]
          /\ \A i, j \in 1..n : i < j => <<s[j], s[i]>> \notin R
      BY <3>2 DEF SetToSeqs, InOrder
    <3> DEFINE t == [i \in 1 .. n + 1 |-> IF i = 1 THEN e ELSE s[i - 1]]
    <3>4. \A i \in 1 .. n + 1 : i # 1 => i - 1 \in 1..n
      OBVIOUS
    <3>5. DOMAIN t = 1 .. n + 1 /\ t[1] = e
      OBVIOUS
    <3>6. \A i \in 1 .. n + 1 : i # 1 => t[i] = s[i - 1] /\ t[i] \in U
      BY <3>3, <3>4
    <3>7. t \in [1 .. n + 1 -> T]
      BY <3>3, <3>4 DEF U
    <3> HIDE DEF t
    <3>8. \A i, j \in 1 .. n + 1 : i # j => t[i] # t[j]
      <4> TAKE i, j \in 1 .. n + 1
      <4> HAVE i # j
      <4>1. CASE i = 1
        BY <3>5, <3>6, <4>1 DEF U
      <4>2. CASE j = 1
        BY <3>5, <3>6, <4>2 DEF U
      <4>3. CASE i # 1 /\ j # 1
        BY <3>3, <3>4, <3>6, <4>3
      <4> QED
        BY <4>1, <4>2, <4>3
    <3>9. \A i, j \in 1 .. n + 1 : i < j => <<t[j], t[i]>> \notin R
      <4> TAKE i, j \in 1 .. n + 1
      <4> HAVE i < j
      <4>1. CASE i = 1
        BY <3>5, <3>7, <4>1
      <4>2. CASE i # 1
        <5>1. j # 1 /\ i - 1 < j - 1
          BY <4>2
        <5> QED
          BY <3>3, <3>4, <3>6, <4>2, <5>1
      <4> QED
        BY <4>1, <4>2
    <3>10. t \in SetToSeqs(T) /\ InOrder(t, R)
      BY <2>1, <3>5, <3>7, <3>8, <3>9 DEF SetToSeqs, InOrder
    <3> QED
      BY <3>10
  <2> QED
    BY <2>1
<1>4. Nat \subseteq K
  <2> HIDE DEF K
  <2> QED
    BY <1>2, <1>3, SetInduction
<1>5. S \in SUBSET S /\ Cardinality(S) \in K
  BY <1>1, <1>4
<1> QED
  BY <1>5
=============================================================================
