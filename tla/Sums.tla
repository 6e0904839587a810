-------------------------------- MODULE Sums --------------------------------
(***************************************************************************)
(* Sums over finite sets, as SumFunctionOnSet of the community modules     *)
(* defines them: what the sum does when the function changes in one place. *)
(***************************************************************************)
EXTENDS Integers, FiniteSets, Functions, FiniteSetTheorems, WellFoundedInduction, TLAPS

\* A set of numbers that is not empty has a smallest one.
LEMMA Smallest ==
  ASSUME NEW T, T \subseteq Nat, T # {}
  PROVE  \E n \in T : \A m \in T : n <= m
<1>1. PICK n \in T : \A m \in T : ~(<<m, n>> \in OpToRel(<, Nat))
  BY WFMin, NatLessThanWellFounded
<1>2. ASSUME NEW m \in T PROVE n <= m
  <2>1. ~(m < n)
    BY <1>1 DEF OpToRel
  <2> QED
    BY <2>1
<1> QED
  BY <1>2

\* The element of s that the sum takes first.
Pick(s) == CHOOSE x \in s : TRUE

\* The sum over s, given the sums over smaller sets.
Total(f, g, s) == IF s = {} THEN 0 ELSE f[Pick(s)] + g[s \ {Pick(s)}]

\* g has the sums over the sets in D.
Sums(f, g, D) == g = [s \in D |-> Total(f, g, s)]

LEMMA SumUnfold ==
  ASSUME NEW f, NEW S
  PROVE  SumFunctionOnSet(f, S) = (CHOOSE g : Sums(f, g, SUBSET S))[S]
BY DEF SumFunctionOnSet, FoldFunctionOnSet, MapThenFoldSet, Sums, Total, Pick

\* Pick takes an element.
LEMMA PickIn ==
  ASSUME NEW s, s # {}
  PROVE  Pick(s) \in s
BY DEF Pick

\* Of a collection of subsets of a finite set one has no other below it.
LEMMA SmallestSet ==
  ASSUME NEW S, IsFiniteSet(S), NEW C, C \subseteq SUBSET S, C # {}
  PROVE  \E A \in C : \A B \in C : B \subseteq A => B = A
<1> DEFINE T == {Cardinality(A) : A \in C}
<1>1. \A A \in C : IsFiniteSet(A) /\ Cardinality(A) \in Nat
  BY FS_Subset, FS_CardinalityType
<1>2. T \subseteq Nat /\ T # {}
  BY <1>1
<1> HIDE DEF T
<1>3. PICK n \in T : \A m \in T : n <= m
  BY <1>2, Smallest
<1>4. PICK A \in C : Cardinality(A) = n
  BY <1>3 DEF T
<1>5. ASSUME NEW B \in C, B \subseteq A PROVE B = A
  <2>1. Cardinality(A) <= Cardinality(B)
    BY <1>3, <1>4 DEF T
  <2>2. Cardinality(B) <= Cardinality(A) /\ (Cardinality(B) = Cardinality(A) => B = A)
    BY <1>1, <1>5, FS_Subset
  <2> QED
    BY <1>1, <2>1, <2>2
<1> QED
  BY <1>5

\* The sums over all subsets of a finite set exist.
LEMMA SumsExist ==
  ASSUME NEW f, NEW S, IsFiniteSet(S)
  PROVE  \E g : Sums(f, g, SUBSET S)
<1> DEFINE Small(n) == {s \in SUBSET S : Cardinality(s) <= n}
           T == {n \in Nat : ~\E g : Sums(f, g, Small(n))}
<1>1. \A s \in SUBSET S : IsFiniteSet(s) /\ Cardinality(s) \in Nat
  BY FS_Subset, FS_CardinalityType
<1>2. \E g : Sums(f, g, Small(0))
  <2> DEFINE g == [s \in Small(0) |-> 0]
  <2>1. \A s \in Small(0) : s = {}
    BY <1>1, FS_EmptySet
  <2>2. \A s \in Small(0) : g[s] = Total(f, g, s)
    BY <2>1 DEF Total
  <2>3. g = [s \in Small(0) |-> Total(f, g, s)]
    BY <2>2
  <2> QED
    BY <2>3 DEF Sums
<1>3. ASSUME NEW n \in Nat, NEW h, Sums(f, h, Small(n)) PROVE \E g : Sums(f, g, Small(n + 1))
  <2> DEFINE g == [s \in Small(n + 1) |-> Total(f, h, s)]
  <2>1. ASSUME NEW s \in Small(n + 1) PROVE g[s] = Total(f, g, s)
    <3>1. CASE s = {}
      BY <3>1 DEF Total
    <3>2. CASE s # {}
      <4> DEFINE t == s \ {Pick(s)}
      <4>1. Pick(s) \in s /\ IsFiniteSet(s) /\ Cardinality(s) \in Nat
        BY <1>1, <3>2, PickIn
      <4>2. Cardinality(t) = Cardinality(s) - 1
        BY <4>1, FS_RemoveElement
      <4>3. t \in Small(n) /\ t \in Small(n + 1)
        BY <4>1, <4>2
      <4>4. h[t] = Total(f, h, t)
        BY <1>3, <4>3 DEF Sums
      <4>5. g[t] = h[t]
        BY <4>3, <4>4
      <4> HIDE DEF t
      <4>6. g[s] = f[Pick(s)] + h[t]
        BY <3>2 DEF Total, t
      <4> HIDE DEF g
      <4>7. Total(f, g, s) = f[Pick(s)] + g[t]
        BY <3>2 DEF Total, t
      <4> QED
        BY <4>5, <4>6, <4>7
    <3> QED
      BY <3>1, <3>2
  <2>2. g = [s \in Small(n + 1) |-> Total(f, g, s)]
    BY <2>1
  <2> QED
    BY <2>2 DEF Sums
<1>4. T = {}
  <2> SUFFICES ASSUME T # {} PROVE FALSE
    OBVIOUS
  <2>0. T \subseteq Nat /\ 0 \notin T
    BY <1>2
  <2>4. \A m \in Nat \ T : \E g : Sums(f, g, Small(m))
    OBVIOUS
  <2>6. \A m \in T : ~\E g : Sums(f, g, Small(m))
    OBVIOUS
  <2> HIDE DEF T
  <2>1. PICK n \in T : \A m \in T : n <= m
    BY <2>0, Smallest
  <2>2. n \in Nat /\ n # 0
    BY <2>0
  <2>3. n - 1 \in Nat /\ n - 1 \notin T /\ (n - 1) + 1 = n
    BY <2>1, <2>2
  <2>5. \E g : Sums(f, g, Small((n - 1) + 1))
    BY <1>3, <2>3, <2>4
  <2> QED
    BY <2>3, <2>5, <2>6
<1>5. Cardinality(S) \in Nat /\ Small(Cardinality(S)) = SUBSET S
  BY <1>1, FS_Subset
<1> QED
  BY <1>4, <1>5

\* Sums over the same set of functions that agree there are the same.
LEMMA SumsAgree ==
  ASSUME NEW f, NEW g, NEW S, NEW R, NEW p, NEW q, Sums(f, p, SUBSET S), Sums(g, q, SUBSET R),
         NEW A, IsFiniteSet(A), A \subseteq S, A \subseteq R, \A x \in A : f[x] = g[x]
  PROVE  p[A] = q[A]
<1> DEFINE C == {B \in SUBSET A : p[B] # q[B]}
<1>1. SUFFICES ASSUME C # {} PROVE FALSE
  OBVIOUS
<1>0. C \subseteq SUBSET A
  OBVIOUS
<1>2. PICK B \in C : \A D \in C : D \subseteq B => D = B
  <2> HIDE DEF C
  <2> QED
    BY <1>0, <1>1, SmallestSet
<1>3. p[B] = Total(f, p, B) /\ q[B] = Total(g, q, B)
  BY DEF Sums
<1>4. B # {}
  BY <1>3 DEF Total
<1> DEFINE D == B \ {Pick(B)}
<1>5. Pick(B) \in B /\ D \subseteq B /\ D # B
  BY <1>4, PickIn
<1>6. p[D] = q[D]
  BY <1>2, <1>5
<1> HIDE DEF D
<1>7. p[B] = f[Pick(B)] + p[D] /\ q[B] = g[Pick(B)] + q[D]
  BY <1>3, <1>4 DEF Total, D
<1>8. f[Pick(B)] = g[Pick(B)]
  BY <1>5
<1> QED
  BY <1>6, <1>7, <1>8

\* The sum over a set is found in every function that has the sums.
LEMMA SumOf ==
  ASSUME NEW f, NEW S, IsFiniteSet(S), NEW p, Sums(f, p, SUBSET S), NEW A, A \subseteq S
  PROVE  SumFunctionOnSet(f, A) = p[A]
<1>1. IsFiniteSet(A)
  BY FS_Subset
<1> DEFINE q == CHOOSE g : Sums(f, g, SUBSET A)
<1>2. Sums(f, q, SUBSET A)
  BY <1>1, SumsExist
<1>3. SumFunctionOnSet(f, A) = q[A]
  BY SumUnfold
<1> HIDE DEF q
<1>4. q[A] = p[A]
  BY <1>1, <1>2, SumsAgree
<1> QED
  BY <1>3, <1>4

\* An element more or less: the sum changes by what it counts for.
LEMMA SumRemove ==
  ASSUME NEW S, IsFiniteSet(S), NEW f, \A x \in S : f[x] \in Int, NEW x \in S
  PROVE  /\ SumFunctionOnSet(f, S) \in Int
         /\ SumFunctionOnSet(f, S \ {x}) \in Int
         /\ SumFunctionOnSet(f, S) = f[x] + SumFunctionOnSet(f, S \ {x})
<1>1. PICK p : Sums(f, p, SUBSET S)
  BY SumsExist
<1>2. \A A \in SUBSET S : p[A] = Total(f, p, A)
  BY <1>1 DEF Sums
<1> DEFINE Fine(A) == p[A] \in Int /\ \A y \in A : p[A] = f[y] + p[A \ {y}]
           C == {A \in SUBSET S : ~Fine(A)}
<1>3. C = {}
  <2> SUFFICES ASSUME C # {} PROVE FALSE
    OBVIOUS
  <2>0. C \subseteq SUBSET S
    OBVIOUS
  <2>1. PICK A \in C : \A B \in C : B \subseteq A => B = A
    <3> HIDE DEF C
    <3> QED
      BY <2>0, SmallestSet
  <2>2. \A B \in SUBSET A : B # A => Fine(B)
    BY <2>1
  <2>3. A # {}
    BY <1>2, <2>1 DEF Total
  <2> DEFINE a == Pick(A)
             B == A \ {a}
  <2>4. a \in A /\ B \in SUBSET A /\ B # A /\ p[A] = f[a] + p[B] /\ f[a] \in Int
    BY <1>2, <2>3, PickIn DEF Total
  <2> HIDE DEF a
  <2>5. p[B] \in Int /\ \A y \in B : p[B] = f[y] + p[B \ {y}]
    BY <2>2, <2>4
  <2>6. p[A] \in Int
    BY <2>4, <2>5
  <2>7. ASSUME NEW y \in A PROVE p[A] = f[y] + p[A \ {y}]
    <3>1. CASE y = a
      BY <2>4, <3>1
    <3>2. CASE y # a
      <4> DEFINE D == A \ {y}
                 E == D \ {a}
      <4>1. y \in B /\ a \in D /\ D \in SUBSET A /\ D # A /\ B \ {y} = E
        BY <2>4, <3>2
      <4>2. E \in SUBSET A /\ E # A
        BY <4>1
      <4>3. p[D] = f[a] + p[E] /\ p[E] \in Int /\ p[D] \in Int
        BY <2>2, <4>1, <4>2
      <4>4. p[B] = f[y] + p[E]
        BY <2>5, <4>1
      <4>5. f[y] \in Int
        OBVIOUS
      <4> HIDE DEF D, E, B
      <4>6. p[A] = f[y] + p[D]
        BY <2>4, <4>3, <4>4, <4>5
      <4> QED
        BY <4>6 DEF D
    <3> QED
      BY <3>1, <3>2
  <2> QED
    BY <2>1, <2>6, <2>7
<1>4. Fine(S) /\ Fine(S \ {x})
  BY <1>3
<1>5. SumFunctionOnSet(f, S) = p[S] /\ SumFunctionOnSet(f, S \ {x}) = p[S \ {x}]
  BY <1>1, SumOf
<1> QED
  BY <1>4, <1>5

\* A function that changes in one place changes its sum by the difference.
LEMMA SumChange ==
  ASSUME NEW S, IsFiniteSet(S), NEW f, NEW g, NEW x \in S,
         \A y \in S : f[y] \in Int /\ g[y] \in Int,
         \A y \in S : y # x => f[y] = g[y]
  PROVE  SumFunctionOnSet(g, S) = SumFunctionOnSet(f, S) + (g[x] - f[x])
<1> DEFINE A == S \ {x}
<1>1. /\ SumFunctionOnSet(f, S) = f[x] + SumFunctionOnSet(f, A)
      /\ SumFunctionOnSet(f, A) \in Int
  BY SumRemove
<1>2. /\ SumFunctionOnSet(g, S) = g[x] + SumFunctionOnSet(g, A)
      /\ SumFunctionOnSet(g, A) \in Int
  BY SumRemove
<1>3. SumFunctionOnSet(f, A) = SumFunctionOnSet(g, A)
  <2>1. PICK p, q : Sums(f, p, SUBSET S) /\ Sums(g, q, SUBSET S)
    BY SumsExist
  <2>2. IsFiniteSet(A) /\ A \subseteq S
    BY FS_Subset
  <2>3. SumFunctionOnSet(f, A) = p[A] /\ SumFunctionOnSet(g, A) = q[A]
    BY <2>1, <2>2, SumOf
  <2>5. \A y \in A : f[y] = g[y]
    OBVIOUS
  <2> HIDE DEF A
  <2>4. p[A] = q[A]
    BY <2>1, <2>2, <2>5, SumsAgree
  <2> QED
    BY <2>3, <2>4
<1> HIDE DEF A
<1> QED
  BY <1>1, <1>2, <1>3

\* A function that is zero everywhere has the sum zero.
LEMMA SumZero ==
  ASSUME NEW S, IsFiniteSet(S), NEW f, \A y \in S : f[y] = 0
  PROVE  SumFunctionOnSet(f, S) = 0
<1>1. PICK p : Sums(f, p, SUBSET S)
  BY SumsExist
<1> DEFINE C == {A \in SUBSET S : p[A] # 0}
<1>2. C = {}
  <2> SUFFICES ASSUME C # {} PROVE FALSE
    OBVIOUS
  <2>0. C \subseteq SUBSET S
    OBVIOUS
  <2>1. PICK A \in C : \A B \in C : B \subseteq A => B = A
    <3> HIDE DEF C
    <3> QED
      BY <2>0, SmallestSet
  <2>2. p[A] = Total(f, p, A)
    BY <1>1 DEF Sums
  <2>3. A # {}
    BY <2>2 DEF Total
  <2> DEFINE B == A \ {Pick(A)}
  <2>4. Pick(A) \in A /\ B \in SUBSET S /\ B \subseteq A /\ B # A
    BY <2>3, PickIn
  <2>5. p[B] = 0
    BY <2>1, <2>4
  <2>6. p[A] = f[Pick(A)] + p[B] /\ f[Pick(A)] = 0
    BY <2>2, <2>3, <2>4 DEF Total
  <2> QED
    BY <2>5, <2>6
<1> QED
  BY <1>1, <1>2, SumOf
=============================================================================
