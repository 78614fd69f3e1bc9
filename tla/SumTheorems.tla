----------------------------- MODULE SumTheorems -----------------------------
(***************************************************************************)
(* Sums over finite sets: a sum is defined by taking its terms in an order *)
(* that CHOOSE fixes, and these lemmas say that the order is of no account.*)
(* Induction is on the least finite set that would be a counterexample.    *)
(***************************************************************************)
EXTENDS Integers, FiniteSets, FiniteSetsExt, FiniteSetTheorems, TLAPS

\* Of any sets among the subsets of a finite set one has none of the others
\* within it.
LEMMA SmallestSet ==
    ASSUME NEW S, IsFiniteSet(S), NEW C, C \subseteq SUBSET S, C # {}
    PROVE  \E T \in C : \A U \in C : U \subseteq T => U = T
<1>1. IsWellFoundedOn(StrictSubsetOrdering(S), SUBSET S)
  BY FS_StrictSubsetOrderingWellFounded, FS_FiniteSubsetsOfFinite
<1>2. PICK T \in C : \A U \in C : ~ (<<U, T>> \in StrictSubsetOrdering(S))
  BY <1>1, WFMin
<1>3. QED
  BY <1>2 DEF StrictSubsetOrdering

\* The least of some numbers.
LEMMA MinIsMember ==
    ASSUME NEW S \in SUBSET Nat, S # {}
    PROVE  Min(S) \in S /\ \A y \in S : Min(S) <= y
<1>1. PICK n \in S : TRUE
  OBVIOUS
<1> DEFINE C == {s \in SUBSET (0..n) : \E m \in S : s = 0..m}
<1>2. C # {} /\ C \subseteq SUBSET (0..n) /\ IsFiniteSet(0..n)
  <2>1. 0..n \in C /\ C \subseteq SUBSET (0..n)
    OBVIOUS
  <2>2. IsFiniteSet(0..n)
    BY FS_Interval
  <2>3. QED
    BY <2>1, <2>2
<1>3. \A m \in S : 0..m \subseteq 0..n => 0..m \in C
  OBVIOUS
<1>4. \A s \in C : \E m \in S : s = 0..m
  OBVIOUS
<1> HIDE DEF C
<1>5. PICK T \in C : \A U \in C : U \subseteq T => U = T
  <2>1. PICK W : W = 0..n
    OBVIOUS
  <2>2. C # {} /\ C \subseteq SUBSET W /\ IsFiniteSet(W)
    BY <1>2, <2>1
  <2>3. QED
    BY <2>2, SmallestSet
<1>6. PICK x \in S : T = 0..x
  BY <1>4
<1>7. ASSUME NEW y \in S, y < x
      PROVE  FALSE
  <2>1. 0..y \subseteq 0..x /\ 0..x \subseteq 0..n /\ x \notin 0..y /\ x \in 0..x
    BY <1>2, <1>6, <1>7
  <2>2. 0..y \in C
    BY <1>3, <2>1
  <2>3. QED
    BY <1>5, <1>6, <2>1, <2>2
<1>8. \A y \in S : x <= y
  BY <1>7
<1>9. QED
  BY <1>8 DEF Min

\* The term that a sum over s takes first.
First(s) == CHOOSE x \in s : TRUE

\* The sum of f over S.
SumOf(f, S) == MapThenSumSet(LAMBDA x : f[x], S)

\* g holds the partial sums of f over the subsets of S.
PartialSums(f, S, g) ==
    g = [s \in SUBSET S |-> IF s = {} THEN 0 ELSE f[First(s)] + g[s \ {First(s)}]]

-----------------------------------------------------------------------------
(* Partial sums exist and are unique.                                      *)

\* The term taken first is one of them, so that fewer are left.
LEMMA FirstIsMember ==
    ASSUME NEW s, s # {}
    PROVE  First(s) \in s /\ s \ {First(s)} \subseteq s /\ s \ {First(s)} # s
<1>1. First(s) \in s
  BY DEF First
<1>2. QED
  BY <1>1

\* Only one function holds the partial sums: a least subset on which two differ is
\* not empty, and they agree on it without its first term.
LEMMA PartialSumsUnique ==
    ASSUME NEW f, NEW S, IsFiniteSet(S), NEW g, NEW h,
           PartialSums(f, S, g), PartialSums(f, S, h)
    PROVE  g = h
<1> DEFINE C == {s \in SUBSET S : g[s] # h[s]}
<1>1. SUFFICES C = {}
  <2>1. g = [s \in SUBSET S |-> g[s]] /\ h = [s \in SUBSET S |-> h[s]]
    BY DEF PartialSums
  <2>2. QED
    BY <1>1, <2>1
<1>2. SUFFICES ASSUME C # {}
               PROVE  FALSE
  OBVIOUS
<1>3. PICK T \in C : \A U \in C : U \subseteq T => U = T
  <2>1. C \subseteq SUBSET S
    OBVIOUS
  <2> HIDE DEF C
  <2>2. QED
    BY <2>1, <1>2, SmallestSet
<1>4. T # {}
  BY <1>3 DEF PartialSums
<1>5. /\ T \ {First(T)} \in SUBSET S
      /\ T \ {First(T)} \subseteq T
      /\ T \ {First(T)} # T
  BY <1>4, FirstIsMember
<1>6. g[T \ {First(T)}] = h[T \ {First(T)}]
  BY <1>3, <1>5
<1>7. QED
  BY <1>3, <1>4, <1>6 DEF PartialSums

\* The partial sums of a subset are among those of the set.
LEMMA PartialSumsOfSubset ==
    ASSUME NEW f, NEW S, NEW g, PartialSums(f, S, g), NEW T \in SUBSET S
    PROVE  PartialSums(f, T, [s \in SUBSET T |-> g[s]])
<1> DEFINE h == [s \in SUBSET T |-> g[s]]
<1>1. \A s \in SUBSET T : s # {} => s \ {First(s)} \in SUBSET T
  OBVIOUS
<1>2. \A s \in SUBSET T : h[s] = IF s = {} THEN 0 ELSE f[First(s)] + h[s \ {First(s)}]
  BY <1>1 DEF PartialSums
<1>3. h = [s \in SUBSET T |-> IF s = {} THEN 0 ELSE f[First(s)] + h[s \ {First(s)}]]
  BY <1>2
<1>4. QED
  BY <1>3 DEF PartialSums

\* A function holds them: the least set without one is made up of its first term
\* and of smaller sets, which have theirs.
LEMMA PartialSumsExist ==
    ASSUME NEW f, NEW S, IsFiniteSet(S)
    PROVE  \E g : PartialSums(f, S, g)
<1> DEFINE C == {s \in SUBSET S : \A g : ~PartialSums(f, s, g)}
           G(s) == CHOOSE g : PartialSums(f, s, g)
<1>1. SUFFICES ASSUME C # {}
               PROVE  FALSE
  OBVIOUS
<1>2. PICK T \in C : \A U \in C : U \subseteq T => U = T
  <2>1. C \subseteq SUBSET S
    OBVIOUS
  <2> HIDE DEF C
  <2>2. QED
    BY <2>1, <1>1, SmallestSet
<1>3. IsFiniteSet(T)
  BY FS_Subset
<1>4. \A s \in SUBSET T : s # T => PartialSums(f, s, G(s))
  BY <1>2
<1> HIDE DEF G
<1>5. ASSUME NEW s \in SUBSET T, s # T, NEW u \in SUBSET s
      PROVE  G(s)[u] = G(u)[u]
  <2>1. PartialSums(f, s, G(s)) /\ PartialSums(f, u, G(u))
    BY <1>4, <1>5
  <2>2. PartialSums(f, u, [v \in SUBSET u |-> G(s)[v]])
    BY <2>1, PartialSumsOfSubset
  <2>3. IsFiniteSet(u)
    BY <1>3, FS_Subset
  <2>4. [v \in SUBSET u |-> G(s)[v]] = G(u)
    BY <2>1, <2>2, <2>3, PartialSumsUnique
  <2>5. QED
    BY <2>4
<1> DEFINE g == [s \in SUBSET T |-> IF s = {} THEN 0
                     ELSE f[First(s)] + G(s \ {First(s)})[s \ {First(s)}]]
<1>6. ASSUME NEW s \in SUBSET T, s # {}
      PROVE  g[s] = f[First(s)] + g[s \ {First(s)}]
  <2> DEFINE u == s \ {First(s)}
  <2>1. u \in SUBSET T /\ u # T
    BY <1>6, FirstIsMember
  <2>2. PartialSums(f, u, G(u))
    BY <1>4, <2>1
  <2>3. CASE u = {}
    <3>1. G(u)[u] = 0
      BY <2>2, <2>3 DEF PartialSums
    <3>2. g[u] = 0
      BY <2>1, <2>3
    <3>3. QED
      BY <3>1, <3>2, <1>6
  <2>4. CASE u # {}
    <3>1. u \ {First(u)} \in SUBSET u
      OBVIOUS
    <3>2. G(u)[u] = f[First(u)] + G(u)[u \ {First(u)}]
      BY <2>2, <2>4 DEF PartialSums
    <3>3. G(u)[u \ {First(u)}] = G(u \ {First(u)})[u \ {First(u)}]
      BY <1>5, <2>1, <3>1
    <3>4. g[u] = f[First(u)] + G(u \ {First(u)})[u \ {First(u)}]
      BY <2>1, <2>4
    <3>5. g[s] = f[First(s)] + G(u)[u]
      BY <1>6
    <3>6. QED
      BY <3>2, <3>3, <3>4, <3>5
  <2>5. QED
    BY <2>3, <2>4
<1>7. g[{}] = 0
  OBVIOUS
<1>8. g = [s \in SUBSET T |-> IF s = {} THEN 0 ELSE f[First(s)] + g[s \ {First(s)}]]
  <2>1. \A s \in SUBSET T : g[s] = IF s = {} THEN 0 ELSE f[First(s)] + g[s \ {First(s)}]
    BY <1>6, <1>7
  <2>2. g = [s \in SUBSET T |-> g[s]]
    OBVIOUS
  <2> HIDE DEF g
  <2>3. QED
    BY <2>1, <2>2
<1>9. PartialSums(f, T, g)
  BY <1>8 DEF PartialSums
<1>10. QED
  BY <1>9, <1>2

-----------------------------------------------------------------------------
(* The sum.                                                                *)

\* A sum is its last partial sum.
LEMMA SumIsPartialSum ==
    ASSUME NEW f, NEW S, IsFiniteSet(S), NEW g, PartialSums(f, S, g)
    PROVE  SumOf(f, S) = g[S]
<1>1. \E h : PartialSums(f, S, h) /\ SumOf(f, S) = h[S]
  BY DEF SumOf, MapThenSumSet, MapThenFoldSet, PartialSums, First
<1>2. QED
  BY <1>1, PartialSumsUnique

\* A sum without terms is zero.
LEMMA SumEmpty ==
    ASSUME NEW f
    PROVE  SumOf(f, {}) = 0
<1>1. IsFiniteSet({})
  BY FS_EmptySet
<1>2. PICK g : PartialSums(f, {}, g)
  BY <1>1, PartialSumsExist
<1>3. g[{}] = 0
  BY <1>2 DEF PartialSums
<1>4. QED
  BY <1>1, <1>2, <1>3, SumIsPartialSum

\* The first term of a sum taken out.
LEMMA SumWithoutFirst ==
    ASSUME NEW f, NEW S, IsFiniteSet(S), S # {}
    PROVE  SumOf(f, S) = f[First(S)] + SumOf(f, S \ {First(S)})
<1> DEFINE T == S \ {First(S)}
<1>1. PICK g : PartialSums(f, S, g)
  BY PartialSumsExist
<1>2. PartialSums(f, T, [s \in SUBSET T |-> g[s]])
  <2>1. T \in SUBSET S
    OBVIOUS
  <2> HIDE DEF T
  <2>2. QED
    BY <1>1, <2>1, PartialSumsOfSubset
<1>3. SumOf(f, T) = g[T]
  <2>1. IsFiniteSet(T)
    BY FS_RemoveElement
  <2> HIDE DEF T
  <2>2. QED
    BY <1>2, <2>1, SumIsPartialSum
<1>4. SumOf(f, S) = g[S]
  BY <1>1, SumIsPartialSum
<1>5. g[S] = f[First(S)] + g[T]
  BY <1>1 DEF PartialSums
<1>6. QED
  BY <1>3, <1>4, <1>5

\* A sum of integers is an integer.
LEMMA SumType ==
    ASSUME NEW S, IsFiniteSet(S), NEW f, \A x \in S : f[x] \in Int
    PROVE  SumOf(f, S) \in Int
<1> DEFINE C == {s \in SUBSET S : SumOf(f, s) \notin Int}
<1>1. SUFFICES ASSUME C # {}
               PROVE  FALSE
  OBVIOUS
<1>2. PICK T \in C : \A U \in C : U \subseteq T => U = T
  <2>1. C \subseteq SUBSET S
    OBVIOUS
  <2> HIDE DEF C
  <2>2. QED
    BY <2>1, <1>1, SmallestSet
<1>3. T # {}
  BY SumEmpty
<1>4. First(T) \in T /\ T \ {First(T)} \subseteq T /\ T \ {First(T)} # T
  BY <1>3, FirstIsMember
<1>5. SumOf(f, T \ {First(T)}) \in Int
  BY <1>2, <1>4
<1>6. SumOf(f, T) = f[First(T)] + SumOf(f, T \ {First(T)})
  BY <1>3, SumWithoutFirst, FS_Subset
<1>7. QED
  BY <1>2, <1>4, <1>5, <1>6

\* Any term of a sum may be taken out.
LEMMA SumWithout ==
    ASSUME NEW S, IsFiniteSet(S), NEW f, \A x \in S : f[x] \in Int, NEW x \in S
    PROVE  SumOf(f, S) = f[x] + SumOf(f, S \ {x})
<1> DEFINE C == {s \in SUBSET S :
                   \E y \in s : SumOf(f, s) # f[y] + SumOf(f, s \ {y})}
<1>1. SUFFICES ASSUME C # {}
               PROVE  FALSE
  OBVIOUS
<1>2. PICK T \in C : \A U \in C : U \subseteq T => U = T
  <2>1. C \subseteq SUBSET S
    OBVIOUS
  <2> HIDE DEF C
  <2>2. QED
    BY <2>1, <1>1, SmallestSet
<1>3. PICK y \in T : SumOf(f, T) # f[y] + SumOf(f, T \ {y})
  BY <1>2
<1> DEFINE z == First(T)
<1>4. /\ z \in T
      /\ T \ {y} \in SUBSET S /\ T \ {y} # T
      /\ T \ {z} \in SUBSET S /\ T \ {z} # T
  BY <1>3, FirstIsMember
<1> HIDE DEF z
<1>5. SumOf(f, T) = f[z] + SumOf(f, T \ {z})
  BY <1>3, SumWithoutFirst, FS_Subset DEF z
<1>6. y # z
  BY <1>3, <1>5
<1>7. SumOf(f, T \ {z}) = f[y] + SumOf(f, (T \ {z}) \ {y})
  BY <1>2, <1>3, <1>4, <1>6
<1>8. SumOf(f, T \ {y}) = f[z] + SumOf(f, (T \ {y}) \ {z})
  BY <1>2, <1>3, <1>4, <1>6
<1> DEFINE rest == (T \ {y}) \ {z}
<1>9. (T \ {z}) \ {y} = rest
  OBVIOUS
<1>10. f[y] \in Int /\ f[z] \in Int /\ SumOf(f, rest) \in Int
  BY <1>3, <1>4, SumType, FS_Subset
<1> HIDE DEF C, rest
<1>11. SumOf(f, T) = f[z] + (f[y] + SumOf(f, rest))
  BY <1>5, <1>7, <1>9
<1>12. SumOf(f, T \ {y}) = f[z] + SumOf(f, rest)
  BY <1>8 DEF rest
<1>13. QED
  BY <1>3, <1>10, <1>11, <1>12

\* A term more.
LEMMA SumWith ==
    ASSUME NEW S, IsFiniteSet(S), NEW x, x \notin S, NEW f,
           \A y \in S \cup {x} : f[y] \in Int
    PROVE  SumOf(f, S \cup {x}) = f[x] + SumOf(f, S)
<1> DEFINE T == S \cup {x}
<1>1. T \ {x} = S /\ x \in T /\ IsFiniteSet(T)
  BY FS_AddElement
<1> HIDE DEF T
<1>2. SumOf(f, T) = f[x] + SumOf(f, T \ {x})
  BY <1>1, SumWithout DEF T
<1>3. QED
  BY <1>1, <1>2 DEF T

\* Sums of the same terms are the same.
LEMMA SumSame ==
    ASSUME NEW S, IsFiniteSet(S), NEW f, NEW g, \A x \in S : f[x] = g[x]
    PROVE  SumOf(f, S) = SumOf(g, S)
<1>1. PICK h : PartialSums(f, S, h)
  BY PartialSumsExist
<1>2. \A s \in SUBSET S : s # {} => f[First(s)] = g[First(s)]
  BY FirstIsMember
<1>3. [s \in SUBSET S |-> IF s = {} THEN 0 ELSE f[First(s)] + h[s \ {First(s)}]]
        = [s \in SUBSET S |-> IF s = {} THEN 0 ELSE g[First(s)] + h[s \ {First(s)}]]
  BY <1>2
<1>4. PartialSums(g, S, h)
  BY <1>1, <1>3 DEF PartialSums
<1>5. QED
  BY <1>1, <1>4, SumIsPartialSum

\* The sum of a column of a table is the sum of the function that gives it.
LEMMA SumOfValues ==
    ASSUME NEW t, NEW S, IsFiniteSet(S), NEW f, \A c \in S : f[c] = t[c].value
    PROVE  MapThenSumSet(LAMBDA c : t[c].value, S) = SumOf(f, S)
<1>1. PICK g : PartialSums(f, S, g)
  BY PartialSumsExist
<1> DEFINE Unfolds(h) == h = [s \in SUBSET S |-> IF s = {} THEN 0
                                ELSE t[First(s)].value + h[s \ {First(s)}]]
<1>2. ASSUME NEW h, Unfolds(h)
      PROVE  PartialSums(f, S, h)
  <2>1. \A s \in SUBSET S : s # {} => f[First(s)] = t[First(s)].value
    BY FirstIsMember
  <2>2. [s \in SUBSET S |-> IF s = {} THEN 0 ELSE t[First(s)].value + h[s \ {First(s)}]]
        = [s \in SUBSET S |-> IF s = {} THEN 0 ELSE f[First(s)] + h[s \ {First(s)}]]
    BY <2>1
  <2>3. QED
    BY <1>2, <2>2 DEF PartialSums
<1>3. Unfolds(g)
  <2>1. \A s \in SUBSET S : s # {} => f[First(s)] = t[First(s)].value
    BY FirstIsMember
  <2>2. [s \in SUBSET S |-> IF s = {} THEN 0 ELSE t[First(s)].value + g[s \ {First(s)}]]
        = [s \in SUBSET S |-> IF s = {} THEN 0 ELSE f[First(s)] + g[s \ {First(s)}]]
    BY <2>1
  <2>3. QED
    BY <1>1, <2>2 DEF PartialSums
<1> DEFINE sum == MapThenSumSet(LAMBDA c : t[c].value, S)
<1>4. \E h : Unfolds(h) /\ sum = h[S]
  BY <1>3 DEF MapThenSumSet, MapThenFoldSet, First
<1> HIDE DEF Unfolds, sum
<1>5. sum = SumOf(f, S)
  BY <1>2, <1>4, SumIsPartialSum
<1>6. QED
  BY <1>5 DEF sum

-----------------------------------------------------------------------------
(* Sums of sums.                                                           *)

\* A sum of terms of one sign has it.
LEMMA SumSign ==
    ASSUME NEW S, IsFiniteSet(S), NEW f, \A x \in S : f[x] \in Int /\ f[x] <= 0
    PROVE  SumOf(f, S) <= 0
<1> DEFINE C == {s \in SUBSET S : ~(SumOf(f, s) <= 0)}
<1>1. SUFFICES ASSUME C # {}
               PROVE  FALSE
  OBVIOUS
<1>2. PICK T \in C : \A U \in C : U \subseteq T => U = T
  <2>1. C \subseteq SUBSET S
    OBVIOUS
  <2> HIDE DEF C
  <2>2. QED
    BY <2>1, <1>1, SmallestSet
<1>3. T # {}
  <2>1. ~(SumOf(f, T) <= 0)
    BY <1>2
  <2>2. SumOf(f, {}) = 0
    BY SumEmpty
  <2> HIDE DEF C
  <2>3. QED
    BY <2>1, <2>2
<1>4. PICK x \in T : TRUE
  BY <1>3
<1> DEFINE U == T \ {x}
<1>5. /\ U \in SUBSET S /\ U \notin C
      /\ IsFiniteSet(T) /\ IsFiniteSet(U) /\ x \in S
  <2>1. U \in SUBSET S /\ U \subseteq T /\ U # T
    BY <1>4
  <2>2. U \notin C
    BY <1>2, <2>1
  <2>3. QED
    BY <1>2, <1>4, <2>1, <2>2, FS_Subset
<1>6. SumOf(f, U) <= 0
  BY <1>5
<1>7. SumOf(f, T) = f[x] + SumOf(f, U)
  BY <1>2, <1>4, <1>5, SumWithout
<1>8. SumOf(f, U) \in Int /\ f[x] \in Int /\ f[x] <= 0
  BY <1>5, SumType
<1>9. SumOf(f, T) <= 0
  <2> HIDE DEF U, C
  <2>1. QED
    BY <1>6, <1>7, <1>8
<1>10. QED
  BY <1>2, <1>9

\* The sum of a difference is the difference of the sums.
LEMMA SumMinus ==
    ASSUME NEW S, IsFiniteSet(S), NEW f, NEW g, NEW h,
           \A x \in S : f[x] \in Int /\ g[x] \in Int /\ h[x] = f[x] - g[x]
    PROVE  SumOf(h, S) = SumOf(f, S) - SumOf(g, S)
<1> DEFINE C == {s \in SUBSET S : SumOf(h, s) # SumOf(f, s) - SumOf(g, s)}
<1>1. SUFFICES ASSUME C # {}
               PROVE  FALSE
  OBVIOUS
<1>2. PICK T \in C : \A U \in C : U \subseteq T => U = T
  <2>1. C \subseteq SUBSET S
    OBVIOUS
  <2> HIDE DEF C
  <2>2. QED
    BY <2>1, <1>1, SmallestSet
<1>3. T # {}
  <2>1. SumOf(h, T) # SumOf(f, T) - SumOf(g, T)
    BY <1>2
  <2>2. T = {} => SumOf(h, T) = 0 /\ SumOf(f, T) = 0 /\ SumOf(g, T) = 0
    BY SumEmpty
  <2> HIDE DEF C
  <2>3. QED
    BY <2>1, <2>2
<1>4. PICK x \in T : TRUE
  BY <1>3
<1> DEFINE U == T \ {x}
<1>5. /\ U \in SUBSET S /\ U \notin C
      /\ IsFiniteSet(T) /\ IsFiniteSet(U) /\ x \in S
  <2>1. U \in SUBSET S /\ U \subseteq T /\ U # T
    BY <1>4
  <2>2. U \notin C
    BY <1>2, <2>1
  <2>3. QED
    BY <1>2, <1>4, <2>1, <2>2, FS_Subset
<1>6. SumOf(h, U) = SumOf(f, U) - SumOf(g, U)
  BY <1>5
<1>7. \A y \in T : f[y] \in Int /\ g[y] \in Int /\ h[y] \in Int /\ h[y] = f[y] - g[y]
  BY <1>2
<1>8. /\ SumOf(f, T) = f[x] + SumOf(f, U)
      /\ SumOf(g, T) = g[x] + SumOf(g, U)
      /\ SumOf(h, T) = h[x] + SumOf(h, U)
  BY <1>4, <1>5, <1>7, SumWithout
<1>9. SumOf(f, U) \in Int /\ SumOf(g, U) \in Int
  BY <1>5, SumType
<1>10. SumOf(h, T) = SumOf(f, T) - SumOf(g, T)
  <2> HIDE DEF U, C
  <2>1. QED
    BY <1>4, <1>6, <1>7, <1>8, <1>9
<1>11. QED
  BY <1>2, <1>10

\* Two sets without a common element are summed one by one.
LEMMA SumOfUnion ==
    ASSUME NEW R, IsFiniteSet(R), NEW S, IsFiniteSet(S), R \cap S = {}, NEW f,
           \A x \in R : f[x] \in Int, \A x \in S : f[x] \in Int
    PROVE  SumOf(f, R \cup S) = SumOf(f, R) + SumOf(f, S)
<1> DEFINE C == {s \in SUBSET S : SumOf(f, R \cup s) # SumOf(f, R) + SumOf(f, s)}
<1>1. SUFFICES ASSUME C # {}
               PROVE  FALSE
  OBVIOUS
<1>2. PICK T \in C : \A U \in C : U \subseteq T => U = T
  <2>1. C \subseteq SUBSET S
    OBVIOUS
  <2> HIDE DEF C
  <2>2. QED
    BY <2>1, <1>1, SmallestSet
<1>3. T # {}
  <2>1. ASSUME T = {}
        PROVE  SumOf(f, R \cup T) = SumOf(f, R) + SumOf(f, T)
    <3> HIDE DEF C
    <3>1. SumOf(f, R \cup T) = SumOf(f, R)
      <4>1. R \cup T = R
        BY <2>1
      <4>2. QED
        BY <4>1, Zenon
    <3>2. SumOf(f, T) = 0
      BY <2>1, SumEmpty
    <3>3. SumOf(f, R) \in Int
      BY SumType
    <3>4. QED
      BY <3>1, <3>2, <3>3
  <2>2. QED
    BY <1>2, <2>1
<1>4. PICK x \in T : TRUE
  BY <1>3
<1> DEFINE U == T \ {x}
<1>5. /\ U \in SUBSET S /\ U \notin C
      /\ IsFiniteSet(T) /\ IsFiniteSet(U) /\ x \in S
  <2>1. U \in SUBSET S /\ U \subseteq T /\ U # T
    BY <1>4
  <2>2. U \notin C
    BY <1>2, <2>1
  <2>3. QED
    BY <1>2, <1>4, <2>1, <2>2, FS_Subset
<1>6. SumOf(f, R \cup U) = SumOf(f, R) + SumOf(f, U)
  BY <1>5
<1>7. SumOf(f, R \cup T) = f[x] + SumOf(f, R \cup U)
  <2>1. R \cup T = (R \cup U) \cup {x} /\ x \notin R \cup U
    BY <1>4, <1>5
  <2>2. IsFiniteSet(R \cup U)
    BY <1>5, FS_Union
  <2>3. \A y \in (R \cup U) \cup {x} : f[y] \in Int
    BY <1>5
  <2> HIDE DEF U
  <2>4. QED
    BY <2>1, <2>2, <2>3, SumWith
<1>8. SumOf(f, T) = f[x] + SumOf(f, U)
  BY <1>2, <1>4, <1>5, SumWithout
<1>9. SumOf(f, R) \in Int /\ SumOf(f, U) \in Int /\ f[x] \in Int
  BY <1>5, SumType
<1>10. SumOf(f, R \cup T) = SumOf(f, R) + SumOf(f, T)
  <2> HIDE DEF U, C
  <2>1. QED
    BY <1>6, <1>7, <1>8, <1>9
<1>11. QED
  BY <1>2, <1>10

\* Terms that are 0 do not count.
LEMMA SumWithZeros ==
    ASSUME NEW R, IsFiniteSet(R), NEW S, IsFiniteSet(S), R \cap S = {}, NEW f,
           \A x \in R : f[x] \in Int, \A x \in S : f[x] = 0
    PROVE  SumOf(f, R \cup S) = SumOf(f, R)
<1> DEFINE z == [x \in S |-> f[x] - f[x]]
<1>1. SumOf(z, S) = SumOf(f, S) - SumOf(f, S) /\ SumOf(f, S) \in Int
  <2>1. \A x \in S : z[x] = f[x] - f[x] /\ f[x] \in Int
    OBVIOUS
  <2> HIDE DEF z
  <2>2. QED
    BY <2>1, SumMinus, SumType
<1>2. SumOf(z, S) = SumOf(f, S)
  <2>1. \A x \in S : z[x] = f[x]
    OBVIOUS
  <2> HIDE DEF z
  <2>2. QED
    BY <2>1, SumSame
<1>3. SumOf(f, R \cup S) = SumOf(f, R) + SumOf(f, S) /\ SumOf(f, R) \in Int
  BY SumOfUnion, SumType
<1> HIDE DEF z
<1>4. QED
  BY <1>1, <1>2, <1>3

\* A table of numbers and its transpose, and the sums of the rows of a table.
Transposed(f, g, S, R) ==
    \A x \in S, y \in R : f[x][y] \in Int /\ g[y][x] = f[x][y]

RowSums(f, S, R, row) == \A x \in S : row[x] = SumOf(f[x], R)

\* A table may be summed by rows or by columns.
LEMMA SumSwap ==
    ASSUME NEW S, IsFiniteSet(S), NEW R, IsFiniteSet(R), NEW f, NEW g, NEW row, NEW column,
           Transposed(f, g, S, R), RowSums(f, S, R, row), RowSums(g, R, S, column)
    PROVE  SumOf(row, S) = SumOf(column, R)
<1> USE DEF Transposed, RowSums
<1> DEFINE Part(s) == [y \in R |-> SumOf(g[y], s)]
           C == {s \in SUBSET S : SumOf(row, s) # SumOf(Part(s), R)}
<1>1. SUFFICES ASSUME C # {}
               PROVE  FALSE
  <2>1. SumOf(Part(S), R) = SumOf(column, R)
    <3>1. \A y \in R : Part(S)[y] = column[y]
      OBVIOUS
    <3> HIDE DEF Part
    <3>2. QED
      BY <3>1, SumSame
  <2> HIDE DEF Part
  <2>2. QED
    BY <2>1
<1>2. PICK T \in C : \A U \in C : U \subseteq T => U = T
  <2>1. C \subseteq SUBSET S
    OBVIOUS
  <2> HIDE DEF C
  <2>2. QED
    BY <2>1, <1>1, SmallestSet
<1>3. T # {}
  <2>1. \A y \in R : Part({})[y] = 0
    BY SumEmpty
  <2>2. SumOf(Part({}), R) = 0
    <3> HIDE DEF Part
    <3>1. SumOf(Part({}), {} \cup R) = SumOf(Part({}), {})
      BY <2>1, SumWithZeros, FS_EmptySet
    <3>2. QED
      BY <3>1, SumEmpty
  <2>3. SumOf(row, {}) = 0
    BY SumEmpty
  <2>4. QED
    BY <1>2, <2>2, <2>3
<1>4. PICK x \in T : TRUE
  BY <1>3
<1> DEFINE U == T \ {x}
<1>5. /\ U \in SUBSET S /\ U \notin C
      /\ IsFiniteSet(T) /\ IsFiniteSet(U) /\ x \in S
  <2>1. U \in SUBSET S /\ U \subseteq T /\ U # T
    BY <1>4
  <2>2. U \notin C
    BY <1>2, <2>1
  <2>3. QED
    BY <1>2, <1>4, <2>1, <2>2, FS_Subset
<1>6. SumOf(row, U) = SumOf(Part(U), R)
  BY <1>5
<1> HIDE DEF C, Part
<1>7. \A z \in T : row[z] \in Int
  BY <1>5, <1>2, SumType DEF C
<1>8. SumOf(row, T) = row[x] + SumOf(row, U)
  BY <1>4, <1>5, <1>7, SumWithout
<1>9. \A y \in R : /\ Part(T)[y] \in Int /\ Part(U)[y] \in Int /\ f[x][y] \in Int
                   /\ Part(T)[y] = f[x][y] + Part(U)[y]
  <2> SUFFICES ASSUME NEW y \in R
               PROVE  /\ SumOf(g[y], T) \in Int /\ SumOf(g[y], U) \in Int
                      /\ f[x][y] \in Int
                      /\ SumOf(g[y], T) = f[x][y] + SumOf(g[y], U)
    BY DEF Part
  <2>1. \A z \in T : g[y][z] \in Int
    BY <1>2 DEF C
  <2>2. SumOf(g[y], T) \in Int /\ SumOf(g[y], U) \in Int
    BY <1>2, <1>5, <2>1, SumType
  <2>3. SumOf(g[y], T) = g[y][x] + SumOf(g[y], U)
    BY <1>2, <1>4, <1>5, <2>1, SumWithout
  <2>4. QED
    BY <1>5, <2>2, <2>3
<1>10. SumOf(f[x], R) = SumOf(Part(T), R) - SumOf(Part(U), R)
  <2> HIDE DEF U
  <2>1. \A y \in R : f[x][y] = Part(T)[y] - Part(U)[y]
    BY <1>9
  <2>2. QED
    BY <1>9, <2>1, SumMinus
<1>11. SumOf(Part(T), R) \in Int /\ SumOf(Part(U), R) \in Int
  BY <1>9, SumType
<1>12. SumOf(row, T) = SumOf(Part(T), R)
  <2> HIDE DEF U, C
  <2>1. row[x] = SumOf(f[x], R)
    BY <1>5
  <2>2. QED
    BY <1>6, <1>8, <1>10, <1>11, <2>1
<1>13. QED
  BY <1>2, <1>12 DEF C

\* e gives each of S another name, under which g holds what f does.
Renames(e, f, g, S) ==
    /\ \A x \in S : f[x] \in Int /\ g[e[x]] = f[x]
    /\ \A x, y \in S : e[x] = e[y] => x = y

\* What terms are called is of no account.
LEMMA SumRenamed ==
    ASSUME NEW S, IsFiniteSet(S), NEW e, NEW f, NEW g, Renames(e, f, g, S)
    PROVE  SumOf(g, {e[x] : x \in S}) = SumOf(f, S)
<1> DEFINE Names(s) == {e[x] : x \in s}
           C == {s \in SUBSET S : SumOf(g, Names(s)) # SumOf(f, s)}
<1>1. SUFFICES ASSUME C # {}
               PROVE  FALSE
  OBVIOUS
<1>2. PICK T \in C : \A U \in C : U \subseteq T => U = T
  <2>1. C \subseteq SUBSET S
    OBVIOUS
  <2> HIDE DEF C
  <2>2. QED
    BY <2>1, <1>1, SmallestSet
<1>3. T \in SUBSET S /\ SumOf(g, Names(T)) # SumOf(f, T)
  BY <1>2
<1>4. T # {}
  <2>1. ASSUME T = {}
        PROVE  FALSE
    <3>1. Names(T) = {}
      BY <2>1
    <3> HIDE DEF Names
    <3>2. QED
      BY <1>3, <2>1, <3>1, SumEmpty
  <2>2. QED
    BY <2>1
<1>5. PICK x \in T : TRUE
  BY <1>4
<1> DEFINE U == T \ {x}
<1>6. U \notin C
  <2>1. U \subseteq T /\ U # T
    BY <1>5
  <2> HIDE DEF C, U
  <2>2. QED
    BY <1>2, <2>1
<1>7. SumOf(g, Names(U)) = SumOf(f, U)
  BY <1>3, <1>6
<1>8. IsFiniteSet(T) /\ IsFiniteSet(Names(T))
  <2>1. IsFiniteSet(T)
    BY <1>3, FS_Subset
  <2>2. [y \in T |-> e[y]] \in Surjection(T, Names(T))
    BY DEF Surjection
  <2> HIDE DEF Names
  <2>3. QED
    BY <2>1, <2>2, FS_Surjection
<1>9. /\ \A y \in T : f[y] \in Int /\ g[e[y]] = f[y]
      /\ \A y, z \in T : e[y] = e[z] => y = z
  BY <1>3 DEF Renames
<1>10. /\ \A n \in Names(T) : g[n] \in Int
       /\ e[x] \in Names(T) /\ Names(T) \ {e[x]} = Names(U)
       /\ g[e[x]] = f[x]
  BY <1>5, <1>9
<1>11. SumOf(f, T) = f[x] + SumOf(f, U)
  BY <1>5, <1>8, <1>9, SumWithout
<1>12. SumOf(g, Names(T)) = g[e[x]] + SumOf(g, Names(U))
  <2> HIDE DEF Names, U
  <2>1. SumOf(g, Names(T)) = g[e[x]] + SumOf(g, Names(T) \ {e[x]})
    BY <1>8, <1>10, SumWithout
  <2>2. QED
    BY <1>10, <2>1
<1> HIDE DEF Names, U, C
<1>13. QED
  BY <1>3, <1>7, <1>10, <1>11, <1>12

\* A sum of one term.
LEMMA SumSingle ==
    ASSUME NEW x, NEW f, f[x] \in Int
    PROVE  SumOf(f, {x}) = f[x]
<1>1. IsFiniteSet({x}) /\ \A y \in {x} : f[y] \in Int
  BY FS_Singleton
<1>2. SumOf(f, {x}) = f[x] + SumOf(f, {x} \ {x})
  BY <1>1, SumWithout
<1>3. {x} \ {x} = {}
  OBVIOUS
<1>4. SumOf(f, {x}) = f[x] + SumOf(f, {})
  BY <1>2, <1>3, Zenon
<1>5. QED
  BY <1>4, SumEmpty

\* sums holds the sum of f over those of S that have a given key.
GroupSums(key, f, S, sums) ==
    \A k \in {key[x] : x \in S} : sums[k] = SumOf(f, {x \in S : key[x] = k})

\* A sum is the sum of the sums of its groups.
LEMMA SumByGroup ==
    ASSUME NEW S, IsFiniteSet(S), NEW f, \A x \in S : f[x] \in Int,
           NEW key, NEW sums, GroupSums(key, f, S, sums)
    PROVE  /\ IsFiniteSet({key[x] : x \in S})
           /\ SumOf(sums, {key[x] : x \in S}) = SumOf(f, S)
<1> DEFINE K == {key[x] : x \in S}
           F == [x \in S |-> [k \in K |-> IF key[x] = k THEN f[x] ELSE 0]]
           G == [k \in K |-> [x \in S |-> IF key[x] = k THEN f[x] ELSE 0]]
<1>1. IsFiniteSet(K)
  <2>1. [x \in S |-> key[x]] \in Surjection(S, K)
    BY DEF Surjection
  <2> HIDE DEF K
  <2>2. QED
    BY <2>1, FS_Surjection
<1>2. \A x \in S : key[x] \in K
  OBVIOUS
<1>3. \A k \in K : sums[k] = SumOf(f, {x \in S : key[x] = k})
  BY DEF GroupSums
<1> HIDE DEF K
<1>4. Transposed(F, G, S, K)
  BY DEF Transposed
<1>5. ASSUME NEW x \in S
      PROVE  f[x] = SumOf(F[x], K)
  <2> DEFINE others == K \ {key[x]}
  <2>1. /\ \A k \in others : F[x][k] = 0
        /\ F[x][key[x]] = f[x] /\ f[x] \in Int
        /\ {key[x]} \cup others = K /\ {key[x]} \cap others = {}
    BY <1>2
  <2>2. IsFiniteSet(others) /\ IsFiniteSet({key[x]})
    BY <1>1, FS_RemoveElement, FS_Singleton
  <2> HIDE DEF others, F
  <2>3. \A k \in {key[x]} : F[x][k] \in Int
    BY <2>1
  <2>4. SumOf(F[x], {key[x]} \cup others) = SumOf(F[x], {key[x]})
    BY <2>1, <2>2, <2>3, SumWithZeros
  <2>5. SumOf(F[x], {key[x]}) = f[x]
    BY <2>1, SumSingle
  <2>6. QED
    BY <2>1, <2>4, <2>5
<1>6. ASSUME NEW k \in K
      PROVE  sums[k] = SumOf(G[k], S)
  <2> DEFINE mine == {x \in S : key[x] = k}
             others == S \ mine
  <2>1. /\ \A x \in others : G[k][x] = 0
        /\ \A x \in mine : G[k][x] = f[x] /\ f[x] \in Int
        /\ mine \cup others = S /\ mine \cap others = {}
        /\ mine \subseteq S /\ others \subseteq S
    OBVIOUS
  <2>2. sums[k] = SumOf(f, mine)
    BY <1>3
  <2> HIDE DEF mine, others, G
  <2>3. IsFiniteSet(mine) /\ IsFiniteSet(others)
    BY <2>1, FS_Subset
  <2>4. \A x \in mine : G[k][x] \in Int
    BY <2>1
  <2>5. SumOf(G[k], mine \cup others) = SumOf(G[k], mine)
    BY <2>1, <2>3, <2>4, SumWithZeros
  <2>6. SumOf(G[k], mine) = SumOf(f, mine)
    BY <2>1, <2>3, SumSame
  <2>7. QED
    BY <2>1, <2>2, <2>5, <2>6
<1> HIDE DEF F, G
<1>7. RowSums(F, S, K, f) /\ RowSums(G, K, S, sums)
  BY <1>5, <1>6 DEF RowSums
<1>8. SumOf(f, S) = SumOf(sums, K)
  BY <1>1, <1>4, <1>7, SumSwap
<1>9. QED
  BY <1>1, <1>8 DEF K
=============================================================================
