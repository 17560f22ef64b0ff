----------------------------- MODULE SumsProofs -----------------------------
(* What a sum over a finite set is, whatever order its elements are taken in. *)
EXTENDS Sums, FiniteSetTheorems, WellFoundedInduction, TLAPS

\* Among finite sets there is one that contains no other: induction over finite
\* sets, as the search for a least counterexample.
LEMMA LeastSet ==
  ASSUME NEW S, IsFiniteSet(S), NEW B, B \subseteq SUBSET S, B # {}
  PROVE  \E T \in B : IsFiniteSet(T) /\ \A U \in SUBSET T : U # T => U \notin B
<1>1. FiniteSubsetsOf(S) = SUBSET S
  BY FS_FiniteSubsetsOfFinite
<1>2. IsWellFoundedOn(StrictSubsetOrdering(S), SUBSET S)
  BY <1>1, FS_StrictSubsetOrderingWellFounded
<1>3. PICK T \in B : \A U \in B : ~ (<<U, T>> \in StrictSubsetOrdering(S))
  BY <1>2, WFMin
<1>4. IsFiniteSet(T)
  BY FS_Subset
<1> QED
  BY <1>3, <1>4 DEF StrictSubsetOrdering

-----------------------------------------------------------------------------
(* The recursion of the library's sum has one solution.                       *)

Some(s) == CHOOSE x \in s : TRUE
SumsUp(g, f, S) ==
  g = [s \in SUBSET S |-> IF s = {} THEN 0 ELSE f[Some(s)] + g[s \ {Some(s)}]]

LEMMA TotalIs ==
  ASSUME NEW f, NEW S
  PROVE  Total(f, S) = (CHOOSE g : SumsUp(g, f, S))[S]
  BY DEF Total, MapThenSumSet, MapThenFoldSet, SumsUp, Some

LEMMA SomeIn ==
  ASSUME NEW s, s # {}
  PROVE  Some(s) \in s
  BY DEF Some

LEMMA SumsStep ==
  ASSUME NEW g, NEW f, NEW S, SumsUp(g, f, S), NEW s \in SUBSET S
  PROVE  g[s] = IF s = {} THEN 0 ELSE f[Some(s)] + g[s \ {Some(s)}]
  BY DEF SumsUp

LEMMA SumsAgree ==
  ASSUME NEW f, NEW S, NEW T, NEW g, NEW h, IsFiniteSet(S), IsFiniteSet(T),
         SumsUp(g, f, S), SumsUp(h, f, T)
  PROVE  \A U \in SUBSET (S \cap T) : g[U] = h[U]
<1> SUFFICES ASSUME NEW U \in SUBSET (S \cap T), g[U] # h[U]
             PROVE  FALSE
  OBVIOUS
<1> DEFINE B == {V \in SUBSET U : g[V] # h[V]}
<1>1. U \in SUBSET S /\ IsFiniteSet(U)
  BY FS_Subset
<1>0. B \subseteq SUBSET U /\ B # {}
  BY SMT
<1>2. PICK V \in B : \A W \in SUBSET V : W # V => W \notin B
  <2> HIDE DEF B
  <2> QED
    BY <1>0, <1>1, LeastSet
<1>3. /\ g[V] = IF V = {} THEN 0 ELSE f[Some(V)] + g[V \ {Some(V)}]
      /\ h[V] = IF V = {} THEN 0 ELSE f[Some(V)] + h[V \ {Some(V)}]
  BY SumsStep
<1>4. CASE V = {}
  BY <1>3, <1>4
<1>5. CASE V # {}
  <2> DEFINE W == V \ {Some(V)}
  <2>1. W \in SUBSET V /\ W # V
    BY <1>5, SomeIn
  <2>2. g[W] = h[W]
    BY <1>2, <2>1
  <2> QED
    BY <1>3, <1>5, <2>2
<1> QED
  BY <1>4, <1>5

LEMMA SumsExist ==
  ASSUME NEW f, NEW S, IsFiniteSet(S)
  PROVE  \E g : SumsUp(g, f, S)
<1> SUFFICES ASSUME ~ \E g : SumsUp(g, f, S)
             PROVE  FALSE
  OBVIOUS
<1> DEFINE B == {T \in SUBSET S : ~ \E g : SumsUp(g, f, T)}
<1>1. PICK T \in B : IsFiniteSet(T) /\ \A U \in SUBSET T : U # T => U \notin B
  BY LeastSet
<1> DEFINE G(U) == CHOOSE g : SumsUp(g, f, U)
           sum(s) == IF s = {} THEN 0 ELSE f[Some(s)] + G(s \ {Some(s)})[s \ {Some(s)}]
           h == [s \in SUBSET T |-> sum(s)]
<1>2. \A U \in SUBSET T : U # T => SumsUp(G(U), f, U) /\ IsFiniteSet(U)
  <2> TAKE U \in SUBSET T
  <2> HAVE U # T
  <2>1. U \in SUBSET S /\ U \notin B
    BY <1>1
  <2>2. \E g : SumsUp(g, f, U)
    BY <2>1
  <2> QED
    BY <1>1, <2>2, FS_Subset
<1>3. \A s \in SUBSET T : s # T => h[s] = G(s)[s]
  <2> TAKE s \in SUBSET T
  <2> HAVE s # T
  <2> DEFINE r == s \ {Some(s)}
  <2>1. G(s)[s] = IF s = {} THEN 0 ELSE f[Some(s)] + G(s)[r]
    BY <1>2, SumsStep
  <2>2. s # {} => G(s)[r] = G(r)[r]
    <3> SUFFICES ASSUME s # {} PROVE G(s)[r] = G(r)[r]
      OBVIOUS
    <3>1. r \in SUBSET T /\ r # T /\ r \in SUBSET (s \cap r)
      BY SomeIn
    <3>2. /\ SumsUp(G(s), f, s) /\ IsFiniteSet(s)
          /\ SumsUp(G(r), f, r) /\ IsFiniteSet(r)
      BY <1>2, <3>1
    <3> HIDE DEF G, r
    <3> QED
      BY <3>1, <3>2, SumsAgree
  <2> QED
    BY <2>1, <2>2
<1>4. SumsUp(h, f, T)
  <2>1. \A s \in SUBSET T : s # {} => h[s \ {Some(s)}] = G(s \ {Some(s)})[s \ {Some(s)}]
    <3> TAKE s \in SUBSET T
    <3> HAVE s # {}
    <3>1. s \ {Some(s)} \in SUBSET T /\ s \ {Some(s)} # T
      BY SomeIn
    <3> HIDE DEF h, G
    <3> QED
      BY <1>3, <3>1
  <2>2. h = [s \in SUBSET T |-> IF s = {} THEN 0 ELSE f[Some(s)] + h[s \ {Some(s)}]]
    <3>1. \A s \in SUBSET T :
            sum(s) = IF s = {} THEN 0 ELSE f[Some(s)] + h[s \ {Some(s)}]
      <4> HIDE DEF h, G
      <4> QED
        BY <2>1
    <3>2. h = [s \in SUBSET T |-> sum(s)]
      OBVIOUS
    <3> HIDE DEF h, sum
    <3> QED
      BY <3>1, <3>2
  <2> QED
    BY <2>2 DEF SumsUp
<1> QED
  BY <1>1, <1>4

\* The two equations of the recursion.
LEMMA TotalStep ==
  ASSUME NEW f, NEW S, IsFiniteSet(S)
  PROVE  Total(f, S) = IF S = {} THEN 0 ELSE f[Some(S)] + Total(f, S \ {Some(S)})
<1> DEFINE g == CHOOSE g : SumsUp(g, f, S)
           R == S \ {Some(S)}
           h == CHOOSE h : SumsUp(h, f, R)
<1>1. IsFiniteSet(R)
  BY FS_Subset
<1>2. SumsUp(g, f, S) /\ SumsUp(h, f, R)
  BY <1>1, SumsExist
<1>3. g[S] = IF S = {} THEN 0 ELSE f[Some(S)] + g[R]
  BY <1>2, SumsStep
<1>4. g[R] = h[R]
  <2> HIDE DEF g, h
  <2> QED
    BY <1>1, <1>2, SumsAgree
<1> QED
  BY <1>3, <1>4, TotalIs

LEMMA TotalOfNone ==
  ASSUME NEW f
  PROVE  Total(f, {}) = 0
  BY TotalStep, FS_EmptySet

\* A sum is a number.
LEMMA TotalInt ==
  ASSUME NEW f, NEW S, IsFiniteSet(S), \A x \in S : f[x] \in Int
  PROVE  Total(f, S) \in Int
<1> SUFFICES ASSUME Total(f, S) \notin Int
             PROVE  FALSE
  OBVIOUS
<1> DEFINE B == {T \in SUBSET S : Total(f, T) \notin Int}
<1>0. B \subseteq SUBSET S /\ B # {}
  OBVIOUS
<1>1. PICK T \in B : IsFiniteSet(T) /\ \A U \in SUBSET T : U # T => U \notin B
  <2> HIDE DEF B
  <2> QED
    BY <1>0, LeastSet
<1> DEFINE U == T \ {Some(T)}
<1>2. T # {} /\ Total(f, T) = f[Some(T)] + Total(f, U)
  <2>1. T # {}
    BY TotalOfNone
  <2> QED
    BY <1>1, <2>1, TotalStep
<1>3. Some(T) \in T /\ U \in SUBSET T /\ U # T
  BY <1>2, SomeIn
<1>4. Total(f, U) \in Int
  BY <1>1, <1>3
<1> HIDE DEF U
<1> QED
  BY <1>1, <1>2, <1>3, <1>4

\* Natural numbers add up to one.
LEMMA TotalNat ==
  ASSUME NEW f, NEW S, IsFiniteSet(S), \A x \in S : f[x] \in Nat
  PROVE  Total(f, S) \in Nat
<1> SUFFICES ASSUME Total(f, S) \notin Nat
             PROVE  FALSE
  OBVIOUS
<1> DEFINE B == {T \in SUBSET S : Total(f, T) \notin Nat}
<1>0. B \subseteq SUBSET S /\ B # {}
  OBVIOUS
<1>1. PICK T \in B : IsFiniteSet(T) /\ \A U \in SUBSET T : U # T => U \notin B
  <2> HIDE DEF B
  <2> QED
    BY <1>0, LeastSet
<1> DEFINE U == T \ {Some(T)}
<1>2. T # {} /\ Total(f, T) = f[Some(T)] + Total(f, U)
  <2>1. T # {}
    BY TotalOfNone
  <2> QED
    BY <1>1, <2>1, TotalStep
<1>3. Some(T) \in T /\ U \in SUBSET T /\ U # T
  BY <1>2, SomeIn
<1>4. Total(f, U) \in Nat
  BY <1>1, <1>3
<1> HIDE DEF U
<1> QED
  BY <1>1, <1>2, <1>3, <1>4

\* Whatever element is taken out first, the rest adds up to the difference.
LEMMA TotalWithout ==
  ASSUME NEW f, NEW S, IsFiniteSet(S), \A x \in S : f[x] \in Int, NEW x \in S
  PROVE  Total(f, S) = f[x] + Total(f, S \ {x})
<1> SUFFICES ASSUME Total(f, S) # f[x] + Total(f, S \ {x})
             PROVE  FALSE
  OBVIOUS
<1> DEFINE Wrong(T) == \E y \in T : Total(f, T) # f[y] + Total(f, T \ {y})
           B == {T \in SUBSET S : Wrong(T)}
<1>0. B \subseteq SUBSET S /\ B # {}
  OBVIOUS
<1>1. PICK T \in B : IsFiniteSet(T) /\ \A U \in SUBSET T : U # T => U \notin B
  <2> HIDE DEF B
  <2> QED
    BY <1>0, LeastSet
<1>2. PICK y \in T : Total(f, T) # f[y] + Total(f, T \ {y})
  BY <1>1
<1> DEFINE z == Some(T)
<1>3. z \in T
  BY <1>2, SomeIn
<1>4. Total(f, T) = f[z] + Total(f, T \ {z})
  BY <1>1, <1>2, TotalStep
<1> HIDE DEF z
<1>5. z # y
  BY <1>2, <1>4
<1>6. Total(f, T \ {z}) = f[y] + Total(f, (T \ {z}) \ {y})
  <2>1. T \ {z} \in SUBSET T /\ T \ {z} # T /\ y \in T \ {z}
    BY <1>3, <1>5
  <2> QED
    BY <1>1, <2>1
<1>7. Total(f, T \ {y}) = f[z] + Total(f, (T \ {y}) \ {z})
  <2>1. T \ {y} \in SUBSET T /\ T \ {y} # T /\ z \in T \ {y}
    BY <1>3, <1>5
  <2> QED
    BY <1>1, <2>1
<1> DEFINE R == (T \ {z}) \ {y}
<1>8. /\ Total(f, T \ {z}) = f[y] + Total(f, R)
      /\ Total(f, T \ {y}) = f[z] + Total(f, R)
  <2>1. (T \ {y}) \ {z} = R
    OBVIOUS
  <2> QED
    BY <1>6, <1>7, <2>1
<1>9. Total(f, R) \in Int
  <2>1. IsFiniteSet(R) /\ R \subseteq S
    BY <1>1, FS_Subset
  <2> QED
    BY <2>1, TotalInt
<1>10. f[y] \in Int /\ f[z] \in Int
  BY <1>1, <1>3
<1> HIDE DEF R
<1> QED
  BY <1>2, <1>4, <1>8, <1>9, <1>10

\* One element more adds its value.
LEMMA TotalWith ==
  ASSUME NEW f, NEW S, IsFiniteSet(S), NEW x, x \notin S,
         \A y \in S \cup {x} : f[y] \in Int
  PROVE  Total(f, S \cup {x}) = f[x] + Total(f, S)
<1>1. IsFiniteSet(S \cup {x})
  BY FS_AddElement
<1>2. (S \cup {x}) \ {x} = S
  OBVIOUS
<1> QED
  BY <1>1, <1>2, TotalWithout

\* Columns that agree on the rows of a set have the same sum there.
LEMMA TotalSame ==
  ASSUME NEW f, NEW g, NEW S, IsFiniteSet(S), \A x \in S : f[x] = g[x]
  PROVE  Total(f, S) = Total(g, S)
<1> SUFFICES ASSUME Total(f, S) # Total(g, S)
             PROVE  FALSE
  OBVIOUS
<1> DEFINE B == {T \in SUBSET S : Total(f, T) # Total(g, T)}
<1>0. B \subseteq SUBSET S /\ B # {}
  OBVIOUS
<1>1. PICK T \in B : IsFiniteSet(T) /\ \A U \in SUBSET T : U # T => U \notin B
  <2> HIDE DEF B
  <2> QED
    BY <1>0, LeastSet
<1> DEFINE U == T \ {Some(T)}
<1>2. /\ Total(f, T) = IF T = {} THEN 0 ELSE f[Some(T)] + Total(f, U)
      /\ Total(g, T) = IF T = {} THEN 0 ELSE g[Some(T)] + Total(g, U)
  BY <1>1, TotalStep
<1>3. T # {}
  BY <1>1, <1>2
<1>4. Some(T) \in T /\ U \in SUBSET T /\ U # T
  BY <1>3, SomeIn
<1>5. Total(f, U) = Total(g, U)
  BY <1>1, <1>4
<1> HIDE DEF U
<1> QED
  BY <1>1, <1>2, <1>3, <1>4, <1>5

\* So many numbers of at most b add up to at most so many times b.
LEMMA TotalAtMost ==
  ASSUME NEW f, NEW S, IsFiniteSet(S), NEW b \in Nat, \A x \in S : f[x] \in 0 .. b
  PROVE  Total(f, S) =< Cardinality(S) * b
<1> DEFINE Within(T) == Total(f, T) =< Cardinality(T) * b
<1> SUFFICES ASSUME ~ Within(S)
             PROVE  FALSE
  OBVIOUS
<1> DEFINE B == {T \in SUBSET S : ~ Within(T)}
<1>0. B \subseteq SUBSET S /\ B # {}
  OBVIOUS
<1>1. PICK T \in B : IsFiniteSet(T) /\ \A U \in SUBSET T : U # T => U \notin B
  <2> HIDE DEF B
  <2> QED
    BY <1>0, LeastSet
<1> DEFINE x == Some(T)
           U == T \ {x}
<1>2. T # {} /\ Total(f, T) = f[x] + Total(f, U)
  <2>1. T # {}
    <3>1. CASE T = {}
      <4>1. Total(f, T) = 0 /\ Cardinality(T) = 0
        BY <3>1, TotalOfNone, FS_EmptySet
      <4>2. Within(T)
        BY <4>1
      <4> QED
        BY <1>1, <4>2
    <3> QED
      BY <3>1
  <2> QED
    BY <1>1, <2>1, TotalStep
<1>3. x \in T /\ U \in SUBSET T /\ U # T
  BY <1>2, SomeIn
<1>4. IsFiniteSet(U) /\ Cardinality(T) = Cardinality(U) + 1 /\ Cardinality(U) \in Nat
  <2>1. IsFiniteSet(U) /\ Cardinality(U) \in Nat
    BY <1>1, FS_Subset, FS_CardinalityType
  <2>2. U \cup {x} = T /\ x \notin U
    BY <1>3
  <2>3. Cardinality(U \cup {x}) = Cardinality(U) + 1
    BY <2>1, <2>2, FS_AddElement
  <2> QED
    BY <2>1, <2>2, <2>3
<1>5. Total(f, U) =< Cardinality(U) * b
  BY <1>1, <1>3
<1>6. f[x] \in 0 .. b /\ Total(f, U) \in Nat
  BY <1>1, <1>3, <1>4, TotalNat
<1>7. ~ (Total(f, T) =< Cardinality(T) * b)
  BY <1>1
<1> HIDE DEF U, x
<1>8. \A n \in Nat : (n + 1) * b = n * b + b /\ n * b \in Nat
  OBVIOUS
<1>9. \A n \in Nat : n * b \in Nat
  OBVIOUS
<1> QED
  BY <1>2, <1>4, <1>5, <1>6, <1>7, <1>8

-----------------------------------------------------------------------------
(* Counting pairs.                                                             *)

Paired(e, U) == {<<e, u>> : u \in U}
Swapped(R) == {<<p[2], p[1]>> : p \in R}
InRow(R, B, a) == {b \in B : <<a, b>> \in R}
InColumn(R, A, b) == {a \in A : <<a, b>> \in R}

\* There are as many pairs with one first part as there are second parts.
LEMMA PairsCounted ==
  ASSUME NEW e, NEW U, IsFiniteSet(U)
  PROVE  Cardinality(Paired(e, U)) = Cardinality(U)
<1> DEFINE V == {<<e, u>> : u \in U}
           f == [u \in U |-> <<e, u>>]
<1>1. f \in [U -> V]
  OBVIOUS
<1>2. \A u, v \in U : f[u] = f[v] => u = v
  OBVIOUS
<1>3. \A v \in V : \E u \in U : f[u] = v
  OBVIOUS
<1>4. f \in Bijection(U, V)
  BY <1>1, <1>2, <1>3 DEF Bijection, Injection, Surjection, IsInjective
<1>5. ExistsBijection(U, V)
  BY <1>4 DEF ExistsBijection
<1> QED
  BY <1>5, FS_Bijection DEF Paired

\* As many as when each is turned round.
LEMMA PairsTurned ==
  ASSUME NEW A, NEW B, NEW R \in SUBSET (A \X B), IsFiniteSet(R)
  PROVE  Cardinality(Swapped(R)) = Cardinality(R)
<1> DEFINE V == {<<p[2], p[1]>> : p \in R}
           f == [p \in R |-> <<p[2], p[1]>>]
<1>1. f \in [R -> V]
  OBVIOUS
<1>2. \A p, q \in R : f[p] = f[q] => p = q
  <2> SUFFICES ASSUME NEW p \in R, NEW q \in R, f[p] = f[q]
               PROVE  p = q
    OBVIOUS
  <2>1. p = <<p[1], p[2]>> /\ q = <<q[1], q[2]>>
    OBVIOUS
  <2>2. <<p[2], p[1]>> = <<q[2], q[1]>>
    OBVIOUS
  <2> QED
    BY <2>1, <2>2
<1>3. \A v \in V : \E p \in R : f[p] = v
  OBVIOUS
<1>4. f \in Bijection(R, V)
  BY <1>1, <1>2, <1>3 DEF Bijection, Injection, Surjection, IsInjective
<1>5. ExistsBijection(R, V)
  BY <1>4 DEF ExistsBijection
<1> QED
  BY <1>5, FS_Bijection DEF Swapped

\* Pairs counted row by row.
LEMMA RowsAddUp ==
  ASSUME NEW A, NEW B, IsFiniteSet(A), IsFiniteSet(B), NEW R \in SUBSET (A \X B),
         NEW f, \A a \in A : f[a] = Cardinality(InRow(R, B, a))
  PROVE  Total(f, A) = Cardinality(R)
<1> DEFINE Part(T) == {p \in R : p[1] \in T}
           Wrong(T) == Total(f, T) # Cardinality(Part(T))
<1>0. IsFiniteSet(R)
  BY FS_Product, FS_Subset
<1>1. Part(A) = R
  OBVIOUS
<1> SUFFICES ASSUME Wrong(A)
             PROVE  FALSE
  BY <1>1
<1> DEFINE C == {T \in SUBSET A : Wrong(T)}
<1>2. C \subseteq SUBSET A /\ C # {}
  OBVIOUS
<1>3. PICK T \in C : IsFiniteSet(T) /\ \A U \in SUBSET T : U # T => U \notin C
  <2> HIDE DEF C
  <2> QED
    BY <1>2, LeastSet
<1> DEFINE x == Some(T)
           U == T \ {x}
           Row == InRow(R, B, x)
           Pairs == Paired(x, Row)
<1>4. T # {} /\ Total(f, T) = f[x] + Total(f, U)
  <2>1. T # {}
    <3>1. CASE T = {}
      <4>1. Part(T) = {}
        BY <3>1
      <4>2. Cardinality(Part(T)) = 0 /\ Total(f, T) = 0
        BY <3>1, <4>1, TotalOfNone, FS_EmptySet
      <4> QED
        BY <1>3, <4>2
    <3> QED
      BY <3>1
  <2> QED
    BY <1>3, <2>1, TotalStep
<1>5. x \in T /\ U \in SUBSET T /\ U # T /\ x \in A /\ T \subseteq A
  BY <1>3, <1>4, SomeIn
<1>6. Total(f, U) = Cardinality(Part(U))
  BY <1>3, <1>5
<1>7. Part(T) = Part(U) \cup Pairs /\ Part(U) \cap Pairs = {}
  <2>1. ASSUME NEW p \in Part(T), p \notin Part(U) PROVE p \in Pairs
    <3>1. p = <<p[1], p[2]>> /\ p[1] = x /\ p[2] \in B /\ p \in R
      BY <2>1
    <3>2. p = <<x, p[2]>> /\ p[2] \in Row
      BY <3>1 DEF InRow
    <3> QED
      BY <3>2 DEF Paired
  <2>2. \A p \in Pairs : p \in R /\ p[1] = x
    <3> TAKE p \in Pairs
    <3>1. PICK b \in Row : p = <<x, b>>
      BY DEF Paired
    <3>2. <<x, b>> \in R /\ <<x, b>>[1] = x
      BY DEF InRow
    <3> QED
      BY <3>1, <3>2
  <2>3. Part(U) \subseteq Part(T) /\ x \in T /\ x \notin U
    BY <1>5
  <2>4. Pairs \subseteq Part(T)
    <3> HIDE DEF Pairs, x
    <3> QED
      BY <2>2, <2>3
  <2>5. Part(U) \cap Pairs = {}
    <3> HIDE DEF Pairs, x, U
    <3> QED
      BY <2>2, <2>3
  <2> HIDE DEF Pairs
  <2> QED
    BY <2>1, <2>3, <2>4, <2>5
<1>8. Cardinality(Pairs) = f[x] /\ f[x] \in Nat /\ IsFiniteSet(Pairs)
  <2>1. IsFiniteSet(Row) /\ f[x] = Cardinality(Row)
    BY <1>5, FS_Subset DEF InRow
  <2>2. Pairs \subseteq R
    BY DEF Paired, InRow
  <2> HIDE DEF Row
  <2>3. Cardinality(Pairs) = Cardinality(Row)
    BY <2>1, PairsCounted
  <2> HIDE DEF Pairs
  <2> QED
    BY <1>0, <2>1, <2>2, <2>3, FS_Subset, FS_CardinalityType
<1>9. IsFiniteSet(Part(U)) /\ Cardinality(Part(U)) \in Nat
  BY <1>0, FS_Subset, FS_CardinalityType
<1>10. Total(f, T) # Cardinality(Part(T))
  BY <1>3
<1> HIDE DEF Part, Pairs, U, x, C
<1>11. Cardinality(Part(T)) = Cardinality(Part(U)) + Cardinality(Pairs)
  <2>1. Cardinality(Part(U) \cup Pairs) =
          Cardinality(Part(U)) + Cardinality(Pairs) - Cardinality(Part(U) \cap Pairs)
    BY <1>8, <1>9, FS_Union
  <2>2. Cardinality(Part(U) \cap Pairs) = 0
    BY <1>7, FS_EmptySet
  <2> QED
    BY <1>7, <1>8, <1>9, <2>1, <2>2
<1> QED
  BY <1>4, <1>6, <1>8, <1>9, <1>10, <1>11

\* Pairs counted row by row and column by column are as many.
LEMMA CountBothWays ==
  ASSUME NEW A, NEW B, IsFiniteSet(A), IsFiniteSet(B), NEW R \in SUBSET (A \X B),
         NEW f, \A a \in A : f[a] = Cardinality(InRow(R, B, a)),
         NEW g, \A b \in B : g[b] = Cardinality(InColumn(R, A, b))
  PROVE  Total(f, A) = Total(g, B)
<1> DEFINE Q == Swapped(R)
<1>1. Q \in SUBSET (B \X A)
  BY DEF Swapped
<1>2. \A b \in B : g[b] = Cardinality(InRow(Q, A, b))
  <2> TAKE b \in B
  <2>1. \A a \in A : <<b, a>> \in Q <=> <<a, b>> \in R
    <3> TAKE a \in A
    <3>1. ASSUME <<b, a>> \in Q PROVE <<a, b>> \in R
      <4>1. PICK p \in R : <<b, a>> = <<p[2], p[1]>>
        BY <3>1 DEF Swapped
      <4>2. p = <<p[1], p[2]>> /\ p[1] = a /\ p[2] = b
        BY <4>1
      <4> QED
        BY <4>2
    <3>2. ASSUME <<a, b>> \in R PROVE <<b, a>> \in Q
      <4>1. <<b, a>> = <<(<<a, b>>)[2], (<<a, b>>)[1]>>
        OBVIOUS
      <4> QED
        BY <3>2, <4>1 DEF Swapped
    <3> QED
      BY <3>1, <3>2
  <2>2. InRow(Q, A, b) = InColumn(R, A, b)
    BY <2>1 DEF InRow, InColumn
  <2> QED
    BY <2>2
<1>3. IsFiniteSet(R)
  BY FS_Product, FS_Subset
<1>4. Cardinality(Q) = Cardinality(R)
  BY <1>3, PairsTurned
<1>5. Total(f, A) = Cardinality(R)
  BY RowsAddUp
<1> HIDE DEF Q
<1>6. Total(g, B) = Cardinality(Q)
  BY <1>1, <1>2, RowsAddUp
<1> QED
  BY <1>4, <1>5, <1>6

=============================================================================
