--------------------------- MODULE RegisterProofs ---------------------------
(***************************************************************************)
(* Proofs about the 13F register, for any finite set of managers, any      *)
(* reports, quarters and requests: the sums its views are made of, each    *)
(* view, and the three invariants of Register.                             *)
(***************************************************************************)
EXTENDS Register, SequenceTheorems, FiniteSetTheorems, WellFoundedInduction, TLAPS

----------------------------------------------------------------------------
(* Sums. A fold over a set is a recursive function, and what it computes   *)
(* is proved by looking at a smallest set it would be wrong on.            *)

(* Of numbers there is a least one, of finite sets one with fewest         *)
(* elements: what an induction on either comes down to.                    *)
LEMMA LeastNat ==
  ASSUME NEW N, N \subseteq Nat, N # {}
  PROVE  \E n \in N : \A k \in N : n <= k
<1>1. PICK n \in N : \A k \in N : ~(<<k, n>> \in OpToRel(<, Nat))
  BY WFMin, NatLessThanWellFounded
<1>2. \A k \in N : ~(k < n)
  BY <1>1 DEF OpToRel
<1> QED BY <1>2

\* An interval is finite.
LEMMA UptoFinite == ASSUME NEW n \in Int PROVE IsFiniteSet(1 .. n)
<1>1. \A a, b \in Int : IsFiniteSet(a .. b)
  BY FS_Interval
<1>2. 1 \in Int
  OBVIOUS
<1> QED BY <1>1, <1>2, Zenon

\* Of finite sets there is one with the fewest elements.
LEMMA SmallestSet ==
  ASSUME NEW X, X # {}, \A T \in X : IsFiniteSet(T)
  PROVE  \E T \in X : \A U \in X : Cardinality(T) <= Cardinality(U)
<1> DEFINE N == {Cardinality(T) : T \in X}
<1>1. N \subseteq Nat /\ N # {}
  BY FS_CardinalityType
<1> HIDE DEF N
<1>2. PICK n \in N : \A k \in N : n <= k
  BY <1>1, LeastNat
<1> QED BY <1>2 DEF N

(* The recursion a sum over a set is defined by.                           *)
OneOf(s) == CHOOSE x \in s : TRUE
Iterates(f, w, S) ==
  f = [s \in SUBSET S |-> IF s = {} THEN 0 ELSE w[OneOf(s)] + f[s \ {OneOf(s)}]]

LEMMA AnyIn == ASSUME NEW s, s # {} PROVE OneOf(s) \in s
BY DEF OneOf

\* The recursion takes one element away at a time.
LEMMA OneLess ==
  ASSUME NEW s, NEW x \in s, IsFiniteSet(s)
  PROVE  IsFiniteSet(s \ {x}) /\ Cardinality(s \ {x}) = Cardinality(s) - 1
         /\ Cardinality(s) \in Nat
BY FS_RemoveElement, FS_CardinalityType

\* The folds of the library are such recursions, over what they are given.
LEMMA SumIterates ==
  ASSUME NEW w, NEW S
  PROVE  SumFunctionOnSet(w, S) = (CHOOSE f : Iterates(f, w, S))[S]
  BY Zenon DEF SumFunctionOnSet, FoldFunctionOnSet, MapThenFoldSet, Iterates, OneOf

(* The recursion has a solution, and it is the same wherever two are given.*)
LEMMA IteratesExists ==
  ASSUME NEW w, NEW S, IsFiniteSet(S)
  PROVE  \E f : Iterates(f, w, S)
<1> DEFINE D(n) == {s \in SUBSET S : Cardinality(s) <= n}
           Upto(n) == \E f : f = [s \in D(n) |-> IF s = {} THEN 0 ELSE w[OneOf(s)] + f[s \ {OneOf(s)}]]
           Bad == {n \in Nat : ~Upto(n)}
<1>1. \A s \in SUBSET S : IsFiniteSet(s) /\ Cardinality(s) \in Nat /\ Cardinality(s) <= Cardinality(S)
  BY FS_Subset, FS_CardinalityType
<1>2. Upto(0)
  <2> DEFINE f == [s \in D(0) |-> 0]
  <2>1. \A s \in D(0) : s = {}
    BY <1>1, FS_EmptySet
  <2>2. f = [s \in D(0) |-> IF s = {} THEN 0 ELSE w[OneOf(s)] + f[s \ {OneOf(s)}]]
    BY <2>1
  <2> QED BY <2>2
<1>3. ASSUME NEW n \in Nat, Upto(n) PROVE Upto(n + 1)
  <2>1. PICK f : f = [s \in D(n) |-> IF s = {} THEN 0 ELSE w[OneOf(s)] + f[s \ {OneOf(s)}]]
    BY <1>3
  <2> DEFINE g == [s \in D(n + 1) |-> IF s \in D(n) THEN f[s] ELSE w[OneOf(s)] + f[s \ {OneOf(s)}]]
  <2>2. ASSUME NEW s \in D(n + 1), s # {}
        PROVE  s \ {OneOf(s)} \in D(n) /\ s \ {OneOf(s)} \in D(n + 1)
    BY <1>1, <2>2, OneLess, AnyIn
  <2>3. {} \in D(n)
    BY FS_EmptySet
  <2>4. ASSUME NEW s \in D(n + 1)
        PROVE  g[s] = IF s = {} THEN 0 ELSE w[OneOf(s)] + g[s \ {OneOf(s)}]
    <3>1. CASE s = {}
      BY <2>1, <2>3, <3>1
    <3>2. CASE s # {}
      BY <2>1, <2>2, <3>2
    <3> QED BY <3>1, <3>2
  <2>5. g = [s \in D(n + 1) |-> IF s = {} THEN 0 ELSE w[OneOf(s)] + g[s \ {OneOf(s)}]]
    BY <2>4
  <2> QED BY <2>5
<1>4. \A n \in Nat : Upto(n)
  <2> HIDE DEF Upto
  <2> SUFFICES ASSUME Bad # {} PROVE FALSE
    OBVIOUS
  <2>1. PICK n \in Bad : \A k \in Bad : n <= k
    BY LeastNat
  <2>2. n \in Nat /\ n # 0 /\ n - 1 \in Nat /\ n = (n - 1) + 1 /\ ~Upto(n)
    BY <1>2
  <2>3. n - 1 \notin Bad
    BY <2>1, <2>2
  <2> QED BY <1>3, <2>2, <2>3
<1>5. Cardinality(S) \in Nat /\ D(Cardinality(S)) = SUBSET S
  BY <1>1, FS_CardinalityType
<1> QED BY <1>4, <1>5 DEF Iterates

\* Two recursions that agree on the weights of a set agree on its subsets.
LEMMA IteratesSame ==
  ASSUME NEW w, NEW v, NEW S, NEW T, NEW f, NEW g, Iterates(f, w, S), Iterates(g, v, T),
         NEW U, IsFiniteSet(U), U \subseteq S, U \subseteq T, \A x \in U : w[x] = v[x]
  PROVE  f[U] = g[U]
<1> DEFINE Bad == {s \in SUBSET U : f[s] # g[s]}
<1> SUFFICES ASSUME Bad # {} PROVE FALSE
  OBVIOUS
<1>1. \A s \in Bad : IsFiniteSet(s)
  BY FS_Subset
<1>2. PICK s \in Bad : \A t \in Bad : Cardinality(s) <= Cardinality(t)
  BY <1>1, SmallestSet
<1>3. s # {}
  BY DEF Iterates
<1>4. OneOf(s) \in s /\ s \ {OneOf(s)} \notin Bad
  BY <1>1, <1>2, <1>3, OneLess, AnyIn
<1>5. f[s] = w[OneOf(s)] + f[s \ {OneOf(s)}] /\ g[s] = v[OneOf(s)] + g[s \ {OneOf(s)}]
  BY <1>3 DEF Iterates
<1> QED BY <1>4, <1>5

(* So a sum is 0, or an element and the sum of the rest; and it depends on *)
(* nothing but the numbers of its own elements.                            *)
LEMMA SumIs ==
  ASSUME NEW w, NEW S, IsFiniteSet(S)
  PROVE  \E f : Iterates(f, w, S) /\ SumFunctionOnSet(w, S) = f[S]
<1>1. \E f : Iterates(f, w, S)
  BY IteratesExists
<1>2. Iterates(CHOOSE f : Iterates(f, w, S), w, S)
  BY <1>1, Zenon
<1> QED BY <1>2, SumIterates, Zenon

\* The empty set adds up to 0.
LEMMA SumEmpty ==
  ASSUME NEW w
  PROVE  SumFunctionOnSet(w, {}) = 0
<1>1. PICK f : Iterates(f, w, {}) /\ SumFunctionOnSet(w, {}) = f[{}]
  BY SumIs, FS_EmptySet
<1> QED BY <1>1 DEF Iterates

\* A sum depends on the weights of its own set only.
LEMMA SumOfSame ==
  ASSUME NEW w, NEW v, NEW S, IsFiniteSet(S), \A x \in S : w[x] = v[x]
  PROVE  SumFunctionOnSet(w, S) = SumFunctionOnSet(v, S)
<1>1. PICK f : Iterates(f, w, S) /\ SumFunctionOnSet(w, S) = f[S]
  BY SumIs
<1>2. PICK g : Iterates(g, v, S) /\ SumFunctionOnSet(v, S) = g[S]
  BY SumIs
<1> QED BY <1>1, <1>2, IteratesSame

\* A sum is one element's weight and the sum of the others.
LEMMA SumStep ==
  ASSUME NEW w, NEW S, IsFiniteSet(S), S # {}
  PROVE  SumFunctionOnSet(w, S) = w[OneOf(S)] + SumFunctionOnSet(w, S \ {OneOf(S)})
<1> DEFINE R == S \ {OneOf(S)}
<1>1. IsFiniteSet(R)
  BY FS_RemoveElement
<1>2. PICK f : Iterates(f, w, S) /\ SumFunctionOnSet(w, S) = f[S]
  BY SumIs
<1>3. PICK g : Iterates(g, w, R) /\ SumFunctionOnSet(w, R) = g[R]
  BY <1>1, SumIs
<1>4. f[R] = g[R]
  BY <1>1, <1>2, <1>3, IteratesSame
<1>5. f[S] = w[OneOf(S)] + f[R]
  BY <1>2 DEF Iterates
<1> QED BY <1>2, <1>3, <1>4, <1>5

\* A sum of integers is one.
LEMMA SumInt ==
  ASSUME NEW w, NEW S, IsFiniteSet(S), \A x \in S : w[x] \in Int
  PROVE  SumFunctionOnSet(w, S) \in Int
<1> DEFINE Bad == {s \in SUBSET S : SumFunctionOnSet(w, s) \notin Int}
<1> SUFFICES ASSUME Bad # {} PROVE FALSE
  OBVIOUS
<1>1. \A s \in Bad : IsFiniteSet(s)
  BY FS_Subset
<1>2. PICK s \in Bad : \A t \in Bad : Cardinality(s) <= Cardinality(t)
  BY <1>1, SmallestSet
<1>3. s # {}
  BY SumEmpty
<1>4. OneOf(s) \in s /\ s \ {OneOf(s)} \notin Bad
  BY <1>1, <1>2, <1>3, OneLess, AnyIn
<1>5. SumFunctionOnSet(w, s) = w[OneOf(s)] + SumFunctionOnSet(w, s \ {OneOf(s)})
  BY <1>1, <1>3, SumStep
<1> QED BY <1>4, <1>5

\* Any element may be the one that is taken out.
LEMMA SumTake ==
  ASSUME NEW w, NEW S, IsFiniteSet(S), \A x \in S : w[x] \in Int, NEW a \in S
  PROVE  SumFunctionOnSet(w, S) = w[a] + SumFunctionOnSet(w, S \ {a})
<1> DEFINE Sum(s) == SumFunctionOnSet(w, s)
           Bad == {s \in SUBSET S : \E x \in s : Sum(s) # w[x] + Sum(s \ {x})}
<1>0. \A s \in SUBSET S : IsFiniteSet(s) /\ Sum(s) \in Int
  BY FS_Subset, SumInt
<1>a. \A s \in SUBSET S : s # {} => Sum(s) = w[OneOf(s)] + Sum(s \ {OneOf(s)})
  BY <1>0, SumStep
<1> HIDE DEF Sum
<1> SUFFICES ASSUME Bad # {} PROVE FALSE
  BY DEF Sum
<1>2. PICK s \in Bad : \A t \in Bad : Cardinality(s) <= Cardinality(t)
  BY <1>0, SmallestSet
<1>3. PICK x \in s : Sum(s) # w[x] + Sum(s \ {x})
  OBVIOUS
<1> DEFINE y == OneOf(s)
<1>4. y \in s /\ Sum(s) = w[y] + Sum(s \ {y}) /\ x # y
  BY <1>3, <1>a, AnyIn
<1>5. ASSUME NEW z \in s PROVE s \ {z} \notin Bad
  <2>1. IsFiniteSet(s) /\ Cardinality(s \ {z}) = Cardinality(s) - 1 /\ Cardinality(s) \in Nat
    BY <1>0, OneLess
  <2> QED BY <1>2, <2>1
<1>6. Sum(s \ {y}) = w[x] + Sum((s \ {y}) \ {x}) /\ Sum(s \ {x}) = w[y] + Sum((s \ {x}) \ {y})
  BY <1>3, <1>4, <1>5
<1> DEFINE R == (s \ {x}) \ {y}
<1>7. Sum(s \ {y}) = w[x] + Sum(R)
  <2>1. (s \ {y}) \ {x} = R
    OBVIOUS
  <2> QED BY <1>6, <2>1
<1>8. w[x] \in Int /\ w[y] \in Int /\ Sum(R) \in Int
  BY <1>0, <1>4
<1> HIDE DEF y, R
<1>9. Sum(s) = w[x] + Sum(s \ {x})
  <2>1. Sum(s) = w[y] + (w[x] + Sum(R)) /\ Sum(s \ {x}) = w[y] + Sum(R)
    BY <1>4, <1>6, <1>7 DEF R
  <2> QED BY <2>1, <1>8
<1> QED BY <1>3, <1>9
(* The same as inductions: what holds of the empty set and of every set    *)
(* with one element more holds of every finite set.                        *)
LEMMA SetInduction ==
  ASSUME NEW S, IsFiniteSet(S), NEW G, {} \in G,
         \A T \in SUBSET S : \A x \in S \ T : T \in G => T \cup {x} \in G
  PROVE  S \in G
<1> DEFINE Bad == (SUBSET S) \ G
<1> SUFFICES ASSUME Bad # {} PROVE FALSE
  OBVIOUS
<1>1. \A s \in Bad : IsFiniteSet(s)
  BY FS_Subset
<1>2. PICK s \in Bad : \A t \in Bad : Cardinality(s) <= Cardinality(t)
  BY <1>1, SmallestSet
<1>3. PICK x \in s : TRUE
  OBVIOUS
<1>4. s \ {x} \notin Bad
  BY <1>1, <1>2, OneLess
<1>5. (s \ {x}) \cup {x} = s
  OBVIOUS
<1> QED BY <1>4, <1>5

\* What holds of no element and with one more holds of any number.
LEMMA CountInduction ==
  ASSUME NEW G, 0 \in G, \A n \in Nat : n \in G => n + 1 \in G
  PROVE  \A n \in Nat : n \in G
<1> DEFINE Bad == Nat \ G
<1> SUFFICES ASSUME Bad # {} PROVE FALSE
  OBVIOUS
<1>1. PICK n \in Bad : \A k \in Bad : n <= k
  BY LeastNat
<1>2. n - 1 \in Nat /\ n - 1 \notin Bad /\ n = (n - 1) + 1
  BY <1>1
<1> QED BY <1>2

\* One element more adds its weight.
LEMMA SumAdd ==
  ASSUME NEW w, NEW S, IsFiniteSet(S), NEW a, a \notin S, \A x \in S \cup {a} : w[x] \in Int
  PROVE  SumFunctionOnSet(w, S \cup {a}) = SumFunctionOnSet(w, S) + w[a]
<1>1. IsFiniteSet(S \cup {a}) /\ (S \cup {a}) \ {a} = S
  BY FS_AddElement
<1>2. SumFunctionOnSet(w, S \cup {a}) = w[a] + SumFunctionOnSet(w, S)
  BY <1>1, SumTake
<1>3. SumFunctionOnSet(w, S) \in Int /\ w[a] \in Int
  BY SumInt
<1> QED BY <1>2, <1>3

\* One element adds up to its weight.
LEMMA SumOfOne ==
  ASSUME NEW w, NEW a, w[a] \in Int
  PROVE  SumFunctionOnSet(w, {a}) = w[a]
<1>1. {} \cup {a} = {a} /\ IsFiniteSet({}) /\ a \notin {} /\ \A x \in {} \cup {a} : w[x] \in Int
  BY FS_EmptySet
<1>2. SumFunctionOnSet(w, {} \cup {a}) = SumFunctionOnSet(w, {}) + w[a]
  BY <1>1, SumAdd
<1>3. SumFunctionOnSet(w, {a}) = SumFunctionOnSet(w, {} \cup {a})
  BY <1>1, Zenon
<1> QED BY <1>2, <1>3, SumEmpty

\* Disjoint sets add up to their union.
LEMMA SumSplit ==
  ASSUME NEW w, NEW S, IsFiniteSet(S), NEW T, IsFiniteSet(T), S \cap T = {},
         \A x \in S \cup T : w[x] \in Int
  PROVE  SumFunctionOnSet(w, S \cup T) = SumFunctionOnSet(w, S) + SumFunctionOnSet(w, T)
<1> DEFINE Sum(s) == SumFunctionOnSet(w, s)
           G == {s \in SUBSET T : Sum(S \cup s) = Sum(S) + Sum(s)}
<1>1. {} \in G
  <2>1. Sum({}) = 0 /\ Sum(S) \in Int /\ S \cup {} = S
    BY SumEmpty, SumInt
  <2> QED BY <2>1
<1>2. ASSUME NEW s \in SUBSET T, NEW x \in T \ s, s \in G PROVE s \cup {x} \in G
  <2>1. IsFiniteSet(s) /\ IsFiniteSet(S \cup s)
    BY FS_Subset, FS_Union
  <2>2. (S \cup s) \cup {x} = S \cup (s \cup {x}) /\ x \notin S \cup s
    OBVIOUS
  <2>3. Sum(s \cup {x}) = Sum(s) + w[x]
    BY <2>1, SumAdd
  <2>4. Sum((S \cup s) \cup {x}) = Sum(S \cup s) + w[x]
    BY <2>1, <2>2, SumAdd
  <2>5. Sum(S) \in Int /\ Sum(s) \in Int /\ w[x] \in Int
    BY <2>1, SumInt
  <2>6. Sum(S \cup s) = Sum(S) + Sum(s)
    BY <1>2
  <2> HIDE DEF Sum
  <2>7. Sum(S \cup (s \cup {x})) = Sum((S \cup s) \cup {x})
    BY <2>2, Zenon
  <2>8. Sum(S \cup (s \cup {x})) = Sum(S) + Sum(s \cup {x})
    BY <2>7, <2>3, <2>4, <2>5, <2>6
  <2> QED BY <2>8
<1> HIDE DEF G
<1>3. T \in G
  BY <1>1, <1>2, SetInduction
<1> QED BY <1>3 DEF G

\* Weights of 0 add up to 0.
LEMMA SumZero ==
  ASSUME NEW w, NEW S, IsFiniteSet(S), \A x \in S : w[x] = 0
  PROVE  SumFunctionOnSet(w, S) = 0
<1> DEFINE G == {s \in SUBSET S : SumFunctionOnSet(w, s) = 0}
<1>1. {} \in G
  BY SumEmpty
<1>2. ASSUME NEW s \in SUBSET S, NEW x \in S \ s, s \in G PROVE s \cup {x} \in G
  BY <1>2, SumAdd, FS_Subset
<1> HIDE DEF G
<1>3. S \in G
  BY <1>1, <1>2, SetInduction
<1> QED BY <1>3 DEF G

(* Elements that count nothing may be left out.                            *)
LEMMA SumSkip ==
  ASSUME NEW w, NEW S, IsFiniteSet(S), \A x \in S : w[x] \in Int,
         NEW T \in SUBSET S, \A x \in S \ T : w[x] = 0
  PROVE  SumFunctionOnSet(w, S) = SumFunctionOnSet(w, T)
<1> DEFINE R == S \ T
<1>1. IsFiniteSet(T) /\ IsFiniteSet(R) /\ T \cap R = {} /\ T \cup R = S
  BY FS_Subset, FS_Difference
<1>2. SumFunctionOnSet(w, T \cup R) = SumFunctionOnSet(w, T) + SumFunctionOnSet(w, R)
  BY <1>1, SumSplit
<1>3. SumFunctionOnSet(w, R) = 0 /\ SumFunctionOnSet(w, T) \in Int
  BY <1>1, SumZero, SumInt
<1>4. SumFunctionOnSet(w, S) = SumFunctionOnSet(w, T \cup R)
  BY <1>1, Zenon
<1> QED BY <1>2, <1>3, <1>4

\* Sums of differences are differences of sums.
LEMMA SumMinus ==
  ASSUME NEW u, NEW w, NEW v, NEW S, IsFiniteSet(S),
         \A x \in S : w[x] \in Int /\ v[x] \in Int /\ u[x] = w[x] - v[x]
  PROVE  SumFunctionOnSet(u, S) = SumFunctionOnSet(w, S) - SumFunctionOnSet(v, S)
<1> DEFINE Sum(f, s) == SumFunctionOnSet(f, s)
           G == {s \in SUBSET S : Sum(u, s) = Sum(w, s) - Sum(v, s)}
<1>1. {} \in G
  BY SumEmpty
<1>2. ASSUME NEW s \in SUBSET S, NEW x \in S \ s, s \in G PROVE s \cup {x} \in G
  <2>1. IsFiniteSet(s) /\ (\A y \in s \cup {x} : u[y] \in Int)
    BY FS_Subset
  <2>2. Sum(u, s \cup {x}) = Sum(u, s) + u[x] /\ Sum(w, s \cup {x}) = Sum(w, s) + w[x]
        /\ Sum(v, s \cup {x}) = Sum(v, s) + v[x]
    BY <2>1, SumAdd
  <2>3. Sum(u, s) \in Int /\ Sum(w, s) \in Int /\ Sum(v, s) \in Int
    BY <2>1, SumInt
  <2>4. Sum(u, s) = Sum(w, s) - Sum(v, s)
    BY <1>2
  <2> HIDE DEF Sum
  <2> QED BY <2>2, <2>3, <2>4
<1> HIDE DEF G
<1>3. S \in G
  BY <1>1, <1>2, SetInduction
<1> QED BY <1>3 DEF G

\* A factor may be taken out.
LEMMA SumTimes ==
  ASSUME NEW u, NEW w, NEW S, IsFiniteSet(S), NEW c \in Int,
         \A x \in S : w[x] \in Int /\ u[x] = c * w[x]
  PROVE  SumFunctionOnSet(u, S) = c * SumFunctionOnSet(w, S)
<1> DEFINE Sum(f, s) == SumFunctionOnSet(f, s)
           G == {s \in SUBSET S : Sum(u, s) = c * Sum(w, s)}
<1>1. {} \in G
  BY SumEmpty
<1>2. ASSUME NEW s \in SUBSET S, NEW x \in S \ s, s \in G PROVE s \cup {x} \in G
  <2>1. IsFiniteSet(s) /\ (\A y \in s \cup {x} : u[y] \in Int)
    BY FS_Subset
  <2>2. Sum(u, s \cup {x}) = Sum(u, s) + u[x] /\ Sum(w, s \cup {x}) = Sum(w, s) + w[x]
    BY <2>1, SumAdd
  <2>3. Sum(u, s) \in Int /\ Sum(w, s) \in Int /\ w[x] \in Int /\ u[x] = c * w[x]
    BY <2>1, SumInt
  <2>4. Sum(u, s) = c * Sum(w, s)
    BY <1>2
  <2>5. \A i, j \in Int : c * (i + j) = c * i + c * j
    OBVIOUS
  <2> HIDE DEF Sum
  <2>6. Sum(u, s \cup {x}) = c * Sum(w, s \cup {x})
    BY <2>2, <2>3, <2>4, <2>5
  <2> QED BY <2>6
<1> HIDE DEF G
<1>3. S \in G
  BY <1>1, <1>2, SetInduction
<1> QED BY <1>3 DEF G

\* Greater weights add up to no less.
LEMMA SumAtMost ==
  ASSUME NEW w, NEW v, NEW S, IsFiniteSet(S),
         \A x \in S : w[x] \in Int /\ v[x] \in Int /\ w[x] <= v[x]
  PROVE  SumFunctionOnSet(w, S) <= SumFunctionOnSet(v, S)
<1> DEFINE Sum(f, s) == SumFunctionOnSet(f, s)
           G == {s \in SUBSET S : Sum(w, s) <= Sum(v, s)}
<1>1. {} \in G
  BY SumEmpty
<1>2. ASSUME NEW s \in SUBSET S, NEW x \in S \ s, s \in G PROVE s \cup {x} \in G
  <2>1. IsFiniteSet(s)
    BY FS_Subset
  <2>2. Sum(w, s \cup {x}) = Sum(w, s) + w[x] /\ Sum(v, s \cup {x}) = Sum(v, s) + v[x]
    BY <2>1, SumAdd
  <2>3. Sum(w, s) \in Int /\ Sum(v, s) \in Int
    BY <2>1, SumInt
  <2>4. Sum(w, s) <= Sum(v, s)
    BY <1>2
  <2> HIDE DEF Sum
  <2> QED BY <2>2, <2>3, <2>4
<1> HIDE DEF G
<1>3. S \in G
  BY <1>1, <1>2, SetInduction
<1> QED BY <1>3 DEF G

(* A sum by keys: of each key the sum of its elements.                     *)
OfKey(k, S, t) == {x \in S : k[x] = t}

LEMMA SumByKey ==
  ASSUME NEW w, NEW S, IsFiniteSet(S), \A x \in S : w[x] \in Int,
         NEW k, NEW T, IsFiniteSet(T), \A x \in S : k[x] \in T,
         NEW u, \A t \in T : u[t] = SumFunctionOnSet(w, OfKey(k, S, t))
  PROVE  SumFunctionOnSet(w, S) = SumFunctionOnSet(u, T)
<1> DEFINE Sum(f, s) == SumFunctionOnSet(f, s)
           By(s) == [t \in T |-> Sum(w, OfKey(k, s, t))]
           G == {s \in SUBSET S : Sum(w, s) = Sum(By(s), T)}
<1>0. \A s \in SUBSET S : /\ IsFiniteSet(s) /\ Sum(w, s) \in Int
                         /\ \A t \in T : IsFiniteSet(OfKey(k, s, t)) /\ By(s)[t] \in Int
  <2>1. \A s \in SUBSET S : \A t \in T : OfKey(k, s, t) \in SUBSET S
    BY DEF OfKey
  <2> QED BY <2>1, FS_Subset, SumInt
<1>1. {} \in G
  <2>1. \A t \in T : By({})[t] = 0
    <3>1. \A t \in T : OfKey(k, {}, t) = {}
      BY DEF OfKey
    <3> QED BY <3>1, SumEmpty
  <2> HIDE DEF By
  <2>2. Sum(By({}), T) = 0
    BY <2>1, SumZero
  <2> QED BY <2>2, SumEmpty
<1>2. ASSUME NEW s \in SUBSET S, NEW a \in S \ s, s \in G PROVE s \cup {a} \in G
  <2> DEFINE R == T \ {k[a]}
  <2>a. PICK r : r = s \cup {a}
    OBVIOUS
  <2>b. PICK old : old = By(s)
    OBVIOUS
  <2>c. PICK new : new = By(r)
    OBVIOUS
  <2>0. k[a] \in T /\ r \in SUBSET S /\ w[a] \in Int /\ IsFiniteSet(R)
    BY <2>a, FS_RemoveElement
  <2>1. OfKey(k, r, k[a]) = OfKey(k, s, k[a]) \cup {a} /\ a \notin OfKey(k, s, k[a])
        /\ OfKey(k, s, k[a]) \subseteq S /\ \A t \in R : OfKey(k, r, t) = OfKey(k, s, t)
    BY <2>a DEF OfKey
  <2>2. new[k[a]] = old[k[a]] + w[a]
    <3>1. Sum(w, OfKey(k, s, k[a]) \cup {a}) = Sum(w, OfKey(k, s, k[a])) + w[a]
      BY <1>0, <2>0, <2>1, SumAdd
    <3> QED BY <2>0, <2>1, <3>1, <2>b, <2>c
  <2>t. \A t \in T : new[t] \in Int /\ old[t] \in Int
    BY <1>0, <2>0, <2>b, <2>c
  <2>3. Sum(new, R) = Sum(old, R)
    <3>1. \A t \in R : new[t] = old[t]
      BY <2>1, <2>b, <2>c
    <3> QED BY <2>0, <3>1, SumOfSame
  <2>4. Sum(new, T) = new[k[a]] + Sum(new, R) /\ Sum(old, T) = old[k[a]] + Sum(old, R)
    BY <2>t, <2>0, SumTake
  <2>5. Sum(w, r) = Sum(w, s) + w[a]
    BY <1>0, <2>a, SumAdd
  <2>6. Sum(old, R) \in Int /\ old[k[a]] \in Int
    BY <2>t, <2>0, SumInt
  <2>7. Sum(w, s) = Sum(old, T)
    BY <1>2, <2>b
  <2> HIDE DEF Sum, R
  <2>8. Sum(w, r) = Sum(new, T)
    BY <2>0, <2>2, <2>3, <2>4, <2>5, <2>6, <2>7
  <2> QED BY <2>0, <2>8, <2>a, <2>c
<1>3. Sum(w, S) = Sum(By(S), T)
  <2> HIDE DEF G
  <2>1. S \in G
    BY <1>1, <1>2, SetInduction
  <2> QED BY <2>1 DEF G
<1>4. Sum(By(S), T) = Sum(u, T)
  <2>1. \A t \in T : By(S)[t] = u[t]
    OBVIOUS
  <2> HIDE DEF By
  <2> QED BY <2>1, SumOfSame
<1> QED BY <1>3, <1>4

(* The number of elements is a sum of ones.                                *)
LEMMA CountIsSum ==
  ASSUME NEW S, IsFiniteSet(S), NEW w, \A x \in S : w[x] = 1
  PROVE  SumFunctionOnSet(w, S) = Cardinality(S)
<1> DEFINE G == {s \in SUBSET S : SumFunctionOnSet(w, s) = Cardinality(s)}
<1>1. {} \in G
  BY SumEmpty, FS_EmptySet
<1>2. ASSUME NEW s \in SUBSET S, NEW x \in S \ s, s \in G PROVE s \cup {x} \in G
  <2>1. IsFiniteSet(s) /\ Cardinality(s \cup {x}) = Cardinality(s) + 1
    BY FS_Subset, FS_AddElement
  <2>2. SumFunctionOnSet(w, s \cup {x}) = SumFunctionOnSet(w, s) + 1
    BY <2>1, SumAdd
  <2> QED BY <1>2, <2>1, <2>2
<1> HIDE DEF G
<1>3. S \in G
  BY <1>1, <1>2, SetInduction
<1> QED BY <1>3 DEF G

\* Elements may be counted by a key.
LEMMA CountByKey ==
  ASSUME NEW S, IsFiniteSet(S), NEW k, NEW T, IsFiniteSet(T), \A x \in S : k[x] \in T,
         NEW u, \A t \in T : u[t] = Cardinality(OfKey(k, S, t))
  PROVE  SumFunctionOnSet(u, T) = Cardinality(S)
<1> DEFINE w == [x \in S |-> 1]
<1>1. \A x \in S : w[x] = 1 /\ w[x] \in Int
  OBVIOUS
<1> HIDE DEF w
<1>2. \A t \in T : u[t] = SumFunctionOnSet(w, OfKey(k, S, t))
  <2>1. ASSUME NEW t \in T PROVE SumFunctionOnSet(w, OfKey(k, S, t)) = Cardinality(OfKey(k, S, t))
    <3>1. IsFiniteSet(OfKey(k, S, t)) /\ OfKey(k, S, t) \subseteq S
      BY FS_Subset DEF OfKey
    <3> QED BY <1>1, <3>1, CountIsSum
  <2> QED BY <2>1
<1>3. SumFunctionOnSet(w, S) = SumFunctionOnSet(u, T)
  BY <1>1, <1>2, SumByKey
<1> QED BY <1>1, <1>3, CountIsSum

----------------------------------------------------------------------------
\* Flows: what changed between two registers.

\* What is known of the rows read of one quarter.
Rows(R) ==
  /\ IsFiniteSet(R)
  /\ \A h \in R : h.shares \in Int /\ h.shares >= NoCount
ListedOnce(R) == \A g, h \in R : g.manager = h.manager /\ g.cusip = h.cusip => g = h
SharesOf(R) == [h \in R |-> OrZero(h.shares)]
KeysOf(R) == {<<h.manager, h.cusip>> : h \in R}
AtKey(R, k) == {g \in R : g.manager = k[1] /\ g.cusip = k[2]}

LEMMA SharesAreNat ==
  ASSUME NEW R, Rows(R)
  PROVE  \A h \in R : OrZero(h.shares) \in Nat /\ SharesOf(R)[h] = OrZero(h.shares)
BY DEF Rows, OrZero, NoCount, SharesOf

\* Total is the sum of the rows' shares.
LEMMA TotalOf ==
  ASSUME NEW R, Rows(R), NEW S \in SUBSET R
  PROVE  Total(S) = SumFunctionOnSet(SharesOf(R), S) /\ Total(S) \in Nat /\ IsFiniteSet(S)
<1>1. IsFiniteSet(S)
  BY FS_Subset DEF Rows
<1>2. Rows(S)
  BY <1>1 DEF Rows
<1>3. Total(S) = SumFunctionOnSet(SharesOf(S), S)
  BY DEF Total, SumFunction, SharesOf
<1>4. \A h \in S : SharesOf(S)[h] = SharesOf(R)[h] /\ SharesOf(S)[h] \in Int
  BY <1>2, SharesAreNat
<1>5. SumFunctionOnSet(SharesOf(S), S) = SumFunctionOnSet(SharesOf(R), S)
  BY <1>1, <1>4, SumOfSame
<1>6. SumFunctionOnSet(SharesOf(S), S) \in Int
  BY <1>1, <1>4, SumInt
<1>7. SumFunctionOnSet(SharesOf(S), S) >= 0
  <2> DEFINE z == [h \in S |-> 0]
  <2>1. \A h \in S : z[h] = 0 /\ z[h] \in Int /\ z[h] <= SharesOf(S)[h]
    BY <1>2, SharesAreNat
  <2> HIDE DEF z
  <2>2. SumFunctionOnSet(z, S) <= SumFunctionOnSet(SharesOf(S), S)
    BY <1>1, <1>4, <2>1, SumAtMost
  <2> QED BY <1>1, <2>1, <2>2, SumZero
<1> QED BY <1>1, <1>3, <1>5, <1>6, <1>7

\* Of one row it is the row's count.
LEMMA TotalOfOne ==
  ASSUME NEW R, Rows(R), NEW h \in R
  PROVE  Total({h}) = OrZero(h.shares) /\ Total({}) = 0
<1>1. Total({h}) = SumFunctionOnSet(SharesOf(R), {h}) /\ Total({}) = SumFunctionOnSet(SharesOf(R), {})
  BY TotalOf
<1>2. SharesOf(R)[h] \in Int /\ SharesOf(R)[h] = OrZero(h.shares)
  BY SharesAreNat
<1>3. SumFunctionOnSet(SharesOf(R), {}) = 0
  BY SumEmpty
<1>4. SumFunctionOnSet(SharesOf(R), {} \cup {h}) = 0 + SharesOf(R)[h]
  BY <1>2, <1>3, SumAdd, FS_EmptySet
<1>5. {} \cup {h} = {h}
  OBVIOUS
<1>6. SumFunctionOnSet(SharesOf(R), {h}) = SumFunctionOnSet(SharesOf(R), {} \cup {h})
  BY <1>5, Zenon
<1> QED BY <1>1, <1>2, <1>3, <1>4, <1>6

(* Where no CUSIP is listed twice, the position kept is the sum of lines.  *)
LEMMA PositionIsTotal ==
  ASSUME NEW R, Rows(R), ListedOnce(R), NEW k
  PROVE  Position(R, k) = Total(AtKey(R, k)) /\ Position(R, k) \in Nat
<1> DEFINE L == {OrZero(h.shares) : h \in AtKey(R, k)}
<1>1. Position(R, k) = IF L = {} THEN 0 ELSE Min(L)
  BY DEF Position, AtKey
<1>2. AtKey(R, k) \in SUBSET R
  BY DEF AtKey
<1>3. CASE AtKey(R, k) = {}
  <2>1. L = {}
    BY <1>3
  <2>2. Total({}) = 0
    <3>1. SharesOf(R) = SharesOf(R) /\ Total({}) = SumFunctionOnSet(SharesOf(R), {})
      BY TotalOf
    <3> QED BY <3>1, SumEmpty
  <2>3. Total(AtKey(R, k)) = Total({})
    BY <1>3, Zenon
  <2> QED BY <1>1, <2>1, <2>2, <2>3
<1>4. CASE AtKey(R, k) # {}
  <2>1. PICK h \in AtKey(R, k) : TRUE
    BY <1>4
  <2>2. \A g \in AtKey(R, k) : g = h
    BY <2>1 DEF AtKey, ListedOnce
  <2>3. AtKey(R, k) = {h}
    BY <2>1, <2>2
  <2>4. L = {OrZero(h.shares)}
    BY <2>1, <2>2
  <2>5. OrZero(h.shares) \in Nat
    BY <1>2, <2>1, SharesAreNat
  <2>6. Min(L) = OrZero(h.shares)
    BY <2>4, <2>5 DEF Min
  <2>7. Total(AtKey(R, k)) = Total({h})
    BY <2>3, Zenon
  <2>8. Total({h}) = OrZero(h.shares)
    BY <1>2, <2>1, TotalOfOne
  <2>9. L # {}
    BY <2>1
  <2> HIDE DEF L
  <2> QED BY <1>1, <2>5, <2>6, <2>7, <2>8, <2>9
<1> QED BY <1>3, <1>4

(* The positions of all keys are all the shares.                           *)
LEMMA PositionsAddUp ==
  ASSUME NEW R, Rows(R), ListedOnce(R), NEW K, IsFiniteSet(K), KeysOf(R) \subseteq K,
         \A k \in K : k = <<k[1], k[2]>>,
         NEW p, \A k \in K : p[k] = Position(R, k)
  PROVE  SumFunctionOnSet(p, K) = Total(R)
<1> DEFINE key == [h \in R |-> <<h.manager, h.cusip>>]
<1>1. \A h \in R : key[h] \in K
  BY DEF KeysOf
<1>2. \A k \in K : OfKey(key, R, k) = AtKey(R, k)
  BY DEF OfKey, AtKey
<1>3. ASSUME NEW k \in K PROVE p[k] = SumFunctionOnSet(SharesOf(R), OfKey(key, R, k))
  <2>1. p[k] = Total(AtKey(R, k))
    BY PositionIsTotal
  <2>2. AtKey(R, k) \in SUBSET R
    BY DEF AtKey
  <2> QED BY <1>2, <2>1, <2>2, TotalOf
<1> HIDE DEF key
<1>4. IsFiniteSet(R) /\ \A h \in R : SharesOf(R)[h] \in Int
  BY SharesAreNat DEF Rows
<1>5. SumFunctionOnSet(SharesOf(R), R) = SumFunctionOnSet(p, K)
  BY <1>1, <1>3, <1>4, SumByKey
<1> QED BY <1>5, TotalOf

(* A delta is of one key, and says how far the position moved.             *)
LEMMA DeltaMoves ==
  ASSUME NEW b \in Nat, NEW a \in Nat
  PROVE  /\ Classify(b, a) = "unchanged" <=> a = b
         /\ Classify(b, a) \in {"new", "added"} <=> a > b
         /\ Classify(b, a) \in {"reduced", "exited"} <=> a < b
BY DEF Classify

DeltaOf(b, a, k) ==
  [manager |-> k[1], cusip |-> k[2], before |-> b[k], after |-> a[k], action |-> Classify(b[k], a[k])]

(* A change is of a key, and there is one for each unless it is unchanged  *)
(* and those are left out.                                                 *)
LEMMA DeltasAre ==
  ASSUME NEW b, NEW a, NEW u
  PROVE  Deltas(b, a, u) = {d \in {DeltaOf(b, a, k) : k \in DOMAIN b} : u \/ d.action # "unchanged"}
BY DEF Deltas, DeltaOf

\* What a change says of its key.
LEMMA DeltaFields ==
  ASSUME NEW K, NEW k \in K, k = <<k[1], k[2]>>, NEW b \in [K -> Nat], NEW a \in [K -> Nat],
         NEW d, d = DeltaOf(b, a, k)
  PROVE  /\ d.manager = k[1] /\ d.cusip = k[2] /\ d.before = b[k] /\ d.after = a[k]
         /\ b[k] \in Nat /\ a[k] \in Nat /\ <<d.manager, d.cusip>> = k
         /\ d.action = "unchanged" <=> a[k] = b[k]
         /\ d.action \in {"new", "added"} <=> a[k] > b[k]
         /\ d.action \in {"reduced", "exited"} <=> a[k] < b[k]
<1>1. b[k] \in Nat /\ a[k] \in Nat
  OBVIOUS
<1>2. /\ d.manager = k[1] /\ d.cusip = k[2] /\ d.before = b[k] /\ d.after = a[k]
      /\ d.action = Classify(b[k], a[k])
  BY DEF DeltaOf
<1> QED BY <1>1, <1>2, DeltaMoves

\* A finite function has finitely many values.
LEMMA FiniteImage ==
  ASSUME NEW f, IsFiniteSet(DOMAIN f)
  PROVE  IsFiniteSet({f[x] : x \in DOMAIN f})
<1> DEFINE T == {f[x] : x \in DOMAIN f}
           g == [x \in DOMAIN f |-> f[x]]
<1>1. g \in Surjection(DOMAIN f, T)
  BY DEF Surjection
<1> QED BY <1>1, FS_Surjection

(* The net flow is what the positions moved in all.                        *)
LEMMA NetIsMoved ==
  ASSUME NEW K, IsFiniteSet(K), \A k \in K : k = <<k[1], k[2]>>,
         NEW b \in [K -> Nat], NEW a \in [K -> Nat]
  PROVE  SummarizeActivity(Deltas(b, a, FALSE)).net
           = SumFunctionOnSet(a, K) - SumFunctionOnSet(b, K)
<1> DEFINE D   == Deltas(b, a, FALSE)
           Ins  == {d \in D : d.action \in {"new", "added"}}
           Outs == {d \in D : d.action \in {"reduced", "exited"}}
           move == [d \in D |-> d.after - d.before]
           diff == [k \in K |-> a[k] - b[k]]
           Moved == {k \in K : a[k] # b[k]}
           key == [d \in D |-> <<d.manager, d.cusip>>]
<1>1. D = {d \in {DeltaOf(b, a, k) : k \in K} : d.action # "unchanged"}
  BY DeltasAre
<1>2. ASSUME NEW d \in D
      PROVE  /\ key[d] \in Moved /\ d = DeltaOf(b, a, key[d])
             /\ move[d] = diff[key[d]] /\ move[d] \in Int
             /\ d \in Ins \/ d \in Outs
             /\ ~(d \in Ins /\ d \in Outs)
  <2>1. PICK k \in K : d = DeltaOf(b, a, k)
    BY <1>1
  <2>2. d.action # "unchanged"
    BY <1>1
  <2>3. d.before = b[k] /\ d.after = a[k] /\ b[k] \in Nat /\ a[k] \in Nat /\ <<d.manager, d.cusip>> = k
        /\ a[k] # b[k] /\ (d.action \in {"new", "added"} <=> a[k] > b[k])
        /\ (d.action \in {"reduced", "exited"} <=> a[k] < b[k])
    BY <2>1, <2>2, DeltaFields
  <2>4. key[d] = k /\ k \in Moved /\ move[d] = diff[k] /\ move[d] \in Int
    BY <2>3
  <2>5. (d \in Ins \/ d \in Outs) /\ ~(d \in Ins /\ d \in Outs)
    <3>1. (a[k] > b[k] \/ a[k] < b[k]) /\ ~(a[k] > b[k] /\ a[k] < b[k])
      BY <2>3
    <3> HIDE DEF D
    <3> QED BY <2>3, <3>1, Zenon
  <2> QED BY <2>1, <2>4, <2>5
<1>3. ASSUME NEW k \in Moved PROVE DeltaOf(b, a, k) \in D /\ key[DeltaOf(b, a, k)] = k
  <2>1. PICK d : d = DeltaOf(b, a, k)
    OBVIOUS
  <2>2. d.action # "unchanged" /\ <<d.manager, d.cusip>> = k
    BY <2>1, DeltaFields
  <2>3. d \in D
    BY <1>1, <2>1, <2>2
  <2> QED BY <2>1, <2>2, <2>3
<1>4. IsFiniteSet(D) /\ IsFiniteSet(Moved)
  <2> DEFINE f == [k \in K |-> DeltaOf(b, a, k)]
             T == {f[k] : k \in DOMAIN f}
  <2>2. IsFiniteSet(T)
    BY FiniteImage
  <2>3. D \subseteq T
    BY <1>1
  <2>4. IsFiniteSet(Moved)
    BY FS_Subset
  <2> QED BY <2>2, <2>3, <2>4, FS_Subset
<1> HIDE DEF D, Moved
<1>5. SumFunctionOnSet(move, D) = SumFunctionOnSet(diff, Moved)
  <2>1. ASSUME NEW k \in Moved PROVE diff[k] = SumFunctionOnSet(move, OfKey(key, D, k))
    <3>1. PICK d : d = DeltaOf(b, a, k)
      OBVIOUS
    <3>3. d \in D /\ key[d] = k
      BY <1>3, <3>1
    <3>5. \A e \in D : key[e] = k => e = d
      BY <1>2, <3>1
    <3>2. OfKey(key, D, k) = {d}
      <4> HIDE DEF key
      <4> QED BY <3>3, <3>5 DEF OfKey
    <3>7. move[d] \in Int /\ move[d] = diff[k]
      BY <1>2, <3>3
    <3> HIDE DEF move
    <3>4. SumFunctionOnSet(move, {d}) = move[d]
      BY <3>7, SumOfOne
    <3>6. SumFunctionOnSet(move, OfKey(key, D, k)) = SumFunctionOnSet(move, {d})
      BY <3>2, Zenon
    <3> QED BY <3>4, <3>6, <3>7
  <2>2. \A d \in D : move[d] \in Int /\ key[d] \in Moved
    BY <1>2
  <2> HIDE DEF move, diff, key
  <2> QED BY <1>4, <2>1, <2>2, SumByKey
<1>6. SumFunctionOnSet(diff, K) = SumFunctionOnSet(diff, Moved)
  <2>1. \A k \in K : diff[k] \in Int
    OBVIOUS
  <2>2. Moved \subseteq K /\ \A k \in K \ Moved : diff[k] = 0
    BY DEF Moved
  <2> HIDE DEF diff
  <2> QED BY <2>1, <2>2, SumSkip
<1>7. SumFunctionOnSet(diff, K) = SumFunctionOnSet(a, K) - SumFunctionOnSet(b, K)
  <2>1. \A k \in K : a[k] \in Int /\ b[k] \in Int /\ diff[k] = a[k] - b[k]
    OBVIOUS
  <2> HIDE DEF diff
  <2> QED BY <2>1, SumMinus
<1>8. SummarizeActivity(D).net = SumFunction([d \in Ins |-> d.after - d.before])
                                   + SumFunction([d \in Outs |-> d.after - d.before])
  BY DEF SummarizeActivity
<1>9. /\ SumFunction([d \in Ins |-> d.after - d.before]) = SumFunctionOnSet(move, Ins)
      /\ SumFunction([d \in Outs |-> d.after - d.before]) = SumFunctionOnSet(move, Outs)
  <2>1. ASSUME NEW S \in SUBSET D
        PROVE  SumFunction([d \in S |-> d.after - d.before]) = SumFunctionOnSet(move, S)
    <3> DEFINE part == [d \in S |-> d.after - d.before]
    <3>1. SumFunction(part) = SumFunctionOnSet(part, S)
      BY DEF SumFunction
    <3>2. IsFiniteSet(S) /\ \A d \in S : part[d] = move[d]
      BY <1>4, FS_Subset
    <3> HIDE DEF part, move
    <3>3. SumFunctionOnSet(part, S) = SumFunctionOnSet(move, S)
      BY <3>2, SumOfSame
    <3> QED BY <3>1, <3>3 DEF part
  <2>2. Ins \in SUBSET D /\ Outs \in SUBSET D
    OBVIOUS
  <2> QED BY <2>1, <2>2
<1>10. SumFunctionOnSet(move, D) = SumFunctionOnSet(move, Ins) + SumFunctionOnSet(move, Outs)
  <2>1. D = Ins \cup Outs /\ Ins \cap Outs = {} /\ Ins \subseteq D /\ Outs \subseteq D
    BY <1>2
  <2>2. IsFiniteSet(Ins) /\ IsFiniteSet(Outs) /\ \A d \in Ins \cup Outs : move[d] \in Int
    BY <1>2, <1>4, <2>1, FS_Subset
  <2> HIDE DEF Ins, Outs, move
  <2>3. SumFunctionOnSet(move, Ins \cup Outs) = SumFunctionOnSet(move, Ins) + SumFunctionOnSet(move, Outs)
    BY <2>1, <2>2, SumSplit
  <2>4. SumFunctionOnSet(move, D) = SumFunctionOnSet(move, Ins \cup Outs)
    BY <2>1, Zenon
  <2> QED BY <2>3, <2>4
<1> HIDE DEF Ins, Outs, move, diff
<1>11. SummarizeActivity(D).net = SumFunctionOnSet(a, K) - SumFunctionOnSet(b, K)
  BY <1>5, <1>6, <1>7, <1>8, <1>9, <1>10
<1> QED BY <1>11 DEF D

(* What is shown of one manager by the issuer's view is what its own view  *)
(* shows, and what the issuer's view adds up to is the register's change.  *)
HeldBy(R, m) == {h \in R : h.manager = m}
MovesOf(D, m) == {d \in D : d.manager = m}

LEMMA ManagersView ==
  ASSUME NEW cur, Rows(cur), ListedOnce(cur), NEW prior, Rows(prior), ListedOnce(prior),
         NEW m, NEW u \in BOOLEAN
  PROVE  MovesOf(DiffHolders(cur, prior, u), m) = DiffSnapshots(m, HeldBy(cur, m), HeldBy(prior, m), u)
<1> DEFINE K  == {<<h.manager, h.cusip>> : h \in cur \cup prior}
           c  == {h \in cur : h.manager = m}
           p  == {h \in prior : h.manager = m}
           Km == {<<m, x>> : x \in CusipsIn(c \cup p)}
           b  == [k \in K |-> Position(prior, k)]
           a  == [k \in K |-> Position(cur, k)]
           bm == [k \in Km |-> ByCusip(p, k[2])]
           am == [k \in Km |-> ByCusip(c, k[2])]
<1>1. Km = {k \in K : k[1] = m}
  BY DEF CusipsIn
<1>2. ASSUME NEW k \in Km PROVE b[k] = bm[k] /\ a[k] = am[k] /\ k[1] = m
  <2>1. k[1] = m /\ k \in K
    BY <1>1
  <2>2. AtKey(prior, k) = {h \in p : h.cusip = k[2]} /\ AtKey(cur, k) = {h \in c : h.cusip = k[2]}
    BY <2>1 DEF AtKey
  <2>3. ByCusip(p, k[2]) = Total(AtKey(prior, k)) /\ ByCusip(c, k[2]) = Total(AtKey(cur, k))
    <3> HIDE DEF p, c
    <3> QED BY <2>2, Zenon DEF ByCusip
  <2>4. Position(prior, k) = Total(AtKey(prior, k)) /\ Position(cur, k) = Total(AtKey(cur, k))
    BY PositionIsTotal
  <2> QED BY <2>1, <2>3, <2>4
<1>3. DiffHolders(cur, prior, u) = Deltas(b, a, u)
  BY DEF DiffHolders
<1>4. DiffSnapshots(m, c, p, u) = Deltas(bm, am, u)
  BY DEF DiffSnapshots
<1> HIDE DEF K, Km
<1>5. ASSUME NEW k \in Km PROVE DeltaOf(b, a, k) = DeltaOf(bm, am, k)
  BY <1>2 DEF DeltaOf
<1>6. \A k \in K : DeltaOf(b, a, k).manager = k[1]
  BY DEF DeltaOf
<1>7. DOMAIN b = K /\ DOMAIN bm = Km
  OBVIOUS
<1> HIDE DEF b, a, bm, am
<1>8. {d \in Deltas(b, a, u) : d.manager = m} = Deltas(bm, am, u)
  BY <1>1, <1>5, <1>6, <1>7, DeltasAre
<1> QED BY <1>3, <1>4, <1>8 DEF MovesOf, HeldBy

(* The net of an issuer's changes is what its register has moved by        *)
(* (summarize_activity of diff_holders).                                   *)
LEMMA IssuersView ==
  ASSUME NEW cur, Rows(cur), ListedOnce(cur), NEW prior, Rows(prior), ListedOnce(prior)
  PROVE  SummarizeActivity(DiffHolders(cur, prior, FALSE)).net = Total(cur) - Total(prior)
<1> DEFINE K == {<<h.manager, h.cusip>> : h \in cur \cup prior}
           b == [k \in K |-> Position(prior, k)]
           a == [k \in K |-> Position(cur, k)]
<1>1. \A k \in K : k = <<k[1], k[2]>>
  OBVIOUS
<1>2. IsFiniteSet(K)
  <2> DEFINE f == [h \in cur \cup prior |-> <<h.manager, h.cusip>>]
  <2>1. IsFiniteSet(cur \cup prior)
    BY FS_Union DEF Rows
  <2>2. IsFiniteSet({f[h] : h \in DOMAIN f})
    BY <2>1, FiniteImage
  <2> QED BY <2>2
<1>3. KeysOf(cur) \subseteq K /\ KeysOf(prior) \subseteq K
  BY DEF KeysOf
<1>4. DiffHolders(cur, prior, FALSE) = Deltas(b, a, FALSE)
  BY DEF DiffHolders
<1> HIDE DEF K
<1>5. b \in [K -> Nat] /\ a \in [K -> Nat]
  BY PositionIsTotal
<1>6. SumFunctionOnSet(a, K) = Total(cur) /\ SumFunctionOnSet(b, K) = Total(prior)
  <2>1. \A k \in K : b[k] = Position(prior, k) /\ a[k] = Position(cur, k)
    OBVIOUS
  <2> HIDE DEF a, b
  <2> QED BY <1>1, <1>2, <1>3, <2>1, PositionsAddUp
<1> HIDE DEF a, b
<1> QED BY <1>1, <1>2, <1>4, <1>5, <1>6, NetIsMoved

----------------------------------------------------------------------------
\* The vector of shares, streaks and bands of tenure.

\* The greatest of finitely many numbers is one of them.
LEMMA MaxIs ==
  ASSUME NEW n \in Nat, NEW S, S \subseteq 0 .. n, S # {}
  PROVE  Max(S) \in S /\ \A x \in S : Max(S) >= x
<1> DEFINE T == {n - x : x \in S}
<1>0. \A x \in S : x \in Int /\ n - x \in Nat
  OBVIOUS
<1>1. T \subseteq Nat /\ T # {}
  BY <1>0
<1>2. PICK t \in T : \A y \in T : t <= y
  BY <1>1, LeastNat
<1>3. PICK x \in S : t = n - x
  BY <1>2
<1>4. ASSUME NEW y \in S PROVE x >= y
  <2>1. n - y \in T
    OBVIOUS
  <2>2. t <= n - y
    BY <1>2, <2>1
  <2> QED BY <1>0, <1>3, <2>2
<1> QED BY <1>4 DEF Max

(* The managers that hold shares of a register, and how many each.         *)
LEMMA VectorIs ==
  ASSUME NEW R, Rows(R)
  PROVE  LET v == ShareVector(R)
         IN /\ DOMAIN v = Present(R) /\ IsFiniteSet(DOMAIN v) /\ DOMAIN v \subseteq ManagersOf(R)
            /\ \A m \in DOMAIN v : v[m] \in Nat /\ v[m] > 0
                                   /\ v[m] = Total({h \in ReportedShares(R) : h.manager = m})
<1> DEFINE v == ShareVector(R)
<1> DEFINE S == ReportedShares(R)
           Of(m) == {h \in S : h.manager = m}
<1>1. S \subseteq R /\ IsFiniteSet(S)
  BY FS_Subset DEF ReportedShares, Rows
<1>2. v = [m \in ManagersOf(S) |-> Total(Of(m))]
  BY DEF ShareVector
<1>3. IsFiniteSet(ManagersOf(S))
  <2> DEFINE f == [h \in S |-> h.manager]
  <2>1. IsFiniteSet({f[h] : h \in DOMAIN f})
    BY <1>1, FiniteImage
  <2> QED BY <2>1 DEF ManagersOf
<1>4. ASSUME NEW m \in ManagersOf(S) PROVE Total(Of(m)) \in Nat /\ Total(Of(m)) > 0
  <2>1. PICK h \in S : h.manager = m
    BY DEF ManagersOf
  <2>2. Of(m) \in SUBSET R /\ Of(m) \ {h} \in SUBSET R /\ h \in Of(m) /\ h \in R
    BY <1>1, <2>1
  <2>3. SharesOf(R)[h] \in Nat /\ SharesOf(R)[h] > 0
    BY <2>1, <2>2, SharesAreNat DEF ReportedShares, OrZero, NoCount
  <2>4. \A g \in Of(m) : SharesOf(R)[g] \in Int
    BY <2>2, SharesAreNat
  <2>5. Total(Of(m)) = SumFunctionOnSet(SharesOf(R), Of(m)) /\ IsFiniteSet(Of(m))
    BY <2>2, TotalOf
  <2>6. Total(Of(m) \ {h}) = SumFunctionOnSet(SharesOf(R), Of(m) \ {h}) /\ Total(Of(m) \ {h}) \in Nat
    BY <2>2, TotalOf
  <2> HIDE DEF Of
  <2>7. SumFunctionOnSet(SharesOf(R), Of(m)) = SharesOf(R)[h] + SumFunctionOnSet(SharesOf(R), Of(m) \ {h})
    BY <2>2, <2>4, <2>5, SumTake
  <2> QED BY <2>3, <2>5, <2>6, <2>7
<1>5. ManagersOf(S) \subseteq ManagersOf(R)
  BY <1>1 DEF ManagersOf
<1> HIDE DEF v
<1>6. DOMAIN v = ManagersOf(S) /\ \A m \in DOMAIN v : v[m] = Total(Of(m))
  BY <1>2
<1> QED BY <1>3, <1>4, <1>5, <1>6 DEF Present, v

\* share_vector, as the lemmas on vectors need it.
LEMMA Vector ==
  ASSUME NEW R, Rows(R), NEW v, v = ShareVector(R)
  PROVE  /\ DOMAIN v = Present(R) /\ IsFiniteSet(DOMAIN v) /\ DOMAIN v \subseteq ManagersOf(R)
         /\ \A m \in DOMAIN v : v[m] \in Nat /\ v[m] > 0
BY VectorIs, Zenon

\* total_shares is a sum over the managers.
LEMMA TotalSharesIs ==
  ASSUME NEW R, Rows(R), NEW v, v = ShareVector(R)
  PROVE  TotalShares(v) = SumFunctionOnSet(v, DOMAIN v) /\ TotalShares(v) \in Nat
<1>0. IsFiniteSet(DOMAIN v) /\ \A m \in DOMAIN v : v[m] \in Nat
  BY Vector
<1>1. \A m \in DOMAIN v : v[m] \in Int /\ v[m] >= 0
  BY <1>0
<1> DEFINE z == [m \in DOMAIN v |-> 0]
<1>2. \A m \in DOMAIN v : z[m] = 0 /\ z[m] \in Int /\ z[m] <= v[m]
  BY <1>1
<1> HIDE DEF z
<1>3. SumFunctionOnSet(z, DOMAIN v) <= SumFunctionOnSet(v, DOMAIN v) /\ SumFunctionOnSet(z, DOMAIN v) = 0
  BY <1>0, <1>1, <1>2, SumAtMost, SumZero
<1>4. SumFunctionOnSet(v, DOMAIN v) \in Int
  BY <1>0, <1>1, SumInt
<1> QED BY <1>3, <1>4 DEF TotalShares, SumFunction

\* The registers of the quarters a request has read, newest first.
Registers(by) == by \in Seq({by[i] : i \in DOMAIN by}) /\ \A i \in DOMAIN by : Rows(by[i])

LEMMA StreakIs ==
  ASSUME NEW by, Registers(by), NEW n, n = Len(by), n > 0, NEW s, s = Streaks(by)
  PROVE  /\ DOMAIN s = Present(by[1])
         /\ \A m \in DOMAIN s :
              /\ s[m] \in 1 .. n
              /\ \A i \in 1 .. s[m] : m \in Present(by[i])
              /\ \A k \in 1 .. n : (\A i \in 1 .. k : m \in Present(by[i])) => k <= s[m]
<1>1. n \in Nat /\ DOMAIN by = 1 .. n
  BY DEF Registers
<1>2. s = [m \in Present(by[1]) |-> Max({k \in 1 .. n : \A i \in 1 .. k : m \in Present(by[i])})]
  BY DEF Streaks
<1>3. ASSUME NEW m \in Present(by[1])
      PROVE  LET T == {k \in 1 .. n : \A i \in 1 .. k : m \in Present(by[i])}
             IN Max(T) \in T /\ \A k \in T : Max(T) >= k
  <2> DEFINE T == {k \in 1 .. n : \A i \in 1 .. k : m \in Present(by[i])}
  <2>1. 1 \in T
    BY <1>1
  <2>2. T \subseteq 0 .. n /\ T # {}
    BY <1>1, <2>1
  <2> HIDE DEF T
  <2>3. Max(T) \in T /\ \A k \in T : Max(T) >= k
    BY <1>1, <2>2, MaxIs
  <2> QED BY <2>3 DEF T
<1>4. DOMAIN s = Present(by[1])
  BY <1>2
<1>5. ASSUME NEW m \in DOMAIN s
      PROVE  /\ s[m] \in 1 .. n
             /\ \A i \in 1 .. s[m] : m \in Present(by[i])
             /\ \A k \in 1 .. n : (\A i \in 1 .. k : m \in Present(by[i])) => k <= s[m]
  BY <1>1, <1>2, <1>3
<1> QED BY <1>4, <1>5

\* Every number of quarters is in a band of tenure.
LEMMA BandIs ==
  ASSUME NEW k \in Nat, k > 0
  PROVE  BandOf(k) \in 1 .. 4
<1> DEFINE S == {b \in DOMAIN Bands : k >= Bands[b]}
<1>1. DOMAIN Bands = 1 .. 4 /\ Bands[4] = 1
  BY DEF Bands
<1>2. S \subseteq Nat /\ S # {} /\ S \subseteq 1 .. 4
  BY <1>1
<1> HIDE DEF S
<1>3. PICK x \in S : \A y \in S : x <= y
  BY <1>2, LeastNat
<1>4. Min(S) \in S
  BY <1>3 DEF Min
<1> QED BY <1>2, <1>4 DEF BandOf, S

----------------------------------------------------------------------------
\* Tenure, stable capital and turnover.

\* Each quarter read has finitely many managers.
LEMMA RegistersAre ==
  ASSUME NEW by, Registers(by), by # <<>>
  PROVE  /\ Len(by) \in Nat /\ Len(by) > 0 /\ DOMAIN by = 1 .. Len(by) /\ Rows(by[1])
         /\ \A i \in 1 .. Len(by) : Rows(by[i]) /\ IsFiniteSet(Present(by[i]))
<1>1. Len(by) \in Nat /\ Len(by) > 0 /\ DOMAIN by = 1 .. Len(by)
  BY DEF Registers
<1>2. ASSUME NEW i \in 1 .. Len(by) PROVE Rows(by[i]) /\ IsFiniteSet(Present(by[i]))
  <2>1. Rows(by[i])
    BY <1>1 DEF Registers
  <2> QED BY <2>1, Vector
<1> QED BY <1>1, <1>2

(* The bands hold each manager of the newest register once, with all its   *)
(* shares; and the stable part of a register is a part of it.              *)
LEMMA TenureHolds ==
  ASSUME NEW by, Registers(by), by # <<>>, Tenure(by).status = "ok"
  PROVE  LET t == Tenure(by)
         IN /\ t.quarters = Streaks(by)
            /\ SumFunction(t.holders) = Cardinality(DOMAIN t.quarters)
            /\ SumFunction(t.shares) = TotalShares(ShareVector(by[1]))
<1> DEFINE s == Streaks(by)
           v == ShareVector(by[1])
           In(b) == {m \in DOMAIN s : BandOf(s[m]) = b}
           holders == [b \in DOMAIN Bands |-> Cardinality(In(b))]
           shares == [b \in DOMAIN Bands |-> SumFunctionOnSet(v, In(b))]
           band == [m \in DOMAIN s |-> BandOf(s[m])]
           B == DOMAIN Bands
<1>1. Tenure(by).quarters = s /\ Tenure(by).holders = holders /\ Tenure(by).shares = shares
  BY DEF Tenure
<1>2. DOMAIN s = DOMAIN v /\ IsFiniteSet(DOMAIN s) /\ \A m \in DOMAIN s : v[m] \in Int
  <2>1. DOMAIN s = Present(by[1])
    BY RegistersAre, StreakIs
  <2>2. DOMAIN v = Present(by[1]) /\ IsFiniteSet(DOMAIN v) /\ \A m \in DOMAIN v : v[m] \in Nat
    BY RegistersAre, Vector
  <2> HIDE DEF s, v
  <2> QED BY <2>1, <2>2
<1>3. B = 1 .. 4 /\ IsFiniteSet(B)
  <2>1. B = 1 .. 4
    BY DEF Bands
  <2>2. IsFiniteSet(1 .. 4)
    <3>1. 4 \in Int
      OBVIOUS
    <3> QED BY <3>1, UptoFinite, Zenon
  <2> QED BY <2>1, <2>2, Zenon
<1>4. \A m \in DOMAIN s : band[m] \in B /\ band[m] = BandOf(s[m])
  <2>1. \A m \in DOMAIN s : s[m] \in Nat /\ s[m] > 0
    <3>1. \A m \in DOMAIN s : s[m] \in 1 .. Len(by)
      BY RegistersAre, StreakIs
    <3> HIDE DEF s
    <3> QED BY <3>1, RegistersAre
  <2> HIDE DEF s, B
  <2> QED BY <1>3, <2>1, BandIs
<1>5. \A b \in B : OfKey(band, DOMAIN s, b) = In(b)
  <2> HIDE DEF s, B
  <2> QED BY <1>4 DEF OfKey
<1>6. \A b \in B : holders[b] = Cardinality(OfKey(band, DOMAIN s, b))
  <2> HIDE DEF s, v, In
  <2> QED BY <1>5
<1>12. \A b \in B : shares[b] = SumFunctionOnSet(v, OfKey(band, DOMAIN s, b))
  <2> HIDE DEF s, v, In
  <2> QED BY <1>5
<1>13. \A m \in DOMAIN s : band[m] \in B
  BY <1>4
<1>14. IsFiniteSet(B) /\ IsFiniteSet(DOMAIN s) /\ \A m \in DOMAIN s : v[m] \in Int
  BY <1>2, <1>3
<1>7. DOMAIN holders = B /\ DOMAIN shares = B
  OBVIOUS
<1> HIDE DEF s, v, B, holders, shares, band
<1>8. SumFunctionOnSet(holders, B) = Cardinality(DOMAIN s)
  BY <1>13, <1>14, <1>6, CountByKey
<1>9. SumFunctionOnSet(v, DOMAIN s) = SumFunctionOnSet(shares, B)
  BY <1>13, <1>14, <1>12, SumByKey
<1>10. SumFunction(holders) = SumFunctionOnSet(holders, B) /\ SumFunction(shares) = SumFunctionOnSet(shares, B)
  BY <1>7 DEF SumFunction
<1>11. TotalShares(v) = SumFunctionOnSet(v, DOMAIN s)
  BY <1>2 DEF TotalShares, SumFunction
<1> QED BY <1>1, <1>8, <1>9, <1>10, <1>11 DEF s, v

(* Stable capital is at most all capital: no weight exceeds 4              *)
(* (stable_capital).                                                       *)
LEMMA StableHolds ==
  ASSUME NEW by, Registers(by), by # <<>>, Tenure(by).status = "ok"
  PROVE  StableCapital(by).stable <= 4 * TotalShares(ShareVector(by[1]))
<1> DEFINE v == ShareVector(by[1])
           q == Tenure(by).quarters
           w == [m \in DOMAIN v |-> v[m] * BandWeights[BandOf(q[m])]]
           v4 == [m \in DOMAIN v |-> 4 * v[m]]
<1>1. StableCapital(by).stable = SumFunction(w)
  BY DEF StableCapital
<1>2. IsFiniteSet(DOMAIN v) /\ \A m \in DOMAIN v : v[m] \in Nat
  BY RegistersAre, Vector
<1>3. \A m \in DOMAIN v : BandOf(q[m]) \in 1 .. 4
  <2>1. q = Streaks(by)
    BY DEF Tenure
  <2>2. DOMAIN q = Present(by[1]) /\ \A m \in DOMAIN q : q[m] \in 1 .. Len(by)
    BY <2>1, RegistersAre, StreakIs
  <2>3. DOMAIN v = Present(by[1])
    BY RegistersAre, Vector
  <2> HIDE DEF q, v
  <2> QED BY <2>2, <2>3, BandIs, RegistersAre
<1> HIDE DEF v, q
<1>4. ASSUME NEW m \in DOMAIN v PROVE w[m] \in Int /\ v4[m] \in Int /\ w[m] <= v4[m]
  <2>1. PICK c : c = BandWeights[BandOf(q[m])]
    OBVIOUS
  <2>2. c \in {0, 1, 2, 4}
    BY <2>1, <1>3 DEF BandWeights
  <2>3. v[m] \in Nat /\ w[m] = v[m] * c /\ v4[m] = 4 * v[m]
    BY <1>2, <2>1
  <2> QED BY <2>2, <2>3
<1>5. SumFunction(w) = SumFunctionOnSet(w, DOMAIN v)
  BY DEF SumFunction
<1>6. \A m \in DOMAIN v : v4[m] = 4 * v[m] /\ v[m] \in Int
  BY <1>2
<1> HIDE DEF w, v4
<1>7. SumFunctionOnSet(w, DOMAIN v) <= SumFunctionOnSet(v4, DOMAIN v)
  BY <1>2, <1>4, SumAtMost
<1>8. SumFunctionOnSet(v4, DOMAIN v) = 4 * SumFunctionOnSet(v, DOMAIN v)
  BY <1>2, <1>6, SumTimes
<1> QED BY <1>1, <1>5, <1>7, <1>8 DEF v, TotalShares, SumFunction

(* Who was retained is who has a tenure of two quarters.                   *)
LEMMA TurnoverAgrees ==
  ASSUME NEW by, Registers(by), Len(by) >= 2, Turnover(by[1], by[2]).status = "ok"
  PROVE  LET t == Turnover(by[1], by[2])
             s == Streaks(by)
             Longer == {m \in DOMAIN s : s[m] >= 2}
         IN /\ t.retained = Cardinality(Longer)
            /\ t.entrants = Cardinality(DOMAIN s \ Longer)
            /\ t.prior = t.retained + t.exits
<1> DEFINE t == Turnover(by[1], by[2])
           s == Streaks(by)
           Longer == {m \in DOMAIN s : s[m] >= 2}
           now == Present(by[1])
           was == Present(by[2])
<1>1. /\ t.retained = Cardinality(now \cap was) /\ t.entrants = Cardinality(now \ was)
      /\ t.exits = Cardinality(was \ now) /\ t.prior = Cardinality(was)
  BY DEF Turnover
<1>2. by # <<>> /\ Len(by) \in Nat /\ IsFiniteSet(now) /\ IsFiniteSet(was)
  <2>1. by # <<>> /\ Len(by) \in Nat
    BY DEF Registers
  <2> HIDE DEF now, was
  <2> QED BY <2>1, RegistersAre DEF now, was
<1>3. /\ DOMAIN s = now
      /\ \A m \in DOMAIN s : /\ s[m] \in 1 .. Len(by)
                             /\ \A i \in 1 .. s[m] : m \in Present(by[i])
                             /\ \A k \in 1 .. Len(by) :
                                  (\A i \in 1 .. k : m \in Present(by[i])) => k <= s[m]
  BY <1>2, RegistersAre, StreakIs
<1> HIDE DEF s, t
<1>4. ASSUME NEW m \in now PROVE s[m] >= 2 <=> m \in was
  <2>1. ASSUME s[m] >= 2 PROVE m \in was
    BY <1>2, <1>3, <2>1
  <2>2. ASSUME m \in was PROVE s[m] >= 2
    <3>1. \A i \in 1 .. 2 : m \in Present(by[i])
      BY <2>2
    <3> QED BY <1>2, <1>3, <3>1
  <2> QED BY <2>1, <2>2
<1>5. Longer = now \cap was /\ DOMAIN s \ Longer = now \ was
  BY <1>3, <1>4
<1>6. Cardinality(was \ now) = Cardinality(was) - Cardinality(was \cap now)
      /\ Cardinality(was \cap now) \in Nat /\ Cardinality(was) \in Nat
  BY <1>2, FS_Difference, FS_Intersection, FS_CardinalityType
<1>7. now \cap was = was \cap now
  OBVIOUS
<1>8. /\ Cardinality(Longer) = Cardinality(now \cap was)
      /\ Cardinality(DOMAIN s \ Longer) = Cardinality(now \ was)
      /\ Cardinality(now \cap was) = Cardinality(was \cap now)
  BY <1>5, <1>7, Zenon
<1> HIDE DEF Longer, now, was
<1>9. t.prior = t.retained + t.exits
  BY <1>1, <1>6, <1>8
<1> QED BY <1>1, <1>8, <1>9 DEF t, s, Longer

----------------------------------------------------------------------------
\* Retention: the cohorts.

\* The least of finitely many naturals is one of them.
LEMMA MinIs ==
  ASSUME NEW S, S \subseteq Nat, S # {}
  PROVE  Min(S) \in S /\ \A x \in S : Min(S) <= x
<1>1. PICK x \in S : \A y \in S : x <= y
  BY LeastNat
<1> QED BY <1>1 DEF Min

(* Each manager of the newest register is a survivor of one cohort.        *)
Oldest(by) == [i \in DOMAIN by |-> Present(Reverse(by)[i])]
Cohort(p, i) == p[i] \ UNION {p[j] : j \in 1 .. i - 1}

LEMMA OldestAre ==
  ASSUME NEW by, Registers(by), by # <<>>, NEW p, p = Oldest(by), NEW n, n = Len(by)
  PROVE  /\ n \in Nat /\ n > 0 /\ DOMAIN p = 1 .. n /\ Len(p) = n
         /\ p[1] = Present(by[n]) /\ p[n] = Present(by[1])
         /\ \A i \in 1 .. n : IsFiniteSet(p[i])
<1>1. n \in Nat /\ n > 0 /\ DOMAIN by = 1 .. n /\ \A i \in 1 .. n : IsFiniteSet(Present(by[i]))
  BY RegistersAre
<1>2. \A i \in 1 .. n : n - i + 1 \in 1 .. n /\ Reverse(by)[i] = by[(n - i) + 1]
  BY <1>1 DEF Reverse
<1>3. \A i \in 1 .. n : p[i] = Present(by[(n - i) + 1])
  BY <1>1, <1>2 DEF Oldest
<1>4. p = [i \in 1 .. n |-> Present(Reverse(by)[i])]
  BY <1>1 DEF Oldest
<1>5. DOMAIN p = 1 .. n /\ Len(p) = n
  BY <1>1, <1>4
<1>6. 1 \in 1 .. n /\ n \in 1 .. n /\ (n - 1) + 1 = n /\ (n - n) + 1 = 1
  BY <1>1
<1> QED BY <1>1, <1>2, <1>3, <1>5, <1>6

(* A manager of the newest quarter counts as a survivor in the cohort it   *)
(* entered with, and no other does.                                        *)
LEMMA SurvivorsAre ==
  ASSUME NEW by, Registers(by), by # <<>>, Retention(by).status = "ok", NEW i \in 1 .. Len(by)
  PROVE  LET p == Oldest(by)
             c == Retention(by).cohorts[i]
         IN /\ c.size = Cardinality(Cohort(p, i)) /\ c.size \in Nat
            /\ (IF c.size = 0 THEN 0 ELSE c.survival[Len(by)])
                 = Cardinality(Cohort(p, i) \cap p[Len(by)])
            /\ IsFiniteSet(Cohort(p, i))
<1> DEFINE p == Oldest(by)
           n == Len(by)
           C == Cohort(p, i)
           c == Retention(by).cohorts[i]
<1>1. n \in Nat /\ n > 0 /\ DOMAIN p = 1 .. n /\ Len(p) = n /\ IsFiniteSet(p[i]) /\ IsFiniteSet(p[n])
  BY OldestAre
<1>2. /\ c.size = Cardinality(C)
      /\ c.survival = [j \in (IF C = {} THEN {} ELSE i .. Len(p)) |-> Cardinality(C \cap p[j])]
  BY <1>1 DEF Retention, Oldest, Cohort
<1>3. IsFiniteSet(C)
  BY <1>1, FS_Difference DEF Cohort
<1> HIDE DEF C, p, n
<1>4. Cardinality(C) \in Nat /\ (Cardinality(C) = 0 <=> C = {})
  BY <1>3, FS_CardinalityType, FS_EmptySet
<1>5. CASE C = {}
  <2>1. C \cap p[n] = {}
    BY <1>5
  <2>2. Cardinality(C \cap p[n]) = 0
    BY <2>1, FS_EmptySet
  <2> QED BY <1>2, <1>3, <1>4, <1>5, <2>2 DEF C, p, n
<1>6. CASE C # {}
  <2>1. c.size # 0
    BY <1>2, <1>4, <1>6
  <2>2. n \in i .. Len(p)
    BY <1>1 DEF n
  <2>3. c.survival[n] = Cardinality(C \cap p[n])
    BY <1>2, <1>6, <2>2
  <2> QED BY <1>2, <1>3, <1>4, <2>1, <2>3 DEF C, p, n
<1> QED BY <1>5, <1>6

(* The survivors of all cohorts are the newest managers, those there all   *)
(* along are of the first (retention).                                     *)
LEMMA RetentionHolds ==
  ASSUME NEW by, Registers(by), by # <<>>, Retention(by).status = "ok"
  PROVE  LET s == Streaks(by)
             n == Len(by)
             r == Retention(by)
             Survivors(i) == IF r.cohorts[i].size = 0 THEN 0 ELSE r.cohorts[i].survival[n]
         IN /\ SumFunction([i \in 1 .. n |-> Survivors(i)]) = Cardinality(DOMAIN s)
            /\ \A i \in 1 .. n : Survivors(i) <= r.cohorts[i].size
            /\ Cardinality({m \in DOMAIN s : s[m] = n}) <= Survivors(1)
<1> DEFINE s == Streaks(by)
           n == Len(by)
           r == Retention(by)
           p == Oldest(by)
           Survivors(i) == IF r.cohorts[i].size = 0 THEN 0 ELSE r.cohorts[i].survival[n]
           now == p[n]
           first == [m \in now |-> Min({i \in 1 .. n : m \in p[i]})]
           u == [i \in 1 .. n |-> Survivors(i)]
<1>1. n \in Nat /\ n > 0 /\ DOMAIN p = 1 .. n /\ p[1] = Present(by[n]) /\ now = Present(by[1])
      /\ \A i \in 1 .. n : IsFiniteSet(p[i])
  BY OldestAre
<1>2. \A i \in 1 .. n : /\ r.cohorts[i].size = Cardinality(Cohort(p, i))
                        /\ Survivors(i) = Cardinality(Cohort(p, i) \cap now)
                        /\ IsFiniteSet(Cohort(p, i))
  BY SurvivorsAre
<1>3. DOMAIN s = now /\ \A m \in DOMAIN s : s[m] \in 1 .. n /\ \A i \in 1 .. s[m] : m \in Present(by[i])
  <2>1. DOMAIN s = Present(by[1]) /\ \A m \in DOMAIN s : s[m] \in 1 .. n /\ \A i \in 1 .. s[m] : m \in Present(by[i])
    BY <1>1, StreakIs
  <2> HIDE DEF s, n, p
  <2> QED BY <1>1, <2>1
<1> HIDE DEF s, n, r, p, Survivors
<1>4. ASSUME NEW m \in now
      PROVE  first[m] \in 1 .. n /\ \A i \in 1 .. n : first[m] = i <=> m \in Cohort(p, i)
  <2> DEFINE T == {i \in 1 .. n : m \in p[i]}
  <2>1. T \subseteq Nat /\ n \in T
    BY <1>1
  <2>2. Min(T) \in T /\ \A x \in T : Min(T) <= x
    BY <2>1, MinIs
  <2>3. first[m] \in 1 .. n /\ m \in p[first[m]] /\ \A x \in 1 .. n : m \in p[x] => first[m] <= x
    BY <2>2
  <2> HIDE DEF first, T
  <2>4. ASSUME NEW i \in 1 .. n, m \in Cohort(p, i) PROVE first[m] = i
    <3>1. m \in p[i] /\ \A j \in 1 .. i - 1 : m \notin p[j]
      BY <2>4 DEF Cohort
    <3> QED BY <1>1, <2>3, <3>1
  <2>5. m \in Cohort(p, first[m])
    <3>1. \A j \in 1 .. first[m] - 1 : m \notin p[j]
      BY <1>1, <2>3
    <3> QED BY <2>3, <3>1 DEF Cohort
  <2> QED BY <2>3, <2>4, <2>5
<1>5. IsFiniteSet(now) /\ IsFiniteSet(1 .. n)
  <2>1. IsFiniteSet(1 .. n)
    <3>1. n \in Int
      BY <1>1
    <3> QED BY <3>1, UptoFinite, Zenon
  <2> QED BY <1>1, <2>1
<1> HIDE DEF first, now
<1>6. \A i \in 1 .. n : u[i] = Cardinality(OfKey(first, now, i))
  <2>1. ASSUME NEW i \in 1 .. n PROVE OfKey(first, now, i) = Cohort(p, i) \cap now
    BY <1>4 DEF OfKey
  <2>2. ASSUME NEW i \in 1 .. n PROVE u[i] = Cardinality(OfKey(first, now, i))
    <3>1. Cardinality(OfKey(first, now, i)) = Cardinality(Cohort(p, i) \cap now)
      BY <2>1, Zenon
    <3> QED BY <1>2, <3>1
  <2> QED BY <2>2
<1>7. SumFunction(u) = SumFunctionOnSet(u, 1 .. n)
  BY DEF SumFunction
<1>8. SumFunctionOnSet(u, 1 .. n) = Cardinality(now)
  <2>1. PICK T : T = 1 .. n
    OBVIOUS
  <2>2. IsFiniteSet(T) /\ \A m \in now : first[m] \in T
    BY <1>4, <1>5, <2>1
  <2>3. \A i \in T : u[i] = Cardinality(OfKey(first, now, i))
    BY <1>6, <2>1
  <2> HIDE DEF u
  <2>4. SumFunctionOnSet(u, T) = Cardinality(now)
    BY <1>5, <2>2, <2>3, CountByKey
  <2> QED BY <2>1, <2>4
<1>9. \A i \in 1 .. n : Survivors(i) <= r.cohorts[i].size
  BY <1>2, FS_Intersection
<1>10. Cardinality({m \in DOMAIN s : s[m] = n}) <= Survivors(1)
  <2> DEFINE L == {m \in DOMAIN s : s[m] = n}
  <2>1. 1 \in 1 .. n /\ n \in 1 .. n
    BY <1>1
  <2>2. L \subseteq Cohort(p, 1) \cap now
    <3>1. ASSUME NEW m \in L PROVE m \in p[1] /\ m \in now
      BY <1>1, <1>3, <2>1
    <3>2. Cohort(p, 1) = p[1]
      BY DEF Cohort
    <3> QED BY <3>1, <3>2
  <2>3. IsFiniteSet(Cohort(p, 1) \cap now)
    BY <1>5, FS_Intersection
  <2> HIDE DEF L
  <2>4. Cardinality(L) <= Cardinality(Cohort(p, 1) \cap now)
    BY <2>2, <2>3, FS_Subset
  <2> QED BY <1>2, <2>1, <2>4 DEF L
<1>11. SumFunction(u) = Cardinality(DOMAIN s)
  BY <1>3, <1>7, <1>8
<1> QED BY <1>9, <1>10, <1>11 DEF s, n, r, Survivors

----------------------------------------------------------------------------
\* The state: the inductive invariant.

\* A manager's rows of one quarter are of one cover page.
OnePlace(R) == \A g, h \in R : g.manager = h.manager => g.place = h.place
Holders(R) == Rows(R) /\ OnePlace(R)

ReportRows(s) ==
  /\ DOMAIN s = DOMAIN NoReport /\ IsFiniteSet(s.rows)
  /\ \A w \in s.rows : w.shares \in Int /\ w.shares >= NoCount
Kept ==
  /\ DOMAIN snapshots = Managers
  /\ \A m \in Managers : DOMAIN snapshots[m] = Quarters
  /\ \A m \in Managers, q \in Quarters : ReportRows(snapshots[m][q])

IsSeq(s) == s \in Seq({s[i] : i \in DOMAIN s})
ReadsOf(k) == IF k = "activity" THEN 2 ELSE 1
Asking ==
  /\ DOMAIN request = DOMAIN NoRequest
  /\ IsSeq(request.got)
  /\ \A i \in DOMAIN request.got : Holders(request.got[i])
Counted ==
  request.kind \in {"activity", "register"} =>
    /\ request.phase = "holders"
    /\ IsSeq(request.reads)
    /\ Len(request.got) + Len(request.reads) = ReadsOf(request.kind)
AskedOf == request.phase = "prior" => request.kind = "manager" /\ request.peers[1] \in Managers
IInv == Kept /\ Asking /\ Counted /\ AskedOf

LEMMA SeqsAre ==
  /\ IsSeq(<<>>) /\ \A a : IsSeq(<<a>>) /\ Len(<<a>>) = 1
  /\ \A a, b : IsSeq(<<a, b>>) /\ Len(<<a, b>>) = 2
BY DEF IsSeq

\* Any sequence is one over its own elements.
LEMMA InSeq ==
  ASSUME NEW S, NEW t \in Seq(S)
  PROVE  IsSeq(t)
BY DEF IsSeq

\* A sequence loses its head.
LEMMA TailIs ==
  ASSUME NEW s, IsSeq(s), s # <<>>
  PROVE  IsSeq(Tail(s)) /\ Len(Tail(s)) = Len(s) - 1 /\ Len(s) \in Nat
<1> DEFINE S == {s[i] : i \in DOMAIN s}
<1>1. s \in Seq(S)
  BY DEF IsSeq
<1> HIDE DEF S
<1>2. Tail(s) \in Seq(S) /\ Len(Tail(s)) = Len(s) - 1 /\ Len(s) \in Nat
  BY <1>1
<1>3. IsSeq(Tail(s))
  BY <1>2, InSeq
<1> QED BY <1>2, <1>3

\* The rows of one report are finitely many, of one manager and place.
LEMMA ReportIs ==
  ASSUME NEW m, NEW q, NEW s, s = IF Stored(m, q) THEN snapshots[m][q] ELSE NoReport,
         ReportRows(s)
  PROVE  /\ IsFiniteSet(GetSnapshot(m, q))
         /\ \A h \in GetSnapshot(m, q) :
              h.manager = m /\ h.place = s.place /\ h.shares \in Int /\ h.shares >= NoCount
<1> DEFINE as == [w \in s.rows |->
       [manager |-> m, line |-> w.line, cusip |-> w.cusip, shares |-> w.shares, kind |-> w.kind,
        place |-> s.place, filed |-> s.filed, amendment |-> s.amendment]]
<1>1. GetSnapshot(m, q) = {as[w] : w \in s.rows}
  BY DEF GetSnapshot
<1>2. DOMAIN as = s.rows /\ IsFiniteSet(DOMAIN as)
  BY DEF ReportRows
<1>3. \A w \in s.rows : as[w].manager = m /\ as[w].place = s.place
                        /\ as[w].shares \in Int /\ as[w].shares >= NoCount
  BY DEF ReportRows
<1> HIDE DEF as
<1>4. IsFiniteSet({as[w] : w \in DOMAIN as})
  BY <1>2, FiniteImage
<1> QED BY <1>1, <1>2, <1>3, <1>4

\* get_snapshot gives such rows, of no report too.
LEMMA SnapshotIs ==
  ASSUME Kept, NEW m \in Managers, NEW q
  PROVE  Holders(GetSnapshot(m, q)) /\ \A h \in GetSnapshot(m, q) : h.manager = m
<1> DEFINE s == IF Stored(m, q) THEN snapshots[m][q] ELSE NoReport
<1>1. ReportRows(NoReport)
  BY FS_EmptySet DEF ReportRows, NoReport
<1>2. ReportRows(s)
  BY <1>1 DEF Kept, Stored
<1> HIDE DEF s
<1>3. /\ IsFiniteSet(GetSnapshot(m, q))
      /\ \A h \in GetSnapshot(m, q) :
           h.manager = m /\ h.place = s.place /\ h.shares \in Int /\ h.shares >= NoCount
  BY <1>2, ReportIs DEF s
<1> QED BY <1>3 DEF Holders, Rows, OnePlace

\* get_holders_by_cusips gives rows of one place a manager.
LEMMA HoldersOfAre ==
  ASSUME Kept, NEW cusips, NEW q
  PROVE  Holders(HoldersOf(cusips, q))
<1> DEFINE of == [m \in Managers |-> GetSnapshot(m, q)]
           A == UNION {of[m] : m \in DOMAIN of}
<1>1. DOMAIN of = Managers /\ IsFiniteSet(DOMAIN of)
  BY RegisterAssumption
<1>2. \A m \in Managers : of[m] = GetSnapshot(m, q)
  OBVIOUS
<1>3. HoldersOf(cusips, q) = {h \in A : h.cusip \in cusips}
  BY DEF HoldersOf
<1> HIDE DEF of
<1>4. \A m \in Managers : Holders(of[m]) /\ \A h \in of[m] : h.manager = m
  BY <1>2, SnapshotIs
<1>5. IsFiniteSet(A)
  <2>1. IsFiniteSet({of[m] : m \in DOMAIN of})
    BY <1>1, FiniteImage
  <2>2. \A T \in {of[m] : m \in DOMAIN of} : IsFiniteSet(T)
    BY <1>1, <1>4 DEF Holders, Rows
  <2> QED BY <2>1, <2>2, FS_UNION
<1>6. HoldersOf(cusips, q) \subseteq A
  BY <1>3
<1>7. IsFiniteSet(HoldersOf(cusips, q))
  BY <1>5, <1>6, FS_Subset
<1>8. \A h \in A : h.manager \in Managers /\ h \in of[h.manager]
  BY <1>1, <1>4
<1>9. \A h \in HoldersOf(cusips, q) : h.shares \in Int /\ h.shares >= NoCount
  BY <1>4, <1>6, <1>8 DEF Holders, Rows
<1>10. OnePlace(HoldersOf(cusips, q))
  BY <1>4, <1>6, <1>8 DEF Holders, OnePlace
<1> QED BY <1>7, <1>9, <1>10 DEF Holders, Rows

\* A register read is added to those read before.
LEMMA GotMore ==
  ASSUME NEW g, IsSeq(g), \A i \in DOMAIN g : Holders(g[i]),
         NEW R, Holders(R), NEW a, a = Append(g, R)
  PROVE  /\ IsSeq(a) /\ Len(a) = Len(g) + 1 /\ Len(g) \in Nat
         /\ \A i \in DOMAIN a : Holders(a[i])
<1> DEFINE S == {g[i] : i \in DOMAIN g} \cup {R}
<1>1. g \in Seq(S)
  BY DEF IsSeq
<1> HIDE DEF S
<1>2. a \in Seq(S) /\ Len(a) = Len(g) + 1
      /\ \A i \in 1 .. Len(a) : a[i] = IF i = Len(g) + 1 THEN R ELSE g[i]
  BY <1>1 DEF S
<1>3. \A i \in DOMAIN a : Holders(a[i])
  BY <1>1, <1>2
<1>4. IsSeq(a)
  BY <1>2 DEF IsSeq
<1>5. Len(g) \in Nat
  BY <1>1
<1> QED BY <1>2, <1>3, <1>4, <1>5

\* At first nothing is stored or asked.
LEMMA InitHolds == Init => IInv
<1> SUFFICES ASSUME Init PROVE IInv
  OBVIOUS
<1>1. ReportRows(NoReport)
  BY FS_EmptySet DEF ReportRows, NoReport
<1>2. Kept
  BY <1>1 DEF Init, Kept
<1>3. Asking /\ Counted /\ AskedOf
  BY SeqsAre DEF Init, NoRequest, Asking, Counted, AskedOf
<1> QED BY <1>2, <1>3 DEF IInv

\* A report stored, or given a place, is typed.
LEMMA StoreHolds ==
  ASSUME IInv, NEW m \in Managers, NEW q \in Quarters, Upsert(m, q) \/ Locate(m, q)
  PROVE  IInv'
<1>1. request' = request /\ (Asking /\ Counted /\ AskedOf)'
  BY DEF IInv, Asking, Counted, AskedOf, Upsert, Locate
<1>2. PICK s : snapshots' = [snapshots EXCEPT ![m][q] = s] /\ ReportRows(s)
  <2>1. CASE Upsert(m, q)
    <3>1. PICK r \in Reports : snapshots' = [snapshots EXCEPT ![m][q] = r]
      BY <2>1 DEF Upsert
    <3>2. ReportRows(r)
      BY RegisterAssumption DEF ReportRows
    <3> QED BY <3>1, <3>2
  <2>2. CASE Locate(m, q)
    <3> DEFINE o == snapshots[m][q]
    <3>1. PICK p \in Places : snapshots' = [snapshots EXCEPT ![m][q].place = p]
      BY <2>2 DEF Locate
    <3>2. ReportRows(o)
      BY DEF IInv, Kept
    <3>3. ReportRows([o EXCEPT !.place = p])
      BY <3>2 DEF ReportRows, NoReport
    <3>4. snapshots' = [snapshots EXCEPT ![m][q] = [o EXCEPT !.place = p]]
      BY <3>1
    <3> QED BY <3>3, <3>4
  <2> QED BY <2>1, <2>2
<1>3. Kept'
  BY <1>2 DEF IInv, Kept
<1> QED BY <1>1, <1>3 DEF IInv

\* No step of the backfill or of an endpoint breaks the invariant.
LEMMA StepHolds == IInv /\ [Next]_vars => IInv'
<1> SUFFICES ASSUME IInv, [Next]_vars PROVE IInv'
  OBVIOUS
<1>0. Kept /\ Asking /\ Counted /\ AskedOf
  BY DEF IInv
<1>1. ASSUME NEW m \in Managers, NEW q \in Quarters, Upsert(m, q) \/ Locate(m, q) PROVE IInv'
  BY <1>1, StoreHolds
<1>2. ASSUME UNCHANGED snapshots PROVE Kept'
  BY <1>0, <1>2 DEF Kept
\* A step that reads nothing, of a request counted neither before nor after.
<1>a. ASSUME DOMAIN request' = DOMAIN NoRequest, request'.kind = request.kind, request'.got = request.got,
             request.kind \notin {"activity", "register"}, request'.phase # "prior"
      PROVE  (Asking /\ Counted /\ AskedOf)'
  BY <1>0, <1>a DEF Asking, Counted, AskedOf
<1>3. ASSUME NEW m \in Managers, NEW q \in Quarters, AskManager(m, q) PROVE IInv'
  <2>1. Kept'
    BY <1>2, <1>3 DEF AskManager
  <2>2. Holders(GetSnapshot(m, q))
    BY <1>0, SnapshotIs
  <2> DEFINE R == GetSnapshot(m, q)
  <2>3. /\ DOMAIN request' = DOMAIN NoRequest /\ request'.kind = "manager" /\ request'.got = <<R>>
        /\ request'.peers = <<m>>
    BY <1>3 DEF AskManager, NoRequest
  <2> HIDE DEF R
  <2>4. (Asking /\ Counted /\ AskedOf)'
    BY <2>2, <2>3, SeqsAre DEF Asking, Counted, AskedOf, R
  <2> QED BY <2>1, <2>4 DEF IInv
<1>4. ASSUME NEW c \in Cusips, Resolve(c) PROVE IInv'
  BY <1>0, <1>2, <1>4 DEF Resolve, IInv, Asking, Counted, AskedOf
<1>5. ASSUME NEW k \in Asked, NEW q \in Quarters, Ask(k, q) PROVE IInv'
  <2>1. Kept'
    BY <1>2, <1>5 DEF Ask
  <2> DEFINE R == FirstReads(k, CusipsFor(Focus), q)
  <2>2. /\ DOMAIN request' = DOMAIN NoRequest /\ request'.kind = k /\ request'.got = <<>>
        /\ request'.reads = R
        /\ request'.phase = IF k \in OverQuarters THEN "periods" ELSE "holders"
    BY <1>5 DEF Ask, NoRequest
  <2>3. Asking' /\ AskedOf'
    BY <2>2, SeqsAre DEF Asking, AskedOf
  <2>4. k \in {"activity", "register"} => IsSeq(R) /\ Len(R) = ReadsOf(k) /\ k \notin OverQuarters
    <3>1. CASE k = "activity"
      <4> DEFINE a == Read(CusipsFor(Focus), q)  b == Read(CusipsFor(Focus), PriorQuarterEnd(q))
      <4>1. R = <<a, b>>
        BY <3>1 DEF FirstReads, OverQuarters
      <4> HIDE DEF a, b, R
      <4> QED BY <3>1, <4>1, SeqsAre DEF ReadsOf, OverQuarters
    <3>2. CASE k = "register"
      <4> DEFINE a == Read(CusipsFor(Focus), q)
      <4>1. R = <<a>>
        BY <3>2 DEF FirstReads, OverQuarters
      <4> HIDE DEF a, R
      <4> QED BY <3>2, <4>1, SeqsAre DEF ReadsOf, OverQuarters
    <3> QED BY <3>1, <3>2
  <2> HIDE DEF R
  <2>5. Counted'
    <3>1. \A n \in Nat : Len(<<>>) + n = n
      OBVIOUS
    <3>2. ReadsOf(k) \in Nat
      BY DEF ReadsOf
    <3> QED BY <2>2, <2>4, <3>1, <3>2 DEF Counted
  <2> QED BY <2>1, <2>3, <2>5 DEF IInv
<1>6. ASSUME SeePeriods PROVE IInv'
  <2>1. Kept'
    BY <1>2, <1>6 DEF SeePeriods
  <2>2. /\ DOMAIN request' = DOMAIN NoRequest /\ request'.kind = request.kind /\ request'.got = request.got
        /\ request.phase = "periods" /\ request'.phase = "holders"
    BY <1>0, <1>6 DEF SeePeriods, NoRequest, Asking
  <2> QED BY <1>0, <1>a, <2>1, <2>2 DEF IInv, Counted
<1>7. ASSUME SeeHolders PROVE IInv'
  <2> DEFINE R == HoldersOf(Head(request.reads).cusips, Head(request.reads).quarter)
  <2>1. Kept' /\ Holders(R)
    BY <1>0, <1>2, <1>7, HoldersOfAre DEF SeeHolders
  <2> HIDE DEF R
  <2>2. /\ DOMAIN request' = DOMAIN NoRequest /\ request'.kind = request.kind
        /\ request'.got = Append(request.got, R) /\ request'.reads = Tail(request.reads)
        /\ request'.phase = request.phase /\ request'.peers = request.peers /\ request.reads # <<>>
    BY <1>0, <1>7 DEF SeeHolders, NoRequest, Asking, R
  <2> DEFINE g == request.got  a == request'.got
  <2>3. IsSeq(g) /\ \A i \in DOMAIN g : Holders(g[i])
    BY <1>0 DEF Asking
  <2>4. a = Append(g, R)
    BY <2>2
  <2> HIDE DEF g, a
  <2>5. IsSeq(a) /\ Len(a) = Len(g) + 1 /\ Len(g) \in Nat /\ \A i \in DOMAIN a : Holders(a[i])
    BY <2>1, <2>3, <2>4, GotMore
  <2>6. Asking' /\ AskedOf'
    BY <1>0, <2>2, <2>5 DEF Asking, AskedOf, a
  <2>7. Counted'
    <3>1. SUFFICES ASSUME request.kind \in {"activity", "register"}
                   PROVE  /\ request'.phase = "holders" /\ IsSeq(request'.reads)
                          /\ Len(a) + Len(request'.reads) = ReadsOf(request.kind)
      BY <2>2 DEF Counted, a
    <3>2. request.phase = "holders" /\ IsSeq(request.reads) /\ Len(g) + Len(request.reads) = ReadsOf(request.kind)
      BY <1>0, <3>1 DEF Counted, g
    <3>3. Len(request'.reads) = Len(request.reads) - 1 /\ Len(request.reads) \in Nat /\ IsSeq(request'.reads)
      BY <2>2, <3>2, TailIs
    <3>4. Len(a) + Len(request'.reads) = Len(g) + Len(request.reads)
      <4> DEFINE x == Len(g)  y == Len(request.reads)  z == Len(a)  w == Len(request'.reads)
      <4>1. x \in Nat /\ y \in Nat /\ z = x + 1 /\ w = y - 1
        BY <2>5, <3>3
      <4> HIDE DEF x, y, z, w
      <4>2. z + w = x + y
        BY <4>1
      <4> QED BY <4>2 DEF x, y, z, w
    <3> QED BY <2>2, <3>2, <3>3, <3>4
  <2> QED BY <2>1, <2>6, <2>7 DEF IInv
<1>8. ASSUME SeePeers PROVE IInv'
  <2>1. Kept'
    BY <1>2, <1>8 DEF SeePeers
  <2>2. /\ DOMAIN request' = DOMAIN NoRequest /\ request'.kind = request.kind /\ request'.got = request.got
        /\ request.kind = "peers" /\ request'.phase = "peers"
    BY <1>0, <1>8 DEF SeePeers, NoRequest, Asking
  <2> QED BY <1>a, <2>1, <2>2 DEF IInv
<1>9. ASSUME SeeCusipSets PROVE IInv'
  <2>1. Kept'
    BY <1>2, <1>9 DEF SeeCusipSets
  <2>2. /\ DOMAIN request' = DOMAIN NoRequest /\ request'.kind = request.kind /\ request'.got = request.got
        /\ request.kind = "coholding" /\ request'.phase = "sets"
    BY <1>0, <1>9 DEF SeeCusipSets, NoRequest, Asking
  <2> QED BY <1>a, <2>1, <2>2 DEF IInv
<1>10. ASSUME SeePrior PROVE IInv'
  <2> DEFINE R == GetSnapshot(request.peers[1], PriorQuarterEnd(request.period))
  <2>1. Kept' /\ Holders(R)
    BY <1>0, <1>2, <1>10, SnapshotIs DEF SeePrior, AskedOf
  <2> HIDE DEF R
  <2>2. /\ DOMAIN request' = DOMAIN NoRequest /\ request'.kind = request.kind
        /\ request'.got = Append(request.got, R) /\ request'.phase = "read" /\ request.kind = "manager"
    BY <1>0, <1>10 DEF SeePrior, NoRequest, Asking, AskedOf, R
  <2> DEFINE g == request.got  a == request'.got
  <2>3. IsSeq(g) /\ \A i \in DOMAIN g : Holders(g[i])
    BY <1>0 DEF Asking
  <2>4. a = Append(g, R)
    BY <2>2
  <2> HIDE DEF g, a
  <2>5. IsSeq(a) /\ \A i \in DOMAIN a : Holders(a[i])
    BY <2>1, <2>3, <2>4, GotMore
  <2>6. (Asking /\ Counted /\ AskedOf)'
    BY <2>2, <2>5 DEF Asking, Counted, AskedOf, a
  <2> QED BY <2>1, <2>6 DEF IInv
<1>11. ASSUME Reply PROVE IInv'
  BY <1>0, <1>2, <1>11, SeqsAre DEF Reply, IInv, Asking, Counted, AskedOf, NoRequest
<1>12. ASSUME UNCHANGED vars PROVE IInv'
  BY <1>0, <1>12 DEF vars, IInv, Kept, Asking, Counted, AskedOf
<1> QED BY <1>1, <1>3, <1>4, <1>5, <1>6, <1>7, <1>8, <1>9, <1>10, <1>11, <1>12 DEF Next

(* For any managers, reports and requests: what is stored and read stays   *)
(* typed, and a request has read just what its kind needs when it is       *)
(* answered (upsert_snapshot, get_holders_by_cusips, the endpoints).       *)
THEOREM InvariantHolds == Spec => []IInv
BY InitHolds, StepHolds, PTL DEF Spec

\* So the registers an answer is made from are all there.
LEMMA GotIs ==
  ASSUME IInv, Ready, request.kind \in {"activity", "register", "shape"}
  PROVE  /\ IsSeq(request.got) /\ \A i \in DOMAIN request.got : Holders(request.got[i])
         /\ request.kind \in {"activity", "register"} => Len(request.got) = ReadsOf(request.kind)
<1>1. request.reads = <<>>
  BY DEF Ready
<1>2. IsSeq(request.got) /\ \A i \in DOMAIN request.got : Holders(request.got[i])
  BY DEF IInv, Asking
<1>3. Len(request.got) \in Nat
  BY <1>2 DEF IsSeq
<1> QED BY <1>1, <1>2, <1>3 DEF IInv, Counted

(* institutional-activity mirrors the managers' own activity and moves the *)
(* register by its net, for any reports that list a CUSIP once             *)
(* (diff_holders, diff_snapshots, summarize_activity), whatever was stored *)
(* between the reads.                                                      *)
THEOREM FlowsMirrorHolds == Spec => []FlowsMirror
<1>1. IInv => FlowsMirror
  <2> SUFFICES ASSUME IInv, Ready, request.kind = "activity" PROVE FlowsMirror
    BY DEF FlowsMirror
  <2> DEFINE cur == request.got[1]  prior == request.got[2]
  <2>1. IsSeq(request.got) /\ Len(request.got) = 2 /\ \A i \in DOMAIN request.got : Holders(request.got[i])
    BY GotIs DEF ReadsOf
  <2>2. 1 \in DOMAIN request.got /\ 2 \in DOMAIN request.got
    BY <2>1 DEF IsSeq
  <2>3. Rows(cur) /\ Rows(prior)
    BY <2>1, <2>2 DEF Holders
  <2> HIDE DEF cur, prior
  <2>4. ASSUME ListedOnce(cur), ListedOnce(prior)
        PROVE  /\ \A m \in Managers, u \in BOOLEAN :
                    MovesOf(DiffHolders(cur, prior, u), m)
                       = DiffSnapshots(m, HeldBy(cur, m), HeldBy(prior, m), u)
               /\ SummarizeActivity(DiffHolders(cur, prior, FALSE)).net = Total(cur) - Total(prior)
    BY <2>3, <2>4, ManagersView, IssuersView
  <2>5. FlowsMirror <=>
          ((\A R \in {cur, prior} : ListedOnce(R)) =>
             /\ \A m \in Managers, u \in BOOLEAN :
                  MovesOf(DiffHolders(cur, prior, u), m)
                    = DiffSnapshots(m, HeldBy(cur, m), HeldBy(prior, m), u)
             /\ SummarizeActivity(DiffHolders(cur, prior, FALSE)).net = Total(cur) - Total(prior))
    BY Zenon DEF FlowsMirror, Activity, H, cur, prior, MovesOf, HeldBy, ListedOnce
  <2> QED BY <2>4, <2>5, Zenon
<1> QED BY <1>1, InvariantHolds, PTL

----------------------------------------------------------------------------
\* The shape of the register.

(* Turnover, tenure, stable capital and retention of institutional-        *)
(* register-shape fit together, over any number of quarters and whatever   *)
(* was stored between their reads (turnover, holder_tenure,                *)
(* stable_capital, retention).                                             *)
THEOREM ShapeAgreesHolds == Spec => []ShapeAgrees
<1>1. IInv => ShapeAgrees
  <2> SUFFICES ASSUME IInv, Ready, request.kind = "shape", request.got # <<>> PROVE ShapeAgrees
    BY DEF ShapeAgrees
  <2> DEFINE by == request.got
             t == Tenure(by)
             r == Retention(by)
             u == IF Len(by) < 2 THEN [status |-> "na"] ELSE Turnover(by[1], by[2])
             s == Streaks(by)
             Longer == {m \in DOMAIN s : s[m] >= 2}
             n == Len(by)
             Survivors(i) == IF r.cohorts[i].size = 0 THEN 0 ELSE r.cohorts[i].survival[n]
  <2>1. Registers(by) /\ by # <<>> /\ n \in Nat
    BY GotIs DEF Registers, Holders, IsSeq
  <2> HIDE DEF by
  <2>2. ASSUME t.status = "ok"
        PROVE  /\ t.quarters = s
               /\ SumFunction(t.holders) = Cardinality(DOMAIN t.quarters)
               /\ SumFunction(t.shares) = TotalShares(ShareVector(by[1]))
               /\ StableCapital(by).stable <= 4 * TotalShares(ShareVector(by[1]))
    BY <2>1, <2>2, TenureHolds, StableHolds
  <2>3. ASSUME u.status = "ok"
        PROVE  /\ u.retained = Cardinality(Longer)
               /\ u.entrants = Cardinality(DOMAIN s \ Longer)
               /\ u.prior = u.retained + u.exits
    <3>1. n >= 2 /\ u = Turnover(by[1], by[2])
      BY <2>1, <2>3
    <3> QED BY <2>1, <2>3, <3>1, TurnoverAgrees
  <2>4. ASSUME r.status = "ok"
        PROVE  /\ SumFunction([i \in 1 .. n |-> Survivors(i)]) = Cardinality(DOMAIN s)
               /\ \A i \in 1 .. n : Survivors(i) <= r.cohorts[i].size
               /\ Cardinality({m \in DOMAIN s : s[m] = n}) <= Survivors(1)
    BY <2>1, <2>4, RetentionHolds, Zenon
  <2>5. /\ RegisterShape.tenure = t /\ RegisterShape.retention = r /\ RegisterShape.turnover = u
        /\ RegisterShape.stable = StableCapital(by)
    BY DEF RegisterShape, H, by
  <2>6. ASSUME t.status = "ok" PROVE t.quarters = s
    BY <2>2, <2>6
  <2> QED
    <3> HIDE DEF t, r, u, s
    <3> QED BY <2>2, <2>3, <2>4, <2>5, <2>6 DEF ShapeAgrees, H, by
<1> QED BY <1>1, InvariantHolds, PTL

----------------------------------------------------------------------------
\* Ranked lists of a vector: they exist, and have all managers once.

Vec(v) == IsFiniteSet(DOMAIN v) /\ \A m \in DOMAIN v : v[m] \in Nat /\ v[m] > 0

\* Of finitely many there is one of the least weight.
LEMMA LeastOf ==
  ASSUME NEW S, IsFiniteSet(S), S # {}, NEW v, \A m \in S : v[m] \in Int
  PROVE  \E x \in S : \A y \in S : v[x] <= v[y]
<1> DEFINE G == {T \in SUBSET S : T = {} \/ \E x \in T : \A y \in T : v[x] <= v[y]}
<1>1. {} \in G
  OBVIOUS
<1>2. ASSUME NEW T \in SUBSET S, NEW x \in S \ T, T \in G PROVE T \cup {x} \in G
  <2>1. CASE T = {}
    BY <2>1
  <2>2. CASE T # {}
    <3>1. PICK y \in T : \A z \in T : v[y] <= v[z]
      BY <1>2, <2>2
    <3>2. CASE v[x] <= v[y]
      <4>1. \A z \in T \cup {x} : v[x] <= v[z]
        BY <3>1, <3>2
      <4> QED BY <4>1
    <3>3. CASE ~(v[x] <= v[y])
      <4>1. \A z \in T \cup {x} : v[y] <= v[z]
        BY <3>1, <3>3
      <4> QED BY <4>1
    <3> QED BY <3>2, <3>3
  <2> QED BY <2>1, <2>2
<1> HIDE DEF G
<1>3. S \in G
  BY <1>1, <1>2, SetInduction
<1> QED BY <1>3 DEF G

\* The elements of a finite set can be listed by falling weight.
Listing(s, S, v) ==
  LET n == Cardinality(S)
  IN /\ s \in [1 .. n -> S]
     /\ \A i, j \in 1 .. n : i # j => s[i] # s[j]
     /\ \A i, j \in 1 .. n : i < j => v[s[i]] >= v[s[j]]
LEMMA ListingExists ==
  ASSUME NEW S, IsFiniteSet(S), NEW v, \A m \in S : v[m] \in Int
  PROVE  \E s : Listing(s, S, v)
<1> DEFINE Bad == {T \in SUBSET S : ~ \E s : Listing(s, T, v)}
<1>1. SUFFICES ASSUME Bad # {} PROVE FALSE
  OBVIOUS
<1>2. \A T \in Bad : IsFiniteSet(T)
  BY FS_Subset
<1>3. PICK T \in Bad : \A U \in Bad : Cardinality(T) <= Cardinality(U)
  BY <1>1, <1>2, SmallestSet
<1>4. IsFiniteSet(T) /\ T \subseteq S /\ Cardinality(T) \in Nat
  BY <1>2, FS_CardinalityType
<1>5. T # {}
  <2>1. Cardinality({}) = 0
    BY FS_EmptySet
  <2>2. Listing(<<>>, {}, v)
    BY <2>1 DEF Listing
  <2> QED BY <2>2
<1>6. PICK x \in T : \A y \in T : v[x] <= v[y]
  BY <1>4, <1>5, LeastOf
<1>7. Cardinality(T \ {x}) = Cardinality(T) - 1
  BY <1>4, OneLess
<1>8. T \ {x} \notin Bad
  BY <1>3, <1>4, <1>7
<1>9. PICK s : Listing(s, T \ {x}, v)
  BY <1>4, <1>8
<1> DEFINE n == Cardinality(T)
           t == [i \in 1 .. n |-> IF i = n THEN x ELSE s[i]]
<1> HIDE DEF n, Bad
<1>10. n \in Nat /\ n > 0 /\ s \in [1 .. n - 1 -> T \ {x}]
       /\ (\A i, j \in 1 .. n - 1 : i # j => s[i] # s[j])
       /\ \A i, j \in 1 .. n - 1 : i < j => v[s[i]] >= v[s[j]]
  <2>1. n # 0
    BY <1>4, <1>5, FS_EmptySet DEF n
  <2>2. PICK U : U = T \ {x} /\ Listing(s, U, v) /\ Cardinality(U) = n - 1
    BY <1>7, <1>9 DEF n
  <2>3. n \in Nat
    BY <1>4 DEF n
  <2>4. PICK k : k = Cardinality(U)
    OBVIOUS
  <2>5. s \in [1 .. k -> U] /\ (\A i, j \in 1 .. k : i # j => s[i] # s[j])
        /\ \A i, j \in 1 .. k : i < j => v[s[i]] >= v[s[j]]
    BY <2>2, <2>4, Zenon DEF Listing
  <2>6. k = n - 1
    BY <2>2, <2>4
  <2> QED BY <2>1, <2>2, <2>3, <2>5, <2>6
<1>11. \A i \in 1 .. n : t[i] \in T /\ (i < n => t[i] = s[i] /\ t[i] # x /\ i \in 1 .. n - 1)
       /\ (i = n => t[i] = x)
  BY <1>10
<1>12. t \in [1 .. n -> T]
  BY <1>11
<1> HIDE DEF t
<1>13. ASSUME NEW i \in 1 .. n, NEW j \in 1 .. n, i # j PROVE t[i] # t[j]
  <2>1. i < n \/ i = n
    BY <1>10
  <2>2. j < n \/ j = n
    BY <1>10
  <2> QED BY <1>10, <1>11, <1>13, <2>1, <2>2
<1>14. ASSUME NEW i \in 1 .. n, NEW j \in 1 .. n, i < j PROVE v[t[i]] >= v[t[j]]
  <2>1. i < n /\ (j < n \/ j = n)
    BY <1>10, <1>14
  <2>2. v[t[i]] \in Int /\ v[x] \in Int
    BY <1>4, <1>11
  <2> QED BY <1>6, <1>10, <1>11, <1>14, <2>1, <2>2
<1>15. Listing(t, T, v)
  BY <1>12, <1>13, <1>14 DEF Listing, n
<1> QED BY <1>15 DEF Bad

\* Ranked is such a listing, and it lists them all.
LEMMA RankedIs ==
  ASSUME NEW v, Vec(v), NEW s, s = Ranked(v), NEW n, n = Cardinality(DOMAIN v)
  PROVE  /\ n \in Nat /\ s \in [1 .. n -> DOMAIN v] /\ Len(s) = n /\ DOMAIN s = 1 .. n
         /\ \A i, j \in 1 .. n : s[i] = s[j] => i = j
         /\ \A m \in DOMAIN v : \E i \in 1 .. n : s[i] = m
         /\ \A i, j \in 1 .. n : i < j => v[s[i]] >= v[s[j]]
<1> DEFINE S == DOMAIN v
<1>1. IsFiniteSet(S) /\ (\A m \in S : v[m] \in Int) /\ n \in Nat
  BY FS_CardinalityType DEF Vec
<1>2. PICK r : Listing(r, S, v)
  BY <1>1, ListingExists
<1>3. r \in SetToSeqs(S) /\ \A i, j \in DOMAIN r : i < j => v[r[i]] >= v[r[j]]
  BY <1>2 DEF Listing, SetToSeqs
<1>4. s \in SetToSeqs(S) /\ \A i, j \in DOMAIN s : i < j => v[s[i]] >= v[s[j]]
  BY <1>3 DEF Ranked
<1>5. s \in [1 .. n -> S] /\ \A i, j \in 1 .. n : i # j => s[i] # s[j]
  BY <1>4 DEF SetToSeqs
<1> HIDE DEF S
<1>6. Len(s) = n
  BY <1>1, <1>5
<1>7. s \in Injection(1 .. n, S)
  BY <1>5 DEF Injection, IsInjective
<1>8. Cardinality(1 .. n) = n
  BY <1>1, FS_Interval
<1>9. s \in Surjection(1 .. n, S)
  <2> DEFINE I == 1 .. n
  <2>1. Cardinality(I) = Cardinality(S)
    BY <1>8 DEF S
  <2>2. s \in Injection(I, S)
    BY <1>7
  <2> HIDE DEF I
  <2>3. s \in Surjection(I, S)
    BY <1>1, <2>1, <2>2, FS_Injection
  <2> QED BY <2>3 DEF I
<1> QED BY <1>1, <1>4, <1>5, <1>6, <1>9 DEF Surjection, S

----------------------------------------------------------------------------
\* The first k of a list have the most shares of any k managers.

\* Equal weights add up to as many times their value.
LEMMA SumConstant ==
  ASSUME NEW S, IsFiniteSet(S), NEW c \in Int, NEW u, \A x \in S : u[x] = c
  PROVE  SumFunctionOnSet(u, S) = c * Cardinality(S)
<1> DEFINE w == [x \in S |-> 1]
<1>1. \A x \in S : w[x] = 1 /\ w[x] \in Int /\ u[x] = c * w[x]
  OBVIOUS
<1> HIDE DEF w
<1>2. SumFunctionOnSet(w, S) = Cardinality(S)
  BY <1>1, CountIsSum
<1>3. SumFunctionOnSet(u, S) = c * SumFunctionOnSet(w, S)
  BY <1>1, SumTimes
<1> QED BY <1>2, <1>3

\* Weights that are not negative add up to a natural number.
LEMMA SumNotNegative ==
  ASSUME NEW S, IsFiniteSet(S), NEW w, \A x \in S : w[x] \in Int /\ w[x] >= 0
  PROVE  SumFunctionOnSet(w, S) \in Nat
<1> DEFINE z == [x \in S |-> 0]
<1>1. \A x \in S : z[x] = 0 /\ z[x] \in Int /\ z[x] <= w[x]
  OBVIOUS
<1> HIDE DEF z
<1>2. SumFunctionOnSet(z, S) <= SumFunctionOnSet(w, S) /\ SumFunctionOnSet(z, S) = 0
  BY <1>1, SumAtMost, SumZero
<1>3. SumFunctionOnSet(w, S) \in Int
  BY SumInt
<1> QED BY <1>2, <1>3

\* A sum is that of what its terms are listed by.
LEMMA SumListed ==
  ASSUME NEW S, IsFiniteSet(S), NEW T, NEW f, \A x \in S : f[x] \in T,
         \A x, y \in S : f[x] = f[y] => x = y, \A t \in T : \E x \in S : f[x] = t,
         NEW u, NEW w, \A x \in S : u[x] \in Int /\ u[x] = w[f[x]]
  PROVE  SumFunctionOnSet(u, S) = SumFunctionOnSet(w, T) /\ IsFiniteSet(T) /\ Cardinality(T) = Cardinality(S)
<1> DEFINE b == [x \in S |-> f[x]]
<1>1. b \in Bijection(S, T)
  BY DEF Bijection, Injection, Surjection, IsInjective
<1>2. IsFiniteSet(T) /\ Cardinality(T) = Cardinality(S)
  BY <1>1, FS_Bijection DEF ExistsBijection
<1>3. ASSUME NEW t \in T PROVE w[t] = SumFunctionOnSet(u, OfKey(f, S, t))
  <2>1. PICK x \in S : f[x] = t
    OBVIOUS
  <2>2. OfKey(f, S, t) = {x}
    BY <2>1 DEF OfKey
  <2>3. SumFunctionOnSet(u, {x}) = u[x]
    BY SumOfOne
  <2>4. SumFunctionOnSet(u, OfKey(f, S, t)) = SumFunctionOnSet(u, {x})
    BY <2>2, Zenon
  <2> QED BY <2>1, <2>3, <2>4
<1>4. SumFunctionOnSet(u, S) = SumFunctionOnSet(w, T)
  BY <1>2, <1>3, SumByKey
<1> QED BY <1>2, <1>4

\* The k first of a list.
First(s, k) == {s[i] : i \in 1 .. k}
Lists(s, n, v) ==
  /\ n \in Nat /\ s \in [1 .. n -> DOMAIN v] /\ Len(s) = n /\ DOMAIN s = 1 .. n
  /\ \A i, j \in 1 .. n : s[i] = s[j] => i = j
  /\ \A m \in DOMAIN v : \E i \in 1 .. n : s[i] = m

LEMMA FirstIs ==
  ASSUME NEW v, Vec(v), NEW s, NEW n, Lists(s, n, v), NEW k \in 0 .. n
  PROVE  /\ First(s, k) \subseteq DOMAIN v /\ IsFiniteSet(First(s, k)) /\ Cardinality(First(s, k)) = k
         /\ Held(v, s, k) = SumFunctionOnSet(v, First(s, k))
         /\ First(s, n) = DOMAIN v
<1>2. k \in Nat /\ k <= n /\ n \in Nat
  BY DEF Lists
<1>1. First(s, k) \subseteq DOMAIN v /\ First(s, n) = DOMAIN v
  <2>1. \A i \in 1 .. n : s[i] \in DOMAIN v
    BY DEF Lists
  <2>2. \A i \in 1 .. k : i \in 1 .. n
    BY <1>2
  <2>3. \A m \in DOMAIN v : m \in First(s, n)
    BY DEF Lists, First
  <2>4. First(s, k) \subseteq DOMAIN v
    BY <2>1, <2>2 DEF First
  <2>5. First(s, n) \subseteq DOMAIN v
    BY <2>1 DEF First
  <2> QED BY <2>3, <2>4, <2>5
<1> DEFINE b == [i \in 1 .. k |-> s[i]]
<1>3. b \in Bijection(1 .. k, First(s, k))
  BY <1>2 DEF Bijection, Injection, Surjection, IsInjective, First, Lists
<1>4. ExistsBijection(1 .. k, First(s, k))
  BY <1>3 DEF ExistsBijection
<1>5. Cardinality(First(s, k)) = k
  BY <1>2, <1>4, FS_CountingElements
<1>6. IsFiniteSet(First(s, k))
  BY <1>1, FS_Subset DEF Vec
<1>7. Min({k, Len(s)}) = k
  <2> DEFINE K == {k, Len(s)}
  <2>1. K \subseteq Nat /\ K # {} /\ (\A x \in K : k <= x) /\ k \in K
    BY <1>2 DEF Lists
  <2> HIDE DEF K
  <2>2. Min(K) \in K /\ \A x \in K : Min(K) <= x
    BY <2>1, MinIs
  <2>3. Min(K) \in Nat /\ Min(K) <= k /\ k <= Min(K)
    BY <2>1, <2>2
  <2>4. Min(K) = k
    BY <1>2, <2>3
  <2> QED BY <2>4 DEF K
<1>8. Held(v, s, k) = SumFunctionOnSet(v, First(s, k))
  BY <1>7, Zenon DEF Held, First
<1> QED BY <1>1, <1>5, <1>6, <1>8

\* No k of them have more than the k with the most.
LEMMA MostIsFirst ==
  ASSUME NEW v, Vec(v), NEW s, NEW n, Lists(s, n, v), \A i, j \in 1 .. n : i < j => v[s[i]] >= v[s[j]],
         NEW M \in SUBSET DOMAIN v
  PROVE  Cardinality(M) \in 0 .. n /\ SumFunctionOnSet(v, M) <= SumFunctionOnSet(v, First(s, Cardinality(M)))
<1>1. IsFiniteSet(M) /\ Cardinality(M) \in Nat
  BY FS_Subset, FS_CardinalityType DEF Vec
<1>2. Cardinality(M) \in 0 .. n
  <2>1. n \in Nat /\ n \in 0 .. n
    BY DEF Lists
  <2>2. First(s, n) = DOMAIN v /\ Cardinality(First(s, n)) = n
    BY <2>1, FirstIs
  <2>3. Cardinality(M) <= Cardinality(DOMAIN v)
    BY FS_Subset DEF Vec
  <2> QED BY <1>1, <2>1, <2>2, <2>3
<1> DEFINE k == Cardinality(M)
           F == First(s, k)
           A == M \ F
           B == F \ M
           C == M \cap F
<1>3. F \subseteq DOMAIN v /\ IsFiniteSet(F) /\ Cardinality(F) = k /\ k \in 0 .. n /\ n \in Nat
  <2> HIDE DEF k
  <2>1. k \in 0 .. n
    BY <1>2 DEF k
  <2>2. First(s, k) \subseteq DOMAIN v /\ IsFiniteSet(First(s, k)) /\ Cardinality(First(s, k)) = k
    BY <2>1, FirstIs
  <2>3. n \in Nat
    BY DEF Lists
  <2> QED BY <2>1, <2>2, <2>3
<1>4. CASE k = 0
  <2>1. M = {} /\ F = {}
    BY <1>1, <1>3, <1>4, FS_EmptySet
  <2>2. SumFunctionOnSet(v, M) = 0 /\ SumFunctionOnSet(v, F) = 0
    BY <2>1, SumEmpty, Zenon
  <2> QED BY <1>2, <2>2
<1>5. CASE k # 0
  <2> DEFINE c == v[s[k]]
  <2>1. k \in 1 .. n /\ s[k] \in DOMAIN v /\ c \in Int
    BY <1>3, <1>5 DEF Lists, Vec
  <2>2. \A x \in DOMAIN v : v[x] \in Int
    BY DEF Vec
  <2>3. ASSUME NEW x \in A PROVE v[x] <= c /\ x \in DOMAIN v
    <3>1. PICK i \in 1 .. n : s[i] = x
      BY DEF Lists
    <3>2. i > k
      <4>1. i \notin 1 .. k
        BY <3>1 DEF First
      <4> QED BY <1>3, <3>1, <4>1
    <3> QED BY <2>1, <2>2, <3>1, <3>2
  <2>4. ASSUME NEW x \in B PROVE c <= v[x] /\ x \in DOMAIN v
    <3>1. PICK i \in 1 .. k : s[i] = x
      BY DEF First
    <3>2. i \in 1 .. n /\ (i < k \/ i = k)
      BY <1>3, <3>1
    <3> QED BY <1>3, <2>1, <2>2, <3>1, <3>2
  <2>5. IsFiniteSet(A) /\ IsFiniteSet(B) /\ IsFiniteSet(C)
    BY <1>1, <1>3, FS_Difference, FS_Intersection
  <2>6. M = A \cup C /\ F = B \cup C /\ A \cap C = {} /\ B \cap C = {}
    OBVIOUS
  <2>7. (\A x \in A \cup C : v[x] \in Int) /\ (\A x \in B \cup C : v[x] \in Int)
    BY <1>3, <2>2
  <2>8. Cardinality(A) = Cardinality(B) /\ Cardinality(A) \in Nat
    <3>1. Cardinality(A) \in Nat /\ Cardinality(B) \in Nat /\ Cardinality(C) \in Nat
      BY <2>5, FS_CardinalityType
    <3> HIDE DEF A, B, C, F, k
    <3>2. Cardinality(A \cup C) = Cardinality(A) + Cardinality(C) - Cardinality(A \cap C)
      BY <2>5, FS_Union
    <3>3. Cardinality(B \cup C) = Cardinality(B) + Cardinality(C) - Cardinality(B \cap C)
      BY <2>5, FS_Union
    <3>4. Cardinality(A \cap C) = 0 /\ Cardinality(B \cap C) = 0
      BY <2>6, FS_EmptySet, Zenon
    <3>5. Cardinality(A \cup C) = k /\ Cardinality(B \cup C) = k
      <4>1. Cardinality(A \cup C) = Cardinality(M) /\ Cardinality(B \cup C) = Cardinality(F)
        BY <2>6, Zenon
      <4> QED BY <1>3, <4>1 DEF k
    <3> QED BY <3>1, <3>2, <3>3, <3>4, <3>5
  <2> DEFINE w == [x \in DOMAIN v |-> c]
  <2>9. \A x \in A \cup B : w[x] = c /\ w[x] \in Int /\ v[x] \in Int
    BY <2>1, <2>2, <2>3, <2>4
  <2> HIDE DEF w, c, A, B, C, F, k
  <2>10. SumFunctionOnSet(v, A) <= SumFunctionOnSet(w, A)
    BY <2>3, <2>5, <2>9, SumAtMost
  <2>11. SumFunctionOnSet(w, B) <= SumFunctionOnSet(v, B)
    BY <2>4, <2>5, <2>9, SumAtMost
  <2>12. SumFunctionOnSet(w, A) = c * Cardinality(A) /\ SumFunctionOnSet(w, B) = c * Cardinality(B)
    BY <2>1, <2>5, <2>9, SumConstant
  <2>13. SumFunctionOnSet(v, A \cup C) = SumFunctionOnSet(v, A) + SumFunctionOnSet(v, C)
    BY <2>5, <2>6, <2>7, SumSplit
  <2>14. SumFunctionOnSet(v, B \cup C) = SumFunctionOnSet(v, B) + SumFunctionOnSet(v, C)
    BY <2>5, <2>6, <2>7, SumSplit
  <2>15. SumFunctionOnSet(v, A \cup C) = SumFunctionOnSet(v, M) /\ SumFunctionOnSet(v, B \cup C) = SumFunctionOnSet(v, F)
    BY <2>6, Zenon
  <2>16. SumFunctionOnSet(v, A) \in Int /\ SumFunctionOnSet(v, B) \in Int /\ SumFunctionOnSet(v, C) \in Int
    BY <2>5, <2>7, SumInt
  <2>17. SumFunctionOnSet(w, A) \in Int /\ SumFunctionOnSet(w, A) = SumFunctionOnSet(w, B)
    BY <2>1, <2>8, <2>12
  <2> DEFINE a == SumFunctionOnSet(v, A)  b == SumFunctionOnSet(v, B)  d == SumFunctionOnSet(v, C)
  <2> HIDE DEF a, b, d
  <2>18. a <= b /\ a \in Int /\ b \in Int /\ d \in Int
    BY <2>10, <2>11, <2>16, <2>17 DEF a, b, d
  <2>19. a + d <= b + d
    BY <2>18
  <2> QED BY <1>2, <2>13, <2>14, <2>15, <2>19 DEF a, b, d, F, k
<1> QED BY <1>4, <1>5

----------------------------------------------------------------------------
\* Concentration: the fewest managers for half.

\* Ranked lists the managers, the largest first.
LEMMA RankedLists ==
  ASSUME NEW v, Vec(v), NEW s, s = Ranked(v), NEW n, n = Cardinality(DOMAIN v)
  PROVE  Lists(s, n, v) /\ \A i, j \in 1 .. n : i < j => v[s[i]] >= v[s[j]]
BY RankedIs DEF Lists

HalfOf(v) == Min({j \in 1 .. Cardinality(DOMAIN v) : 2 * Held(v, Ranked(v), j) >= TotalShares(v)})
GiniOf(v) ==
  Max({0, 2 * SumFunction([i \in 1 .. Cardinality(DOMAIN v) |-> i * v[Reverse(Ranked(v))[i]]])
            - (Cardinality(DOMAIN v) + 1) * TotalShares(v)})

\* What concentration says of two managers or more.
LEMMA ConcentrationIs ==
  ASSUME NEW v, Vec(v), Concentration(v).status = "ok"
  PROVE  /\ Cardinality(DOMAIN v) \in Nat /\ Cardinality(DOMAIN v) >= MinHolders
         /\ Concentration(v).half = HalfOf(v) /\ Concentration(v).gini = GiniOf(v)
<1> DEFINE n == Cardinality(DOMAIN v)
           desc == Ranked(v)
           asc == Reverse(desc)
           a == SumFunction([m \in DOMAIN v |-> v[m] * v[m]])
           b == Max({0, 2 * SumFunction([i \in 1 .. n |-> i * v[asc[i]]]) - (n + 1) * TotalShares(v)})
           c == [k \in {1, 5, 10} |-> Held(v, desc, k)]
           d == Min({k \in 1 .. n : 2 * Held(v, desc, k) >= TotalShares(v)})
           e == [i \in 0 .. LorenzPoints - 1 |-> Held(v, asc, (i * n) \div (LorenzPoints - 1))]
<1>1. n \in Nat
  BY FS_CardinalityType DEF Vec
<1>2. Concentration(v) = IF n < MinHolders THEN [status |-> "na"]
                         ELSE [status |-> "ok", hhi |-> a, gini |-> b, top |-> c, half |-> d, lorenz |-> e]
  BY Zenon DEF Concentration
<1>3. b = GiniOf(v) /\ d = HalfOf(v)
  BY Zenon DEF GiniOf, HalfOf
<1> HIDE DEF n, a, b, c, d, e
<1>4. n >= MinHolders /\ Concentration(v).half = d /\ Concentration(v).gini = b
  BY <1>1, <1>2 DEF MinHolders
<1> QED BY <1>1, <1>3, <1>4 DEF n

\* The managers for half: enough, and no fewer are.
LEMMA HalfHolds ==
  ASSUME NEW v, Vec(v), Concentration(v).status = "ok",
         NEW k, k = Concentration(v).half, NEW T, T = TotalShares(v)
  PROVE  /\ \E M \in kSubset(k, DOMAIN v) : 2 * SumFunctionOnSet(v, M) >= T
         /\ \A M \in SUBSET DOMAIN v : Cardinality(M) < k => 2 * SumFunctionOnSet(v, M) < T
<1> DEFINE n == Cardinality(DOMAIN v)
           s == Ranked(v)
           Enough == {j \in 1 .. n : 2 * Held(v, s, j) >= T}
<1>1. n \in Nat /\ n >= MinHolders /\ k = Min(Enough)
  BY ConcentrationIs, Zenon DEF HalfOf
<1>2. Lists(s, n, v) /\ \A i, j \in 1 .. n : i < j => v[s[i]] >= v[s[j]]
  BY RankedLists
<1>3. \A m \in DOMAIN v : v[m] \in Int /\ v[m] >= 0 /\ v[m] > 0
  BY DEF Vec
<1>4. T = SumFunctionOnSet(v, DOMAIN v) /\ T \in Nat /\ T > 0
  <2>1. T = SumFunctionOnSet(v, DOMAIN v)
    BY DEF TotalShares, SumFunction
  <2>2. T \in Nat
    BY <1>3, <2>1, SumNotNegative DEF Vec
  <2>3. PICK m \in DOMAIN v : TRUE
    BY <1>1, FS_EmptySet DEF MinHolders, Vec
  <2>4. IsFiniteSet(DOMAIN v \ {m})
    BY OneLess DEF Vec
  <2>5. SumFunctionOnSet(v, DOMAIN v) = v[m] + SumFunctionOnSet(v, DOMAIN v \ {m})
    BY <1>3, <2>3, SumTake DEF Vec
  <2>6. SumFunctionOnSet(v, DOMAIN v \ {m}) \in Nat
    BY <1>3, <2>4, SumNotNegative
  <2> QED BY <1>3, <2>1, <2>2, <2>5, <2>6
<1> HIDE DEF s, n
<1>5. ASSUME NEW j \in 0 .. n
      PROVE  /\ First(s, j) \subseteq DOMAIN v /\ Cardinality(First(s, j)) = j
             /\ Held(v, s, j) = SumFunctionOnSet(v, First(s, j)) /\ First(s, n) = DOMAIN v
             /\ Held(v, s, j) \in Nat
  <2>1. /\ First(s, j) \subseteq DOMAIN v /\ Cardinality(First(s, j)) = j /\ IsFiniteSet(First(s, j))
        /\ Held(v, s, j) = SumFunctionOnSet(v, First(s, j)) /\ First(s, n) = DOMAIN v
    BY <1>2, FirstIs
  <2>2. SumFunctionOnSet(v, First(s, j)) \in Nat
    BY <1>3, <2>1, SumNotNegative
  <2> QED BY <2>1, <2>2
<1>6. n \in Enough
  <2>1. n \in 0 .. n /\ n \in 1 .. n
    BY <1>1 DEF MinHolders
  <2>2. Held(v, s, n) = SumFunctionOnSet(v, First(s, n)) /\ First(s, n) = DOMAIN v
    BY <1>5, <2>1
  <2>3. Held(v, s, n) = T
    BY <1>4, <2>2, Zenon
  <2> QED BY <1>4, <2>1, <2>3
<1>7. k \in Enough /\ \A j \in Enough : k <= j
  <2>1. Enough \subseteq Nat /\ Enough # {}
    BY <1>6
  <2> HIDE DEF Enough
  <2> QED BY <1>1, <2>1, MinIs
<1>8. k \in 0 .. n /\ k \in Nat
  BY <1>1, <1>7
<1>9. \E M \in kSubset(k, DOMAIN v) : 2 * SumFunctionOnSet(v, M) >= T
  <2>1. First(s, k) \in kSubset(k, DOMAIN v)
    BY <1>5, <1>8 DEF kSubset
  <2>2. 2 * SumFunctionOnSet(v, First(s, k)) >= T
    BY <1>5, <1>7, <1>8
  <2> QED BY <2>1, <2>2
<1>10. ASSUME NEW M \in SUBSET DOMAIN v, Cardinality(M) < k PROVE 2 * SumFunctionOnSet(v, M) < T
  <2> DEFINE j == Cardinality(M)
  <2>1. j \in 0 .. n /\ SumFunctionOnSet(v, M) <= SumFunctionOnSet(v, First(s, j))
    BY <1>2, MostIsFirst
  <2>2. IsFiniteSet(M) /\ j < k
    BY <1>10, FS_Subset DEF Vec
  <2>3. SumFunctionOnSet(v, M) \in Int
    BY <1>3, <2>2, SumInt
  <2> HIDE DEF j
  <2>4. Held(v, s, j) = SumFunctionOnSet(v, First(s, j)) /\ Held(v, s, j) \in Nat
    BY <1>5, <2>1
  <2>5. CASE j = 0
    <3>1. M = {}
      BY <2>2, <2>5, FS_EmptySet DEF j
    <3>2. SumFunctionOnSet(v, M) = 0
      BY <3>1, SumEmpty, Zenon
    <3> QED BY <1>4, <3>2
  <2>6. CASE j # 0
    <3>1. j \in 1 .. n /\ j \notin Enough
      BY <1>7, <1>8, <2>1, <2>2, <2>6
    <3>2. 2 * Held(v, s, j) < T
      BY <1>4, <2>4, <3>1
    <3> QED BY <2>1, <2>3, <2>4, <3>2, <1>4
  <2> QED BY <2>5, <2>6
<1> QED BY <1>9, <1>10

----------------------------------------------------------------------------
\* Pairs of managers, and what they differ by.

\* The pairs with one more element are the old ones and those of that one.
PairsWith(x, A) == {{x, y} : y \in A}
LEMMA PairsAre ==
  ASSUME NEW A, IsFiniteSet(A), NEW x, x \notin A, NEW B, B = A \cup {x}
  PROVE  /\ kSubset(2, B) = kSubset(2, A) \cup PairsWith(x, A)
         /\ kSubset(2, A) \cap PairsWith(x, A) = {}
<1>1. ASSUME NEW y \in A PROVE {x, y} \in kSubset(2, B)
  <2>1. PICK Y : Y = {y} /\ Cardinality(Y) = 1 /\ IsFiniteSet(Y) /\ x \notin Y
    BY FS_Singleton
  <2>2. Cardinality(Y \cup {x}) = 2
    <3>1. Cardinality(Y) = 1 /\ IsFiniteSet(Y) /\ x \notin Y
      BY <2>1
    <3>2. Cardinality(Y \cup {x}) = Cardinality(Y) + 1
      BY <3>1, FS_AddElement
    <3> QED BY <3>1, <3>2
  <2>3. {x, y} = Y \cup {x} /\ {x, y} \subseteq B
    BY <2>1
  <2>4. Cardinality({x, y}) = Cardinality(Y \cup {x})
    BY <2>3, Zenon
  <2>5. Cardinality({x, y}) = 2
    BY <2>2, <2>4
  <2> QED BY <2>3, <2>5 DEF kSubset
<1>2. ASSUME NEW P \in kSubset(2, B) PROVE P \in kSubset(2, A) \/ P \in PairsWith(x, A)
  <2>1. P \subseteq B /\ Cardinality(P) = 2
    BY DEF kSubset
  <2>2. IsFiniteSet(P)
    <3>1. IsFiniteSet(B)
      BY FS_AddElement
    <3> QED BY <2>1, <3>1, FS_Subset
  <2>3. CASE x \notin P
    BY <2>1, <2>3 DEF kSubset
  <2>4. CASE x \in P
    <3>1. IsFiniteSet(P \ {x}) /\ Cardinality(P \ {x}) = 1
      BY <2>1, <2>2, <2>4, FS_RemoveElement
    <3>2. PICK Q : Q = P \ {x}
      OBVIOUS
    <3>3. PICK y : Q = {y}
      BY <3>1, <3>2, FS_Singleton
    <3>4. y \in A /\ P = {x, y}
      BY <2>1, <2>4, <3>2, <3>3
    <3> QED BY <3>4 DEF PairsWith
  <2> QED BY <2>3, <2>4
<1>3. kSubset(2, A) \subseteq kSubset(2, B) /\ PairsWith(x, A) \subseteq kSubset(2, B)
  <2>1. kSubset(2, A) \subseteq kSubset(2, B)
    BY DEF kSubset
  <2> QED BY <1>1, <2>1 DEF PairsWith
<1>4. kSubset(2, A) \cap PairsWith(x, A) = {}
  BY DEF kSubset, PairsWith
<1>5. kSubset(2, B) = kSubset(2, A) \cup PairsWith(x, A)
  <2> DEFINE K == kSubset(2, B)  L == kSubset(2, A)  N == PairsWith(x, A)
  <2>1. (\A P \in K : P \in L \/ P \in N) /\ L \subseteq K /\ N \subseteq K
    BY <1>2, <1>3
  <2> HIDE DEF K, L, N
  <2>2. K = L \cup N
    BY <2>1
  <2> QED BY <2>2 DEF K, L, N
<1> QED BY <1>4, <1>5

\* There are finitely many pairs.
LEMMA PairsFinite ==
  ASSUME NEW A, IsFiniteSet(A)
  PROVE  IsFiniteSet(kSubset(2, A))
<1>1. IsFiniteSet(SUBSET A)
  BY FS_SUBSET
<1>2. kSubset(2, A) \subseteq SUBSET A
  BY DEF kSubset
<1> QED BY <1>1, <1>2, FS_Subset

\* What a pair differs by.
Gap(v, P) == Max({v[m] : m \in P}) - Min({v[m] : m \in P})
LEMMA GapIs ==
  ASSUME NEW v, NEW a, NEW b, v[a] \in Nat, v[b] \in Nat, v[a] <= v[b]
  PROVE  Gap(v, {a, b}) = v[b] - v[a]
<1> DEFINE K == {v[m] : m \in {a, b}}
<1>1. K \subseteq 0 .. v[b] /\ K \subseteq Nat /\ K # {} /\ v[a] \in K /\ v[b] \in K
  OBVIOUS
<1>2. \A z \in K : v[a] <= z /\ z <= v[b]
  OBVIOUS
<1>3. Gap(v, {a, b}) = Max(K) - Min(K)
  BY DEF Gap
<1> HIDE DEF K
<1>4. Max(K) \in K /\ \A z \in K : Max(K) >= z
  BY <1>1, MaxIs
<1>5. Min(K) \in K /\ \A z \in K : Min(K) <= z
  BY <1>1, MinIs
<1>6. Max(K) \in Nat /\ Max(K) >= v[b] /\ Max(K) <= v[b] /\ Min(K) \in Nat /\ Min(K) <= v[a] /\ Min(K) >= v[a]
  BY <1>1, <1>2, <1>4, <1>5
<1> QED BY <1>3, <1>6

\* The pairs' differences, added up as the list grows.
LEMMA GapsAddUp ==
  ASSUME NEW v, Vec(v), NEW n, NEW s, Lists(s, n, v), \A i, j \in 1 .. n : i < j => v[s[i]] <= v[s[j]],
         NEW g, \A P \in kSubset(2, DOMAIN v) : g[P] = Gap(v, P),
         NEW w, \A i \in 1 .. n : w[i] = i * v[s[i]]
  PROVE  SumFunctionOnSet(g, kSubset(2, DOMAIN v))
           = 2 * SumFunctionOnSet(w, 1 .. n) - (n + 1) * SumFunctionOnSet(v, DOMAIN v)
<1> DEFINE A(k) == First(s, k)
           Gaps(k) == SumFunctionOnSet(g, kSubset(2, A(k)))
           W(k) == SumFunctionOnSet(w, 1 .. k)
           S(k) == SumFunctionOnSet(v, A(k))
           Holds == {k \in Nat : k <= n => Gaps(k) = 2 * W(k) - (k + 1) * S(k)}
<1>1. n \in Nat /\ \A i \in 1 .. n : s[i] \in DOMAIN v
  BY DEF Lists
<1>2. \A m \in DOMAIN v : v[m] \in Nat /\ v[m] \in Int
  BY DEF Vec
<1>3. ASSUME NEW k \in 0 .. n
      PROVE  A(k) \subseteq DOMAIN v /\ IsFiniteSet(A(k)) /\ Cardinality(A(k)) = k /\ A(n) = DOMAIN v
  BY FirstIs
<1>4. \A i \in 1 .. n : w[i] \in Int
  <2> TAKE i \in 1 .. n
  <2>1. v[s[i]] \in Int /\ i \in Int
    BY <1>1, <1>2
  <2> QED BY <2>1
<1>5. 0 \in Holds
  <2>1. A(0) = {}
    BY DEF First
  <2>2. kSubset(2, A(0)) = {}
    <3>1. kSubset(2, {}) = {}
      BY FS_EmptySet DEF kSubset
    <3> QED BY <2>1, <3>1, Zenon
  <2>3. Gaps(0) = 0
    BY <2>2, SumEmpty, Zenon
  <2>4. S(0) = 0
    BY <2>1, SumEmpty, Zenon
  <2>5. W(0) = 0
    <3>1. 1 .. 0 = {}
      OBVIOUS
    <3> QED BY <3>1, SumEmpty, Zenon
  <2> HIDE DEF Gaps, W, S
  <2> QED BY <2>3, <2>4, <2>5
<1>6. ASSUME NEW k \in Nat, k \in Holds PROVE k + 1 \in Holds
  <2> SUFFICES ASSUME k + 1 <= n PROVE Gaps(k + 1) = 2 * W(k + 1) - (k + 2) * S(k + 1)
    OBVIOUS
  <2> DEFINE x == s[k + 1]
             New == PairsWith(x, A(k))
  <2>0. k \in 0 .. n /\ k + 1 \in 0 .. n /\ k + 1 \in 1 .. n /\ x \in DOMAIN v /\ v[x] \in Nat
    BY <1>1, <1>2
  <2>1. A(k) \subseteq DOMAIN v /\ IsFiniteSet(A(k)) /\ Cardinality(A(k)) = k /\ A(k + 1) \subseteq DOMAIN v
    BY <1>3, <2>0
  <2>2. x \notin A(k)
    BY <2>0 DEF First, Lists
  <2>3. A(k + 1) = A(k) \cup {x}
    BY <2>0 DEF First
  <2>4. \A y \in A(k) : v[y] <= v[x] /\ v[y] \in Nat /\ y \in DOMAIN v
    <3> TAKE y \in A(k)
    <3>1. PICK i \in 1 .. k : s[i] = y
      BY DEF First
    <3>2. i \in 1 .. n /\ i < k + 1
      BY <1>1, <2>0
    <3> QED BY <1>2, <2>0, <2>1, <3>1, <3>2
  <2> HIDE DEF x, A
  <2>5. kSubset(2, A(k + 1)) = kSubset(2, A(k)) \cup New /\ kSubset(2, A(k)) \cap New = {}
    BY <2>1, <2>2, <2>3, PairsAre
  <2>6. IsFiniteSet(kSubset(2, A(k)))
    BY <2>1, PairsFinite
  <2>7. \A P \in kSubset(2, A(k + 1)) : g[P] = Gap(v, P)
    BY <2>1 DEF kSubset
  <2>8. SumFunctionOnSet(g, New) = k * v[x] - S(k) /\ IsFiniteSet(New)
        /\ \A P \in New : g[P] \in Int
    <3> DEFINE u == [y \in A(k) |-> v[x] - v[y]]
               c == [y \in A(k) |-> v[x]]
               f == [y \in A(k) |-> {x, y}]
    <3>1. \A y \in A(k) : c[y] \in Int /\ c[y] = v[x] /\ v[y] \in Int /\ u[y] = c[y] - v[y] /\ u[y] \in Int
      BY <1>2, <2>0, <2>4
    <3>2. /\ \A y \in A(k) : f[y] \in New
          /\ \A y, z \in A(k) : f[y] = f[z] => y = z
          /\ \A P \in New : \E y \in A(k) : f[y] = P
      BY <2>2 DEF PairsWith
    <3>3. ASSUME NEW y \in A(k) PROVE u[y] = g[f[y]]
      <4>1. f[y] = {y, x} /\ f[y] \in kSubset(2, A(k + 1))
        BY <2>5, <3>2
      <4>2. g[f[y]] = Gap(v, f[y]) /\ Gap(v, f[y]) = Gap(v, {y, x})
        BY <2>7, <4>1, Zenon
      <4>3. Gap(v, {y, x}) = v[x] - v[y]
        BY <2>0, <2>4, GapIs
      <4> QED BY <4>2, <4>3
    <3> HIDE DEF u, c, f, New
    <3>4. SumFunctionOnSet(u, A(k)) = SumFunctionOnSet(g, New) /\ IsFiniteSet(New)
      BY <2>1, <3>1, <3>2, <3>3, SumListed
    <3>5. SumFunctionOnSet(u, A(k)) = SumFunctionOnSet(c, A(k)) - SumFunctionOnSet(v, A(k))
      BY <2>1, <3>1, SumMinus
    <3>6. SumFunctionOnSet(c, A(k)) = v[x] * Cardinality(A(k))
      BY <2>0, <2>1, <3>1, SumConstant
    <3>7. \A P \in New : g[P] \in Int
      BY <3>1, <3>2, <3>3
    <3>8. v[x] * k = k * v[x]
      BY <2>0
    <3>9. SumFunctionOnSet(g, New) = k * v[x] - S(k)
      BY <2>1, <3>4, <3>5, <3>6, <3>8
    <3> QED BY <3>4, <3>7, <3>9
  <2>9. \A P \in kSubset(2, A(k)) : g[P] \in Int
    <3> TAKE P \in kSubset(2, A(k))
    <3>1. P \subseteq A(k) /\ Cardinality(P) = 2 /\ IsFiniteSet(P)
      BY <2>1, FS_Subset DEF kSubset
    <3>2. PICK a \in P : TRUE
      BY <3>1, FS_EmptySet
    <3>3. IsFiniteSet(P \ {a}) /\ Cardinality(P \ {a}) = 1
      BY <3>1, FS_RemoveElement
    <3>4. PICK Q : Q = P \ {a}
      OBVIOUS
    <3>5. PICK b : Q = {b}
      BY <3>3, <3>4, FS_Singleton
    <3>6. P = {a, b} /\ P = {b, a} /\ v[a] \in Nat /\ v[b] \in Nat
      BY <2>4, <3>1, <3>4, <3>5
    <3>7. g[P] = Gap(v, P)
      BY <2>5, <2>7
    <3>8. Gap(v, P) = Gap(v, {a, b}) /\ Gap(v, P) = Gap(v, {b, a})
      BY <3>6, Zenon
    <3>9. Gap(v, P) \in Int
      <4>1. CASE v[a] <= v[b]
        <5>1. Gap(v, {a, b}) = v[b] - v[a]
          BY <3>6, <4>1, GapIs
        <5>2. Gap(v, P) = v[b] - v[a]
          BY <3>8, <5>1, Zenon
        <5> QED BY <3>6, <5>2
      <4>2. CASE v[b] <= v[a]
        <5>1. Gap(v, {b, a}) = v[a] - v[b]
          BY <3>6, <4>2, GapIs
        <5>2. Gap(v, P) = v[a] - v[b]
          BY <3>8, <5>1, Zenon
        <5> QED BY <3>6, <5>2
      <4> QED BY <3>6, <4>1, <4>2
    <3> QED BY <3>7, <3>9
  <2> HIDE DEF New
  <2>10. Gaps(k + 1) = Gaps(k) + SumFunctionOnSet(g, New) /\ Gaps(k) \in Int
    <3> DEFINE K == kSubset(2, A(k))  L == kSubset(2, A(k + 1))
    <3>1. L = K \cup New /\ K \cap New = {} /\ IsFiniteSet(K) /\ IsFiniteSet(New)
          /\ (\A P \in K \cup New : g[P] \in Int) /\ \A P \in K : g[P] \in Int
      BY <2>5, <2>6, <2>8, <2>9
    <3> HIDE DEF K, L
    <3>2. SumFunctionOnSet(g, K \cup New) = SumFunctionOnSet(g, K) + SumFunctionOnSet(g, New)
      BY <3>1, SumSplit
    <3>3. SumFunctionOnSet(g, L) = SumFunctionOnSet(g, K \cup New)
      BY <3>1, Zenon
    <3>4. SumFunctionOnSet(g, K) \in Int
      BY <3>1, SumInt
    <3> QED BY <3>2, <3>3, <3>4 DEF K, L
  <2>11. S(k + 1) = S(k) + v[x] /\ S(k) \in Int
    <3>1. \A y \in A(k) \cup {x} : v[y] \in Int
      BY <1>2, <2>0, <2>4
    <3>2. SumFunctionOnSet(v, A(k) \cup {x}) = SumFunctionOnSet(v, A(k)) + v[x]
      BY <2>1, <2>2, <3>1, SumAdd
    <3>3. SumFunctionOnSet(v, A(k + 1)) = SumFunctionOnSet(v, A(k) \cup {x})
      BY <2>3, Zenon
    <3>4. SumFunctionOnSet(v, A(k)) \in Int
      BY <2>1, <3>1, SumInt
    <3> QED BY <3>2, <3>3, <3>4
  <2>12. W(k + 1) = W(k) + (k + 1) * v[x] /\ W(k) \in Int
    <3>1. PICK K : K = 1 .. k /\ IsFiniteSet(K) /\ k + 1 \notin K /\ K \cup {k + 1} = 1 .. k + 1
      <4>0. k \in Int
        OBVIOUS
      <4>1. IsFiniteSet(1 .. k)
        BY <4>0, UptoFinite, Zenon
      <4>2. (1 .. k) \cup {k + 1} = 1 .. k + 1 /\ k + 1 \notin 1 .. k
        OBVIOUS
      <4> QED BY <4>1, <4>2
    <3>2. PICK L : L = 1 .. k + 1 /\ L = K \cup {k + 1}
      BY <3>1
    <3>3. \A i \in K \cup {k + 1} : w[i] \in Int
      <4> TAKE i \in K \cup {k + 1}
      <4>1. i \in 1 .. k + 1
        BY <3>1
      <4>2. i \in 1 .. n
        BY <1>1, <2>0, <4>1
      <4> QED BY <1>4, <4>2
    <3>4. SumFunctionOnSet(w, K \cup {k + 1}) = SumFunctionOnSet(w, K) + w[k + 1]
      BY <3>1, <3>3, SumAdd
    <3>5. SumFunctionOnSet(w, L) = SumFunctionOnSet(w, K \cup {k + 1})
      BY <3>2, Zenon
    <3>6. SumFunctionOnSet(w, K) \in Int
      BY <3>1, <3>3, SumInt
    <3>7. w[k + 1] = (k + 1) * v[x]
      BY <2>0 DEF x
    <3>8. W(k) = SumFunctionOnSet(w, K) /\ W(k + 1) = SumFunctionOnSet(w, L)
      BY <3>1, <3>2, Zenon
    <3> HIDE DEF W
    <3> QED BY <3>4, <3>5, <3>6, <3>7, <3>8
  <2>13. Gaps(k) = 2 * W(k) - (k + 1) * S(k)
    BY <1>6, <2>0
  <2> DEFINE gk == Gaps(k)  gn == Gaps(k + 1)  wk == W(k)  wn == W(k + 1)  sk == S(k)  sn == S(k + 1)
             vx == v[x]
  <2>14. /\ gn = gk + (k * vx - sk) /\ gk \in Int /\ sn = sk + vx /\ sk \in Int /\ vx \in Int
         /\ wn = wk + (k + 1) * vx /\ wk \in Int /\ gk = 2 * wk - (k + 1) * sk
    BY <2>0, <2>8, <2>10, <2>11, <2>12, <2>13
  <2> HIDE DEF gk, gn, wk, wn, sk, sn, vx
  <2>15. gn = 2 * wn - (k + 2) * sn
    <3> DEFINE p == k * vx  q == k * sk
    <3>1. p \in Int /\ q \in Int /\ (k + 1) * vx = p + vx /\ (k + 1) * sk = q + sk
      BY <2>14
    <3>2. (k + 2) * sn = q + 2 * sk + p + 2 * vx
      BY <2>14
    <3> HIDE DEF p, q
    <3>3. gn = gk + (p - sk) /\ wn = wk + p + vx /\ gk = 2 * wk - (q + sk)
      BY <2>14, <3>1 DEF p
    <3> QED BY <2>14, <3>1, <3>2, <3>3
  <2> QED BY <2>15 DEF gn, wn, sn
<1>7. n \in Holds
  <2> HIDE DEF Holds
  <2> QED BY <1>1, <1>5, <1>6, CountInduction
<1>8. A(n) = DOMAIN v
  <2>1. n \in 0 .. n
    BY <1>1
  <2> QED BY <1>3, <2>1
<1>9. Gaps(n) = 2 * W(n) - (n + 1) * S(n)
  BY <1>1, <1>7
<1>10. Gaps(n) = SumFunctionOnSet(g, kSubset(2, DOMAIN v)) /\ S(n) = SumFunctionOnSet(v, DOMAIN v)
  BY <1>8, Zenon
<1> QED BY <1>9, <1>10

----------------------------------------------------------------------------
\* The Gini coefficient.

(* The Gini coefficient, computed over the ascending list, is the sum of   *)
(* the differences of all pairs (concentration).                           *)
LEMMA GiniHolds ==
  ASSUME NEW v, Vec(v), Concentration(v).status = "ok",
         NEW g, DOMAIN g = kSubset(2, DOMAIN v), \A P \in kSubset(2, DOMAIN v) : g[P] = Gap(v, P)
  PROVE  Concentration(v).gini = SumFunction(g)
<1> DEFINE n == Cardinality(DOMAIN v)
           r == Ranked(v)
           s == Reverse(r)
           w == [i \in 1 .. n |-> i * v[s[i]]]
           S == SumFunctionOnSet(g, kSubset(2, DOMAIN v))
           T == SumFunctionOnSet(v, DOMAIN v)
           W == SumFunctionOnSet(w, 1 .. n)
<1>1. Concentration(v).gini = GiniOf(v) /\ n \in Nat
  BY ConcentrationIs
<1>2. Lists(r, n, v) /\ \A i, j \in 1 .. n : i < j => v[r[i]] >= v[r[j]]
  BY RankedLists
<1>3. GiniOf(v) = Max({0, 2 * W - (n + 1) * T})
  <2>1. SumFunction(w) = SumFunctionOnSet(w, DOMAIN w) /\ DOMAIN w = 1 .. n
    BY Zenon DEF SumFunction
  <2>2. SumFunction(w) = W
    BY <2>1, Zenon
  <2>3. TotalShares(v) = T
    BY Zenon DEF TotalShares, SumFunction
  <2>4. GiniOf(v) = Max({0, 2 * SumFunction(w) - (n + 1) * TotalShares(v)})
    BY Zenon DEF GiniOf
  <2> QED BY <2>2, <2>3, <2>4, Zenon
<1>4. \A i \in 1 .. n : w[i] = i * v[s[i]]
  OBVIOUS
<1> HIDE DEF w, n, r
<1>5. s = [i \in 1 .. n |-> r[(n - i) + 1]]
  BY <1>2 DEF Reverse, Lists
<1> HIDE DEF s
<1>6. \A i \in 1 .. n : s[i] = r[(n - i) + 1] /\ (n - i) + 1 \in 1 .. n
  BY <1>1, <1>5
<1>7. Lists(s, n, v)
  <2>1. s \in [1 .. n -> DOMAIN v]
    BY <1>2, <1>5, <1>6 DEF Lists
  <2>2. Len(s) = n /\ DOMAIN s = 1 .. n
    BY <1>1, <2>1
  <2>3. ASSUME NEW i \in 1 .. n, NEW j \in 1 .. n, s[i] = s[j] PROVE i = j
    <3>1. (n - i) + 1 = (n - j) + 1
      BY <1>2, <1>6, <2>3 DEF Lists
    <3> QED BY <1>1, <3>1
  <2>4. ASSUME NEW m \in DOMAIN v PROVE \E i \in 1 .. n : s[i] = m
    <3>1. PICK j \in 1 .. n : r[j] = m
      BY <1>2 DEF Lists
    <3>2. (n - j) + 1 \in 1 .. n /\ (n - ((n - j) + 1)) + 1 = j
      BY <1>1
    <3> QED BY <1>6, <3>1, <3>2
  <2> QED BY <1>1, <2>1, <2>2, <2>3, <2>4 DEF Lists
<1>8. ASSUME NEW i \in 1 .. n, NEW j \in 1 .. n, i < j PROVE v[s[i]] <= v[s[j]]
  <2> DEFINE a == (n - i) + 1  b == (n - j) + 1
  <2>1. a \in 1 .. n /\ b \in 1 .. n /\ b < a /\ s[i] = r[a] /\ s[j] = r[b]
    BY <1>1, <1>6, <1>8
  <2> HIDE DEF a, b
  <2>2. v[r[b]] >= v[r[a]] /\ r[a] \in DOMAIN v /\ r[b] \in DOMAIN v
    BY <1>2, <2>1 DEF Lists
  <2>3. v[r[b]] \in Int /\ v[r[a]] \in Int
    BY <2>2 DEF Vec
  <2> QED BY <2>1, <2>2, <2>3
<1>9. S = 2 * W - (n + 1) * T
  BY <1>4, <1>7, <1>8, GapsAddUp
<1>10. S \in Nat
  <2>1. IsFiniteSet(kSubset(2, DOMAIN v))
    BY PairsFinite DEF Vec
  <2>2. ASSUME NEW P \in kSubset(2, DOMAIN v) PROVE g[P] \in Int /\ g[P] >= 0
    <3>1. P \subseteq DOMAIN v /\ Cardinality(P) = 2 /\ IsFiniteSet(P)
      BY FS_Subset DEF kSubset, Vec
    <3> DEFINE f == [m \in P |-> v[m]]
               K == {v[m] : m \in P}
    <3>2. P # {} /\ \A m \in P : v[m] \in Nat
      BY <3>1, FS_EmptySet DEF Vec
    <3>3. K \subseteq Nat /\ K # {} /\ IsFiniteSet(K)
      <4>1. IsFiniteSet({f[m] : m \in DOMAIN f})
        BY <3>1, FiniteImage
      <4>2. K = {f[m] : m \in DOMAIN f}
        OBVIOUS
      <4>3. IsFiniteSet(K)
        BY <4>1, <4>2, Zenon
      <4> QED BY <3>2, <4>3
    <3>4. g[P] = Max(K) - Min(K)
      BY DEF Gap
    <3> HIDE DEF K
    <3>5. Min(K) \in K /\ \A z \in K : Min(K) <= z
      BY <3>3, MinIs
    <3>6. Max(K) \in K
      <4> DEFINE u == [z \in K |-> 0 - z]
      <4>1. \A z \in K : u[z] \in Int /\ u[z] = 0 - z /\ z \in Nat
        BY <3>3
      <4> HIDE DEF u
      <4>2. PICK z \in K : \A y \in K : u[z] <= u[y]
        BY <3>3, <4>1, LeastOf
      <4>3. K \subseteq 0 .. z /\ z \in Nat
        BY <4>1, <4>2
      <4> QED BY <3>3, <4>3, MaxIs
    <3>7. PICK a, b : a = Max(K) /\ b = Min(K)
      OBVIOUS
    <3>8. a \in Nat /\ b \in Nat /\ b <= a
      BY <3>3, <3>5, <3>6, <3>7
    <3>9. g[P] = a - b
      BY <3>4, <3>7
    <3> QED BY <3>8, <3>9
  <2> QED BY <2>1, <2>2, SumNotNegative
<1>11. Max({0, S}) = S
  <2> DEFINE K == {0, S}
  <2> HIDE DEF S
  <2>1. K \subseteq 0 .. S /\ K # {} /\ S \in K /\ S \in Nat
    BY <1>10
  <2> HIDE DEF K
  <2>2. Max(K) \in K /\ Max(K) >= S
    BY <2>1, MaxIs
  <2>4. PICK a : a = Max(K)
    OBVIOUS
  <2>5. a \in 0 .. S /\ a >= S
    BY <2>1, <2>2, <2>4
  <2>6. a = S
    BY <2>1, <2>5
  <2>3. Max(K) = S
    BY <2>4, <2>6
  <2> QED BY <2>3 DEF K
<1>12. SumFunction(g) = S
  BY DEF SumFunction
<1> QED BY <1>1, <1>3, <1>9, <1>11, <1>12, Zenon

----------------------------------------------------------------------------
\* Composition, domicile, attribution: parts of the vector.

\* The share vector of rows read is a vector.
LEMMA VecOf ==
  ASSUME NEW R, Rows(R), NEW v, v = ShareVector(R)
  PROVE  Vec(v) /\ TotalShares(v) = SumFunctionOnSet(v, DOMAIN v) /\ TotalShares(v) \in Nat
         /\ \A m \in DOMAIN v : v[m] \in Int
BY Vector, TotalSharesIs DEF Vec

\* A part and the rest add up to the whole.
LEMMA SumParts ==
  ASSUME NEW S, IsFiniteSet(S), NEW w, \A x \in S : w[x] \in Int, NEW P \in SUBSET S
  PROVE  /\ SumFunctionOnSet(w, P) + SumFunctionOnSet(w, S \ P) = SumFunctionOnSet(w, S)
         /\ SumFunctionOnSet(w, P) \in Int /\ SumFunctionOnSet(w, S \ P) \in Int /\ IsFiniteSet(P)
<1>1. IsFiniteSet(P) /\ IsFiniteSet(S \ P)
  BY FS_Subset, FS_Difference
<1>2. PICK Q : Q = S \ P
  OBVIOUS
<1>3. P \cup Q = S /\ P \cap Q = {} /\ \A x \in P \cup Q : w[x] \in Int
  BY <1>2
<1>4. IsFiniteSet(Q)
  BY <1>1, <1>2, Zenon
<1>5. SumFunctionOnSet(w, P \cup Q) = SumFunctionOnSet(w, P) + SumFunctionOnSet(w, Q)
  BY <1>1, <1>3, <1>4, SumSplit
<1>6. SumFunctionOnSet(w, P \cup Q) = SumFunctionOnSet(w, S) /\ SumFunctionOnSet(w, Q) = SumFunctionOnSet(w, S \ P)
  BY <1>2, <1>3, Zenon
<1>7. SumFunctionOnSet(w, P) \in Int /\ SumFunctionOnSet(w, Q) \in Int
  BY <1>1, <1>3, <1>4, SumInt
<1> QED BY <1>1, <1>5, <1>6, <1>7

\* Finitely many elements have finitely many keys.
LEMMA KeysFinite ==
  ASSUME NEW S, IsFiniteSet(S), NEW k
  PROVE  IsFiniteSet({k[x] : x \in S})
<1> DEFINE f == [x \in S |-> k[x]]
<1>1. IsFiniteSet({f[x] : x \in DOMAIN f})
  BY FiniteImage
<1> QED BY <1>1

(* The categories add up to what is classified, with the rest to the total *)
(* (holder_composition).                                                   *)
LEMMA CompositionHolds ==
  ASSUME NEW v, Vec(v), NEW sic, NEW x, x = Composition(v, sic)
  PROVE  x.classified + x.unclassified = TotalShares(v) /\ SumFunction(x.categories) = x.classified
<1> DEFINE S == DOMAIN v
           Rated == {m \in S : sic[m] # "none"}
           C == {sic[m] : m \in Rated}
           u == [c \in C |-> SumFunctionOnSet(v, {m \in Rated : sic[m] = c})]
<1>1. x.categories = u /\ x.classified = SumFunctionOnSet(v, Rated) /\ x.unclassified = SumFunctionOnSet(v, S \ Rated)
  BY DEF Composition
<1>2. IsFiniteSet(S) /\ (\A m \in S : v[m] \in Int) /\ Rated \in SUBSET S
  BY DEF Vec
<1>3. TotalShares(v) = SumFunctionOnSet(v, S)
  BY DEF TotalShares, SumFunction
<1>4. \A c \in C : u[c] = SumFunctionOnSet(v, OfKey(sic, Rated, c))
  BY DEF OfKey
<1>5. DOMAIN u = C
  OBVIOUS
<1>6. \A m \in Rated : sic[m] \in C
  OBVIOUS
<1>7. x.classified + x.unclassified = TotalShares(v) /\ IsFiniteSet(Rated)
  <2> HIDE DEF S, Rated, C, u
  <2> QED BY <1>1, <1>2, <1>3, SumParts
<1>8. IsFiniteSet(C)
  <2> HIDE DEF Rated
  <2> QED BY <1>7, KeysFinite
<1>9. SumFunctionOnSet(v, Rated) = SumFunctionOnSet(u, C)
  <2>1. \A m \in Rated : v[m] \in Int
    BY <1>2
  <2> HIDE DEF S, Rated, C, u
  <2> QED BY <1>4, <1>6, <1>7, <1>8, <2>1, SumByKey
<1>10. SumFunction(u) = SumFunctionOnSet(u, C)
  <2> HIDE DEF u, C
  <2>1. SumFunction(u) = SumFunctionOnSet(u, DOMAIN u)
    BY DEF SumFunction
  <2> QED BY <1>5, <2>1, Zenon
<1> HIDE DEF u, C, Rated, S
<1> QED BY <1>1, <1>7, <1>9, <1>10

(* The places add up to what is located, with the rest to the total        *)
(* (domicile).                                                             *)
LEMMA DomicileHolds ==
  ASSUME NEW R, Rows(R), NEW P, NEW v, v = ShareVector(R), NEW d, d = Domicile(R, P)
  PROVE  /\ d.located + d.unlocated = TotalShares(v)
         /\ SumFunction([p \in DOMAIN d.rows |-> d.rows[p].shares]) = d.located
<1> DEFINE S == DOMAIN v
           k == [m \in S |-> PlaceOf(R, m)]
           None == {m \in S : PlaceOf(R, m) = NoPlace}
           Known0 == S \ None
           D == {PlaceOf(R, m) : m \in S} \ {NoPlace}
           u == [p \in D |-> SumFunctionOnSet(v, {m \in S : PlaceOf(R, m) = p})]
           G == DomicileGroup(R)
<1>1. G.places = u /\ G.located = SumFunctionOnSet(v, S \ None) /\ G.unlocated = SumFunctionOnSet(v, None)
  BY DEF DomicileGroup
<1>2. Vec(v) /\ TotalShares(v) = SumFunctionOnSet(v, S) /\ \A m \in S : v[m] \in Int
  BY VecOf
<1>3. IsFiniteSet(S) /\ None \in SUBSET S
  BY <1>2 DEF Vec
<1>4. SumFunctionOnSet(v, None) + SumFunctionOnSet(v, S \ None) = SumFunctionOnSet(v, S)
      /\ SumFunctionOnSet(v, None) \in Int /\ SumFunctionOnSet(v, S \ None) \in Int
  <2> HIDE DEF S, None
  <2> QED BY <1>2, <1>3, SumParts
<1>5. IsFiniteSet(Known0) /\ IsFiniteSet(D) /\ DOMAIN u = D
  <2>1. IsFiniteSet({k[m] : m \in S})
    <3> HIDE DEF k
    <3> QED BY <1>3, KeysFinite
  <2>2. IsFiniteSet(D)
    <3>1. PICK K : K = {k[m] : m \in S} /\ IsFiniteSet(K)
      BY <2>1
    <3>2. IsFiniteSet(K \ {NoPlace})
      BY <3>1, FS_RemoveElement
    <3>3. K \ {NoPlace} = D
      BY <3>1
    <3> QED BY <3>2, <3>3, Zenon
  <2> QED BY <1>3, <2>2, FS_Subset
<1>6. (\A m \in Known0 : k[m] \in D) /\ \A m \in Known0 : v[m] \in Int
  BY <1>2
<1>7. \A p \in D : u[p] = SumFunctionOnSet(v, OfKey(k, Known0, p))
  <2> TAKE p \in D
  <2>1. {m \in S : PlaceOf(R, m) = p} = OfKey(k, Known0, p)
    BY DEF OfKey
  <2> HIDE DEF k, D
  <2>2. u[p] = SumFunctionOnSet(v, {m \in S : PlaceOf(R, m) = p})
    OBVIOUS
  <2> QED BY <2>1, <2>2, Zenon
<1> HIDE DEF k, D, Known0, u, None
<1>8. SumFunctionOnSet(v, Known0) = SumFunctionOnSet(u, D)
  BY <1>5, <1>6, <1>7, SumByKey
<1> HIDE DEF G
<1> DEFINE B == DomicileGroup(P)
<1>9. d.located = G.located /\ d.unlocated = G.unlocated /\ DOMAIN d.rows = DOMAIN G.places
      /\ \A p \in DOMAIN d.rows : d.rows[p].shares = G.places[p]
  BY DEF Domicile, G
<1> DEFINE w == [p \in DOMAIN d.rows |-> d.rows[p].shares]
<1>10. DOMAIN w = D /\ \A p \in D : u[p] = w[p]
  BY <1>1, <1>5, <1>9
<1>11. SumFunction(w) = SumFunctionOnSet(w, D)
  <2> HIDE DEF w
  <2>1. SumFunction(w) = SumFunctionOnSet(w, DOMAIN w)
    BY DEF SumFunction
  <2> QED BY <1>10, <2>1, Zenon
<1>12. SumFunctionOnSet(u, D) = SumFunctionOnSet(w, D)
  <2> HIDE DEF w
  <2> QED BY <1>5, <1>10, SumOfSame
<1>13. SumFunctionOnSet(v, Known0) = SumFunctionOnSet(v, S \ None)
  BY DEF Known0
<1> HIDE DEF w
<1>14. d.located + d.unlocated = TotalShares(v)
  BY <1>1, <1>2, <1>4, <1>9
<1>15. SumFunction(w) = d.located
  BY <1>1, <1>8, <1>9, <1>11, <1>12, <1>13
<1> QED BY <1>14, <1>15 DEF w

\* Attribution gives the total of the vector (share_attribution).
LEMMA AttributionTotal ==
  ASSUME NEW R, Rows(R), NEW v, v = ShareVector(R), NEW rows
  PROVE  OrZero(ShareAttribution(v, rows).institutional) = TotalShares(v)
<1>1. TotalShares(v) \in Nat
  BY VecOf
<1>2. ShareAttribution(v, rows).institutional = Row(TotalShares(v))
  BY DEF ShareAttribution
<1> QED BY <1>1, <1>2 DEF OrZero, Row, NoCount

----------------------------------------------------------------------------
\* Conviction: what is shown of the vector.

UnknownIn(R) == {m \in ManagersOf(R) : \E h \in R : h.manager = m /\ h.kind = "SH" /\ h.shares = NoCount}

RowsOfShares(R, m) == {h \in {g \in R : g.kind = "SH"} : h.manager = m}
\* Where every count is known, the rows of shares are those of the vector.
LEMMA KnownTotal ==
  ASSUME NEW R, Rows(R), NEW v, v = ShareVector(R), NEW m, m \notin UnknownIn(R),
         NEW O, O = RowsOfShares(R, m)
  PROVE  /\ \A h \in O : h.shares # NoCount
         /\ m \in DOMAIN v => O # {} /\ Total(O) = v[m] /\ Total(O) > 0
         /\ m \notin DOMAIN v => ~(Total(O) > 0)
<1> DEFINE L == {h \in ReportedShares(R) : h.manager = m}
<1>1. O \in SUBSET R /\ L \in SUBSET O /\ L \in SUBSET R
  BY DEF ReportedShares, RowsOfShares
<1>2. \A h \in O : h.shares # NoCount /\ h.shares \in Int /\ h.shares >= NoCount
  BY <1>1 DEF RowsOfShares, UnknownIn, ManagersOf, Rows
<1>3. \A h \in O \ L : SharesOf(R)[h] = 0
  BY <1>1, <1>2 DEF RowsOfShares, SharesOf, OrZero, NoCount, ReportedShares
<1>4. Total(O) = SumFunctionOnSet(SharesOf(R), O) /\ IsFiniteSet(O) /\ Total(O) \in Nat
  BY <1>1, TotalOf
<1>5. Total(L) = SumFunctionOnSet(SharesOf(R), L)
  BY <1>1, TotalOf
<1>6. \A h \in O : SharesOf(R)[h] \in Int
  BY <1>1, SharesAreNat
<1> HIDE DEF L
<1>7. SumFunctionOnSet(SharesOf(R), O) = SumFunctionOnSet(SharesOf(R), L)
  BY <1>1, <1>3, <1>4, <1>6, SumSkip
<1>8. Total(O) = Total(L)
  BY <1>4, <1>5, <1>7
<1>9. m \in DOMAIN v => v[m] = Total(L) /\ v[m] > 0
  <2>1. \A x \in DOMAIN v : v[x] > 0 /\ v[x] = Total({h \in ReportedShares(R) : h.manager = x})
    BY VectorIs, Zenon
  <2> QED BY <2>1 DEF L
<1>10. m \in DOMAIN v <=> L # {}
  <2>1. DOMAIN v = Present(R)
    BY Vector
  <2> QED BY <2>1 DEF Present, ManagersOf, L
<1>11. L = {} => Total(L) = 0
  <2>1. SumFunctionOnSet(SharesOf(R), {}) = 0
    BY SumEmpty
  <2> QED BY <1>5, <2>1, Zenon
<1> QED BY <1>1, <1>2, <1>4, <1>8, <1>9, <1>10, <1>11

(* The treemap shows managers of the vector with their shares there, and   *)
(* its pool is the vector less those with an unknown count (the endpoint   *)
(* institutional-conviction).                                              *)
LEMMA ConvictionHolds ==
  ASSUME NEW R, Rows(R), NEW v, v = ShareVector(R), NEW top \in Nat, NEW c, c = Conviction(R, top)
  PROVE  /\ TotalShares(c.holders) + c.other = c.pool
         /\ \A m \in DOMAIN c.holders : m \in DOMAIN v \ UnknownIn(R) /\ c.holders[m] = v[m]
         /\ c.pool = SumFunctionOnSet(v, DOMAIN v \ UnknownIn(R))
<1> DEFINE E == {h \in R : h.kind = "SH"}
           Of(m) == {h \in E : h.manager = m}
           Valued == {m \in ManagersOf(E) : Total(Of(m)) > 0 /\ \A h \in Of(m) : h.shares # NoCount}
           w == [m \in Valued |-> Total(Of(m))]
           s == Ranked(w)
           Shown == {s[i] : i \in 1 .. Min({top, Len(s)})}
           K == DOMAIN v \ UnknownIn(R)
<1>1. c.pool = TotalShares(w) /\ c.holders = Restrict(w, Shown) /\ c.other = SumFunctionOnSet(w, Valued \ Shown)
  BY DEF Conviction
<1>2. ASSUME NEW m PROVE m \in Valued <=> m \in K
  <2>1. CASE m \in UnknownIn(R)
    <3>1. \E h \in Of(m) : h.shares = NoCount
      BY <2>1 DEF UnknownIn
    <3> QED BY <2>1, <3>1
  <2>2. CASE m \notin UnknownIn(R)
    <3> DEFINE O == Of(m)
    <3>1. /\ \A h \in O : h.shares # NoCount
          /\ m \in DOMAIN v => O # {} /\ Total(O) = v[m] /\ Total(O) > 0
          /\ m \notin DOMAIN v => ~(Total(O) > 0)
      <4>1. O = RowsOfShares(R, m)
        BY DEF RowsOfShares
      <4> HIDE DEF O
      <4> QED BY <2>2, <4>1, KnownTotal
    <3>2. m \in ManagersOf(E) <=> O # {}
      BY DEF ManagersOf
    <3> HIDE DEF E
    <3> QED BY <2>2, <3>1, <3>2
  <2> QED BY <2>1, <2>2
<1>3. ASSUME NEW m \in K PROVE w[m] = v[m]
  <2>1. m \in Valued /\ m \in DOMAIN v /\ m \notin UnknownIn(R)
    BY <1>2
  <2>2. Total(Of(m)) = v[m]
    <3> DEFINE O == Of(m)
    <3>1. O = RowsOfShares(R, m)
      BY DEF RowsOfShares
    <3> HIDE DEF O
    <3>2. Total(O) = v[m]
      BY <2>1, <3>1, KnownTotal
    <3> QED BY <3>2 DEF O
  <2> HIDE DEF Of, Valued
  <2> QED BY <2>1, <2>2
<1>4. DOMAIN w = Valued
  OBVIOUS
<1>5. Valued = K
  <2> HIDE DEF Valued, K
  <2> QED BY <1>2
<1> HIDE DEF w, Valued
<1>6. Vec(v) /\ K \subseteq DOMAIN v
  BY VecOf
<1>7. Vec(w)
  <2>1. IsFiniteSet(K)
    BY <1>6, FS_Subset DEF Vec
  <2> QED BY <1>3, <1>4, <1>5, <1>6, <2>1 DEF Vec
<1> HIDE DEF K
<1>8. Shown \subseteq DOMAIN w
  <2> DEFINE n == Cardinality(DOMAIN w)
             T == {top, Len(s)}
  <2>1. n \in Nat /\ s \in [1 .. n -> DOMAIN w] /\ Len(s) = n
    BY <1>7, RankedIs, Zenon
  <2> HIDE DEF n, s
  <2>2. T \subseteq Nat /\ T # {} /\ Len(s) \in T
    BY <2>1
  <2> HIDE DEF T
  <2>3. Min(T) \in Nat /\ Min(T) <= n
    BY <2>1, <2>2, MinIs
  <2>4. \A i \in 1 .. Min(T) : i \in 1 .. n
    BY <2>1, <2>3
  <2>5. \A i \in 1 .. Min(T) : s[i] \in DOMAIN w
    BY <2>1, <2>4
  <2>6. Shown = {s[i] : i \in 1 .. Min(T)}
    BY Zenon DEF T
  <2> QED BY <2>5, <2>6
<1> HIDE DEF Shown
<1>9. DOMAIN c.holders = Shown /\ \A m \in Shown : c.holders[m] = w[m]
  BY <1>1 DEF Restrict
<1>10. IsFiniteSet(Valued) /\ Shown \in SUBSET Valued /\ \A m \in Valued : w[m] \in Int
  BY <1>4, <1>7, <1>8 DEF Vec
<1>11. /\ SumFunctionOnSet(w, Shown) + SumFunctionOnSet(w, Valued \ Shown) = SumFunctionOnSet(w, Valued)
       /\ IsFiniteSet(Shown)
  BY <1>10, SumParts
<1>12. TotalShares(c.holders) = SumFunctionOnSet(w, Shown)
  <2> DEFINE h == c.holders
  <2>1. TotalShares(h) = SumFunctionOnSet(h, DOMAIN h)
    BY DEF TotalShares, SumFunction
  <2> HIDE DEF h
  <2>2. DOMAIN h = Shown /\ \A m \in Shown : h[m] = w[m]
    BY <1>9 DEF h
  <2>3. SumFunctionOnSet(h, Shown) = SumFunctionOnSet(w, Shown)
    BY <1>11, <2>2, SumOfSame
  <2>4. TotalShares(h) = SumFunctionOnSet(h, Shown)
    BY <2>1, <2>2, Zenon
  <2> QED BY <2>3, <2>4 DEF h
<1>13. TotalShares(w) = SumFunctionOnSet(w, Valued)
  <2>1. TotalShares(w) = SumFunctionOnSet(w, DOMAIN w)
    BY DEF TotalShares, SumFunction
  <2> QED BY <1>4, <2>1, Zenon
<1>14. SumFunctionOnSet(w, Valued) = SumFunctionOnSet(v, K)
  <2>1. IsFiniteSet(K) /\ \A m \in K : w[m] = v[m]
    BY <1>3, <1>5, <1>10
  <2>2. SumFunctionOnSet(w, K) = SumFunctionOnSet(v, K)
    BY <2>1, SumOfSame
  <2> QED BY <1>5, <2>2, Zenon
<1>15. \A m \in Shown : m \in K /\ w[m] = v[m]
  BY <1>3, <1>5, <1>10
<1> QED BY <1>1, <1>9, <1>11, <1>12, <1>13, <1>14, <1>15 DEF K

----------------------------------------------------------------------------
\* Geography: managers by place.

\* A part and the rest are as many as the whole.
LEMMA CountParts ==
  ASSUME NEW S, IsFiniteSet(S), NEW P \in SUBSET S
  PROVE  Cardinality(P) + Cardinality(S \ P) = Cardinality(S) /\ IsFiniteSet(P) /\ IsFiniteSet(S \ P)
         /\ Cardinality(P) \in Nat /\ Cardinality(S \ P) \in Nat
<1>1. IsFiniteSet(P) /\ IsFiniteSet(S \ P)
  BY FS_Subset, FS_Difference
<1>2. PICK Q : Q = S \ P
  OBVIOUS
<1>3. P \cup Q = S /\ P \cap Q = {}
  BY <1>2
<1>4. IsFiniteSet(Q)
  BY <1>1, <1>2, Zenon
<1>5. Cardinality(P \cup Q) = Cardinality(P) + Cardinality(Q) - Cardinality(P \cap Q)
  BY <1>1, <1>4, FS_Union
<1>6. Cardinality(P \cup Q) = Cardinality(S) /\ Cardinality(P \cap Q) = 0 /\ Cardinality(Q) = Cardinality(S \ P)
  BY <1>2, <1>3, FS_EmptySet, Zenon
<1>7. Cardinality(P) \in Nat /\ Cardinality(Q) \in Nat
  BY <1>1, <1>4, FS_CardinalityType
<1> QED BY <1>1, <1>5, <1>6, <1>7

(* A manager is on the map, off it or unknown, and only one of these (the  *)
(* endpoint institutional-holder-geography).                               *)
LEMMA GeographyHolds ==
  ASSUME NEW R, Holders(R), NEW D, NoPlace \notin D, NEW g, g = Geography(R, D)
  PROVE  SumFunction(g.state) + g.outside + g.unknown = Cardinality(ManagersOf(R))
<1> DEFINE At(S) == ManagersOf({h \in R : h.place \in S})
           Drawn == {h.place : h \in R}
           On == Drawn \cap D
           Off == Drawn \ (D \cup {NoPlace})
           u == [p \in On |-> Cardinality(At({p}))]
           M == ManagersOf(R)
           k == [m \in M |-> CHOOSE p \in Drawn : \E h \in R : h.manager = m /\ h.place = p]
           N == {NoPlace}
<1>1. g.state = u /\ g.outside = Cardinality(At(Off)) /\ g.unknown = Cardinality(At(N))
  BY DEF Geography
<1>2. \A h \in R : h.manager \in M /\ k[h.manager] = h.place
  <2> TAKE h \in R
  <2>1. h.manager \in M
    BY DEF ManagersOf
  <2>2. \E p \in Drawn : \E x \in R : x.manager = h.manager /\ x.place = p
    OBVIOUS
  <2>3. PICK x \in R : x.manager = h.manager /\ x.place = k[h.manager]
    BY <2>1, <2>2
  <2>4. x.place = h.place
    BY <2>3 DEF Holders, OnePlace
  <2> QED BY <2>1, <2>3, <2>4
<1>3. \A m \in M : \E h \in R : h.manager = m
  BY DEF ManagersOf
<1> HIDE DEF k
<1>4. ASSUME NEW S PROVE At(S) = {m \in M : k[m] \in S}
  BY <1>2, <1>3 DEF ManagersOf
<1>5. \A m \in M : k[m] \in Drawn
  BY <1>2, <1>3
<1>6. IsFiniteSet(R)
  BY DEF Holders, Rows
<1>7. IsFiniteSet(M)
  <2> DEFINE f == [h \in R |-> h.manager]
  <2>1. IsFiniteSet({f[h] : h \in DOMAIN f})
    BY <1>6, FiniteImage
  <2> QED BY <2>1 DEF ManagersOf
<1>8. IsFiniteSet(On)
  <2> DEFINE f == [h \in R |-> h.place]
  <2>1. IsFiniteSet({f[h] : h \in DOMAIN f})
    BY <1>6, FiniteImage
  <2>2. On \subseteq {f[h] : h \in DOMAIN f}
    OBVIOUS
  <2> QED BY <2>1, <2>2, FS_Subset
<1> DEFINE A == {m \in M : k[m] \in On}
           B == {m \in M : k[m] \in Off}
           C == {m \in M : k[m] \in N}
<1>9. Cardinality(A) + Cardinality(M \ A) = Cardinality(M) /\ IsFiniteSet(A) /\ IsFiniteSet(M \ A)
      /\ Cardinality(A) \in Nat /\ Cardinality(M \ A) \in Nat
  <2>1. A \in SUBSET M
    OBVIOUS
  <2> HIDE DEF A, M
  <2> QED BY <1>7, <2>1, CountParts
<1>10. PICK Q : Q = M \ A
  OBVIOUS
<1>11. B \in SUBSET Q /\ Q \ B = C
  BY <1>5, <1>10
<1>12. Cardinality(B) + Cardinality(Q \ B) = Cardinality(Q) /\ Cardinality(B) \in Nat /\ Cardinality(Q \ B) \in Nat
  <2>1. IsFiniteSet(Q)
    BY <1>9, <1>10, Zenon
  <2> HIDE DEF B
  <2> QED BY <1>11, <2>1, CountParts
<1>13. Cardinality(A) + Cardinality(B) + Cardinality(C) = Cardinality(M)
  <2>1. Cardinality(Q \ B) = Cardinality(C) /\ Cardinality(Q) = Cardinality(M \ A)
    BY <1>10, <1>11, Zenon
  <2> HIDE DEF A, B, C
  <2> QED BY <1>9, <1>12, <2>1
<1>14. SumFunctionOnSet(u, On) = Cardinality(A)
  <2>1. \A m \in A : k[m] \in On
    OBVIOUS
  <2>2. \A p \in On : u[p] = Cardinality(OfKey(k, A, p))
    <3> TAKE p \in On
    <3>1. At({p}) = OfKey(k, A, p)
      <4>1. At({p}) = {m \in M : k[m] \in {p}}
        BY <1>4
      <4>2. {m \in M : k[m] \in {p}} = OfKey(k, A, p)
        BY DEF OfKey
      <4> HIDE DEF At
      <4> QED BY <4>1, <4>2, Zenon
    <3> HIDE DEF At, On, A
    <3>2. u[p] = Cardinality(At({p}))
      OBVIOUS
    <3> QED BY <3>1, <3>2, Zenon
  <2> HIDE DEF A, On, u
  <2> QED BY <1>8, <1>9, <2>1, <2>2, CountByKey
<1>15. SumFunction(u) = SumFunctionOnSet(u, On)
  <2>1. SumFunction(u) = SumFunctionOnSet(u, DOMAIN u) /\ DOMAIN u = On
    BY Zenon DEF SumFunction
  <2> HIDE DEF u, On
  <2> QED BY <2>1, Zenon
<1>16. Cardinality(At(Off)) = Cardinality(B) /\ Cardinality(At(N)) = Cardinality(C)
  <2>1. At(Off) = B
    BY <1>4
  <2>2. At(N) = C
    BY <1>4
  <2> HIDE DEF At, Off, B, N, C
  <2> QED BY <2>1, <2>2, Zenon
<1> HIDE DEF u, On, At, A, B, C, M, N, Off
<1> QED BY <1>1, <1>13, <1>14, <1>15, <1>16 DEF M

----------------------------------------------------------------------------
\* Attribution: the newest row of each owner.

\* The place a row of the shorter list had.
Was(i, p) == IF p < i THEN p ELSE p + 1
\* t is s without its i-th row, s having n of them.
Shorter(s, n, i, t) ==
  /\ n \in Nat /\ DOMAIN s = 1 .. n /\ DOMAIN t = 1 .. n - 1
  /\ \A p \in 1 .. n - 1 : t[p] = s[Was(i, p)] /\ Was(i, p) \in 1 .. n /\ Was(i, p) # i
  /\ \A q \in 1 .. n : q # i => \E p \in 1 .. n - 1 : Was(i, p) = q
  /\ \A p, q \in 1 .. n - 1 : p <= q <=> Was(i, p) <= Was(i, q)
LEMMA RemovedIs ==
  ASSUME NEW s, NEW n, s \in Seq(Range(s)), n = Len(s), NEW i \in 1 .. n, NEW t, t = RemoveAt(s, i)
  PROVE  Shorter(s, n, i, t)
<1> DEFINE S == Range(s)
           a == SubSeq(s, 1, i - 1)
           b == SubSeq(s, i + 1, n)
<1>1. n \in Nat /\ DOMAIN s = 1 .. n
  OBVIOUS
<1>2. \A p \in 1 .. n : s[p] \in S
  BY <1>1 DEF Range
<1> HIDE DEF S
<1>3. a \in Seq(S) /\ Len(a) = i - 1 /\ \A p \in 1 .. i - 1 : a[p] = s[p]
  <2>1. \A p \in 1 .. i - 1 : s[p] \in S
    BY <1>1, <1>2
  <2>2. 1 \in Int /\ i - 1 \in Int
    BY <1>1
  <2>3. /\ SubSeq(s, 1, i - 1) \in Seq(S)
        /\ Len(SubSeq(s, 1, i - 1)) = IF 1 <= i - 1 THEN (i - 1) - 1 + 1 ELSE 0
        /\ \A p \in 1 .. (i - 1) - 1 + 1 : SubSeq(s, 1, i - 1)[p] = s[1 + p - 1]
    BY <2>1, <2>2, SubSeqProperties
  <2> HIDE DEF a
  <2>4. a \in Seq(S) /\ (Len(a) = IF 1 <= i - 1 THEN (i - 1) - 1 + 1 ELSE 0)
        /\ \A p \in 1 .. (i - 1) - 1 + 1 : a[p] = s[1 + p - 1]
    BY <2>3, Zenon DEF a
  <2>5. \A p \in 1 .. i - 1 : p \in 1 .. (i - 1) - 1 + 1 /\ 1 + p - 1 = p
    BY <1>1
  <2>6. \A p \in 1 .. i - 1 : a[p] = s[p]
    BY <2>4, <2>5
  <2>7. (IF 1 <= i - 1 THEN (i - 1) - 1 + 1 ELSE 0) = i - 1
    BY <1>1
  <2> QED BY <2>4, <2>6, <2>7
<1>4. b \in Seq(S) /\ Len(b) = n - i /\ \A p \in 1 .. n - i : b[p] = s[i + p]
  <2>1. \A p \in i + 1 .. n : s[p] \in S
    BY <1>1, <1>2
  <2>2. i + 1 \in Int /\ n \in Int
    BY <1>1
  <2>3. /\ SubSeq(s, i + 1, n) \in Seq(S)
        /\ Len(SubSeq(s, i + 1, n)) = IF i + 1 <= n THEN n - (i + 1) + 1 ELSE 0
        /\ \A p \in 1 .. n - (i + 1) + 1 : SubSeq(s, i + 1, n)[p] = s[(i + 1) + p - 1]
    BY <2>1, <2>2, SubSeqProperties
  <2> HIDE DEF b
  <2>4. b \in Seq(S) /\ (Len(b) = IF i + 1 <= n THEN n - (i + 1) + 1 ELSE 0)
        /\ \A p \in 1 .. n - (i + 1) + 1 : b[p] = s[(i + 1) + p - 1]
    BY <2>3, Zenon DEF b
  <2>5. \A p \in 1 .. n - i : p \in 1 .. n - (i + 1) + 1 /\ (i + 1) + p - 1 = i + p
    BY <1>1
  <2>6. \A p \in 1 .. n - i : b[p] = s[i + p]
    BY <2>4, <2>5
  <2>7. (IF i + 1 <= n THEN n - (i + 1) + 1 ELSE 0) = n - i
    BY <1>1
  <2> QED BY <2>4, <2>6, <2>7
<1>5. t = a \o b
  BY Zenon DEF RemoveAt
<1> HIDE DEF a, b
<1>6. /\ t \in Seq(S) /\ Len(t) = n - 1
      /\ \A p \in 1 .. n - 1 : t[p] = IF p <= i - 1 THEN a[p] ELSE b[p - (i - 1)]
  <2>1. /\ a \o b \in Seq(S)
        /\ Len(a \o b) = Len(a) + Len(b)
        /\ \A p \in 1 .. Len(a) + Len(b) : (a \o b)[p] = IF p <= Len(a) THEN a[p] ELSE b[p - Len(a)]
    BY <1>3, <1>4, ConcatProperties
  <2>2. Len(a) + Len(b) = n - 1
    BY <1>1, <1>3, <1>4
  <2> QED BY <1>3, <1>5, <2>1, <2>2
<1>7. DOMAIN t = 1 .. n - 1
  BY <1>6
<1>8. ASSUME NEW p \in 1 .. n - 1 PROVE t[p] = s[Was(i, p)] /\ Was(i, p) \in 1 .. n /\ Was(i, p) # i
  <2>1. CASE p < i
    <3>1. p <= i - 1 /\ p \in 1 .. i - 1 /\ Was(i, p) = p
      BY <1>1, <2>1 DEF Was
    <3> QED BY <1>1, <1>3, <1>6, <2>1, <3>1
  <2>2. CASE ~(p < i)
    <3> DEFINE q == p - (i - 1)
    <3>1. ~(p <= i - 1) /\ q \in 1 .. n - i /\ Was(i, p) = p + 1 /\ i + q = p + 1
      BY <1>1, <2>2 DEF Was
    <3>2. t[p] = b[q]
      BY <1>6, <3>1
    <3> HIDE DEF q
    <3>3. b[q] = s[i + q]
      BY <1>4, <3>1
    <3> QED BY <1>1, <2>2, <3>1, <3>2, <3>3
  <2> QED BY <2>1, <2>2
<1>9. ASSUME NEW q \in 1 .. n, q # i PROVE \E p \in 1 .. n - 1 : Was(i, p) = q
  <2>1. CASE q < i
    BY <1>1, <2>1 DEF Was
  <2>2. CASE q > i
    <3>1. q - 1 \in 1 .. n - 1 /\ Was(i, q - 1) = q
      BY <1>1, <2>2 DEF Was
    <3> QED BY <3>1
  <2> QED BY <1>1, <1>9, <2>1, <2>2
<1>10. \A p, q \in 1 .. n - 1 : p <= q <=> Was(i, p) <= Was(i, q)
  BY <1>1 DEF Was
<1> QED BY <1>1, <1>7, <1>8, <1>9, <1>10 DEF Shorter

NewestOf(rows, U, f) ==
  /\ DOMAIN f = {rows[i].who : i \in U} /\ f = [w \in DOMAIN f |-> f[w]]
  /\ \A w \in DOMAIN f : \E i \in U : IsNewest(rows, U, w, i)
  /\ \A w \in DOMAIN f, i \in U : IsNewest(rows, U, w, i) => f[w] = rows[i].shares

\* Each owner's shares are those of its newest usable row.
LEMMA LatestIs ==
  ASSUME NEW rows, NEW n \in Nat, DOMAIN rows = 1 .. n, \A i \in 1 .. n : DateOf(rows[i]) \in Int, NEW kind
  PROVE  NewestOf(rows, UsableRows(rows, kind), LatestBy(rows, kind))
<1> DEFINE U == UsableRows(rows, kind)
           f == LatestBy(rows, kind)
<1>1. U \subseteq 1 .. n /\ \A i \in U : i \in Int /\ DateOf(rows[i]) \in Int
  BY DEF UsableRows
<1>2. f = [w \in {rows[i].who : i \in U} |-> rows[CHOOSE i \in U : IsNewest(rows, U, w, i)].shares]
  BY DEF LatestBy
<1> HIDE DEF U, f
<1>4. ASSUME NEW w \in {rows[i].who : i \in U} PROVE \E i \in U : IsNewest(rows, U, w, i)
  <2> DEFINE A == {i \in U : rows[i].who = w}
             a == [i \in 1 .. n |-> 0 - DateOf(rows[i])]
  <2>1. IsFiniteSet(1 .. n)
    <3>1. n \in Int
      OBVIOUS
    <3> QED BY <3>1, UptoFinite, Zenon
  <2>2. A # {} /\ A \subseteq 1 .. n
    BY <1>1
  <2>3. IsFiniteSet(A) /\ \A i \in A : a[i] \in Int /\ a[i] = 0 - DateOf(rows[i]) /\ DateOf(rows[i]) \in Int /\ i \in Int
    <3>1. IsFiniteSet(A)
      BY <2>1, <2>2, FS_Subset, Zenon
    <3> QED BY <1>1, <3>1
  <2> HIDE DEF A, a
  <2>4. PICK m \in A : \A i \in A : a[m] <= a[i]
    BY <2>2, <2>3, LeastOf
  <2> DEFINE B == {i \in A : DateOf(rows[i]) = DateOf(rows[m])}
             b == [i \in B |-> 0 - i]
  <2>5. IsFiniteSet(B) /\ m \in B /\ \A i \in B : b[i] \in Int /\ b[i] = 0 - i
    BY <2>3, FS_Subset
  <2> HIDE DEF B, b
  <2>6. PICK k \in B : \A i \in B : b[k] <= b[i]
    BY <2>5, LeastOf
  <2>7. \A j \in A : DateOf(rows[j]) < DateOf(rows[k]) \/ (DateOf(rows[j]) = DateOf(rows[k]) /\ j <= k)
    <3> TAKE j \in A
    <3>1. k \in A /\ DateOf(rows[k]) = DateOf(rows[m]) /\ k \in Int /\ j \in Int
      BY <2>3 DEF B
    <3>2. DateOf(rows[j]) <= DateOf(rows[m]) /\ DateOf(rows[j]) \in Int /\ DateOf(rows[m]) \in Int
      BY <2>3, <2>4
    <3>3. DateOf(rows[j]) = DateOf(rows[m]) => j <= k
      BY <2>5, <2>6, <3>1 DEF B
    <3> QED BY <3>1, <3>2, <3>3
  <2>8. k \in U /\ rows[k].who = w
    BY DEF A, B
  <2>9. IsNewest(rows, U, w, k)
    BY <2>7, <2>8 DEF IsNewest, A
  <2> QED BY <2>8, <2>9
<1>5. ASSUME NEW w, NEW i \in U, NEW k \in U, IsNewest(rows, U, w, i), IsNewest(rows, U, w, k) PROVE i = k
  BY <1>1, <1>5 DEF IsNewest
<1>6. ASSUME NEW w \in {rows[i].who : i \in U}, NEW k \in U, IsNewest(rows, U, w, k) PROVE f[w] = rows[k].shares
  <2> DEFINE c == CHOOSE i \in U : IsNewest(rows, U, w, i)
  <2>1. f[w] = rows[c].shares
    BY <1>2
  <2>3. c \in U /\ IsNewest(rows, U, w, c)
    BY <1>6, Zenon
  <2> HIDE DEF c
  <2>4. c = k
    BY <1>5, <1>6, <2>3
  <2> QED BY <2>1, <2>4
<1>7. DOMAIN f = {rows[i].who : i \in U} /\ f = [w \in DOMAIN f |-> f[w]]
  BY <1>2
<1>8. NewestOf(rows, U, f)
  BY <1>4, <1>6, <1>7 DEF NewestOf
<1> QED BY <1>8 DEF U, f

----------------------------------------------------------------------------
\* Attribution: a superseded position.

OwnerRows(rows) ==
  /\ rows \in Seq(Range(rows))
  /\ \A i \in DOMAIN rows :
       DateOf(rows[i]) \in Int /\ DateOf(rows[i]) >= NoDate
Supersedes(rows, i, j) ==
  /\ rows[i].who = rows[j].who /\ rows[i].kind = rows[j].kind
  /\ DateOf(rows[j]) > DateOf(rows[i]) /\ rows[j].shares # NoCount

(* Without a superseded row every owner keeps its newest (the loops over   *)
(* rows in share_attribution).                                             *)
LEMMA LatestSame ==
  ASSUME NEW rows, OwnerRows(rows), NEW i \in DOMAIN rows, NEW j \in DOMAIN rows, Supersedes(rows, i, j),
         NEW t, t = RemoveAt(rows, i), NEW kind
  PROVE  LatestBy(t, kind) = LatestBy(rows, kind)
<1> DEFINE n == Len(rows)
           UR == UsableRows(rows, kind)
           UT == UsableRows(t, kind)
           f == LatestBy(rows, kind)
           g == LatestBy(t, kind)
<1>1. rows \in Seq(Range(rows)) /\ n = Len(rows) /\ n \in Nat /\ DOMAIN rows = 1 .. n /\ i \in 1 .. n /\ j \in 1 .. n
  BY DEF OwnerRows
<1> HIDE DEF n
<1>2. /\ n \in Nat /\ DOMAIN rows = 1 .. n /\ DOMAIN t = 1 .. n - 1
      /\ \A p \in 1 .. n - 1 : t[p] = rows[Was(i, p)] /\ Was(i, p) \in 1 .. n /\ Was(i, p) # i
      /\ \A q \in 1 .. n : q # i => \E p \in 1 .. n - 1 : Was(i, p) = q
      /\ \A p, q \in 1 .. n - 1 : p <= q <=> Was(i, p) <= Was(i, q)
  <2>1. Shorter(rows, n, i, t)
    BY <1>1, RemovedIs
  <2> QED BY <2>1 DEF Shorter
<1>3. \A q \in 1 .. n : DateOf(rows[q]) \in Int /\ DateOf(rows[q]) >= NoDate
  BY <1>1 DEF OwnerRows
<1>4. n - 1 \in Nat /\ \A p \in 1 .. n - 1 : DateOf(t[p]) \in Int
  BY <1>1, <1>2, <1>3
<1>5. /\ DOMAIN f = {rows[p].who : p \in UR} /\ f = [w \in DOMAIN f |-> f[w]]
      /\ \A w \in DOMAIN f : \E p \in UR : IsNewest(rows, UR, w, p)
      /\ \A w \in DOMAIN f, p \in UR : IsNewest(rows, UR, w, p) => f[w] = rows[p].shares
  <2>1. NewestOf(rows, UR, f)
    BY <1>2, <1>3, LatestIs
  <2> QED BY <2>1 DEF NewestOf
<1>6. /\ DOMAIN g = {t[p].who : p \in UT} /\ g = [w \in DOMAIN g |-> g[w]]
      /\ \A w \in DOMAIN g, p \in UT : IsNewest(t, UT, w, p) => g[w] = t[p].shares
  <2> DEFINE m == n - 1
  <2>1. m \in Nat /\ DOMAIN t = 1 .. m /\ \A p \in 1 .. m : DateOf(t[p]) \in Int
    BY <1>2, <1>4
  <2> HIDE DEF m
  <2>2. NewestOf(t, UT, g)
    BY <2>1, LatestIs
  <2> QED BY <2>2 DEF NewestOf
<1>7. UR \subseteq 1 .. n /\ UT \subseteq 1 .. n - 1
  BY <1>2 DEF UsableRows
<1>8. \A p \in 1 .. n - 1 : p \in UT <=> Was(i, p) \in UR
  BY <1>2 DEF UsableRows
<1>9. i \in UR => j \in UR
  BY <1>1, <1>3 DEF UsableRows, Supersedes, NoDate
<1>10. rows[j].who = rows[i].who /\ DateOf(rows[j]) > DateOf(rows[i]) /\ j # i
  BY <1>1, <1>3 DEF Supersedes
<1> HIDE DEF UR, UT, f, g
<1>11. DOMAIN g = DOMAIN f
  <2>1. ASSUME NEW p \in UT PROVE t[p].who \in DOMAIN f
    BY <1>2, <1>5, <1>7, <1>8
  <2>2. ASSUME NEW q \in UR PROVE rows[q].who \in DOMAIN g
    <3>1. PICK x \in UR : x # i /\ rows[x].who = rows[q].who
      BY <1>9, <1>10
    <3>2. PICK p \in 1 .. n - 1 : Was(i, p) = x
      BY <1>2, <1>7, <3>1
    <3>3. p \in UT /\ t[p] = rows[x]
      BY <1>2, <1>8, <3>1, <3>2
    <3> QED BY <1>6, <3>1, <3>3
  <2> QED BY <1>5, <1>6, <2>1, <2>2
<1>12. ASSUME NEW w \in DOMAIN f PROVE g[w] = f[w]
  <2>1. PICK x \in UR : IsNewest(rows, UR, w, x)
    BY <1>5
  <2>2. x # i
    BY <1>1, <1>3, <1>9, <1>10, <2>1 DEF IsNewest
  <2>3. PICK p \in 1 .. n - 1 : Was(i, p) = x
    BY <1>2, <1>7, <2>2
  <2>4. p \in UT /\ t[p] = rows[x]
    BY <1>2, <1>8, <2>1, <2>3
  <2>5. IsNewest(t, UT, w, p)
    <3>1. ASSUME NEW q \in UT, t[q].who = w
          PROVE  DateOf(t[q]) < DateOf(t[p]) \/ (DateOf(t[q]) = DateOf(t[p]) /\ q <= p)
      <4>1. q \in 1 .. n - 1 /\ t[q] = rows[Was(i, q)] /\ Was(i, q) \in UR
        BY <1>2, <1>7, <1>8
      <4>2. \/ DateOf(rows[Was(i, q)]) < DateOf(rows[x])
            \/ DateOf(rows[Was(i, q)]) = DateOf(rows[x]) /\ Was(i, q) <= x
        BY <2>1, <3>1, <4>1 DEF IsNewest
      <4>3. q <= p <=> Was(i, q) <= Was(i, p)
        BY <1>2, <4>1
      <4> QED BY <2>3, <2>4, <4>1, <4>2, <4>3
    <3> QED BY <2>1, <2>4, <3>1 DEF IsNewest
  <2>6. g[w] = t[p].shares /\ f[w] = rows[x].shares
    BY <1>5, <1>6, <1>11, <2>1, <2>4, <2>5
  <2> QED BY <2>4, <2>6
<1>13. g = f
  BY <1>5, <1>6, <1>11, <1>12
<1> QED BY <1>13 DEF f, g

\* So a superseded position counts nowhere in the attribution.
LEMMA SupersededIsNowhere ==
  ASSUME NEW rows, OwnerRows(rows), NEW i \in DOMAIN rows, NEW j \in DOMAIN rows, Supersedes(rows, i, j),
         NEW v
  PROVE  ShareAttribution(v, RemoveAt(rows, i)) = ShareAttribution(v, rows)
<1> DEFINE t == RemoveAt(rows, i)
<1>1. LatestBy(t, "owned") = LatestBy(rows, "owned") /\ LatestBy(t, "13DG") = LatestBy(rows, "13DG")
  BY LatestSame
<1>2. (\E p \in DOMAIN t : t[p].kind = "unknown") <=> (\E q \in DOMAIN rows : rows[q].kind = "unknown")
  <2> DEFINE n == Len(rows)
  <2>1. rows \in Seq(Range(rows)) /\ n = Len(rows) /\ n \in Nat /\ DOMAIN rows = 1 .. n /\ i \in 1 .. n /\ j \in 1 .. n
    BY DEF OwnerRows
  <2>t. t = RemoveAt(rows, i)
    OBVIOUS
  <2> HIDE DEF n, t
  <2>2. /\ DOMAIN t = 1 .. n - 1
        /\ \A p \in 1 .. n - 1 : t[p] = rows[Was(i, p)] /\ Was(i, p) \in 1 .. n
        /\ \A q \in 1 .. n : q # i => \E p \in 1 .. n - 1 : Was(i, p) = q
    <3>1. Shorter(rows, n, i, t)
      BY <2>1, <2>t, RemovedIs
    <3> QED BY <3>1 DEF Shorter
  <2>3. rows[j].kind = rows[i].kind /\ DateOf(rows[i]) < DateOf(rows[j]) /\ DateOf(rows[i]) \in Int
    BY DEF Supersedes, OwnerRows
  <2>4. j # i
    BY <2>3
  <2>5. ASSUME NEW q \in 1 .. n, rows[q].kind = "unknown" PROVE \E p \in 1 .. n - 1 : t[p].kind = "unknown"
    <3>1. PICK x \in 1 .. n : x # i /\ rows[x].kind = "unknown"
      BY <2>1, <2>3, <2>4, <2>5
    <3> QED BY <2>2, <3>1
  <2>6. ASSUME NEW p \in 1 .. n - 1, t[p].kind = "unknown" PROVE \E q \in 1 .. n : rows[q].kind = "unknown"
    BY <2>2, <2>6
  <2> QED BY <2>1, <2>2, <2>5, <2>6
<1> HIDE DEF t
<1> DEFINE a == (\E p \in DOMAIN t : t[p].kind = "unknown")
           b == (\E q \in DOMAIN rows : rows[q].kind = "unknown")
<1>3. a = b
  <2>1. a \in BOOLEAN /\ b \in BOOLEAN
    OBVIOUS
  <2> QED BY <1>2, <2>1, Zenon
<1> HIDE DEF a, b
<1>4. ShareAttribution(v, t) = [institutional |-> Row(TotalShares(v)),
                                insider |-> Row(SumFunction(LatestBy(t, "owned"))), floor |-> a,
                                beneficial |-> Row(SumFunction(LatestBy(t, "13DG")))]
  BY Zenon DEF ShareAttribution, a
<1>5. ShareAttribution(v, rows) = [institutional |-> Row(TotalShares(v)),
                                insider |-> Row(SumFunction(LatestBy(rows, "owned"))), floor |-> b,
                                beneficial |-> Row(SumFunction(LatestBy(rows, "13DG")))]
  BY Zenon DEF ShareAttribution, b
<1>6. ShareAttribution(v, t) = ShareAttribution(v, rows)
  BY <1>1, <1>3, <1>4, <1>5, Zenon
<1> QED BY <1>6 DEF t

----------------------------------------------------------------------------
\* One register.

(* The endpoints that describe one quarter's register agree on it, for any *)
(* managers and reports: the domiciles, the composition and the            *)
(* attribution add up to the vector's total, conviction shows a part of    *)
(* it, the Gini coefficient is the mean difference, the managers for half  *)
(* are fewest, a filer is on the map once, and a position counts nowhere   *)
(* once its owner reports one of a later date (domicile, composition,      *)
(* concentration, share_attribution and the endpoints).                    *)
THEOREM OneRegisterHolds == Spec => []OneRegister
<1>1. IInv => OneRegister
  <2> SUFFICES ASSUME IInv, Ready, request.kind = "register" PROVE OneRegister
    BY DEF OneRegister
  <2> DEFINE R == request.got[1]
             v == ShareVector(R)
             d == Domicile(R, {})
             c == Conviction(R, Top)
             g == Geography(R, States)
             k == Concentration(v)
             Unknown == {m \in ManagersOf(R) : \E h \in R : h.manager = m /\ h.kind = "SH" /\ h.shares = NoCount}
             gaps == [P \in kSubset(2, DOMAIN v) |-> Max({v[m] : m \in P}) - Min({v[m] : m \in P})]
  <2>1. Holders(R) /\ Rows(R)
    <3>1. IsSeq(request.got) /\ Len(request.got) = 1 /\ \A i \in DOMAIN request.got : Holders(request.got[i])
      BY GotIs DEF ReadsOf
    <3>2. 1 \in DOMAIN request.got
      BY <3>1 DEF IsSeq
    <3> QED BY <3>1, <3>2 DEF Holders
  <2>2. Top \in Nat /\ NoPlace \notin States /\ \A rows \in Ownership : OwnerRows(rows)
    BY RegisterAssumption DEF OwnerRows, DateOf
  <2> HIDE DEF R
  <2>3. /\ d.located + d.unlocated = TotalShares(v)
        /\ SumFunction([p \in DOMAIN d.rows |-> d.rows[p].shares]) = d.located
    BY <2>1, DomicileHolds
  <2>4. Vec(v)
    BY <2>1, VecOf
  <2>5. \A sic \in [Managers -> Categories \cup {"none"}] :
          LET x == Composition(v, sic)
          IN x.classified + x.unclassified = TotalShares(v) /\ SumFunction(x.categories) = x.classified
    BY <2>4, CompositionHolds
  <2>6. OrZero(ShareAttribution(v, <<>>).institutional) = TotalShares(v)
    BY <2>1, AttributionTotal
  <2>7. /\ TotalShares(c.holders) + c.other = c.pool
        /\ \A m \in DOMAIN c.holders : m \in DOMAIN v \ Unknown /\ c.holders[m] = v[m]
        /\ c.pool = SumFunctionOnSet(v, DOMAIN v \ Unknown)
    <3>1. /\ TotalShares(c.holders) + c.other = c.pool
          /\ \A m \in DOMAIN c.holders : m \in DOMAIN v \ UnknownIn(R) /\ c.holders[m] = v[m]
          /\ c.pool = SumFunctionOnSet(v, DOMAIN v \ UnknownIn(R))
      <4> DEFINE u == UnknownIn(R)
      <4> QED BY <2>1, <2>2, ConvictionHolds
    <3> QED BY <3>1, Zenon DEF UnknownIn
  <2>8. SumFunction(g.state) + g.outside + g.unknown = Cardinality(ManagersOf(R))
    BY <2>1, <2>2, GeographyHolds
  <2>9. \A rows \in Ownership : \A i, j \in DOMAIN rows :
          /\ rows[i].who = rows[j].who /\ rows[i].kind = rows[j].kind
          /\ DateOf(rows[j]) > DateOf(rows[i]) /\ rows[j].shares # NoCount
          => ShareAttribution(v, RemoveAt(rows, i)) = ShareAttribution(v, rows)
    BY <2>2, SupersededIsNowhere DEF Supersedes
  <2>10. ASSUME k.status = "ok"
         PROVE  /\ \E M \in kSubset(k.half, DOMAIN v) : 2 * SumFunctionOnSet(v, M) >= TotalShares(v)
                /\ \A M \in SUBSET DOMAIN v :
                     Cardinality(M) < k.half => 2 * SumFunctionOnSet(v, M) < TotalShares(v)
    BY <2>4, <2>10, HalfHolds
  <2>11. ASSUME k.status = "ok" PROVE k.gini = SumFunction(gaps)
    <3>1. DOMAIN gaps = kSubset(2, DOMAIN v) /\ \A P \in kSubset(2, DOMAIN v) : gaps[P] = Gap(v, P)
      BY DEF Gap
    <3> HIDE DEF gaps, v
    <3> QED BY <2>4, <2>11, <3>1, GiniHolds
  <2> QED
    BY <2>3, <2>5, <2>6, <2>7, <2>8, <2>9, <2>10, <2>11, Zenon
    DEF OneRegister, H, R, AttributionAnswer, ConvictionAnswer, GeographyAnswer
<1> QED BY <1>1, InvariantHolds, PTL
=============================================================================
