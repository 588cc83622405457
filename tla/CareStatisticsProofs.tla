-------------------------- MODULE CareStatisticsProofs --------------------------
(***************************************************************************)
(* Proofs about the figures computed from entries and holidays             *)
(* (CareStatistics) and about the detection of conflicts they share with   *)
(* the form of an entry (ConflictDetection), as parts of Previews: for any *)
(* number of entries, children, care parties, holidays and days, whatever  *)
(* the order of the folds and sums. Sums and folds are recursions over     *)
(* finite sets; that they have a solution, and what it is, is proved by    *)
(* induction on a set of numbers or of subsets.                            *)
(***************************************************************************)
EXTENDS Previews, Functions, WellFoundedInduction, FiniteSetTheorems, TLAPS

-----------------------------------------------------------------------------
(* Induction over natural numbers and finite sets, and recursion.          *)

\* A set of numbers that contains 0, and with a number its successor, contains all.
LEMMA CountingUp ==
  ASSUME NEW C, 0 \in C, \A n \in Nat : n \in C => n + 1 \in C
  PROVE  Nat \subseteq C
  <1>. DEFINE T == Nat \ C
              R == OpToRel(<, Nat)
  <1>1. SUFFICES ASSUME T # {} PROVE FALSE
    OBVIOUS
  <1>2. IsWellFoundedOn(R, Nat)
    BY NatLessThanWellFounded
  <1>3. \A x, y \in Nat : <<y, x>> \in R <=> y < x
    BY DEF OpToRel
  <1>. HIDE DEF R
  <1>4. PICK x \in T : \A y \in T : ~ (<<y, x>> \in R)
    BY <1>1, <1>2, WFMin
  <1>5. x \in Nat /\ x # 0 /\ x - 1 \in Nat /\ x - 1 < x
    BY <1>4
  <1>6. <<x - 1, x>> \in R
    BY <1>3, <1>5
  <1>7. x - 1 \in C
    BY <1>4, <1>5, <1>6
  <1>. QED  BY <1>4, <1>5, <1>7

\* A recursion over the subsets of a finite set that takes one element at a time
\* has a solution.
IsRecursion(S, V, base, pick, step) ==
  /\ IsFiniteSet(S) /\ base \in V
  /\ pick \in [(SUBSET S) \ {{}} -> S] /\ \A T \in (SUBSET S) \ {{}} : pick[T] \in T
  /\ step \in [S \X V -> V]

IsSolution(f, S, base, pick, step) ==
  \A T \in SUBSET S : f[T] = IF T = {} THEN base ELSE step[<<pick[T], f[T \ {pick[T]}]>>]

\* Such a recursion has a solution, however many elements there are.
LEMMA RecursionExists ==
  ASSUME NEW S, NEW V, NEW base, NEW pick, NEW step, IsRecursion(S, V, base, pick, step)
  PROVE  \E f \in [SUBSET S -> V] : IsSolution(f, S, base, pick, step)
  <1>. /\ IsFiniteSet(S) /\ base \in V
       /\ pick \in [(SUBSET S) \ {{}} -> S] /\ \A T \in (SUBSET S) \ {{}} : pick[T] \in T
       /\ step \in [S \X V -> V]
    BY DEF IsRecursion
  <1>. DEFINE Small(n) == {T \in SUBSET S : Cardinality(T) <= n}
              Solves(f, n) == \A T \in Small(n) :
                f[T] = IF T = {} THEN base ELSE step[<<pick[T], f[T \ {pick[T]}]>>]
              C == {n \in Nat : \E f \in [Small(n) -> V] : Solves(f, n)}
  <1>1. \A T \in SUBSET S : IsFiniteSet(T) /\ Cardinality(T) \in Nat
    BY FS_Subset, FS_CardinalityType
  <1>2. Cardinality(S) \in Nat /\ Small(Cardinality(S)) = SUBSET S
    BY FS_Subset, FS_CardinalityType
  <1>3. 0 \in C
    <2>1. Small(0) = {{}}
      BY <1>1, FS_EmptySet
    <2>2. [T \in Small(0) |-> base] \in [Small(0) -> V] /\ Solves([T \in Small(0) |-> base], 0)
      BY <2>1
    <2>. QED  BY <2>2
  <1>4. ASSUME NEW n \in Nat, n \in C PROVE n + 1 \in C
    <2>1. PICK f \in [Small(n) -> V] : Solves(f, n)
      BY <1>4
    <2>2. \A T \in Small(n + 1) : T # {} => pick[T] \in S /\ T \ {pick[T]} \in Small(n)
      <3>. SUFFICES ASSUME NEW T \in Small(n + 1), T # {}
                    PROVE  pick[T] \in S /\ T \ {pick[T]} \in Small(n)
        OBVIOUS
      <3>1. pick[T] \in T
        OBVIOUS
      <3>2. Cardinality(T \ {pick[T]}) = Cardinality(T) - 1
        BY <1>1, <3>1, FS_RemoveElement
      <3>. QED  BY <1>1, <3>1, <3>2
    <2>. DEFINE g == [T \in Small(n + 1) |->
                        IF T = {} THEN base ELSE step[<<pick[T], f[T \ {pick[T]}]>>]]
    <2>3. g \in [Small(n + 1) -> V]
      <3>. HIDE DEF Small
      <3>. QED  BY <2>2
    <2>4. Small(n) \subseteq Small(n + 1)
      BY <1>1
    <2>5. \A T \in Small(n) : g[T] = f[T]
      <3>. HIDE DEF Small
      <3>. QED  BY <2>1, <2>4
    <2>6. Solves(g, n + 1)
      <3>. HIDE DEF Small
      <3>. QED  BY <2>2, <2>5
    <2>. HIDE DEF g, Solves, Small
    <2>7. \E h \in [Small(n + 1) -> V] : Solves(h, n + 1)
      BY <2>3, <2>6
    <2>. QED  BY <2>7
  <1>5. Cardinality(S) \in C
    <2>. HIDE DEF C
    <2>. QED  BY <1>2, <1>3, <1>4, CountingUp
  <1>6. PICK f \in [Small(Cardinality(S)) -> V] : Solves(f, Cardinality(S))
    BY <1>5
  <1>. HIDE DEF Small
  <1>. QED  BY <1>2, <1>6 DEF IsSolution

-----------------------------------------------------------------------------
(* Sums.                                                                   *)

\* Induction over the subsets of a finite set, by their size.
LEMMA BySize ==
  ASSUME NEW S, IsFiniteSet(S), NEW C,
         \A T \in SUBSET S :
           (\A U \in SUBSET S : Cardinality(U) < Cardinality(T) => U \in C) => T \in C
  PROVE  SUBSET S \subseteq C
  <1>. DEFINE D == {n \in Nat : \A T \in SUBSET S : Cardinality(T) < n => T \in C}
  <1>1. \A T \in SUBSET S : Cardinality(T) \in Nat
    BY FS_Subset, FS_CardinalityType
  <1>2. 0 \in D
    BY <1>1
  <1>3. \A n \in Nat : n \in D => n + 1 \in D
    BY <1>1
  <1>4. Nat \subseteq D
    <2>. HIDE DEF D
    <2>. QED  BY <1>2, <1>3, CountingUp
  <1>5. \A T \in SUBSET S : Cardinality(T) + 1 \in D
    BY <1>1, <1>4
  <1>. QED  BY <1>1, <1>5

\* Induction over a finite set, one element at a time.
LEMMA ByElement ==
  ASSUME NEW S, IsFiniteSet(S), NEW C, {} \in C,
         \A T \in SUBSET S, x \in S : x \notin T /\ T \in C => T \cup {x} \in C
  PROVE  S \in C
  <1>1. ASSUME NEW T \in SUBSET S, \A U \in SUBSET S : Cardinality(U) < Cardinality(T) => U \in C
        PROVE  T \in C
    <2>1. CASE T = {}
      BY <2>1
    <2>2. CASE T # {}
      <3>1. PICK x \in T : TRUE
        BY <2>2
      <3>2. /\ IsFiniteSet(T) /\ Cardinality(T) \in Nat
            /\ Cardinality(T \ {x}) = Cardinality(T) - 1
        BY <3>1, FS_Subset, FS_CardinalityType, FS_RemoveElement
      <3>3. T \ {x} \in C
        BY <1>1, <3>2
      <3>4. T = (T \ {x}) \cup {x}
        BY <3>1
      <3>. QED  BY <3>1, <3>3, <3>4
    <2>. QED  BY <2>1, <2>2
  <1>. QED  BY <1>1, BySize

-----------------------------------------------------------------------------
Pick(T) == CHOOSE x \in T : TRUE

\* The recursion behind the sum of a function.
SumsUp(h, f, S) ==
  h = [T \in SUBSET S |-> IF T = {} THEN 0 ELSE f[Pick(T)] + h[T \ {Pick(T)}]]

\* The sum of the community modules is what this recursion yields for the
\* whole domain.
LEMMA SumChosen ==
  ASSUME NEW S, NEW f \in [S -> Int]
  PROVE  SumFunction(f) = (CHOOSE h : SumsUp(h, f, S))[S]
  BY DEF SumFunction, SumFunctionOnSet, FoldFunctionOnSet, MapThenFoldSet, SumsUp, Pick

\* The recursion of the sum has a solution.
LEMMA SumExists ==
  ASSUME NEW S, IsFiniteSet(S), NEW f \in [S -> Int]
  PROVE  \E h \in [SUBSET S -> Int] : SumsUp(h, f, S)
  <1>. DEFINE pick == [T \in (SUBSET S) \ {{}} |-> Pick(T)]
              step == [p \in S \X Int |-> f[p[1]] + p[2]]
  <1>1. pick \in [(SUBSET S) \ {{}} -> S] /\ \A T \in (SUBSET S) \ {{}} : pick[T] \in T /\ pick[T] = Pick(T)
    BY DEF Pick
  <1>2. step \in [S \X Int -> Int] /\ \A x \in S, v \in Int : step[<<x, v>>] = f[x] + v
    OBVIOUS
  <1>. HIDE DEF pick, step
  <1>3. PICK h \in [SUBSET S -> Int] :
          \A T \in SUBSET S : h[T] = IF T = {} THEN 0 ELSE step[<<pick[T], h[T \ {pick[T]}]>>]
    <2>1. IsRecursion(S, Int, 0, pick, step)
      BY <1>1, <1>2 DEF IsRecursion
    <2>2. \E h \in [SUBSET S -> Int] : IsSolution(h, S, 0, pick, step)
      BY <2>1, RecursionExists
    <2>. QED  BY <2>2 DEF IsSolution
  <1>4. \A T \in SUBSET S : h[T] = IF T = {} THEN 0 ELSE f[Pick(T)] + h[T \ {Pick(T)}]
    BY <1>1, <1>2, <1>3
  <1>. QED  BY <1>4 DEF SumsUp

\* Two solutions agree, also those of a function and of its restriction.
LEMMA SumUnique ==
  ASSUME NEW S, IsFiniteSet(S), NEW R \in SUBSET S, NEW f, NEW g, \A x \in R : f[x] = g[x],
         NEW h, SumsUp(h, f, S), NEW k, SumsUp(k, g, R)
  PROVE  \A T \in SUBSET R : h[T] = k[T]
  <1>. DEFINE C == {T \in SUBSET R : h[T] = k[T]}
  <1>0. IsFiniteSet(R)
    BY FS_Subset
  <1>1. ASSUME NEW T \in SUBSET R, \A U \in SUBSET R : Cardinality(U) < Cardinality(T) => U \in C
        PROVE  T \in C
    <2>1. CASE T = {}
      BY <2>1 DEF SumsUp
    <2>2. CASE T # {}
      <3>1. Pick(T) \in T
        BY <2>2 DEF Pick
      <3>2. T \ {Pick(T)} \in C
        <4>1. IsFiniteSet(T) /\ Cardinality(T) \in Nat /\ Cardinality(T \ {Pick(T)}) = Cardinality(T) - 1
          BY <1>0, <3>1, FS_Subset, FS_CardinalityType, FS_RemoveElement
        <4>. QED  BY <1>1, <4>1
      <3>3. h[T] = f[Pick(T)] + h[T \ {Pick(T)}] /\ k[T] = g[Pick(T)] + k[T \ {Pick(T)}]
        BY <2>2 DEF SumsUp
      <3>. QED  BY <3>1, <3>2, <3>3
    <2>. QED  BY <2>1, <2>2
  <1>. HIDE DEF C
  <1>2. SUBSET R \subseteq C
    BY <1>0, <1>1, BySize
  <1>. QED  BY <1>2 DEF C

\* h takes the sum of f over every subset of S, one element at a time.
Accumulates(h, f, S) ==
  /\ h \in [SUBSET S -> Int] /\ h[{}] = 0
  /\ \A T \in SUBSET S, x \in S : x \notin T => h[T \cup {x}] = f[x] + h[T]

SumsOf(h, f, S) ==
  Accumulates(h, f, S) /\ \A T \in SUBSET S : h[T] = SumFunction([x \in T |-> f[x]])

\* The sum over all subsets of a finite set.
LEMMA SumIs ==
  ASSUME NEW S, IsFiniteSet(S), NEW f \in [S -> Int]
  PROVE  \E h : SumsOf(h, f, S)
  <1>1. PICK h \in [SUBSET S -> Int] : SumsUp(h, f, S)
    BY SumExists
  <1>2. \A T \in SUBSET S : T # {} => Pick(T) \in T /\ h[T] = f[Pick(T)] + h[T \ {Pick(T)}]
    BY <1>1 DEF SumsUp, Pick
  <1>3. \A T \in SUBSET S : h[T] = SumFunction([x \in T |-> f[x]])
    <2>. SUFFICES ASSUME NEW T \in SUBSET S PROVE h[T] = SumFunction([x \in T |-> f[x]])
      OBVIOUS
    <2>. DEFINE g == [x \in T |-> f[x]]
                k == CHOOSE k : SumsUp(k, g, T)
    <2>1. g \in [T -> Int] /\ IsFiniteSet(T) /\ \A x \in T : f[x] = g[x]
      BY FS_Subset
    <2>. HIDE DEF g
    <2>2. \E e : SumsUp(e, g, T)
      BY <2>1, SumExists
    <2>3. SumsUp(k, g, T)
      BY <2>2
    <2>4. SumFunction(g) = k[T]
      BY <2>1, SumChosen
    <2>. HIDE DEF k
    <2>5. \A U \in SUBSET T : h[U] = k[U]
      BY <1>1, <2>1, <2>3, SumUnique
    <2>. QED  BY <2>4, <2>5 DEF g
  <1>. DEFINE C == {T \in SUBSET S : \A x \in T : h[T] = f[x] + h[T \ {x}]}
  <1>4. ASSUME NEW T \in SUBSET S, \A U \in SUBSET S : Cardinality(U) < Cardinality(T) => U \in C
        PROVE  T \in C
    <2>. SUFFICES ASSUME NEW x \in T PROVE h[T] = f[x] + h[T \ {x}]
      OBVIOUS
    <2>. DEFINE p == Pick(T)
    <2>1. p \in T /\ h[T] = f[p] + h[T \ {p}]
      BY <1>2
    <2>. HIDE DEF p
    <2>2. CASE p = x
      BY <2>1, <2>2
    <2>3. CASE p # x
      <3>1. /\ IsFiniteSet(T) /\ Cardinality(T) \in Nat
            /\ Cardinality(T \ {x}) = Cardinality(T) - 1 /\ Cardinality(T \ {p}) = Cardinality(T) - 1
        BY <2>1, FS_Subset, FS_CardinalityType, FS_RemoveElement
      <3>2. T \ {x} \in C /\ T \ {p} \in C
        BY <1>4, <3>1
      <3>3. p \in T \ {x} /\ x \in T \ {p} /\ (T \ {x}) \ {p} = (T \ {p}) \ {x}
        BY <2>1, <2>3
      <3>4. h[T \ {p}] = f[x] + h[(T \ {p}) \ {x}] /\ h[T \ {x}] = f[p] + h[(T \ {p}) \ {x}]
        BY <3>2, <3>3
      <3>5. f[x] \in Int /\ f[p] \in Int /\ h[(T \ {p}) \ {x}] \in Int
        BY <2>1
      <3>. QED  BY <2>1, <3>4, <3>5
    <2>. QED  BY <2>2, <2>3
  <1>. HIDE DEF C
  <1>5. SUBSET S \subseteq C
    BY <1>4, BySize
  <1>6. ASSUME NEW T \in SUBSET S, NEW x \in S, x \notin T PROVE h[T \cup {x}] = f[x] + h[T]
    <2>1. (T \cup {x}) \ {x} = T /\ T \cup {x} \in C
      BY <1>5, <1>6
    <2>. QED  BY <2>1 DEF C
  <1>7. h[{}] = 0
    BY <1>1 DEF SumsUp
  <1>. QED  BY <1>3, <1>6, <1>7 DEF Accumulates, SumsOf

\* A sum of integers is an integer.
LEMMA SumType ==
  ASSUME NEW S, IsFiniteSet(S), NEW f \in [S -> Int]
  PROVE  SumFunction(f) \in Int
  <1>1. PICK h : SumsOf(h, f, S)
    BY SumIs
  <1>2. [x \in S |-> f[x]] = f
    OBVIOUS
  <1>3. h[S] \in Int /\ h[S] = SumFunction([x \in S |-> f[x]])
    BY <1>1 DEF Accumulates, SumsOf
  <1>. QED  BY <1>2, <1>3

\* The sum over nothing.
LEMMA SumEmpty ==
  ASSUME NEW S, S = {}, NEW f \in [S -> Int]
  PROVE  SumFunction(f) = 0
  <1>1. IsFiniteSet(S)
    BY FS_EmptySet
  <1>2. PICK h : SumsOf(h, f, S)
    BY <1>1, SumIs
  <1>3. h[S] = 0 /\ h[S] = SumFunction([x \in S |-> f[x]]) /\ [x \in S |-> f[x]] = f
    BY <1>2 DEF Accumulates, SumsOf
  <1>. QED  BY <1>3

\* One element more.
OneMore(f, g, x, S) ==
  /\ IsFiniteSet(S) /\ x \notin S /\ f \in [S \cup {x} -> Int]
  /\ g \in [S -> Int] /\ \A y \in S : g[y] = f[y]

\* One element more adds its value to the sum.
LEMMA SumAdd ==
  ASSUME NEW S, NEW x, NEW f, NEW g, OneMore(f, g, x, S)
  PROVE  SumFunction(f) = f[x] + SumFunction(g)
  <1>. DEFINE R == S \cup {x}
  <1>0. IsFiniteSet(S) /\ x \notin S /\ f \in [R -> Int] /\ g \in [S -> Int] /\ \A y \in S : g[y] = f[y]
    BY DEF OneMore
  <1>1. IsFiniteSet(R)
    BY <1>0, FS_AddElement
  <1>. HIDE DEF R
  <1>2. PICK h : SumsOf(h, f, R)
    BY <1>0, <1>1, SumIs
  <1>3. S \in SUBSET R /\ R \in SUBSET R /\ x \in R /\ S \cup {x} = R
    BY DEF R
  <1>4. h[R] = f[x] + h[S]
    BY <1>0, <1>2, <1>3 DEF Accumulates, SumsOf
  <1>5. [y \in R |-> f[y]] = f /\ [y \in S |-> f[y]] = g
    BY <1>0
  <1>6. h[R] = SumFunction([y \in R |-> f[y]]) /\ h[S] = SumFunction([y \in S |-> f[y]])
    BY <1>2, <1>3 DEF SumsOf
  <1>. QED  BY <1>4, <1>5, <1>6

\* Two sums over the same set that grow alike are the same.
LEMMA SumsAgree ==
  ASSUME NEW S, IsFiniteSet(S), NEW f \in [S -> Int], NEW h, Accumulates(h, f, S)
  PROVE  \A T \in SUBSET S : h[T] = SumFunction([x \in T |-> f[x]])
  <1>1. PICK g : SumsOf(g, f, S)
    BY SumIs
  <1>. SUFFICES ASSUME NEW R \in SUBSET S PROVE h[R] = g[R]
    BY <1>1 DEF SumsOf
  <1>. DEFINE C == {T \in SUBSET R : h[T] = g[T]}
  <1>2. IsFiniteSet(R)
    BY FS_Subset
  <1>3. {} \in C
    BY <1>1 DEF Accumulates, SumsOf
  <1>4. \A T \in SUBSET R, x \in R : x \notin T /\ T \in C => T \cup {x} \in C
    BY <1>1 DEF Accumulates, SumsOf
  <1>5. R \in C
    <2>. HIDE DEF C
    <2>. QED  BY <1>2, <1>3, <1>4, ByElement
  <1>. QED  BY <1>5

\* The sum of sums of two functions.
LEMMA SumPlus ==
  ASSUME NEW S, IsFiniteSet(S), NEW f \in [S -> Int], NEW g \in [S -> Int],
         NEW e \in [S -> Int], \A x \in S : e[x] = f[x] + g[x]
  PROVE  SumFunction(e) = SumFunction(f) + SumFunction(g)
  <1>1. PICK h : SumsOf(h, f, S)
    BY SumIs
  <1>2. PICK k : SumsOf(k, g, S)
    BY SumIs
  <1>. DEFINE both == [T \in SUBSET S |-> h[T] + k[T]]
  <1>3. both \in [SUBSET S -> Int] /\ both[{}] = 0
    BY <1>1, <1>2 DEF Accumulates, SumsOf
  <1>4. \A T \in SUBSET S, x \in S : x \notin T => both[T \cup {x}] = e[x] + both[T]
    <2>. SUFFICES ASSUME NEW T \in SUBSET S, NEW x \in S, x \notin T
                  PROVE  both[T \cup {x}] = e[x] + both[T]
      OBVIOUS
    <2>1. h[T \cup {x}] = f[x] + h[T] /\ k[T \cup {x}] = g[x] + k[T]
      BY <1>1, <1>2 DEF Accumulates, SumsOf
    <2>2. h[T] \in Int /\ k[T] \in Int /\ f[x] \in Int /\ g[x] \in Int /\ T \cup {x} \in SUBSET S
      BY <1>1, <1>2 DEF Accumulates, SumsOf
    <2>. QED  BY <2>1, <2>2
  <1>. HIDE DEF both
  <1>5. both[S] = SumFunction([x \in S |-> e[x]])
    <2>1. Accumulates(both, e, S)
      BY <1>3, <1>4 DEF Accumulates
    <2>. QED  BY <1>3, <2>1, SumsAgree
  <1>6. h[S] = SumFunction([x \in S |-> f[x]]) /\ k[S] = SumFunction([x \in S |-> g[x]])
    BY <1>1, <1>2 DEF SumsOf
  <1>7. [x \in S |-> f[x]] = f /\ [x \in S |-> g[x]] = g /\ [x \in S |-> e[x]] = e
    BY <1>3
  <1>. QED  BY <1>5, <1>6, <1>7 DEF both

\* A common factor can be taken out of a sum.
LEMMA SumScale ==
  ASSUME NEW S, IsFiniteSet(S), NEW f \in [S -> Int], NEW c \in Int,
         NEW e \in [S -> Int], \A x \in S : e[x] = c * f[x]
  PROVE  SumFunction(e) = c * SumFunction(f)
  <1>1. PICK h : SumsOf(h, f, S)
    BY SumIs
  <1>. DEFINE k == [T \in SUBSET S |-> c * h[T]]
  <1>2. k \in [SUBSET S -> Int] /\ k[{}] = 0
    BY <1>1 DEF Accumulates, SumsOf
  <1>3. \A T \in SUBSET S, x \in S : x \notin T => k[T \cup {x}] = e[x] + k[T]
    <2>. SUFFICES ASSUME NEW T \in SUBSET S, NEW x \in S, x \notin T PROVE k[T \cup {x}] = e[x] + k[T]
      OBVIOUS
    <2>1. h[T \cup {x}] = f[x] + h[T] /\ h[T] \in Int /\ f[x] \in Int
      BY <1>1 DEF Accumulates, SumsOf
    <2>2. c * (f[x] + h[T]) = c * f[x] + c * h[T]
      BY <2>1
    <2>. QED  BY <2>1, <2>2
  <1>. HIDE DEF k
  <1>4. k[S] = SumFunction([x \in S |-> e[x]])
    <2>1. Accumulates(k, e, S)
      BY <1>2, <1>3 DEF Accumulates
    <2>. QED  BY <1>2, <2>1, SumsAgree
  <1>5. h[S] = SumFunction([x \in S |-> f[x]])
    BY <1>1 DEF SumsOf
  <1>6. [x \in S |-> f[x]] = f /\ [x \in S |-> e[x]] = e
    BY <1>2
  <1>. QED  BY <1>4, <1>5, <1>6 DEF k

\* The sum of a value that is the same for all.
LEMMA SumConstant ==
  ASSUME NEW S, IsFiniteSet(S), NEW c \in Int, NEW e \in [S -> Int], \A x \in S : e[x] = c
  PROVE  SumFunction(e) = Cardinality(S) * c
  <1>. DEFINE k == [T \in SUBSET S |-> Cardinality(T) * c]
  <1>1. \A T \in SUBSET S : IsFiniteSet(T) /\ Cardinality(T) \in Nat
    BY FS_Subset, FS_CardinalityType
  <1>2. k \in [SUBSET S -> Int] /\ k[{}] = 0
    BY <1>1, FS_EmptySet
  <1>3. \A T \in SUBSET S, x \in S : x \notin T => k[T \cup {x}] = e[x] + k[T]
    <2>. SUFFICES ASSUME NEW T \in SUBSET S, NEW x \in S, x \notin T PROVE k[T \cup {x}] = e[x] + k[T]
      OBVIOUS
    <2>1. Cardinality(T \cup {x}) = Cardinality(T) + 1 /\ Cardinality(T) \in Nat
      BY <1>1, FS_AddElement
    <2>2. (Cardinality(T) + 1) * c = c + Cardinality(T) * c
      BY <2>1
    <2>. QED  BY <2>1, <2>2
  <1>. HIDE DEF k
  <1>4. k[S] = SumFunction([x \in S |-> e[x]])
    <2>1. Accumulates(k, e, S)
      BY <1>2, <1>3 DEF Accumulates
    <2>. QED  BY <1>2, <2>1, SumsAgree
  <1>5. [x \in S |-> e[x]] = e
    BY <1>2
  <1>. QED  BY <1>4, <1>5 DEF k

\* Nothing but zeros adds up to zero.
LEMMA SumZero ==
  ASSUME NEW S, IsFiniteSet(S), NEW e \in [S -> Int], \A x \in S : e[x] = 0
  PROVE  SumFunction(e) = 0
  <1>1. SumFunction(e) = Cardinality(S) * 0 /\ Cardinality(S) \in Nat
    BY SumConstant, FS_CardinalityType
  <1>. QED  BY <1>1

\* The sum over a disjoint union.
LEMMA SumsSplit ==
  ASSUME NEW S, IsFiniteSet(S), NEW f \in [S -> Int], NEW h, SumsOf(h, f, S),
         NEW A \in SUBSET S, NEW B \in SUBSET S, A \cap B = {}
  PROVE  h[A \cup B] = h[A] + h[B]
  <1>. DEFINE C == {R \in SUBSET B : h[A \cup R] = h[A] + h[R]}
  <1>1. IsFiniteSet(B) /\ h \in [SUBSET S -> Int]
    BY FS_Subset DEF SumsOf, Accumulates
  <1>2. {} \in C
    <2>1. h[{}] = 0 /\ h[A] \in Int
      BY <1>1 DEF SumsOf, Accumulates
    <2>2. A \cup {} = A
      OBVIOUS
    <2>3. h[A \cup {}] = h[A] + h[{}]
      BY <2>1, <2>2
    <2>. QED  BY <2>3
  <1>3. ASSUME NEW R \in SUBSET B, NEW x \in B, x \notin R, R \in C PROVE R \cup {x} \in C
    <2>0. R \in SUBSET S /\ A \cup R \in SUBSET S /\ x \in S /\ x \notin A \cup R
      BY <1>3
    <2>1. h[R \cup {x}] = f[x] + h[R]
      BY <1>3, <2>0 DEF SumsOf, Accumulates
    <2>2. h[(A \cup R) \cup {x}] = f[x] + h[A \cup R]
      BY <2>0 DEF SumsOf, Accumulates
    <2>3. A \cup (R \cup {x}) = (A \cup R) \cup {x}
      OBVIOUS
    <2>4. h[A] \in Int /\ h[R] \in Int /\ f[x] \in Int /\ h[A \cup R] = h[A] + h[R]
      BY <1>1, <1>3
    <2>5. h[A \cup (R \cup {x})] = h[A] + h[R \cup {x}]
      <3>. DEFINE a == h[A]
                  r == h[R]
                  y == f[x]
      <3>1. a \in Int /\ r \in Int /\ y \in Int /\ h[A \cup (R \cup {x})] = y + (a + r) /\ h[R \cup {x}] = y + r
        BY <2>1, <2>2, <2>3, <2>4
      <3>. HIDE DEF a, r, y
      <3>2. y + (a + r) = a + (y + r)
        BY <3>1
      <3>. QED  BY <3>1, <3>2 DEF a
    <2>6. R \cup {x} \in SUBSET B
      BY <1>3
    <2>. QED  BY <2>5, <2>6
  <1>4. B \in C
    <2>. HIDE DEF C
    <2>. QED  BY <1>1, <1>2, <1>3, ByElement
  <1>. QED  BY <1>4

\* Elements that count nothing can be left out.
LEMMA SumRestrict ==
  ASSUME NEW S, IsFiniteSet(S), NEW f \in [S -> Int], NEW T \in SUBSET S, \A x \in S \ T : f[x] = 0
  PROVE  SumFunction(f) = SumFunction([x \in T |-> f[x]])
  <1>1. PICK h : SumsOf(h, f, S)
    BY SumIs
  <1>. DEFINE R == S \ T
  <1>2. IsFiniteSet(R) /\ IsFiniteSet(T) /\ R \in SUBSET S /\ T \cap R = {} /\ T \cup R = S
    BY FS_Subset
  <1>3. h[S] = h[T] + h[R]
    <2>. HIDE DEF R
    <2>. QED  BY <1>1, <1>2, SumsSplit
  <1>4. h[R] = 0
    <2>1. h[R] = SumFunction([x \in R |-> f[x]])
      BY <1>1 DEF SumsOf
    <2>. DEFINE e == [x \in R |-> f[x]]
    <2>2. e \in [R -> Int] /\ \A x \in R : e[x] = 0
      OBVIOUS
    <2>. HIDE DEF R, e
    <2>3. SumFunction(e) = 0
      BY <1>2, <2>2, SumZero
    <2>. QED  BY <2>1, <2>3 DEF e
  <1>5. h[T] = SumFunction([x \in T |-> f[x]]) /\ h[S] = SumFunction([x \in S |-> f[x]]) /\ h[T] \in Int
    BY <1>1 DEF SumsOf, Accumulates
  <1>6. [x \in S |-> f[x]] = f
    OBVIOUS
  <1>. QED  BY <1>3, <1>4, <1>5, <1>6

\* The sum over a union of disjoint sets is the sum of their sums.
IsPartition(F, S, U) ==
  /\ IsFiniteSet(S) /\ IsFiniteSet(U) /\ F \in [S -> SUBSET U]
  /\ \A x, y \in S : x # y => F[x] \cap F[y] = {}
  /\ UNION {F[x] : x \in S} = U

\* The sum over a union of disjoint sets is the sum of their sums.
LEMMA SumUnion ==
  ASSUME NEW S, NEW U, NEW F, IsPartition(F, S, U), NEW f \in [U -> Int]
  PROVE  SumFunction(f) = SumFunction([x \in S |-> SumFunction([u \in F[x] |-> f[u]])])
  <1>0. /\ IsFiniteSet(S) /\ IsFiniteSet(U) /\ F \in [S -> SUBSET U]
        /\ \A x, y \in S : x # y => F[x] \cap F[y] = {}
        /\ UNION {F[x] : x \in S} = U
    BY DEF IsPartition
  <1>1. PICK h : SumsOf(h, f, U)
    BY <1>0, SumIs
  <1>. DEFINE All(T) == UNION {F[x] : x \in T}
              k == [T \in SUBSET S |-> h[All(T)]]
              e == [x \in S |-> h[F[x]]]
  <1>2. h \in [SUBSET U -> Int] /\ h[{}] = 0
    BY <1>1 DEF SumsOf, Accumulates
  <1>3. \A T \in SUBSET S : All(T) \in SUBSET U
    BY <1>0
  <1>4. Accumulates(k, e, S)
    <2>1. e \in [S -> Int] /\ k \in [SUBSET S -> Int]
      BY <1>0, <1>2, <1>3
    <2>2. k[{}] = 0
      <3>1. All({}) = {} /\ {} \in SUBSET S
        OBVIOUS
      <3>2. k[{}] = h[All({})]
        BY <3>1
      <3>. HIDE DEF All
      <3>. QED  BY <1>2, <3>1, <3>2
    <2>3. ASSUME NEW T \in SUBSET S, NEW x \in S, x \notin T PROVE k[T \cup {x}] = e[x] + k[T]
      <3>1. All(T \cup {x}) = F[x] \cup All(T) /\ F[x] \cap All(T) = {}
        BY <1>0, <2>3
      <3>. HIDE DEF All
      <3>2. h[F[x] \cup All(T)] = h[F[x]] + h[All(T)]
        BY <1>0, <1>1, <1>3, <3>1, SumsSplit
      <3>. QED  BY <3>1, <3>2
    <2>. HIDE DEF k, e
    <2>. QED  BY <2>1, <2>2, <2>3 DEF Accumulates
  <1>5. k[S] = SumFunction([x \in S |-> e[x]])
    <2>1. e \in [S -> Int]
      BY <1>0, <1>2
    <2>. HIDE DEF k, e
    <2>. QED  BY <1>0, <1>4, <2>1, SumsAgree
  <1>6. k[S] = h[U] /\ h[U] = SumFunction([u \in U |-> f[u]])
    BY <1>0, <1>1 DEF SumsOf
  <1>7. [u \in U |-> f[u]] = f
    OBVIOUS
  <1>8. [x \in S |-> e[x]] = [x \in S |-> SumFunction([u \in F[x] |-> f[u]])]
    BY <1>0, <1>1 DEF SumsOf
  <1>. QED  BY <1>5, <1>6, <1>7, <1>8

\* The number of elements of a union of disjoint sets.
LEMMA CountUnion ==
  ASSUME NEW S, NEW U, NEW F, IsPartition(F, S, U)
  PROVE  Cardinality(U) = SumFunction([x \in S |-> Cardinality(F[x])])
  <1>. DEFINE f == [u \in U |-> 1]
  <1>1. f \in [U -> Int]
    OBVIOUS
  <1>2. SumFunction(f) = SumFunction([x \in S |-> SumFunction([u \in F[x] |-> f[u]])])
    <2>. HIDE DEF f
    <2>. QED  BY <1>1, SumUnion
  <1>3. \A T \in SUBSET U : SumFunction([u \in T |-> 1]) = Cardinality(T)
    <2>. SUFFICES ASSUME NEW T \in SUBSET U PROVE SumFunction([u \in T |-> 1]) = Cardinality(T)
      OBVIOUS
    <2>1. IsFiniteSet(T) /\ Cardinality(T) \in Nat
      BY FS_Subset, FS_CardinalityType DEF IsPartition
    <2>. DEFINE e == [u \in T |-> 1]
    <2>2. e \in [T -> Int] /\ \A u \in T : e[u] = 1
      OBVIOUS
    <2>. HIDE DEF e
    <2>3. SumFunction(e) = Cardinality(T) * 1
      BY <2>1, <2>2, SumConstant
    <2>. QED  BY <2>1, <2>3 DEF e
  <1>4. \A x \in S : [u \in F[x] |-> f[u]] = [u \in F[x] |-> 1]
    BY DEF IsPartition
  <1>5. \A x \in S : SumFunction([u \in F[x] |-> f[u]]) = Cardinality(F[x])
    BY <1>3, <1>4 DEF IsPartition
  <1>. QED  BY <1>2, <1>3, <1>5

\* The order of two summations can be exchanged.
LEMMA SumExchange ==
  ASSUME NEW S, IsFiniteSet(S), NEW T, IsFiniteSet(T), NEW f \in [S -> [T -> Int]]
  PROVE  SumFunction([x \in S |-> SumFunction(f[x])])
           = SumFunction([t \in T |-> SumFunction([x \in S |-> f[x][t]])])
  <1>. DEFINE e == [x \in S |-> SumFunction(f[x])]
              col(R, t) == SumFunction([x \in R |-> f[x][t]])
              k == [R \in SUBSET S |-> SumFunction([t \in T |-> col(R, t)])]
  <1>1. \A R \in SUBSET S, t \in T : col(R, t) \in Int
    <2>. SUFFICES ASSUME NEW R \in SUBSET S, NEW t \in T PROVE col(R, t) \in Int
      OBVIOUS
    <2>1. IsFiniteSet(R) /\ [x \in R |-> f[x][t]] \in [R -> Int]
      BY FS_Subset
    <2>. QED  BY <2>1, SumType
  <1>2. e \in [S -> Int]
    BY SumType
  <1>. HIDE DEF col
  <1>3. k \in [SUBSET S -> Int]
    <2>1. \A R \in SUBSET S : [t \in T |-> col(R, t)] \in [T -> Int]
      BY <1>1
    <2>. QED  BY <2>1, SumType
  <1>4. k[{}] = 0
    <2>1. \A t \in T : col({}, t) = 0
      <3>. SUFFICES ASSUME NEW t \in T PROVE col({}, t) = 0
        OBVIOUS
      <3>. DEFINE E == {}
                  g == [x \in E |-> f[x][t]]
      <3>1. g \in [E -> Int] /\ E = {}
        OBVIOUS
      <3>. HIDE DEF g, E
      <3>2. SumFunction(g) = 0
        BY <3>1, SumEmpty
      <3>. QED  BY <3>2 DEF col, g, E
    <2>. DEFINE z == [t \in T |-> col({}, t)]
    <2>2. z \in [T -> Int] /\ \A t \in T : z[t] = 0
      BY <2>1
    <2>3. k[{}] = SumFunction(z)
      OBVIOUS
    <2>. HIDE DEF z, k
    <2>. QED  BY <2>2, <2>3, SumZero
  <1>5. ASSUME NEW R \in SUBSET S, NEW x \in S, x \notin R PROVE k[R \cup {x}] = e[x] + k[R]
    <2>1. \A t \in T : col(R \cup {x}, t) = f[x][t] + col(R, t)
      <3>. SUFFICES ASSUME NEW t \in T PROVE col(R \cup {x}, t) = f[x][t] + col(R, t)
        OBVIOUS
      <3>. DEFINE Q == R \cup {x}
                  g == [y \in Q |-> f[y][t]]
                  d == [y \in R |-> f[y][t]]
      <3>1. IsFiniteSet(R) /\ g \in [Q -> Int] /\ g[x] = f[x][t] /\ d \in [R -> Int]
            /\ (\A y \in R : d[y] = g[y]) /\ Q = R \cup {x}
        BY FS_Subset
      <3>. HIDE DEF g, d, Q
      <3>2. OneMore(g, d, x, R)
        BY <1>5, <3>1 DEF OneMore
      <3>3. SumFunction(g) = g[x] + SumFunction(d)
        BY <3>2, SumAdd
      <3>. QED  BY <3>1, <3>3 DEF col, g, d, Q
    <2>. DEFINE c == [t \in T |-> col(R, t)]
                fx == f[x]
                b == [t \in T |-> col(R \cup {x}, t)]
    <2>2. c \in [T -> Int] /\ fx \in [T -> Int] /\ b \in [T -> Int] /\ \A t \in T : b[t] = fx[t] + c[t]
      BY <1>1, <1>5, <2>1
    <2>3. k[R \cup {x}] = SumFunction(b) /\ k[R] = SumFunction(c) /\ e[x] = SumFunction(fx)
      BY <1>5
    <2>. HIDE DEF b, c, fx, k, e
    <2>4. SumFunction(b) = SumFunction(fx) + SumFunction(c)
      BY <2>2, SumPlus
    <2>. QED  BY <2>3, <2>4
  <1>. HIDE DEF e, k
  <1>6. Accumulates(k, e, S)
    BY <1>2, <1>3, <1>4, <1>5 DEF Accumulates
  <1>7. k[S] = SumFunction([x \in S |-> e[x]])
    BY <1>2, <1>6, SumsAgree
  <1>8. [x \in S |-> e[x]] = e
    BY <1>2
  <1>. QED  BY <1>7, <1>8 DEF e, k, col

\* A sum of natural numbers is a natural number.
LEMMA SumNat ==
  ASSUME NEW S, IsFiniteSet(S), NEW f \in [S -> Nat]
  PROVE  SumFunction(f) \in Nat
  <1>0. f \in [S -> Int]
    OBVIOUS
  <1>1. PICK h : SumsOf(h, f, S)
    BY <1>0, SumIs
  <1>. DEFINE C == {T \in SUBSET S : h[T] \in Nat}
  <1>2. {} \in C /\ \A T \in SUBSET S, x \in S : x \notin T /\ T \in C => T \cup {x} \in C
    BY <1>1 DEF SumsOf, Accumulates
  <1>3. S \in C
    <2>. HIDE DEF C
    <2>. QED  BY <1>2, ByElement
  <1>4. [x \in S |-> f[x]] = f
    OBVIOUS
  <1>. QED  BY <1>1, <1>3, <1>4 DEF SumsOf

-----------------------------------------------------------------------------
(* Orders and folds.                                                       *)

\* R orders the elements of S: strictly, and any two of them.
Orders(R, S) ==
  /\ \A a \in S : <<a, a>> \notin R
  /\ \A a, b, c \in S : <<a, b>> \in R /\ <<b, c>> \in R => <<a, c>> \in R
  /\ \A a, b \in S : a # b => <<a, b>> \in R \/ <<b, a>> \in R

Rank(x, R, S) == Cardinality({m \in S : <<m, x>> \in R}) + 1

\* Ranks run from one to the number of elements and grow along the order.
LEMMA RanksAre ==
  ASSUME NEW S, IsFiniteSet(S), NEW R, Orders(R, S)
  PROVE  /\ \A x \in S : Rank(x, R, S) \in 1..Cardinality(S)
         /\ \A x, y \in S : <<x, y>> \in R => Rank(x, R, S) < Rank(y, R, S)
  <1>. DEFINE Below(x) == {m \in S : <<m, x>> \in R}
  <1>0. Cardinality(S) \in Nat
    BY FS_CardinalityType
  <1>1. \A x \in S : Below(x) \in SUBSET (S \ {x})
    BY DEF Orders
  <1>2. \A x \in S : IsFiniteSet(S \ {x}) /\ Cardinality(S \ {x}) = Cardinality(S) - 1
    BY <1>0, FS_RemoveElement
  <1>3. \A x \in S : /\ IsFiniteSet(Below(x)) /\ Cardinality(Below(x)) \in Nat
                     /\ Cardinality(Below(x)) <= Cardinality(S) - 1
    <2>. SUFFICES ASSUME NEW x \in S
                  PROVE  /\ IsFiniteSet(Below(x)) /\ Cardinality(Below(x)) \in Nat
                         /\ Cardinality(Below(x)) <= Cardinality(S) - 1
      OBVIOUS
    <2>. HIDE DEF Below
    <2>1. IsFiniteSet(Below(x)) /\ Cardinality(Below(x)) <= Cardinality(S \ {x})
      BY <1>1, <1>2, FS_Subset
    <2>2. Cardinality(Below(x)) \in Nat
      BY <2>1, FS_CardinalityType
    <2>. QED  BY <1>2, <2>1, <2>2
  <1>4. \A x \in S : Rank(x, R, S) = Cardinality(Below(x)) + 1
    BY DEF Rank
  <1>5. ASSUME NEW x \in S, NEW y \in S, <<x, y>> \in R
        PROVE  Cardinality(Below(x)) < Cardinality(Below(y))
    <2>1. Below(x) \subseteq Below(y) /\ x \in Below(y) /\ x \notin Below(x)
      BY <1>5 DEF Orders
    <2>. HIDE DEF Below
    <2>2. Cardinality(Below(x)) <= Cardinality(Below(y)) /\ Below(x) # Below(y)
      BY <1>3, <2>1, FS_Subset
    <2>3. Cardinality(Below(x)) # Cardinality(Below(y))
      BY <1>3, <2>1, <2>2, FS_Subset
    <2>. QED  BY <1>3, <2>2, <2>3
  <1>. HIDE DEF Below
  <1>. QED  BY <1>0, <1>3, <1>4, <1>5

Ranked(R, S) == [i \in 1..Cardinality(S) |-> CHOOSE x \in S : Rank(x, R, S) = i]

\* All elements, each once, in their order.
LEMMA RankedIs ==
  ASSUME NEW S, IsFiniteSet(S), NEW R, Orders(R, S)
  PROVE  LET s == Ranked(R, S)
             n == Cardinality(S)
         IN /\ n \in Nat /\ s \in [1..n -> S]
            /\ \A i, j \in 1..n : i < j <=> <<s[i], s[j]>> \in R
            /\ \A x \in S : \E i \in 1..n : s[i] = x
  <1>. DEFINE s == Ranked(R, S)
              n == Cardinality(S)
              p == [x \in S |-> Rank(x, R, S)]
  <1>1. n \in Nat /\ IsFiniteSet(1..n) /\ Cardinality(1..n) = n
    BY FS_CardinalityType, FS_Interval
  <1>2. \A x, y \in S : x # y => <<x, y>> \in R \/ <<y, x>> \in R
    BY DEF Orders
  <1>3. /\ \A x \in S : Rank(x, R, S) \in 1..n
        /\ \A x, y \in S : <<x, y>> \in R => Rank(x, R, S) < Rank(y, R, S)
    BY RanksAre
  <1>. HIDE DEF n
  <1>a. \A x, y \in S : x # y => Rank(x, R, S) # Rank(y, R, S)
    <2>. SUFFICES ASSUME NEW x \in S, NEW y \in S, x # y PROVE Rank(x, R, S) # Rank(y, R, S)
      OBVIOUS
    <2>1. Rank(x, R, S) \in Int /\ Rank(y, R, S) \in Int
      BY <1>3
    <2>2. Rank(x, R, S) < Rank(y, R, S) \/ Rank(y, R, S) < Rank(x, R, S)
      BY <1>2, <1>3
    <2>. QED  BY <2>1, <2>2
  <1>4. p \in Injection(S, 1..n)
    BY <1>3, <1>a DEF Injection, IsInjective
  <1>5. p \in Surjection(S, 1..n)
    BY <1>1, <1>4, FS_Injection DEF n
  <1>6. \A i \in 1..n : \E x \in S : Rank(x, R, S) = i
    BY <1>5 DEF Surjection
  <1>7. s = [i \in 1..n |-> CHOOSE x \in S : Rank(x, R, S) = i]
    BY DEF Ranked, n
  <1>8. \A i \in 1..n : s[i] \in S /\ Rank(s[i], R, S) = i
    <2>. SUFFICES ASSUME NEW i \in 1..n PROVE s[i] \in S /\ Rank(s[i], R, S) = i
      OBVIOUS
    <2>1. s[i] = CHOOSE x \in S : Rank(x, R, S) = i
      BY <1>7
    <2>2. \E x \in S : Rank(x, R, S) = i
      BY <1>6
    <2>. QED  BY <2>1, <2>2
  <1>9. s \in [1..n -> S]
    BY <1>7, <1>8
  <1>. HIDE DEF s
  <1>10. \A i, j \in 1..n : <<s[i], s[j]>> \in R => i < j
    BY <1>1, <1>3, <1>8
  <1>11. \A i, j \in 1..n : i < j => <<s[i], s[j]>> \in R
    <2>. SUFFICES ASSUME NEW i \in 1..n, NEW j \in 1..n, i < j PROVE <<s[i], s[j]>> \in R
      OBVIOUS
    <2>1. s[i] \in S /\ s[j] \in S /\ s[i] # s[j]
      BY <1>1, <1>8
    <2>2. <<s[j], s[i]>> \notin R
      BY <1>1, <1>10
    <2>. QED  BY <1>2, <2>1, <2>2
  <1>12. \A x \in S : \E i \in 1..n : s[i] = x
    BY <1>3, <1>8, <1>a
  <1>. QED  BY <1>1, <1>9, <1>10, <1>11, <1>12 DEF s, n

\* The largest number up to n, and what is left without it.
LEMMA LastOne ==
  ASSUME NEW n \in Nat, n # 0
  PROVE  /\ (CHOOSE x \in 1..n : \A y \in 1..n : x >= y) = n
         /\ (1..n) \ {n} = 1..(n - 1) /\ 1..n # {}
  <1>1. n \in 1..n /\ (\A y \in 1..n : n >= y)
    OBVIOUS
  <1>2. \A x \in 1..n : (\A y \in 1..n : x >= y) => x = n
    BY <1>1
  <1>3. (CHOOSE x \in 1..n : \A y \in 1..n : x >= y) = n
    BY <1>1, <1>2
  <1>4. (1..n) \ {n} = 1..(n - 1)
    OBVIOUS
  <1>. QED  BY <1>1, <1>3, <1>4

Last(T) == CHOOSE x \in T : \A y \in T : x >= y

\* What a fold to the left computes, over the positions up to n.
Folds(h, n, base, step) ==
  \A T \in SUBSET (1..n) : h[T] = IF T = {} THEN base ELSE step[<<Last(T), h[T \ {Last(T)}]>>]

\* A set of positions that is not empty has a last one.
LEMMA LastIs ==
  ASSUME NEW n \in Nat, NEW T \in SUBSET (1..n), T # {}
  PROVE  Last(T) \in T
  <1>1. \E x \in T : \A y \in T : x >= y
    <2>. DEFINE C == {k \in Nat : (\E z \in T : z >= n - k) => \E x \in T : \A y \in T : x >= y}
    <2>1. 0 \in C
      OBVIOUS
    <2>2. \A k \in Nat : k \in C => k + 1 \in C
      <3>. SUFFICES ASSUME NEW k \in Nat, k \in C, NEW z \in T, z >= n - (k + 1)
                    PROVE  \E x \in T : \A y \in T : x >= y
        OBVIOUS
      <3>1. CASE \E y \in T : y >= n - k
        BY <3>1
      <3>2. CASE ~ \E y \in T : y >= n - k
        <4>1. \A y \in T : z >= y
          BY <3>2
        <4>. QED  BY <4>1
      <3>. QED  BY <3>1, <3>2
    <2>3. n \in C
      <3>. HIDE DEF C
      <3>. QED  BY <2>1, <2>2, CountingUp
    <2>4. PICK z \in T : TRUE
      OBVIOUS
    <2>5. z >= n - n
      OBVIOUS
    <2>. QED  BY <2>3, <2>5
  <1>. QED  BY <1>1 DEF Last

\* The recursion of a fold to the left has a solution.
LEMMA FoldExists ==
  ASSUME NEW n \in Nat, NEW V, NEW base \in V, NEW step \in [(1..n) \X V -> V]
  PROVE  \E h : h \in [SUBSET (1..n) -> V] /\ Folds(h, n, base, step)
  <1>. DEFINE D == 1..n
              pick == [T \in (SUBSET D) \ {{}} |-> Last(T)]
  <1>1. IsFiniteSet(D)
    BY FS_Interval
  <1>2. pick \in [(SUBSET D) \ {{}} -> D] /\ \A T \in (SUBSET D) \ {{}} : pick[T] \in T /\ pick[T] = Last(T)
    BY LastIs
  <1>3. step \in [D \X V -> V]
    OBVIOUS
  <1>. HIDE DEF D, pick
  <1>4. IsRecursion(D, V, base, pick, step)
    BY <1>1, <1>2, <1>3 DEF IsRecursion
  <1>5. PICK h \in [SUBSET D -> V] : IsSolution(h, D, base, pick, step)
    BY <1>4, RecursionExists
  <1>6. \A T \in SUBSET D : h[T] = IF T = {} THEN base ELSE step[<<Last(T), h[T \ {Last(T)}]>>]
    BY <1>2, <1>5 DEF IsSolution
  <1>. QED  BY <1>5, <1>6 DEF Folds, D

\* The positions up to the next one are it and those before it.
LEMMA UpToNext ==
  ASSUME NEW n \in Nat, NEW i \in 0..(n - 1)
  PROVE  /\ 1..(i + 1) \in SUBSET (1..n) /\ 1..(i + 1) # {} /\ 1..i \in SUBSET (1..n)
         /\ Last(1..(i + 1)) = i + 1 /\ (1..(i + 1)) \ {Last(1..(i + 1))} = 1..i
  <1>1. i + 1 \in Nat /\ i + 1 # 0 /\ (i + 1) - 1 = i
    OBVIOUS
  <1>2. Last(1..(i + 1)) = i + 1 /\ (1..(i + 1)) \ {i + 1} = 1..i /\ 1..(i + 1) # {}
    BY <1>1, LastOne DEF Last
  <1>3. 1..(i + 1) \in SUBSET (1..n) /\ 1..i \in SUBSET (1..n)
    OBVIOUS
  <1>. QED  BY <1>2, <1>3

-----------------------------------------------------------------------------
(* Divisions, and the operators of the model.                              *)

\* The sum in the model of the figures is the one these lemmas are about.
LEMMA SumOfFigures == \A f : Figures!SumFunction(f) = SumFunction(f)
  BY DEF Figures!SumFunction, Figures!SumFunctionOnSet, Figures!FoldFunctionOnSet, Figures!MapThenFoldSet,
         SumFunction, SumFunctionOnSet, FoldFunctionOnSet, MapThenFoldSet

\* So is the number of elements,
LEMMA CardinalityOfFigures == \A S : Figures!Cardinality(S) = Cardinality(S)
  BY DEF Figures!Cardinality, Cardinality

\* and what is finite.
LEMMA FiniteOfFigures == \A S : Figures!IsFiniteSet(S) <=> IsFiniteSet(S)
  BY DEF Figures!IsFiniteSet, IsFiniteSet

\* A set of numbers that is not empty has a smallest one.
LEMMA SmallestOne ==
  ASSUME NEW T \in SUBSET Nat, T # {}
  PROVE  \E x \in T : \A y \in T : x <= y
  <1>. DEFINE C == {n \in Nat : (\E y \in T : y <= n) => \E x \in T : \A y \in T : x <= y}
  <1>1. 0 \in C
    OBVIOUS
  <1>2. \A n \in Nat : n \in C => n + 1 \in C
    <2>. SUFFICES ASSUME NEW n \in Nat, n \in C, NEW z \in T, z <= n + 1
                  PROVE  \E x \in T : \A y \in T : x <= y
      OBVIOUS
    <2>1. CASE \E y \in T : y <= n
      BY <2>1
    <2>2. CASE ~ \E y \in T : y <= n
      <3>1. \A y \in T : y >= n + 1
        BY <2>2
      <3>. QED  BY <3>1
    <2>. QED  BY <2>1, <2>2
  <1>3. Nat \subseteq C
    <2>. HIDE DEF C
    <2>. QED  BY <1>1, <1>2, CountingUp
  <1>4. PICK z \in T : TRUE
    OBVIOUS
  <1>. QED  BY <1>3, <1>4

\* What the model takes for the smallest one is it.
LEMMA MinOfFigures ==
  ASSUME NEW T \in SUBSET Nat, T # {}
  PROVE  Figures!Min(T) \in T /\ \A y \in T : Figures!Min(T) <= y
  BY SmallestOne DEF Figures!Min

\* The largest of finitely many numbers.
LEMMA LargestOne ==
  ASSUME NEW T \in SUBSET Nat, IsFiniteSet(T), T # {}
  PROVE  \E x \in T : \A y \in T : x >= y
  <1>. DEFINE C == {R \in SUBSET T : R # {} => \E x \in R : \A y \in R : x >= y}
  <1>1. {} \in C
    OBVIOUS
  <1>2. \A R \in SUBSET T, z \in T : z \notin R /\ R \in C => R \cup {z} \in C
    <2>. SUFFICES ASSUME NEW R \in SUBSET T, NEW z \in T, R \in C
                  PROVE  \E x \in R \cup {z} : \A y \in R \cup {z} : x >= y
      OBVIOUS
    <2>1. CASE R = {}
      BY <2>1
    <2>2. CASE R # {}
      <3>1. PICK x \in R : \A y \in R : x >= y
        BY <2>2
      <3>2. CASE x >= z
        BY <3>1, <3>2
      <3>3. CASE ~ x >= z
        <4>1. z > x /\ \A y \in R : z >= y
          BY <3>1, <3>3
        <4>. QED  BY <4>1
      <3>. QED  BY <3>2, <3>3
    <2>. QED  BY <2>1, <2>2
  <1>3. T \in C
    <2>. HIDE DEF C
    <2>. QED  BY <1>1, <1>2, ByElement
  <1>. QED  BY <1>3

-----------------------------------------------------------------------------
Instants(s) == s.from .. (s.to - 1)

\* What the segments between finitely many boundaries are.
SegmentsOf(S, B) ==
  /\ IsFiniteSet(S) /\ S \subseteq [from : Nat, to : Nat]
  /\ \A s \in S : s.from \in B /\ s.to \in B /\ s.from < s.to /\ \A b \in B : b <= s.from \/ b >= s.to
  /\ \A b, c \in B : \A t \in Nat : b <= t /\ t < c => \E s \in S : t \in Instants(s)
  /\ \A s, r \in S : s # r => Instants(s) \cap Instants(r) = {}

\* Segments do not overlap, have no boundary inside and leave no gap.
LEMMA SegmentsAre ==
  ASSUME NEW B \in SUBSET Nat, IsFiniteSet(B)
  PROVE  SegmentsOf(Figures!Segments(B), B)
  <1>. DEFINE S == Figures!Segments(B)
              D == {x \in B : \E c \in B : c > x}
              next == [b \in D |-> Figures!Min({c \in B : c > b})]
              f == [b \in D |-> [from |-> b, to |-> next[b]]]
  <1>1. \A b \in D : next[b] \in B /\ next[b] > b /\ \A c \in B : c > b => next[b] <= c
    <2>. SUFFICES ASSUME NEW b \in D PROVE next[b] \in B /\ next[b] > b /\ \A c \in B : c > b => next[b] <= c
      OBVIOUS
    <2>. DEFINE T == {c \in B : c > b}
    <2>1. T \in SUBSET Nat /\ T # {}
      OBVIOUS
    <2>2. next[b] = Figures!Min(T)
      OBVIOUS
    <2>. HIDE DEF T, next
    <2>3. next[b] \in T /\ \A c \in T : next[b] <= c
      BY <2>1, <2>2, MinOfFigures
    <2>. QED  BY <2>3 DEF T
  <1>2. S = {f[b] : b \in D}
    BY DEF Figures!Segments
  <1>3. \A b \in D : f[b] = [from |-> b, to |-> next[b]]
    OBVIOUS
  <1>0. D \subseteq B /\ \A x \in B : (\E c \in B : c > x) => x \in D
    OBVIOUS
  <1>. HIDE DEF S, f, next
  <1>4. IsFiniteSet(S)
    <2>1. IsFiniteSet(D)
      BY FS_Subset
    <2>2. f \in Surjection(D, S)
      BY <1>2, Zenon DEF Surjection, f
    <2>. QED  BY <2>1, <2>2, FS_Surjection
  <1>. HIDE DEF D
  <1>5. \A s \in S : \E b \in D : s = [from |-> b, to |-> next[b]]
    BY <1>2, <1>3
  <1>6. S \subseteq [from : Nat, to : Nat]
    <2>. SUFFICES ASSUME NEW s \in S PROVE s \in [from : Nat, to : Nat]
      OBVIOUS
    <2>1. PICK b \in D : s = [from |-> b, to |-> next[b]]
      BY <1>5
    <2>2. b \in Nat /\ next[b] \in Nat
      BY <1>0, <1>1
    <2>. QED  BY <2>1, <2>2
  <1>7. \A s \in S : s.from \in B /\ s.to \in B /\ s.from < s.to /\ \A b \in B : b <= s.from \/ b >= s.to
    BY <1>0, <1>1, <1>5
  <1>8. ASSUME NEW b \in B, NEW c \in B, NEW t \in Nat, b <= t, t < c PROVE \E s \in S : t \in Instants(s)
    <2>. DEFINE T == {x \in B : x <= t}
    <2>1. T \in SUBSET Nat /\ IsFiniteSet(T) /\ T # {}
      BY <1>8, FS_Subset
    <2>2. \A y \in B : y \in T <=> y <= t
      OBVIOUS
    <2>. HIDE DEF T
    <2>3. PICK x \in T : \A y \in T : x >= y
      BY <2>1, LargestOne
    <2>4. x \in B /\ x \in Nat /\ x <= t /\ c > x
      BY <1>8, <2>1, <2>2 DEF T
    <2>5. x \in D
      BY <1>0, <2>4
    <2>6. next[x] \in B /\ next[x] \in Nat /\ next[x] > x
      BY <1>1, <2>5
    <2>7. ~ next[x] <= t
      BY <2>2, <2>3, <2>4, <2>6
    <2>8. f[x] \in S
      BY <1>2, <2>5
    <2>9. f[x].from = x /\ f[x].to = next[x]
      <3>1. f[x] = [from |-> x, to |-> next[x]]
        BY <1>3, <2>5
      <3>. QED  BY <3>1
    <2>10. t \in Instants(f[x])
      BY <2>4, <2>6, <2>7, <2>9 DEF Instants
    <2>. QED  BY <2>8, <2>10
  <1>9. ASSUME NEW s \in S, NEW r \in S, s # r PROVE Instants(s) \cap Instants(r) = {}
    <2>. SUFFICES ASSUME NEW t \in Instants(s), t \in Instants(r) PROVE FALSE
      OBVIOUS
    <2>1. s \in [from : Nat, to : Nat] /\ r \in [from : Nat, to : Nat]
      BY <1>6
    <2>2. s.from <= t /\ t < s.to /\ r.from <= t /\ t < r.to /\ t \in Int
      BY <2>1 DEF Instants
    <2>3. s.from = r.from /\ s.to = r.to
      BY <1>7, <2>1, <2>2
    <2>. QED  BY <1>9, <2>1, <2>3
  <1>. QED  BY <1>4, <1>6, <1>7, <1>8, <1>9 DEF SegmentsOf, S

\* Quotient and remainder.
LEMMA DivisionIs ==
  ASSUME NEW a \in Nat, NEW b \in Nat, b # 0
  PROVE  a \div b \in Nat /\ a % b \in 0..(b - 1) /\ a = b * (a \div b) + (a % b)
  <1>1. a \div b \in Int /\ a % b \in 0..(b - 1)
    OBVIOUS
  <1>2. a = ((a \div b) * b) + (a % b)
    BY Z3
  <1>. DEFINE q == a \div b
              r == a % b
  <1>. HIDE DEF q, r
  <1>3. q \in Int /\ r \in 0..(b - 1) /\ a = q * b + r
    BY <1>1, <1>2 DEF q, r
  <1>4. q >= 0
    <2>1. CASE q < 0
      <3>1. q * b <= -b
        BY <1>3, <2>1
      <3>. QED  BY <1>3, <3>1
    <2>. QED  BY <1>3, <2>1
  <1>. QED  BY <1>3, <1>4 DEF q, r

\* Quotients grow with what is divided.
LEMMA DivisionGrows ==
  ASSUME NEW p \in Nat \ {0}, NEW a \in Nat, NEW b \in Nat, a <= b
  PROVE  a \div p <= b \div p
  <1>. DEFINE q == a \div p
              r == b \div p
  <1>1. q \in Nat /\ r \in Nat /\ a = p * q + (a % p) /\ b = p * r + (b % p) /\ a % p \in 0..(p-1) /\ b % p \in 0..(p-1)
    BY DivisionIs
  <1>. HIDE DEF q, r
  <1>2. CASE q > r
    <2>1. PICK k \in Nat : q = r + 1 + k
      BY <1>1, <1>2
    <2>2. p * q = p * r + p + p * k /\ p * k \in Nat /\ p * r \in Nat
      BY <1>1, <2>1
    <2>. QED  BY <1>1, <2>2
  <1>. QED  BY <1>1, <1>2 DEF q, r

\* A quotient is known from the multiples it lies between.
LEMMA QuotientIs ==
  ASSUME NEW a \in Nat, NEW b \in Nat, b # 0, NEW q \in Nat, b * q <= a, a < b * (q + 1)
  PROVE  a \div b = q
  <1>. DEFINE d == a \div b
  <1>1. d \in Int /\ b * d <= a /\ a < b * d + b
    BY DivisionIs
  <1>. HIDE DEF d
  <1>2. CASE d < q
    <2>1. d + 1 <= q
      BY <1>1, <1>2
    <2>2. b * (d + 1) <= b * q
      BY <1>1, <2>1
    <2>. QED  BY <1>1, <2>2
  <1>3. CASE d > q
    <2>1. q + 1 <= d
      BY <1>1, <1>3
    <2>2. b * (q + 1) <= b * d
      BY <1>1, <2>1
    <2>. QED  BY <1>1, <2>2
  <1>. QED  BY <1>1, <1>2, <1>3 DEF d

\* A product divided by a factor.
LEMMA MultipleDivided ==
  ASSUME NEW b \in Nat, b # 0, NEW q \in Nat
  PROVE  (b * q) \div b = q /\ (b * q) % b = 0
  <1>1. b * q \in Nat /\ b * q <= b * q /\ b * q < b * (q + 1)
    OBVIOUS
  <1>2. (b * q) \div b = q
    BY <1>1, QuotientIs
  <1>. QED  BY <1>1, <1>2, DivisionIs

\* A product of positive numbers is positive.
LEMMA ProductPositive ==
  ASSUME NEW a \in Nat, NEW b \in Nat, a # 0, b # 0
  PROVE  a * b \in Nat /\ a * b # 0
  OBVIOUS

\* What is divisible by a product.
IsShared(u, p, c, k) ==
  /\ u \in Nat /\ p \in Nat /\ c \in Nat /\ k \in Nat
  /\ p # 0 /\ c # 0 /\ k # 0 /\ u % (p * c * k) = 0

HasShares(u, p, c, k) == \E m \in Nat : u = p * (c * (k * m))

\* What a product divides can be divided by its factors, one after the other.
LEMMA SharesOf ==
  ASSUME NEW u, NEW p, NEW c, NEW k, IsShared(u, p, c, k)
  PROVE  HasShares(u, p, c, k)
  <1>. DEFINE n == p * c * k
              m == u \div n
  <1>0. /\ u \in Nat /\ p \in Nat /\ c \in Nat /\ k \in Nat
        /\ p # 0 /\ c # 0 /\ k # 0 /\ u % (p * c * k) = 0
    BY DEF IsShared
  <1>1. p * c \in Nat /\ p * c # 0
    BY <1>0, ProductPositive
  <1>2. n \in Nat /\ n # 0
    BY <1>0, <1>1, ProductPositive
  <1>3. u = n * m /\ m \in Nat
    <2>1. u % n = 0 /\ u \in Nat
      BY <1>0
    <2>. HIDE DEF n
    <2>2. u = n * m + (u % n) /\ m \in Nat
      BY <1>2, <2>1, DivisionIs
    <2>. QED  BY <1>2, <2>1, <2>2
  <1>5. n * m = p * (c * (k * m))
    <2>. HIDE DEF m
    <2>. QED  BY <1>0, <1>3
  <1>. QED  BY <1>3, <1>5 DEF HasShares

\* A number of instants times the whole, shared by p.
LEMMA ShareIs ==
  ASSUME NEW p \in Nat, NEW c \in Nat, NEW k \in Nat, p # 0, NEW m \in Nat, NEW l \in Nat, NEW u,
         u = p * (c * (k * m))
  PROVE  (l * u) \div p = c * (k * (l * m)) /\ p * ((l * u) \div p) = l * u
  <1>. DEFINE q == c * (k * (l * m))
  <1>1. q \in Nat /\ l * u = p * q
    OBVIOUS
  <1>. HIDE DEF q
  <1>2. (l * u) \div p = q
    BY <1>1, MultipleDivided
  <1>. QED  BY <1>1, <1>2 DEF q

\* What the assumption on the constants says of this part.
LEMMA FiguresConstants ==
  /\ Figures!UnitAssumption /\ Figures!MonthAssumption /\ Figures!DraftAssumption
  /\ Figures!EntryAssumption /\ Figures!PartyAssumption
  BY PreviewsAssumption

\* The times of a child on a day, each with who is responsible.
AreParts(ivs, n) ==
  /\ n \in Nat /\ IsFiniteSet(ivs)
  /\ ivs \subseteq [from : Nat, to : Nat, party : CareParties \cup {Nothing}]
  /\ \A iv \in ivs : iv.from < iv.to /\ iv.to <= n

Boundaries(ivs) == UNION {{iv.from, iv.to} : iv \in ivs}

CarersAt(ivs, t) == {iv.party : iv \in {x \in ivs : x.from <= t /\ t < x.to}}

Busy(ivs) == {t \in Nat : CarersAt(ivs, t) # {}}

\* The times at which somebody has the child, finitely many.
LEMMA BusyIs ==
  ASSUME NEW ivs, NEW n, AreParts(ivs, n)
  PROVE  /\ \A t \in Nat : t \in Busy(ivs) <=> \E x \in ivs : x.from <= t /\ t < x.to
         /\ \A t \in Busy(ivs) : t \in 0..(n - 1)
         /\ IsFiniteSet(Busy(ivs)) /\ Cardinality(Busy(ivs)) \in Nat
  <1>1. \A t \in Nat : t \in Busy(ivs) <=> \E x \in ivs : x.from <= t /\ t < x.to
    BY DEF Busy, CarersAt
  <1>2. \A t \in Busy(ivs) : t \in 0..(n - 1)
    <2>. SUFFICES ASSUME NEW t \in Busy(ivs) PROVE t \in 0..(n - 1)
      OBVIOUS
    <2>1. t \in Nat
      BY DEF Busy
    <2>2. PICK x \in ivs : x.from <= t /\ t < x.to
      BY <1>1, <2>1
    <2>3. x.to <= n /\ x.to \in Nat /\ n \in Nat
      BY DEF AreParts
    <2>. QED  BY <2>1, <2>2, <2>3
  <1>3. IsFiniteSet(Busy(ivs))
    <2>1. IsFiniteSet(0..(n - 1))
      BY FS_Interval DEF AreParts
    <2>2. Busy(ivs) \in SUBSET (0..(n - 1))
      BY <1>2
    <2>. QED  BY <2>1, <2>2, FS_Subset
  <1>. QED  BY <1>1, <1>2, <1>3, FS_CardinalityType

\* In a segment between the boundaries of the parts the carers do not change.
LEMMA PartSegments ==
  ASSUME NEW ivs, NEW n, AreParts(ivs, n)
  PROVE  LET B == Boundaries(ivs)
             S == Figures!Segments(B)
         IN  /\ SegmentsOf(S, B)
             /\ \A s \in S : \A t \in Instants(s) : Figures!Carers(ivs, s) = CarersAt(ivs, t)
             /\ \A t \in Busy(ivs) : \E s \in S : t \in Instants(s)
  <1>. DEFINE B == Boundaries(ivs)
              S == Figures!Segments(B)
  <1>0. /\ ivs \subseteq [from : Nat, to : Nat, party : CareParties \cup {Nothing}]
        /\ \A iv \in ivs : iv.from < iv.to /\ iv.to <= n
        /\ n \in Nat
    BY DEF AreParts
  <1>1. /\ \A iv \in ivs : iv.from \in B /\ iv.to \in B
        /\ \A b \in B : \E iv \in ivs : b = iv.from \/ b = iv.to
    BY DEF Boundaries
  <1>. HIDE DEF B, S
  <1>2. B \in SUBSET Nat /\ IsFiniteSet(B)
    <2>1. \A b \in B : b \in Nat /\ b <= n
      BY <1>0, <1>1
    <2>2. B \in SUBSET Nat /\ \A b \in B : b <= n
      BY <2>1
    <2>. QED  BY <1>0, <2>2, FS_BoundedSetOfNaturals
  <1>3. SegmentsOf(S, B)
    BY <1>2, SegmentsAre DEF S
  <1>4. ASSUME NEW s \in S, NEW t \in Instants(s) PROVE Figures!Carers(ivs, s) = CarersAt(ivs, t)
    <2>1. s.from \in Nat /\ s.to \in Nat /\ s.from <= t /\ t < s.to /\ t \in Int
          /\ \A b \in B : b <= s.from \/ b >= s.to
      BY <1>3 DEF SegmentsOf, Instants
    <2>2. \A x \in ivs : x.from < s.to /\ x.to > s.from <=> x.from <= t /\ t < x.to
      <3>. SUFFICES ASSUME NEW x \in ivs PROVE x.from < s.to /\ x.to > s.from <=> x.from <= t /\ t < x.to
        OBVIOUS
      <3>1. x.from \in Nat /\ x.to \in Nat /\ x.from \in B /\ x.to \in B
        BY <1>0, <1>1
      <3>2. (x.from <= s.from \/ x.from >= s.to) /\ (x.to <= s.from \/ x.to >= s.to)
        BY <2>1, <3>1
      <3>. QED  BY <2>1, <3>1, <3>2
    <2>3. {x \in ivs : x.from < s.to /\ x.to > s.from} = {x \in ivs : x.from <= t /\ t < x.to}
      BY <2>2
    <2>. QED  BY <2>3 DEF Figures!Carers, CarersAt
  <1>5. ASSUME NEW t \in Busy(ivs) PROVE \E s \in S : t \in Instants(s)
    <2>1. t \in Nat
      BY DEF Busy
    <2>2. PICK x \in ivs : x.from <= t /\ t < x.to
      BY <2>1, BusyIs
    <2>. QED  BY <1>1, <1>3, <2>1, <2>2 DEF SegmentsOf
  <1>. QED  BY <1>3, <1>4, <1>5 DEF B, S

\* Segments that do not overlap: their lengths add up to the instants they have.
AreApart(G) ==
  /\ IsFiniteSet(G) /\ G \subseteq [from : Nat, to : Nat] /\ \A s \in G : s.from < s.to
  /\ \A s, r \in G : s # r => Instants(s) \cap Instants(r) = {}

\* The lengths of segments that do not overlap add up to the time they cover.
LEMMA LengthsAdd ==
  ASSUME NEW G, AreApart(G), NEW f \in [G -> Int], \A s \in G : f[s] = s.to - s.from,
         NEW U, IsFiniteSet(U), U = UNION {Instants(s) : s \in G}
  PROVE  SumFunction(f) = Cardinality(U)
  <1>. DEFINE F == [s \in G |-> Instants(s)]
              e == [s \in G |-> Cardinality(F[s])]
  <1>1. F \in [G -> SUBSET U] /\ IsFiniteSet(G) /\ (\A s, r \in G : s # r => F[s] \cap F[r] = {})
        /\ UNION {F[s] : s \in G} = U
    BY DEF AreApart
  <1>2. \A s \in G : Cardinality(F[s]) = s.to - s.from
    <2>. SUFFICES ASSUME NEW s \in G PROVE Cardinality(s.from .. (s.to - 1)) = s.to - s.from
      BY DEF Instants
    <2>1. s.from \in Nat /\ s.to \in Nat /\ s.from < s.to
      BY DEF AreApart
    <2>. DEFINE a == s.from
                b == s.to
    <2>. HIDE DEF a, b
    <2>2. a \in Int /\ b - 1 \in Int /\ ~ a > b - 1
      BY <2>1 DEF a, b
    <2>3. Cardinality(a .. (b - 1)) = IF a > b - 1 THEN 0 ELSE (b - 1) - a + 1
      BY <2>2, FS_Interval
    <2>. QED  BY <2>1, <2>2, <2>3 DEF a, b
  <1>3. e = f
    BY <1>2
  <1>. HIDE DEF F
  <1>4. Cardinality(U) = SumFunction(e)
    <2>1. IsPartition(F, G, U)
      BY <1>1 DEF IsPartition
    <2>. QED  BY <2>1, CountUnion
  <1>. QED  BY <1>3, <1>4

-----------------------------------------------------------------------------
(* How a time is divided (TimedAllocation).                                *)

\* The accounts that a time can be credited to, each a different one.
LEMMA AccountsAre ==
  /\ IsFiniteSet(Figures!Accounts) /\ IsFiniteSet(CareParties)
  /\ Figures!Accounts = CareParties \cup {"father", "mother", "unassigned", "unresolved"}
  /\ CareParties \cap {"father", "mother", "unassigned", "unresolved", Nothing} = {}
  <1>1. IsFiniteSet(CareParties)
    BY FiguresConstants, FiniteOfFigures DEF Figures!EntryAssumption
  <1>2. /\ Figures!Accounts = CareParties \cup {"father", "mother", "unassigned", "unresolved"}
        /\ CareParties \cap {"father", "mother", "unassigned", "unresolved", Nothing} = {}
    BY FiguresConstants
       DEF Figures!Accounts, Figures!Legacy, Figures!Unassigned, Figures!Unresolved, Figures!PartyAssumption
  <1>3. Figures!Accounts = (((CareParties \cup {"father"}) \cup {"mother"}) \cup {"unassigned"}) \cup {"unresolved"}
    BY <1>2
  <1>4. \A S, x : IsFiniteSet(S) => IsFiniteSet(S \cup {x})
    BY FS_AddElement
  <1>5. IsFiniteSet(Figures!Accounts)
    BY <1>1, <1>3, <1>4
  <1>. QED  BY <1>1, <1>2, <1>5

\* Who is credited with a time.
IsCredited(c, carers, strict) ==
  /\ c \in SUBSET Figures!Accounts /\ IsFiniteSet(c)
  /\ c = {} <=> carers = {}
  /\ c # {} => Cardinality(c) \in {1, 2} \cup (1..Cardinality(CareParties))
  /\ strict => ("unresolved" \in c <=> Cardinality(carers) > 1)
  /\ "unresolved" \in c => Cardinality(c) = 1

\* A time with a carer is credited to somebody; a time with several of them, as
\* it took place, to nobody but the account for what is unresolved (Credited).
LEMMA CreditedIs ==
  ASSUME NEW carers \in SUBSET (CareParties \cup {Nothing}), NEW strict \in BOOLEAN
  PROVE  IsCredited(Figures!Credited(carers, strict), carers, strict)
  <1>. DEFINE c == Figures!Credited(carers, strict)
  <1>. SUFFICES IsCredited(c, carers, strict)
    OBVIOUS
  <1>0. \A x : IsFiniteSet({x}) /\ Cardinality({x}) = 1
    BY FS_Singleton
  <1>1. IsFiniteSet(carers) /\ Cardinality(carers) \in Nat
    <2>1. IsFiniteSet(CareParties \cup {Nothing})
      BY AccountsAre, FS_AddElement
    <2>. QED  BY <2>1, FS_Subset, FS_CardinalityType
  <1>. HIDE DEF c
  <1>2. CASE carers = {Nothing}
    <2>1. c = {"unassigned"}
      BY <1>2 DEF c, Figures!Credited, Figures!Unassigned
    <2>2. Cardinality(carers) = 1
      BY <1>0, <1>2
    <2>3. IsFiniteSet(c) /\ Cardinality(c) = 1 /\ c # {} /\ c \in SUBSET Figures!Accounts
      BY <1>0, <2>1, AccountsAre
    <2>4. "unresolved" \notin c /\ ~ Cardinality(carers) > 1 /\ carers # {}
      BY <1>2, <2>1, <2>2
    <2>. QED  BY <2>3, <2>4 DEF IsCredited
  <1>3. CASE carers # {Nothing} /\ strict /\ Cardinality(carers) > 1
    <2>1. c = {"unresolved"}
      BY <1>3, CardinalityOfFigures DEF c, Figures!Credited, Figures!Unresolved
    <2>2. carers # {}
      BY <1>3, FS_EmptySet
    <2>. QED  BY <1>0, <1>3, <2>1, <2>2, AccountsAre DEF IsCredited
  <1>4. CASE carers # {Nothing} /\ ~ (strict /\ Cardinality(carers) > 1)
    <2>1. c = carers \ {Nothing}
      BY <1>4, CardinalityOfFigures DEF c, Figures!Credited
    <2>2. c \in SUBSET CareParties
      BY <2>1
    <2>3. c = {} <=> carers = {}
      BY <1>4, <2>1
    <2>4. IsFiniteSet(c) /\ Cardinality(c) \in Nat /\ Cardinality(c) <= Cardinality(CareParties)
          /\ Cardinality(CareParties) \in Nat
      <3>. QED  BY <2>2, AccountsAre, FS_Subset, FS_CardinalityType
    <2>5. c # {} => Cardinality(c) # 0
      <3>. QED  BY <2>4, FS_EmptySet
    <2>6. "unresolved" \notin c
      BY <2>2, AccountsAre
    <2>. QED  BY <1>4, <2>2, <2>3, <2>4, <2>5, <2>6, AccountsAre DEF IsCredited
  <1>. QED  BY <1>2, <1>3, <1>4

\* The whole is divided by everything it is divided by.
LEMMA WholeIsShared ==
  ASSUME NEW p \in {1, 2} \cup (1..Cardinality(CareParties)), NEW c \in 1..PerDay,
         NEW k \in 1..Cardinality(Children)
  PROVE  HasShares(Unit, p, c, k)
  <1>1. Cardinality(CareParties) \in Nat /\ Cardinality(Children) \in Nat
    <2>1. IsFiniteSet(CareParties) /\ IsFiniteSet(Children)
      BY FiguresConstants, FiniteOfFigures DEF Figures!EntryAssumption
    <2>. QED  BY <2>1, FS_CardinalityType
  <1>2. Unit \in Nat /\ PerDay \in Nat /\ Unit % (p * c * k) = 0
    BY FiguresConstants, CardinalityOfFigures DEF Figures!UnitAssumption
  <1>3. p \in Nat /\ c \in Nat /\ k \in Nat /\ p # 0 /\ c # 0 /\ k # 0
    BY <1>1, <1>2
  <1>4. IsShared(Unit, p, c, k)
    BY <1>2, <1>3 DEF IsShared
  <1>. QED  BY <1>4, SharesOf

SegmentsIn(ivs) == Figures!Segments(Boundaries(ivs))

CreditedIn(ivs, strict, s) == Figures!Credited(Figures!Carers(ivs, s), strict)

UsedIn(ivs) == {x \in SegmentsIn(ivs) : Figures!Carers(ivs, x) # {}}

LengthOf(s) == s.to - s.from

PartFor(ivs, strict, s) == (LengthOf(s) * Unit) \div Cardinality(CreditedIn(ivs, strict, s))

UsedBy(ivs, strict, a) == {x \in SegmentsIn(ivs) : a \in CreditedIn(ivs, strict, x)}

DurationFor(ivs, strict, a) == SumFunction([s \in UsedBy(ivs, strict, a) |-> PartFor(ivs, strict, s)])

IsAllocation(r, ivs, strict) ==
  /\ r.covered = SumFunction([s \in UsedIn(ivs) |-> LengthOf(s)])
  /\ r.share = [a \in Figures!Accounts |-> r.share[a]]
  /\ \A a \in Figures!Accounts :
       r.share[a] = IF r.covered = 0 THEN 0 ELSE DurationFor(ivs, strict, a) \div r.covered

\* The operator of the model in these terms.
LEMMA AllocationUnfolds ==
  ASSUME NEW ivs, NEW strict
  PROVE  IsAllocation(Figures!TimedAllocation(ivs, strict), ivs, strict)
  <1>1. SumFunction([s \in UsedIn(ivs) |-> LengthOf(s)])
          = Figures!SumFunction([s \in {x \in Figures!Segments(UNION {{iv.from, iv.to} : iv \in ivs}) :
                                          Figures!Carers(ivs, x) # {}} |-> s.to - s.from])
    BY SumOfFigures DEF UsedIn, LengthOf, SegmentsIn, Boundaries
  <1>2. \A a : DurationFor(ivs, strict, a)
          = Figures!SumFunction([s \in {x \in Figures!Segments(UNION {{iv.from, iv.to} : iv \in ivs}) :
                                          a \in Figures!Credited(Figures!Carers(ivs, x), strict)} |->
              ((s.to - s.from) * Unit)
                 \div Figures!Cardinality(Figures!Credited(Figures!Carers(ivs, s), strict))])
    BY SumOfFigures, CardinalityOfFigures DEF DurationFor, UsedBy, PartFor, CreditedIn, LengthOf, SegmentsIn, Boundaries
  <1>. DEFINE r == Figures!TimedAllocation(ivs, strict)
  <1>3. r.covered = SumFunction([s \in UsedIn(ivs) |-> LengthOf(s)])
        /\ r.share = [a \in Figures!Accounts |->
                        IF r.covered = 0 THEN 0 ELSE DurationFor(ivs, strict, a) \div r.covered]
    BY <1>1, <1>2 DEF Figures!TimedAllocation
  <1>. HIDE DEF r
  <1>4. IsAllocation(r, ivs, strict)
    BY <1>3 DEF IsAllocation
  <1>. QED  BY <1>4 DEF r

\* What is known of the segments in which somebody has the child.
LEMMA UsedAre ==
  ASSUME NEW ivs, NEW n, AreParts(ivs, n)
  PROVE  /\ AreApart(UsedIn(ivs)) /\ UNION {Instants(s) : s \in UsedIn(ivs)} = Busy(ivs)
         /\ \A s \in UsedIn(ivs) : LengthOf(s) \in Nat
         /\ \A s \in UsedIn(ivs), t \in Nat : t \in Instants(s) => Figures!Carers(ivs, s) = CarersAt(ivs, t)
  <1>. DEFINE S == SegmentsIn(ivs)
              B == Boundaries(ivs)
  <1>1. /\ SegmentsOf(S, B)
        /\ \A s \in S : \A t \in Instants(s) : Figures!Carers(ivs, s) = CarersAt(ivs, t)
        /\ \A t \in Busy(ivs) : \E s \in S : t \in Instants(s)
    BY PartSegments DEF SegmentsIn
  <1>2. \A s : s \in UsedIn(ivs) <=> s \in S /\ Figures!Carers(ivs, s) # {}
    BY DEF UsedIn
  <1>. HIDE DEF S, B
  <1>3. IsFiniteSet(S) /\ UsedIn(ivs) \in SUBSET S /\ \A s \in S : s.from \in Nat /\ s.to \in Nat /\ s.from < s.to
    BY <1>1, <1>2 DEF SegmentsOf
  <1>4. IsFiniteSet(UsedIn(ivs))
    BY <1>3, FS_Subset
  <1>5. AreApart(UsedIn(ivs))
    BY <1>1, <1>3, <1>4 DEF SegmentsOf, AreApart
  <1>6. \A s \in UsedIn(ivs) : LengthOf(s) \in Nat
    BY <1>3 DEF LengthOf
  <1>7. ASSUME NEW s \in UsedIn(ivs), NEW t \in Instants(s) PROVE t \in Busy(ivs)
    <2>1. t \in Nat
      BY <1>3 DEF Instants
    <2>2. Figures!Carers(ivs, s) = CarersAt(ivs, t) /\ Figures!Carers(ivs, s) # {}
      BY <1>1, <1>2
    <2>. QED  BY <2>1, <2>2 DEF Busy
  <1>8. ASSUME NEW t \in Busy(ivs) PROVE \E s \in UsedIn(ivs) : t \in Instants(s)
    <2>1. PICK s \in S : t \in Instants(s)
      BY <1>1
    <2>2. Figures!Carers(ivs, s) # {}
      BY <1>1, <2>1 DEF Busy
    <2>. QED  BY <1>2, <2>1, <2>2
  <1>9. UNION {Instants(s) : s \in UsedIn(ivs)} = Busy(ivs)
    BY <1>7, <1>8
  <1>. QED  BY <1>1, <1>3, <1>5, <1>6, <1>9

\* What is covered is the time in which somebody has the child.
LEMMA CoveredIs ==
  ASSUME NEW ivs, NEW n, AreParts(ivs, n), NEW strict
  PROVE  Figures!TimedAllocation(ivs, strict).covered = Cardinality(Busy(ivs))
  <1>. DEFINE G == UsedIn(ivs)
              f == [s \in G |-> LengthOf(s)]
  <1>1. AreApart(G) /\ UNION {Instants(s) : s \in G} = Busy(ivs) /\ IsFiniteSet(Busy(ivs))
        /\ f \in [G -> Int] /\ \A s \in G : f[s] = s.to - s.from
    BY UsedAre, BusyIs DEF LengthOf
  <1>2. Figures!TimedAllocation(ivs, strict).covered = SumFunction(f)
    BY AllocationUnfolds DEF IsAllocation
  <1>. HIDE DEF G, f
  <1>. QED  BY <1>1, <1>2, LengthsAdd

\* Who is credited with a segment.
LEMMA CredsAre ==
  ASSUME NEW ivs, NEW n, AreParts(ivs, n), NEW strict \in BOOLEAN
  PROVE  /\ \A s \in SegmentsIn(ivs) : IsCredited(CreditedIn(ivs, strict, s), Figures!Carers(ivs, s), strict)
         /\ \A a : UsedBy(ivs, strict, a) \in SUBSET UsedIn(ivs)
         /\ \A a : \A s \in UsedIn(ivs) : s \in UsedBy(ivs, strict, a) <=> a \in CreditedIn(ivs, strict, s)
  <1>1. ASSUME NEW s PROVE IsCredited(CreditedIn(ivs, strict, s), Figures!Carers(ivs, s), strict)
    <2>1. Figures!Carers(ivs, s) \in SUBSET (CareParties \cup {Nothing})
      BY DEF Figures!Carers, AreParts
    <2>. QED  BY <2>1, CreditedIs DEF CreditedIn
  <1>2. \A a : \A s \in UsedBy(ivs, strict, a) : s \in UsedIn(ivs)
    BY <1>1 DEF UsedBy, UsedIn, IsCredited
  <1>. QED  BY <1>1, <1>2 DEF UsedBy, UsedIn

IsMultiple(q, c, k) == \E x \in Nat : q = c * (k * x)

\* The part of a whole day that each one credited with a segment receives.
LEMMA PartIs ==
  ASSUME NEW ivs, NEW n, AreParts(ivs, n), NEW strict \in BOOLEAN, NEW c \in 1..PerDay,
         NEW k \in 1..Cardinality(Children), NEW s \in UsedIn(ivs)
  PROVE  /\ IsMultiple(PartFor(ivs, strict, s), c, k)
         /\ Cardinality(CreditedIn(ivs, strict, s)) * PartFor(ivs, strict, s) = LengthOf(s) * Unit
         /\ PartFor(ivs, strict, s) \in Nat
  <1>. DEFINE p == Cardinality(CreditedIn(ivs, strict, s))
              l == LengthOf(s)
              q == PartFor(ivs, strict, s)
  <1>1. l \in Nat /\ s \in SegmentsIn(ivs) /\ Figures!Carers(ivs, s) # {}
    BY UsedAre DEF UsedIn
  <1>2. p \in {1, 2} \cup (1..Cardinality(CareParties))
    BY <1>1, CredsAre DEF IsCredited
  <1>3. q = (l * Unit) \div p
    BY DEF PartFor
  <1>. HIDE DEF p, l, q
  <1>4. PICK m \in Nat : Unit = p * (c * (k * m))
    BY <1>2, WholeIsShared DEF HasShares
  <1>5. p \in Nat /\ c \in Nat /\ k \in Nat /\ p # 0
    <2>1. Cardinality(CareParties) \in Nat /\ Cardinality(Children) \in Nat /\ PerDay \in Nat
      <3>1. IsFiniteSet(CareParties) /\ IsFiniteSet(Children)
        BY FiguresConstants, FiniteOfFigures DEF Figures!EntryAssumption
      <3>. QED  BY <3>1, FS_CardinalityType, FiguresConstants DEF Figures!UnitAssumption
    <2>. QED  BY <1>2, <2>1
  <1>6. q = c * (k * (l * m)) /\ p * q = l * Unit
    BY <1>1, <1>3, <1>4, <1>5, ShareIs
  <1>7. l * m \in Nat /\ q \in Nat
    BY <1>1, <1>4, <1>5, <1>6
  <1>. QED  BY <1>1, <1>4, <1>6, <1>7 DEF p, l, q, IsMultiple

\* What an account is credited with, in units of the time that is covered.
LEMMA DurIs ==
  ASSUME NEW ivs, NEW n, AreParts(ivs, n), NEW strict \in BOOLEAN, NEW c \in 1..PerDay,
         NEW k \in 1..Cardinality(Children), NEW a
  PROVE  IsMultiple(DurationFor(ivs, strict, a), c, k)
  <1>. DEFINE G == UsedBy(ivs, strict, a)
              e == [s \in G |-> CHOOSE x \in Nat : PartFor(ivs, strict, s) = c * (k * x)]
              f == [s \in G |-> PartFor(ivs, strict, s)]
  <1>1. IsFiniteSet(G)
    <2>1. IsFiniteSet(UsedIn(ivs)) /\ G \in SUBSET UsedIn(ivs)
      BY UsedAre, CredsAre DEF AreApart
    <2>. QED  BY <2>1, FS_Subset
  <1>2. \A s \in G : s \in UsedIn(ivs)
    BY CredsAre
  <1>3. \A s \in G : e[s] \in Nat /\ f[s] = c * (k * e[s])
    <2>. SUFFICES ASSUME NEW s \in G PROVE e[s] \in Nat /\ f[s] = c * (k * e[s])
      OBVIOUS
    <2>0. IsMultiple(PartFor(ivs, strict, s), c, k)
      BY <1>2, PartIs
    <2>1. \E x \in Nat : PartFor(ivs, strict, s) = c * (k * x)
      BY <2>0 DEF IsMultiple
    <2>2. e[s] = CHOOSE x \in Nat : PartFor(ivs, strict, s) = c * (k * x)
      OBVIOUS
    <2>3. f[s] = PartFor(ivs, strict, s)
      OBVIOUS
    <2>. HIDE DEF e, f
    <2>. QED  BY <2>1, <2>2, <2>3
  <1>4. c \in Nat /\ k \in Nat
    <2>1. Cardinality(Children) \in Nat /\ PerDay \in Nat
      <3>1. IsFiniteSet(Children)
        BY FiguresConstants, FiniteOfFigures DEF Figures!EntryAssumption
      <3>. QED  BY <3>1, FS_CardinalityType, FiguresConstants DEF Figures!UnitAssumption
    <2>. QED  BY <2>1
  <1>. DEFINE ck == c * k
  <1>5. e \in [G -> Nat] /\ e \in [G -> Int] /\ ck \in Int
    BY <1>3, <1>4
  <1>6. \A s \in G : f[s] = ck * e[s]
    <2>. SUFFICES ASSUME NEW s \in G PROVE f[s] = ck * e[s]
      OBVIOUS
    <2>1. e[s] \in Nat /\ f[s] = c * (k * e[s])
      BY <1>3
    <2>. HIDE DEF e, f
    <2>. QED  BY <1>4, <2>1
  <1>7. f \in [G -> Int]
    BY <1>2, PartIs
  <1>8. DurationFor(ivs, strict, a) = SumFunction(f)
    BY DEF DurationFor
  <1>. HIDE DEF G, e, f
  <1>9. SumFunction(f) = ck * SumFunction(e) /\ SumFunction(e) \in Nat
    <2>. HIDE DEF ck
    <2>. QED  BY <1>1, <1>5, <1>6, <1>7, SumScale, SumNat
  <1>10. ck * SumFunction(e) = c * (k * SumFunction(e))
    BY <1>4, <1>9
  <1>. QED  BY <1>8, <1>9, <1>10 DEF IsMultiple

\* All that is credited makes up what is covered.
LEMMA DursAdd ==
  ASSUME NEW ivs, NEW n, AreParts(ivs, n), NEW strict \in BOOLEAN, PerDay \in Nat \ {0}, Children # {},
         NEW e \in [Figures!Accounts -> Int], \A a \in Figures!Accounts : e[a] = DurationFor(ivs, strict, a)
  PROVE  SumFunction(e) = Cardinality(Busy(ivs)) * Unit
  <1>. DEFINE A == Figures!Accounts
              W == UsedIn(ivs)
              g == [s \in W |-> [a \in A |-> IF a \in CreditedIn(ivs, strict, s) THEN PartFor(ivs, strict, s) ELSE 0]]
              col == [a \in A |-> SumFunction([s \in W |-> g[s][a]])]
              each == [s \in W |-> SumFunction(g[s])]
              l == [s \in W |-> LengthOf(s)]
  <1>1. IsFiniteSet(A) /\ IsFiniteSet(W)
    BY AccountsAre, UsedAre DEF AreApart
  <1>2. Unit \in Nat /\ 1 \in 1..PerDay /\ 1 \in 1..Cardinality(Children)
    <2>1. IsFiniteSet(Children)
      BY FiguresConstants, FiniteOfFigures DEF Figures!EntryAssumption
    <2>2. Cardinality(Children) \in Nat /\ Cardinality(Children) # 0
      BY <2>1, FS_CardinalityType, FS_EmptySet
    <2>. QED  BY <2>2, FiguresConstants DEF Figures!UnitAssumption
  <1>3. \A s \in W : /\ PartFor(ivs, strict, s) \in Nat /\ LengthOf(s) \in Nat
                     /\ Cardinality(CreditedIn(ivs, strict, s)) * PartFor(ivs, strict, s) = LengthOf(s) * Unit
                     /\ CreditedIn(ivs, strict, s) \in SUBSET A
    <2>1. \A s \in W : s \in SegmentsIn(ivs)
      BY DEF UsedIn
    <2>2. \A s \in W : CreditedIn(ivs, strict, s) \in SUBSET A
      BY <2>1, CredsAre DEF IsCredited
    <2>. QED  BY <1>2, <2>2, PartIs, UsedAre
  <1>4. g \in [W -> [A -> Int]]
    BY <1>3
  <1>5. \A s \in W : each[s] = LengthOf(s) * Unit
    <2>. SUFFICES ASSUME NEW s \in W PROVE SumFunction(g[s]) = LengthOf(s) * Unit
      OBVIOUS
    <2>. DEFINE T == CreditedIn(ivs, strict, s)
                q == PartFor(ivs, strict, s)
                f == g[s]
                r == [a \in T |-> f[a]]
    <2>1. T \in SUBSET A /\ q \in Int /\ Cardinality(T) * q = LengthOf(s) * Unit
      BY <1>3
    <2>2. f \in [A -> Int] /\ \A a \in A \ T : f[a] = 0
      BY <1>3
    <2>3. r \in [T -> Int] /\ \A a \in T : r[a] = q
      BY <2>1
    <2>. HIDE DEF T, q, f, A
    <2>4. SumFunction(f) = SumFunction(r)
      BY <1>1, <2>1, <2>2, SumRestrict
    <2>5. IsFiniteSet(T)
      BY <1>1, <2>1, FS_Subset
    <2>. HIDE DEF r
    <2>6. SumFunction(r) = Cardinality(T) * q
      BY <2>1, <2>3, <2>5, SumConstant
    <2>. QED  BY <2>1, <2>4, <2>6 DEF f
  <1>6. \A a \in A : col[a] = DurationFor(ivs, strict, a)
    <2>. SUFFICES ASSUME NEW a \in A PROVE SumFunction([s \in W |-> g[s][a]]) = DurationFor(ivs, strict, a)
      OBVIOUS
    <2>. DEFINE T == UsedBy(ivs, strict, a)
                f == [s \in W |-> g[s][a]]
    <2>1. T \in SUBSET W /\ \A s \in W : s \in T <=> a \in CreditedIn(ivs, strict, s)
      BY CredsAre
    <2>2. f \in [W -> Int]
      BY <1>4
    <2>3. \A s \in W : f[s] = IF s \in T THEN PartFor(ivs, strict, s) ELSE 0
      BY <2>1
    <2>4. DurationFor(ivs, strict, a) = SumFunction([s \in T |-> PartFor(ivs, strict, s)])
      BY DEF DurationFor
    <2>. HIDE DEF f, W, T
    <2>5. SumFunction(f) = SumFunction([s \in T |-> f[s]])
      BY <1>1, <2>1, <2>2, <2>3, SumRestrict
    <2>6. [s \in T |-> f[s]] = [s \in T |-> PartFor(ivs, strict, s)]
      BY <2>1, <2>3
    <2>. QED  BY <2>4, <2>5, <2>6 DEF f
  <1>7. SumFunction(each) = SumFunction(col)
    <2>. HIDE DEF g, W, A
    <2>. QED  BY <1>1, <1>4, SumExchange
  <1>8. col = e
    BY <1>6
  <1>9. l \in [W -> Int] /\ each \in [W -> Int] /\ Unit \in Int /\ \A s \in W : each[s] = Unit * l[s]
    BY <1>2, <1>3, <1>5
  <1>10. SumFunction(l) = Cardinality(Busy(ivs))
    <2>1. AreApart(W) /\ UNION {Instants(s) : s \in W} = Busy(ivs) /\ IsFiniteSet(Busy(ivs))
          /\ l \in [W -> Int] /\ \A s \in W : l[s] = s.to - s.from
      BY <1>9, UsedAre, BusyIs DEF LengthOf
    <2>. HIDE DEF W, l
    <2>. QED  BY <2>1, LengthsAdd
  <1>11. Cardinality(Busy(ivs)) \in Nat
    BY BusyIs
  <1>. HIDE DEF each, col, l, W
  <1>12. SumFunction(each) = Unit * SumFunction(l)
    BY <1>1, <1>9, SumScale
  <1>. QED  BY <1>2, <1>7, <1>8, <1>10, <1>11, <1>12

\* A share of the whole for every account, in parts that k can divide.
IsDivided(share, k) ==
  /\ share \in [Figures!Accounts -> Nat] /\ \A a \in Figures!Accounts : \E x \in Nat : share[a] = k * x
  /\ SumFunction(share) = Unit

Disputed(ivs) == {t \in Busy(ivs) : Cardinality(CarersAt(ivs, t)) > 1}

\* A day on which somebody has the child is divided without a remainder.
LEMMA SharesAre ==
  ASSUME NEW ivs, NEW n, AreParts(ivs, n), NEW strict \in BOOLEAN, Cardinality(Busy(ivs)) \in 1..PerDay,
         NEW k \in 1..Cardinality(Children)
  PROVE  IsDivided(Figures!TimedAllocation(ivs, strict).share, k)
  <1>. DEFINE r == Figures!TimedAllocation(ivs, strict)
              c == Cardinality(Busy(ivs))
              A == Figures!Accounts
              e == [a \in A |-> DurationFor(ivs, strict, a)]
              share == r.share
  <1>1. r.covered = c /\ c \in 1..PerDay
    BY CoveredIs
  <1>2. PerDay \in Nat \ {0} /\ Children # {} /\ Unit \in Nat /\ Cardinality(Children) \in Nat
    <2>1. IsFiniteSet(Children)
      BY FiguresConstants, FiniteOfFigures DEF Figures!EntryAssumption
    <2>2. Cardinality(Children) \in Nat /\ (Children = {} => Cardinality(Children) = 0)
      BY <2>1, FS_CardinalityType, FS_EmptySet
    <2>. QED  BY <2>2, FiguresConstants DEF Figures!UnitAssumption
  <1>3. c \in Nat /\ c # 0 /\ k \in Nat
    BY <1>1, <1>2
  <1>4. share = [a \in A |-> share[a]]
        /\ \A a \in A : share[a] = IF r.covered = 0 THEN 0 ELSE DurationFor(ivs, strict, a) \div r.covered
    BY AllocationUnfolds DEF IsAllocation
  <1>. HIDE DEF r, c, A, share
  <1>5. \A a \in A : share[a] = e[a] \div c
    BY <1>1, <1>3, <1>4
  <1>6. ASSUME NEW a \in A PROVE \E x \in Nat : share[a] = k * x /\ e[a] = c * (k * x)
    <2>1. IsMultiple(DurationFor(ivs, strict, a), c, k)
      BY <1>1, DurIs
    <2>2. PICK x \in Nat : e[a] = c * (k * x)
      BY <2>1, <1>6 DEF IsMultiple
    <2>3. k * x \in Nat
      BY <1>3
    <2>4. (c * (k * x)) \div c = k * x
      BY <1>3, <2>3, MultipleDivided
    <2>. QED  BY <1>5, <2>2, <2>4
  <1>7. \A a \in A : share[a] \in Nat /\ e[a] = c * share[a] /\ e[a] \in Int
    BY <1>3, <1>6
  <1>8. share \in [A -> Nat] /\ share \in [A -> Int] /\ e \in [A -> Int]
    BY <1>4, <1>7
  <1>9. SumFunction(e) = c * Unit
    <2>1. \A a \in Figures!Accounts : e[a] = DurationFor(ivs, strict, a)
      BY DEF A
    <2>. HIDE DEF e
    <2>. QED  BY <1>2, <1>8, <2>1, DursAdd DEF A, c
  <1>10. SumFunction(e) = c * SumFunction(share) /\ SumFunction(share) \in Nat
    <2>1. IsFiniteSet(A) /\ c \in Int
      BY <1>3, AccountsAre DEF A
    <2>. HIDE DEF e
    <2>. QED  BY <1>7, <1>8, <2>1, SumScale, SumNat
  <1>11. SumFunction(share) = Unit
    <2>1. (c * SumFunction(share)) \div c = SumFunction(share)
      BY <1>3, <1>10, MultipleDivided
    <2>2. (c * Unit) \div c = Unit
      BY <1>2, <1>3, MultipleDivided
    <2>. QED  BY <1>9, <1>10, <2>1, <2>2
  <1>. QED  BY <1>6, <1>8, <1>11 DEF IsDivided, A, share, r

\* The time of which several are said to be responsible.
LEMMA DisputedIs ==
  ASSUME NEW ivs, NEW n, AreParts(ivs, n), Cardinality(Busy(ivs)) <= PerDay, Children # {}
  PROVE  LET r == Figures!TimedAllocation(ivs, TRUE)
         IN  r.share["unresolved"] * r.covered = Cardinality(Disputed(ivs)) * Unit
  <1>. DEFINE r == Figures!TimedAllocation(ivs, TRUE)
              q == r.share["unresolved"]
              v == r.covered
  <1>. SUFFICES q * v = Cardinality(Disputed(ivs)) * Unit
    OBVIOUS
  <1>. DEFINE c == Cardinality(Busy(ivs))
              d == DurationFor(ivs, TRUE, "unresolved")
              G == UsedBy(ivs, TRUE, "unresolved")
              f == [s \in G |-> PartFor(ivs, TRUE, s)]
              l == [s \in G |-> LengthOf(s)]
  <1>1. v = c /\ c \in Nat /\ IsFiniteSet(Busy(ivs))
    BY CoveredIs, BusyIs
  <1>2. PerDay \in Nat /\ Unit \in Nat /\ 1 \in 1..Cardinality(Children) /\ "unresolved" \in Figures!Accounts
    <2>1. IsFiniteSet(Children)
      BY FiguresConstants, FiniteOfFigures DEF Figures!EntryAssumption
    <2>2. Cardinality(Children) \in Nat /\ Cardinality(Children) # 0
      BY <2>1, FS_CardinalityType, FS_EmptySet
    <2>. QED  BY <2>2, AccountsAre, FiguresConstants DEF Figures!UnitAssumption
  <1>3. q = IF v = 0 THEN 0 ELSE d \div v
    BY <1>2, AllocationUnfolds DEF IsAllocation
  <1>4. G \in SUBSET UsedIn(ivs) /\ \A s \in UsedIn(ivs) : s \in G <=> Cardinality(Figures!Carers(ivs, s)) > 1
    <2>1. \A s \in UsedIn(ivs) : s \in SegmentsIn(ivs)
      BY DEF UsedIn
    <2>. QED  BY <2>1, CredsAre DEF IsCredited
  <1>5. \A s \in G : f[s] = Unit * l[s] /\ l[s] = s.to - s.from /\ l[s] \in Int /\ f[s] \in Int
    <2>. SUFFICES ASSUME NEW s \in G PROVE f[s] = Unit * l[s] /\ l[s] = s.to - s.from /\ l[s] \in Int /\ f[s] \in Int
      OBVIOUS
    <2>1. s \in UsedIn(ivs) /\ s \in SegmentsIn(ivs) /\ "unresolved" \in CreditedIn(ivs, TRUE, s)
      BY <1>4 DEF UsedIn, UsedBy
    <2>2. Cardinality(CreditedIn(ivs, TRUE, s)) = 1
      BY <2>1, CredsAre DEF IsCredited
    <2>3. LengthOf(s) \in Nat
      BY <2>1, UsedAre
    <2>. DEFINE x == LengthOf(s) * Unit
    <2>4. x \in Nat
      BY <1>2, <2>3
    <2>5. x \div 1 = x
      <3>. HIDE DEF x
      <3>1. (1 * x) \div 1 = x /\ 1 * x = x
        BY <2>4, MultipleDivided
      <3>. QED  BY <3>1
    <2>6. f[s] = x
      BY <2>2, <2>5 DEF PartFor
    <2>7. l[s] = LengthOf(s)
      OBVIOUS
    <2>. HIDE DEF f, l
    <2>8. f[s] = Unit * l[s] /\ l[s] \in Int /\ f[s] \in Int
      BY <1>2, <2>3, <2>4, <2>6, <2>7
    <2>. QED  BY <2>7, <2>8 DEF LengthOf
  <1>6. AreApart(G)
    <2>1. AreApart(UsedIn(ivs))
      BY UsedAre
    <2>2. IsFiniteSet(G)
      BY <1>4, <2>1, FS_Subset DEF AreApart
    <2>. QED  BY <1>4, <2>1, <2>2 DEF AreApart
  <1>7. Disputed(ivs) = UNION {Instants(s) : s \in G} /\ IsFiniteSet(Disputed(ivs))
    <2>1. \A s \in UsedIn(ivs), t \in Nat : t \in Instants(s) => Figures!Carers(ivs, s) = CarersAt(ivs, t)
      BY UsedAre
    <2>2. UNION {Instants(s) : s \in UsedIn(ivs)} = Busy(ivs) /\ \A t \in Busy(ivs) : t \in Nat
      BY UsedAre DEF Busy
    <2>3. ASSUME NEW t \in Disputed(ivs) PROVE \E s \in G : t \in Instants(s)
      <3>1. PICK s \in UsedIn(ivs) : t \in Instants(s)
        BY <2>2 DEF Disputed
      <3>2. Cardinality(Figures!Carers(ivs, s)) > 1
        BY <2>1, <2>2, <3>1 DEF Disputed
      <3>. QED  BY <1>4, <3>1, <3>2
    <2>4. ASSUME NEW s \in G, NEW t \in Instants(s) PROVE t \in Disputed(ivs)
      <3>1. s \in UsedIn(ivs) /\ Cardinality(Figures!Carers(ivs, s)) > 1
        BY <1>4
      <3>2. t \in Busy(ivs) /\ t \in Nat
        BY <2>2, <3>1
      <3>. QED  BY <2>1, <3>1, <3>2 DEF Disputed
    <2>5. Disputed(ivs) \in SUBSET Busy(ivs)
      BY DEF Disputed
    <2>. HIDE DEF G
    <2>6. Disputed(ivs) = UNION {Instants(s) : s \in G}
      BY <2>3, <2>4
    <2>. QED  BY <1>1, <2>5, <2>6, FS_Subset
  <1>8. d = SumFunction(f) /\ f \in [G -> Int] /\ l \in [G -> Int] /\ IsFiniteSet(G)
    BY <1>5, <1>6 DEF DurationFor, AreApart
  <1>. HIDE DEF q, v, c, d, G, f, l
  <1>9. SumFunction(l) = Cardinality(Disputed(ivs))
    <2>. DEFINE U == Disputed(ivs)
    <2>1. IsFiniteSet(U) /\ U = UNION {Instants(s) : s \in G}
      BY <1>7
    <2>. HIDE DEF U
    <2>2. SumFunction(l) = Cardinality(U)
      BY <1>5, <1>6, <1>8, <2>1, LengthsAdd
    <2>. QED  BY <2>2 DEF U
  <1>10. d = Unit * Cardinality(Disputed(ivs)) /\ Cardinality(Disputed(ivs)) \in Nat
    <2>1. SumFunction(f) = Unit * SumFunction(l)
      BY <1>2, <1>5, <1>8, SumScale
    <2>. QED  BY <1>7, <1>8, <1>9, <2>1, FS_CardinalityType
  <1>11. CASE c = 0
    <2>1. Busy(ivs) = {}
      BY <1>1, <1>11, FS_EmptySet DEF c
    <2>2. Disputed(ivs) = {}
      BY <2>1 DEF Disputed
    <2>3. Cardinality(Disputed(ivs)) = 0
      BY <2>2, FS_EmptySet
    <2>. QED  BY <1>1, <1>2, <1>3, <1>11, <2>3
  <1>12. CASE c # 0
    <2>1. c \in 1..PerDay
      BY <1>1, <1>2, <1>12 DEF c
    <2>2. IsMultiple(d, c, 1)
      BY <1>2, <2>1, DurIs DEF d
    <2>3. PICK x \in Nat : d = c * (1 * x)
      BY <2>2 DEF IsMultiple
    <2>4. (c * x) \div c = x /\ d = c * x
      BY <1>1, <1>12, <2>3, MultipleDivided
    <2>5. q = x
      BY <1>1, <1>3, <1>12, <2>4
    <2>. QED  BY <1>1, <1>2, <1>10, <2>4, <2>5
  <1>. QED  BY <1>11, <1>12

-----------------------------------------------------------------------------
(* The days (DayAllocation, Slot).                                         *)

\* The time of an entry.
From(i) == Figures!Interval(entry[i]).from
To(i) == Figures!Interval(entry[i]).to

\* The entries of a set that are going on at a time, and who is responsible then.
Going(ids, t) == {i \in ids : From(i) <= t /\ t < To(i)}

Responsible(ids, t) == {Figures!ResponsibleParty(entry[i]) : i \in Going(ids, t)}

DayInstants(d) == (d * PerDay) .. ((d + 1) * PerDay - 1)

\* What the types say of stored entries.
LEMMA RowsAre ==
  ASSUME Figures!TypeOK
  PROVE  /\ IsFiniteSet(Figures!Rows) /\ Figures!Rows \subseteq Nat
         /\ \A i \in Figures!Rows :
              /\ From(i) \in Nat /\ To(i) \in Nat /\ From(i) < To(i)
              /\ Figures!KidsOf(entry[i]) \in SUBSET Children
              /\ Figures!ResponsibleParty(entry[i]) \in CareParties \cup {Nothing}
  <1>1. IsFiniteSet(FigureEntries) /\ FigureEntries \subseteq Nat
    BY FiguresConstants, FiniteOfFigures DEF Figures!EntryAssumption
  <1>2. Figures!Rows \in SUBSET FigureEntries
    BY DEF Figures!Rows
  <1>3. IsFiniteSet(Figures!Rows)
    BY <1>1, <1>2, FS_Subset
  <1>4. ASSUME NEW i \in Figures!Rows
        PROVE  /\ From(i) \in Nat /\ To(i) \in Nat /\ From(i) < To(i)
               /\ Figures!KidsOf(entry[i]) \in SUBSET Children
               /\ Figures!ResponsibleParty(entry[i]) \in CareParties \cup {Nothing}
    <2>. DEFINE d == entry[i]
    <2>1. d \in FigureDrafts
      BY <1>2 DEF Figures!Rows, Figures!TypeOK
    <2>2. default \in CareParties \cup {Nothing}
      BY FiguresConstants DEF Figures!TypeOK, Figures!PartyAssumption
    <2>. HIDE DEF d
    <2>3. /\ d.from \in Nat /\ d.to \in Nat /\ d.from < d.to
          /\ d.kids \subseteq Children /\ d.party \in CareParties \cup {Nothing}
          /\ d.status = "partial" <=> d.actual # Nothing
          /\ d.actual # Nothing =>
               /\ d.actual.from \in Nat /\ d.actual.to \in Nat /\ d.actual.from < d.actual.to
               /\ d.actual.kids \subseteq Children
               /\ d.actual.party \in CareParties \cup {Nothing}
      BY <2>1, FiguresConstants DEF Figures!DraftAssumption
    <2>4. Figures!ResponsibleParty(d) \in CareParties \cup {Nothing}
      BY <2>2, <2>3 DEF Figures!ResponsibleParty
    <2>5. Figures!KidsOf(d) \in SUBSET Children
      BY <2>3 DEF Figures!KidsOf, Figures!Effective
    <2>6. /\ Figures!Interval(d).from \in Nat /\ Figures!Interval(d).to \in Nat
          /\ Figures!Interval(d).from < Figures!Interval(d).to
      BY <2>3 DEF Figures!Interval, Figures!Effective
    <2>. QED  BY <2>4, <2>5, <2>6 DEF d, From, To
  <1>. QED  BY <1>1, <1>2, <1>3, <1>4

\* Days do not overlap, and an instant belongs to the day it is in.
LEMMA DaysAre ==
  /\ PerDay \in Nat \ {0} /\ LastOfFigures \in Nat
  /\ \A d \in Nat : d * PerDay \in Nat /\ (d + 1) * PerDay = d * PerDay + PerDay
  /\ \A d \in Nat, t \in Nat : t \in DayInstants(d) <=> t \div PerDay = d
  /\ \A t \in Nat : t \div PerDay \in Nat
  <1>1. PerDay \in Nat \ {0} /\ LastOfFigures \in Nat
    BY FiguresConstants DEF Figures!UnitAssumption
  <1>2. \A d \in Nat : d * PerDay \in Nat /\ (d + 1) * PerDay = d * PerDay + PerDay
    BY <1>1
  <1>3. \A t \in Nat : t \div PerDay \in Nat /\ (t \div PerDay) * PerDay <= t
                       /\ t < (t \div PerDay) * PerDay + PerDay
    <2>. SUFFICES ASSUME NEW t \in Nat
                  PROVE  t \div PerDay \in Nat /\ (t \div PerDay) * PerDay <= t
                         /\ t < (t \div PerDay) * PerDay + PerDay
      OBVIOUS
    <2>. DEFINE q == t \div PerDay
                r == t % PerDay
    <2>1. q \in Nat /\ r \in 0..(PerDay - 1) /\ t = PerDay * q + r
      BY <1>1, DivisionIs
    <2>. HIDE DEF q, r
    <2>2. PerDay * q = q * PerDay
      BY <1>1, <2>1
    <2>3. q * PerDay <= t /\ t < q * PerDay + PerDay
      BY <1>1, <1>2, <2>1, <2>2
    <2>. QED  BY <2>1, <2>3 DEF q
  <1>4. ASSUME NEW d \in Nat, NEW t \in Nat PROVE t \in DayInstants(d) <=> t \div PerDay = d
    <2>1. t \in DayInstants(d) <=> d * PerDay <= t /\ t < d * PerDay + PerDay
      BY <1>1, <1>2 DEF DayInstants
    <2>2. CASE t \in DayInstants(d)
      <3>1. PerDay * d <= t /\ t < PerDay * (d + 1)
        BY <1>1, <1>2, <2>1, <2>2
      <3>. QED  BY <1>1, <2>2, <3>1, QuotientIs
    <2>3. CASE t \div PerDay = d
      BY <1>3, <2>1, <2>3
    <2>. QED  BY <2>2, <2>3
  <1>. QED  BY <1>1, <1>2, <1>3, <1>4

CareOf(kid, statuses) ==
  {j \in Figures!Rows : entry[j].status \in statuses /\ kid \in Figures!KidsOf(entry[j])}

DayPart(day, i) ==
  [from |-> Figures!Later(From(i), day * PerDay), to |-> Figures!Earlier(To(i), (day + 1) * PerDay),
   party |-> Figures!ResponsibleParty(entry[i])]

DayParts(day, kid, statuses) ==
  {p \in {DayPart(day, i) : i \in CareOf(kid, statuses)} : p.from < p.to}

\* The operator of the model in these terms.
LEMMA DayUnfolds ==
  ASSUME NEW day, NEW kid, NEW statuses
  PROVE  Figures!DayAllocation(day, kid, statuses)
           = Figures!TimedAllocation(DayParts(day, kid, statuses), statuses = {"completed", "partial"})
  BY DEF Figures!DayAllocation, Figures!Clipped, Figures!Bounds, DayParts, DayPart, CareOf, From, To

\* The parts of a day are within it, and show who is responsible at a time.
LEMMA DayPartsAre ==
  ASSUME Figures!TypeOK, NEW day \in Nat, NEW kid, NEW statuses
  PROVE  LET ivs == DayParts(day, kid, statuses)
             ids == CareOf(kid, statuses)
         IN  /\ AreParts(ivs, (day + 1) * PerDay)
             /\ \A t \in DayInstants(day) : CarersAt(ivs, t) = Responsible(ids, t)
             /\ Busy(ivs) = {t \in DayInstants(day) : Going(ids, t) # {}}
             /\ Cardinality(Busy(ivs)) <= PerDay
  <1>. DEFINE ivs == DayParts(day, kid, statuses)
              ids == CareOf(kid, statuses)
              lo == day * PerDay
              hi == (day + 1) * PerDay
              f == [i \in ids |-> DayPart(day, i)]
              T == {f[i] : i \in ids}
  <1>0. lo \in Nat /\ hi \in Nat /\ hi = lo + PerDay /\ PerDay \in Nat
    BY DaysAre
  <1>1. IsFiniteSet(ids) /\ \A i \in ids : /\ From(i) \in Nat /\ To(i) \in Nat /\ From(i) < To(i)
                                           /\ Figures!ResponsibleParty(entry[i]) \in CareParties \cup {Nothing}
    <2>1. ids \in SUBSET Figures!Rows
      BY DEF CareOf
    <2>. HIDE DEF ids
    <2>. QED  BY <2>1, RowsAre, FS_Subset
  <1>2. \A i \in ids : /\ f[i] = [from |-> f[i].from, to |-> f[i].to, party |-> f[i].party]
                       /\ f[i].from = IF From(i) > lo THEN From(i) ELSE lo
                       /\ f[i].to = IF To(i) < hi THEN To(i) ELSE hi
                       /\ f[i].party = Figures!ResponsibleParty(entry[i])
    BY DEF DayPart, Figures!Later, Figures!Earlier
  <1>3. \A p : p \in ivs <=> (\E i \in ids : p = f[i]) /\ p.from < p.to
    BY DEF DayParts
  <1>4. IsFiniteSet(T)
    <2>1. f \in Surjection(ids, T)
      BY Zenon DEF Surjection
    <2>. HIDE DEF T, ids, f
    <2>. QED  BY <1>1, <2>1, FS_Surjection
  <1>5. \A t \in DayInstants(day) : t \in Nat /\ lo <= t /\ t < hi
    BY <1>0 DEF DayInstants
  <1>6. \A t \in Nat : lo <= t /\ t < hi => t \in DayInstants(day)
    BY <1>0 DEF DayInstants
  <1>7. ivs \in SUBSET T
    BY <1>3
  <1>. HIDE DEF f, ivs, ids, lo, hi, T
  <1>8. \A i \in ids : /\ f[i].from \in Nat /\ f[i].to \in Nat /\ f[i].to <= hi /\ lo <= f[i].from
                       /\ f[i].party \in CareParties \cup {Nothing}
                       /\ \A t \in Nat : lo <= t /\ t < hi =>
                            (f[i].from <= t /\ t < f[i].to <=> From(i) <= t /\ t < To(i))
    <2>. SUFFICES ASSUME NEW i \in ids
                  PROVE  /\ f[i].from \in Nat /\ f[i].to \in Nat /\ f[i].to <= hi /\ lo <= f[i].from
                         /\ f[i].party \in CareParties \cup {Nothing}
                         /\ \A t \in Nat : lo <= t /\ t < hi =>
                              (f[i].from <= t /\ t < f[i].to <=> From(i) <= t /\ t < To(i))
      OBVIOUS
    <2>. DEFINE a == f[i].from
                b == f[i].to
                x == From(i)
                y == To(i)
    <2>1. /\ a = IF x > lo THEN x ELSE lo
          /\ b = IF y < hi THEN y ELSE hi
          /\ f[i].party \in CareParties \cup {Nothing}
          /\ x \in Nat /\ y \in Nat
      BY <1>1, <1>2
    <2>. HIDE DEF a, b, x, y
    <2>2. a \in Nat /\ b \in Nat /\ b <= hi /\ lo <= a
      BY <1>0, <2>1
    <2>3. \A t \in Nat : lo <= t /\ t < hi => (a <= t /\ t < b <=> x <= t /\ t < y)
      BY <1>0, <2>1
    <2>. QED  BY <2>1, <2>2, <2>3 DEF a, b, x, y
  <1>9. AreParts(ivs, hi)
    <2>1. IsFiniteSet(ivs)
      BY <1>4, <1>7, FS_Subset
    <2>2. \A p \in ivs : /\ p \in [from : Nat, to : Nat, party : CareParties \cup {Nothing}]
                         /\ p.from < p.to /\ p.to <= hi
      <3>. SUFFICES ASSUME NEW p \in ivs
                    PROVE  /\ p \in [from : Nat, to : Nat, party : CareParties \cup {Nothing}]
                           /\ p.from < p.to /\ p.to <= hi
        OBVIOUS
      <3>1. PICK i \in ids : p = f[i]
        BY <1>3
      <3>2. p = [from |-> p.from, to |-> p.to, party |-> p.party]
        BY <1>2, <3>1
      <3>3. p.from \in Nat /\ p.to \in Nat /\ p.to <= hi /\ p.party \in CareParties \cup {Nothing}
        BY <1>8, <3>1
      <3>. QED  BY <1>3, <3>2, <3>3
    <2>. QED  BY <1>0, <2>1, <2>2 DEF AreParts
  <1>10. \A i \in ids, t \in Nat :
           lo <= t /\ t < hi => (f[i].from <= t /\ t < f[i].to <=> From(i) <= t /\ t < To(i))
    BY <1>8
  <1>11. ASSUME NEW t \in DayInstants(day) PROVE CarersAt(ivs, t) = Responsible(ids, t)
    <2>1. t \in Nat /\ lo <= t /\ t < hi
      BY <1>5
    <2>2. ASSUME NEW p \in ivs, p.from <= t, t < p.to PROVE p.party \in Responsible(ids, t)
      <3>1. PICK i \in ids : p = f[i]
        BY <1>3
      <3>. QED  BY <1>2, <1>10, <2>1, <2>2, <3>1 DEF Responsible, Going
    <2>3. ASSUME NEW i \in Going(ids, t)
          PROVE  \E p \in ivs : p.from <= t /\ t < p.to /\ p.party = Figures!ResponsibleParty(entry[i])
      <3>1. i \in ids /\ From(i) <= t /\ t < To(i)
        BY DEF Going
      <3>2. f[i].from <= t /\ t < f[i].to
        BY <1>10, <2>1, <3>1
      <3>3. f[i] \in ivs
        BY <1>3, <1>8, <2>1, <3>1, <3>2
      <3>. QED  BY <1>2, <3>1, <3>2, <3>3
    <2>4. CarersAt(ivs, t) \subseteq Responsible(ids, t)
      BY <2>2 DEF CarersAt
    <2>5. Responsible(ids, t) \subseteq CarersAt(ivs, t)
      BY <2>3 DEF CarersAt, Responsible
    <2>. QED  BY <2>4, <2>5
  <1>12. \A t \in Busy(ivs) : t \in DayInstants(day)
    <2>. SUFFICES ASSUME NEW t \in Busy(ivs) PROVE t \in DayInstants(day)
      OBVIOUS
    <2>1. t \in Nat
      BY DEF Busy
    <2>2. PICK p \in ivs : p.from <= t /\ t < p.to
      BY <1>9, <2>1, BusyIs
    <2>3. PICK i \in ids : p = f[i]
      BY <1>3
    <2>4. lo <= t /\ t < hi
      BY <1>0, <1>8, <2>1, <2>2, <2>3
    <2>. QED  BY <1>6, <2>1, <2>4
  <1>13. Busy(ivs) = {t \in DayInstants(day) : Going(ids, t) # {}}
    <2>1. \A t \in DayInstants(day) : Responsible(ids, t) # {} <=> Going(ids, t) # {}
      BY DEF Responsible
    <2>2. \A t \in DayInstants(day) : t \in Busy(ivs) <=> Going(ids, t) # {}
      BY <1>5, <1>11, <2>1 DEF Busy
    <2>. QED  BY <1>12, <2>2
  <1>14. Cardinality(Busy(ivs)) <= PerDay
    <2>1. DayInstants(day) = lo .. (hi - 1)
      BY DEF DayInstants, lo, hi
    <2>2. IsFiniteSet(DayInstants(day)) /\ Cardinality(DayInstants(day)) = PerDay
      BY <1>0, <2>1, FS_Interval
    <2>3. Busy(ivs) \in SUBSET DayInstants(day)
      BY <1>12
    <2>. QED  BY <2>2, <2>3, FS_Subset
  <1>. QED  BY <1>9, <1>11, <1>13, <1>14 DEF ivs, ids, hi

\* There are finitely many children.
LEMMA CountsAre ==
  /\ Cardinality(Children) \in Nat /\ IsFiniteSet(Children) /\ Unit \in Nat
  /\ Children # {} => 1 \in 1..Cardinality(Children)
  <1>1. IsFiniteSet(Children)
    BY FiguresConstants, FiniteOfFigures DEF Figures!EntryAssumption
  <1>2. Cardinality(Children) \in Nat /\ (Cardinality(Children) = 0 => Children = {})
    BY <1>1, FS_CardinalityType, FS_EmptySet
  <1>3. Unit \in Nat
    BY FiguresConstants DEF Figures!UnitAssumption
  <1>. QED  BY <1>1, <1>2, <1>3

\* The whole itself and its half are divided by the number of children.
LEMMA WholeIsMultiple ==
  ASSUME NEW k \in 1..Cardinality(Children)
  PROVE  /\ \E x \in Nat : Unit = k * x
         /\ \E x \in Nat : Unit \div 2 = k * x /\ 2 * (Unit \div 2) = Unit
  <1>1. PerDay \in Nat \ {0} /\ k \in Nat
    BY DaysAre, CountsAre
  <1>2. 1 \in {1, 2} \cup (1..Cardinality(CareParties)) /\ 2 \in {1, 2} \cup (1..Cardinality(CareParties))
        /\ 1 \in 1..PerDay
    BY <1>1
  <1>3. HasShares(Unit, 1, 1, k) /\ HasShares(Unit, 2, 1, k)
    BY <1>2, WholeIsShared
  <1>4. PICK x \in Nat : Unit = 1 * (1 * (k * x))
    BY <1>3 DEF HasShares
  <1>5. PICK y \in Nat : Unit = 2 * (1 * (k * y))
    BY <1>3 DEF HasShares
  <1>6. Unit = k * x /\ Unit = 2 * (k * y) /\ k * y \in Nat
    BY <1>1, <1>4, <1>5
  <1>7. (2 * (k * y)) \div 2 = k * y
    <2>. DEFINE q == k * y
    <2>. HIDE DEF q
    <2>1. q \in Nat
      BY <1>6 DEF q
    <2>2. (2 * q) \div 2 = q
      BY <2>1, MultipleDivided
    <2>. QED  BY <2>2 DEF q
  <1>. QED  BY <1>6, <1>7

\* All of a day for one account.
LEMMA EverythingIs ==
  ASSUME NEW a \in Figures!Accounts, NEW k \in 1..Cardinality(Children)
  PROVE  IsDivided(Figures!Everything(a), k)
  <1>. DEFINE A == Figures!Accounts
              share == Figures!Everything(a)
              R == {}
              one == [b \in {a} |-> share[b]]
              none == [b \in R |-> share[b]]
  <1>1. share = [b \in A |-> IF b = a THEN Unit ELSE 0]
    BY DEF Figures!Everything
  <1>2. Unit \in Nat /\ k \in Nat /\ IsFiniteSet(A)
    BY CountsAre, AccountsAre
  <1>. HIDE DEF share
  <1>3. share \in [A -> Nat] /\ share \in [A -> Int]
    BY <1>1, <1>2
  <1>4. ASSUME NEW b \in A PROVE \E x \in Nat : share[b] = k * x
    <2>1. CASE b = a
      BY <1>1, <2>1, WholeIsMultiple
    <2>2. CASE b # a
      <3>1. share[b] = k * 0
        BY <1>1, <1>2, <2>2
      <3>. QED  BY <3>1
    <2>. QED  BY <2>1, <2>2
  <1>5. SumFunction(share) = SumFunction(one)
    <2>. DEFINE T == {a}
    <2>1. T \in SUBSET A /\ \A b \in A \ T : share[b] = 0
      BY <1>1
    <2>. HIDE DEF T, A
    <2>2. SumFunction(share) = SumFunction([b \in T |-> share[b]])
      BY <1>2, <1>3, <2>1, SumRestrict
    <2>. QED  BY <2>2 DEF T
  <1>6. SumFunction(one) = Unit
    <2>. DEFINE T == {a}
    <2>1. IsFiniteSet(T) /\ Cardinality(T) = 1
      BY FS_Singleton
    <2>2. one \in [T -> Int] /\ \A b \in T : one[b] = Unit
      BY <1>1, <1>2
    <2>. HIDE DEF T, one
    <2>3. SumFunction(one) = Cardinality(T) * Unit
      BY <1>2, <2>1, <2>2, SumConstant
    <2>. QED  BY <1>2, <2>1, <2>3
  <1>. QED  BY <1>3, <1>4, <1>5, <1>6 DEF IsDivided, share

\* Half a day for each of the two parents of earlier releases.
LEMMA HalvesAre ==
  ASSUME NEW share, share = [a \in Figures!Accounts |-> IF a \in Figures!Legacy THEN Unit \div 2 ELSE 0],
         NEW k \in 1..Cardinality(Children)
  PROVE  IsDivided(share, k)
  <1>. DEFINE A == Figures!Accounts
              T == Figures!Legacy
              h == Unit \div 2
              both == [b \in T |-> share[b]]
  <1>0. PICK x \in Nat : h = k * x /\ 2 * h = Unit
    BY WholeIsMultiple
  <1>1. k \in Nat /\ IsFiniteSet(A) /\ h \in Nat
    BY <1>0, CountsAre, AccountsAre
  <1>2. T \in SUBSET A /\ IsFiniteSet(T) /\ Cardinality(T) = 2
    <2>1. IsFiniteSet({"father"}) /\ Cardinality({"father"}) = 1 /\ "mother" \notin {"father"}
      BY FS_Singleton
    <2>2. IsFiniteSet({"father"} \cup {"mother"}) /\ Cardinality({"father"} \cup {"mother"}) = 2
      BY <2>1, FS_AddElement
    <2>3. T = {"father"} \cup {"mother"}
      BY DEF Figures!Legacy
    <2>. QED  BY <2>2, <2>3, AccountsAre
  <1>. HIDE DEF h
  <1>3. share = [a \in A |-> IF a \in T THEN h ELSE 0]
    BY DEF h
  <1>4. share \in [A -> Nat] /\ share \in [A -> Int] /\ (\A a \in A \ T : share[a] = 0)
        /\ both \in [T -> Int] /\ (\A a \in T : both[a] = h)
    BY <1>1, <1>2, <1>3
  <1>5. ASSUME NEW a \in A PROVE \E z \in Nat : share[a] = k * z
    <2>1. CASE a \in T
      BY <1>0, <1>3, <2>1
    <2>2. CASE a \notin T
      <3>1. share[a] = k * 0
        BY <1>1, <1>3, <2>2
      <3>. QED  BY <3>1
    <2>. QED  BY <2>1, <2>2
  <1>. HIDE DEF A, T
  <1>6. SumFunction(share) = SumFunction(both)
    BY <1>1, <1>2, <1>4, SumRestrict
  <1>. HIDE DEF both
  <1>7. SumFunction(both) = Cardinality(T) * h
    BY <1>1, <1>2, <1>4, SumConstant
  <1>8. SumFunction(share) = Unit
    BY <1>0, <1>1, <1>2, <1>6, <1>7
  <1>. QED  BY <1>4, <1>5, <1>8 DEF IsDivided, A

\* A day with entries is divided without a remainder, for any number of children
\* on holiday.
LEMMA DayDivided ==
  ASSUME Figures!TypeOK, NEW day \in Nat, NEW kid, NEW statuses, NEW k \in 1..Cardinality(Children)
  PROVE  LET r == Figures!DayAllocation(day, kid, statuses)
         IN  r.covered > 0 => IsDivided(r.share, k)
  <1>. DEFINE ivs == DayParts(day, kid, statuses)
              n == (day + 1) * PerDay
              strict == statuses = {"completed", "partial"}
              c == Cardinality(Busy(ivs))
  <1>1. AreParts(ivs, n) /\ c <= PerDay
    BY DayPartsAre
  <1>. HIDE DEF ivs, n
  <1>2. c \in Nat
    BY <1>1, BusyIs
  <1>3. strict \in BOOLEAN
    OBVIOUS
  <1>. HIDE DEF strict
  <1>4. Figures!TimedAllocation(ivs, strict).covered = c
    BY <1>1, CoveredIs
  <1>5. c > 0 => IsDivided(Figures!TimedAllocation(ivs, strict).share, k)
    <2>. SUFFICES ASSUME c > 0 PROVE IsDivided(Figures!TimedAllocation(ivs, strict).share, k)
      OBVIOUS
    <2>1. c \in 1..PerDay
      BY <1>1, <1>2, DaysAre
    <2>. QED  BY <1>1, <1>3, <2>1, SharesAre
  <1>6. Figures!DayAllocation(day, kid, statuses) = Figures!TimedAllocation(ivs, strict)
    BY DayUnfolds DEF ivs, strict
  <1>. HIDE DEF c
  <1>. QED  BY <1>4, <1>5, <1>6

\* Whoever has the day, all of it is given to somebody.
LEMMA SlotIs ==
  ASSUME Figures!TypeOK, NEW day \in Nat, NEW kid, NEW k \in 1..Cardinality(Children)
  PROVE  IsDivided(Figures!Slot(day, kid), k)
  <1>. DEFINE actual == Figures!Actually(day, kid)
              planned == Figures!DayAllocation(day, kid, {"planned"})
              of == {holiday[h].assigned : h \in Figures!PeriodsOf(day, kid)}
              fallback == Figures!Fallback(of)
  <1>1. Figures!Slot(day, kid) = IF actual.covered > 0 THEN actual.share
                                   ELSE IF planned.covered > 0 THEN planned.share ELSE fallback
    BY DEF Figures!Slot
  <1>2. actual.covered > 0 => IsDivided(actual.share, k)
    BY DayDivided DEF Figures!Actually
  <1>3. planned.covered > 0 => IsDivided(planned.share, k)
    BY DayDivided
  <1>4. IsDivided(fallback, k)
    <2>. DEFINE party == IF primary # Nothing THEN primary ELSE default
                whose == IF Figures!Cardinality(of) = 1 THEN CHOOSE a \in of : TRUE ELSE "shared"
                halves == [a \in Figures!Accounts |-> IF a \in Figures!Legacy THEN Unit \div 2 ELSE 0]
    <2>1. fallback = CASE party # Nothing -> Figures!Everything(party)
                       [] party = Nothing /\ whose = "shared" -> halves
                       [] party = Nothing /\ whose \in Figures!Legacy -> Figures!Everything(whose)
                       [] OTHER -> Figures!Everything(Figures!Unassigned)
      BY DEF Figures!Fallback
    <2>2. party # Nothing => party \in Figures!Accounts
      BY FiguresConstants, AccountsAre DEF Figures!TypeOK, Figures!PartyAssumption
    <2>3. IsDivided(halves, k)
      BY HalvesAre
    <2>4. Figures!Unassigned \in Figures!Accounts /\ Figures!Legacy \subseteq Figures!Accounts
      BY DEF Figures!Accounts
    <2>5. \A a \in Figures!Accounts : IsDivided(Figures!Everything(a), k)
      BY EverythingIs
    <2>6. "shared" \notin Figures!Legacy
      BY DEF Figures!Legacy
    <2>. HIDE DEF party, whose, halves, fallback
    <2>7. \/ fallback = halves
          \/ \E a \in Figures!Accounts : fallback = Figures!Everything(a)
      <3>1. CASE party # Nothing
        BY <2>1, <2>2, <3>1
      <3>2. CASE party = Nothing /\ whose = "shared"
        BY <2>1, <2>6, <3>2
      <3>3. CASE party = Nothing /\ whose \in Figures!Legacy
        BY <2>1, <2>4, <2>6, <3>3
      <3>4. CASE party = Nothing /\ whose # "shared" /\ whose \notin Figures!Legacy
        BY <2>1, <2>4, <3>4
      <3>. QED  BY <3>1, <3>2, <3>3, <3>4
    <2>. QED  BY <2>3, <2>5, <2>7
  <1>. HIDE DEF actual, planned, fallback
  <1>. QED  BY <1>1, <1>2, <1>3, <1>4

\* A range has finitely many days, all of them days of the model.
LEMMA RangesAre ==
  ASSUME NEW range \in Figures!Ranges
  PROVE  /\ range.first \in Nat /\ range.last \in Nat
         /\ Figures!InRange(range) \subseteq 0..LastOfFigures /\ Figures!InRange(range) \subseteq Nat
         /\ IsFiniteSet(Figures!InRange(range))
  <1>0. LastOfFigures \in Nat
    BY DaysAre
  <1>1. range.first \in 0..LastOfFigures /\ range.last \in 0..LastOfFigures
    <2>1. CASE range \in FigureMonths
      BY <2>1, FiguresConstants DEF Figures!MonthAssumption, Figures!Days
    <2>2. CASE range = Figures!Whole
      BY <1>0, <2>2 DEF Figures!Whole
    <2>. QED  BY <2>1, <2>2 DEF Figures!Ranges
  <1>2. range.first \in Nat /\ range.last \in Nat
    BY <1>0, <1>1
  <1>3. Figures!InRange(range) \subseteq 0..LastOfFigures /\ Figures!InRange(range) \subseteq Nat
    BY <1>0, <1>1 DEF Figures!InRange
  <1>4. IsFiniteSet(0..LastOfFigures)
    BY <1>0, FS_Interval
  <1>. QED  BY <1>2, <1>3, <1>4, FS_Subset

\* The children on holiday, some of all children.
LEMMA HolidayKidsAre ==
  ASSUME NEW d, NEW kid
  PROVE  LET kids == Figures!HolidayKids(d, kid)
         IN  /\ kids \in SUBSET Children /\ IsFiniteSet(kids)
             /\ kids # {} => Cardinality(kids) \in 1..Cardinality(Children)
  <1>. DEFINE kids == Figures!HolidayKids(d, kid)
  <1>1. kids \in SUBSET Children
    BY DEF Figures!HolidayKids
  <1>. HIDE DEF kids
  <1>2. IsFiniteSet(kids) /\ Cardinality(kids) <= Cardinality(Children)
    BY <1>1, CountsAre, FS_Subset
  <1>3. Cardinality(kids) \in Nat /\ (Cardinality(kids) = 0 => kids = {})
    BY <1>2, FS_CardinalityType, FS_EmptySet
  <1>4. kids # {} => Cardinality(kids) \in 1..Cardinality(Children)
    BY <1>2, <1>3, CountsAre
  <1>. QED  BY <1>1, <1>2, <1>4 DEF kids

-----------------------------------------------------------------------------
(* Holidays (HolidayStats).                                                *)

HDays(range, kid) == {d \in Figures!InRange(range) : Figures!HolidayKids(d, kid) # {}}

HSlots(range, kid) == UNION {{d} \X Figures!HolidayKids(d, kid) : d \in HDays(range, kid)}

SlotPart(s, kid, a) == Figures!Slot(s[1], s[2])[a] \div Cardinality(Figures!HolidayKids(s[1], kid))

PartOf(range, kid, a) == SumFunction([s \in HSlots(range, kid) |-> SlotPart(s, kid, a)])

\* The operator of the model in these terms.
LEMMA StatsUnfold ==
  ASSUME NEW range, NEW kid
  PROVE  LET s == Figures!HolidayStats(range, kid)
         IN  /\ s.days = Cardinality(HDays(range, kid))
             /\ s.byParty = [p \in CareParties |-> PartOf(range, kid, p)]
             /\ s.legacy = [g \in Figures!Legacy |-> PartOf(range, kid, g)]
             /\ s.unassigned = PartOf(range, kid, Figures!Unassigned) + PartOf(range, kid, Figures!Unresolved)
  <1>. DEFINE days == {d \in Figures!InRange(range) : Figures!HolidayKids(d, kid) # {}}
              slots == UNION {{d} \X Figures!HolidayKids(d, kid) : d \in days}
              slot == [s \in slots |-> Figures!Slot(s[1], s[2])]
              share(a) == Figures!SumFunction([s \in slots |->
                           slot[s][a] \div Figures!Cardinality(Figures!HolidayKids(s[1], kid))])
  <1>1. \A a : share(a) = PartOf(range, kid, a)
    BY SumOfFigures, CardinalityOfFigures DEF PartOf, HSlots, HDays, SlotPart
  <1>2. Figures!Cardinality(days) = Cardinality(HDays(range, kid))
    BY CardinalityOfFigures DEF HDays
  <1>3. Figures!HolidayStats(range, kid)
          = [days |-> Figures!Cardinality(days),
             byParty |-> [p \in CareParties |-> share(p)],
             legacy |-> [g \in Figures!Legacy |-> share(g)],
             unresolved |-> share(Figures!Unresolved),
             unassigned |-> share(Figures!Unassigned) + share(Figures!Unresolved)]
    BY DEF Figures!HolidayStats
  <1>. HIDE DEF share, days
  <1>. QED  BY <1>1, <1>2, <1>3

\* What one child on holiday contributes to all accounts is its part of a day.
LEMMA RowIs ==
  ASSUME NEW share, NEW k \in 1..Cardinality(Children), IsDivided(share, k),
         NEW f, f = [a \in Figures!Accounts |-> share[a] \div k]
  PROVE  f \in [Figures!Accounts -> Int] /\ SumFunction(f) = Unit \div k /\ k * (Unit \div k) = Unit
         /\ Unit \div k \in Nat
  <1>. DEFINE A == Figures!Accounts
  <1>1. k \in Nat /\ k # 0 /\ IsFiniteSet(A)
    BY CountsAre, AccountsAre
  <1>2. share \in [A -> Nat] /\ SumFunction(share) = Unit /\ \A a \in A : \E x \in Nat : share[a] = k * x
    BY DEF IsDivided
  <1>. HIDE DEF A
  <1>3. ASSUME NEW a \in A PROVE f[a] \in Nat /\ share[a] = k * f[a]
    <2>1. PICK x \in Nat : share[a] = k * x
      BY <1>2
    <2>2. (k * x) \div k = x
      BY <1>1, MultipleDivided
    <2>3. f[a] = x
      BY <2>1, <2>2 DEF A
    <2>. QED  BY <2>1, <2>3
  <1>4. f \in [A -> Nat] /\ f \in [A -> Int] /\ share \in [A -> Int] /\ k \in Int
    <2>1. f = [a \in A |-> f[a]]
      BY DEF A
    <2>2. f \in [A -> Nat] /\ f \in [A -> Int]
      BY <1>3, <2>1
    <2>. QED  BY <1>1, <1>2, <2>2
  <1>5. SumFunction(share) = k * SumFunction(f) /\ SumFunction(f) \in Nat
    <2>1. \A a \in A : share[a] = k * f[a]
      BY <1>3
    <2>2. SumFunction(share) = k * SumFunction(f)
      BY <1>1, <1>4, <2>1, SumScale
    <2>. QED  BY <1>1, <1>4, <2>2, SumNat
  <1>6. (k * SumFunction(f)) \div k = SumFunction(f)
    BY <1>1, <1>5, MultipleDivided
  <1>. QED  BY <1>2, <1>4, <1>5, <1>6 DEF A

\* Days and children on holiday are finitely many.
LEMMA SlotsAre ==
  ASSUME NEW range \in Figures!Ranges, NEW kid
  PROVE  LET D == HDays(range, kid)
             U == HSlots(range, kid)
         IN  /\ IsFiniteSet(D) /\ IsFiniteSet(U) /\ D \subseteq Nat
             /\ \A s \in U : s[1] \in D /\ s \in {s[1]} \X Figures!HolidayKids(s[1], kid)
             /\ \A d \in D : Cardinality(Figures!HolidayKids(d, kid)) \in 1..Cardinality(Children)
  <1>. DEFINE D == HDays(range, kid)
              U == HSlots(range, kid)
  <1>1. D \in SUBSET Figures!InRange(range) /\ \A d \in D : Figures!HolidayKids(d, kid) # {}
    BY DEF HDays
  <1>. HIDE DEF D
  <1>2. IsFiniteSet(D) /\ D \subseteq Nat
    BY <1>1, RangesAre, FS_Subset
  <1>3. U \in SUBSET (D \X Children)
    BY HolidayKidsAre DEF HSlots, D
  <1>4. IsFiniteSet(U)
    <2>1. IsFiniteSet(D \X Children)
      BY <1>2, CountsAre, FS_Product
    <2>. HIDE DEF U
    <2>. QED  BY <1>3, <2>1, FS_Subset
  <1>5. \A s \in U : s[1] \in D /\ s \in {s[1]} \X Figures!HolidayKids(s[1], kid)
    BY DEF HSlots, D
  <1>6. \A d \in D : Cardinality(Figures!HolidayKids(d, kid)) \in 1..Cardinality(Children)
    BY <1>1, HolidayKidsAre
  <1>. QED  BY <1>2, <1>4, <1>5, <1>6 DEF D

\* All accounts together are credited with the days of holiday.
LEMMA PartsAdd ==
  ASSUME Figures!TypeOK, NEW range \in Figures!Ranges, NEW kid,
         NEW e, e = [a \in Figures!Accounts |-> PartOf(range, kid, a)]
  PROVE  e \in [Figures!Accounts -> Int] /\ SumFunction(e) = Cardinality(HDays(range, kid)) * Unit
  <1>. DEFINE A == Figures!Accounts
              D == HDays(range, kid)
              U == HSlots(range, kid)
              kids(d) == Figures!HolidayKids(d, kid)
              K(d) == Cardinality(kids(d))
              g == [s \in U |-> [a \in A |-> SlotPart(s, kid, a)]]
              each == [s \in U |-> SumFunction(g[s])]
              F == [d \in D |-> {s \in U : s[1] = d}]
              w == [d \in D |-> Unit \div K(d)]
              total == [d \in D |-> SumFunction([s \in F[d] |-> each[s]])]
  <1>1. /\ IsFiniteSet(A) /\ IsFiniteSet(D) /\ IsFiniteSet(U) /\ D \subseteq Nat /\ Unit \in Nat
        /\ \A s \in U : s[1] \in D /\ s \in {s[1]} \X kids(s[1])
        /\ \A d \in D : K(d) \in 1..Cardinality(Children)
    BY SlotsAre, AccountsAre, CountsAre
  <1>2. ASSUME NEW s \in U
        PROVE  /\ g[s] \in [A -> Int] /\ each[s] = w[s[1]] /\ K(s[1]) * w[s[1]] = Unit /\ w[s[1]] \in Nat
    <2>. DEFINE d == s[1]
                k == K(d)
                share == Figures!Slot(d, s[2])
                f == [a \in Figures!Accounts |-> share[a] \div k]
    <2>1. d \in D /\ d \in Nat /\ k \in 1..Cardinality(Children)
      BY <1>1
    <2>2. g[s] = f
      BY DEF SlotPart
    <2>3. w[d] = Unit \div k
      BY <2>1
    <2>. HIDE DEF d, k, g, w
    <2>4. IsDivided(share, k)
      BY <2>1, SlotIs
    <2>. HIDE DEF share
    <2>5. f \in [A -> Int] /\ SumFunction(f) = Unit \div k /\ k * (Unit \div k) = Unit /\ Unit \div k \in Nat
      BY <2>1, <2>4, RowIs
    <2>6. each[s] = SumFunction(g[s])
      OBVIOUS
    <2>. HIDE DEF f, each
    <2>. QED  BY <2>2, <2>3, <2>5, <2>6 DEF d, k
  <1>3. g \in [U -> [A -> Int]] /\ each \in [U -> Int]
    <2>1. ASSUME NEW s \in U PROVE g[s] \in [A -> Int] /\ each[s] \in Int
      <3>. HIDE DEF g, each, w, K
      <3>. QED  BY <1>2
    <2>2. g = [s \in U |-> g[s]]
      OBVIOUS
    <2>3. each = [s \in U |-> each[s]]
      OBVIOUS
    <2>. HIDE DEF g, each
    <2>. QED  BY <2>1, <2>2, <2>3
  <1>4. \A a \in A : e[a] = SumFunction([s \in U |-> g[s][a]])
    BY DEF PartOf
  <1>5. e \in [A -> Int]
    <2>1. ASSUME NEW a \in A PROVE e[a] \in Int
      <3>. DEFINE c == [s \in U |-> g[s][a]]
      <3>1. c \in [U -> Int]
        BY <1>3
      <3>2. e[a] = SumFunction(c)
        BY <1>4
      <3>. HIDE DEF c, U
      <3>. QED  BY <1>1, <3>1, <3>2, SumType
    <2>. QED  BY <2>1
  <1>6. SumFunction(e) = SumFunction(each)
    <2>1. e = [a \in A |-> SumFunction([s \in U |-> g[s][a]])]
      BY <1>4
    <2>. HIDE DEF g, U, A
    <2>. QED  BY <1>1, <1>3, <2>1, SumExchange
  <1>7. SumFunction(each) = SumFunction(total)
    <2>1. F \in [D -> SUBSET U] /\ \A x, y \in D : x # y => F[x] \cap F[y] = {}
      OBVIOUS
    <2>2. UNION {F[d] : d \in D} = U
      BY <1>1
    <2>. HIDE DEF F, each, U, D
    <2>3. IsPartition(F, D, U)
      BY <1>1, <2>1, <2>2 DEF IsPartition
    <2>. QED  BY <1>3, <2>3, SumUnion
  <1>8. ASSUME NEW d \in D PROVE total[d] = Unit
    <2>. DEFINE S == F[d]
                c == [s \in S |-> each[s]]
                P == {d} \X kids(d)
    <2>1. S = P
      BY <1>1 DEF HSlots
    <2>2. IsFiniteSet({d}) /\ Cardinality({d}) = 1 /\ IsFiniteSet(kids(d)) /\ K(d) \in Nat /\ K(d) # 0
      <3>1. IsFiniteSet({d}) /\ Cardinality({d}) = 1
        BY FS_Singleton
      <3>2. IsFiniteSet(kids(d))
        BY HolidayKidsAre
      <3>3. K(d) \in 1..Cardinality(Children) /\ Cardinality(Children) \in Nat
        BY <1>1, CountsAre
      <3>. HIDE DEF K
      <3>4. K(d) \in Nat /\ K(d) # 0
        BY <3>3
      <3>. QED  BY <3>1, <3>2, <3>4
    <2>3. IsFiniteSet(P) /\ Cardinality(P) = K(d)
      <3>. DEFINE Q == {d}
                  R == kids(d)
      <3>. HIDE DEF Q, R
      <3>1. IsFiniteSet(Q \X R) /\ Cardinality(Q \X R) = Cardinality(Q) * Cardinality(R)
        BY <2>2, FS_Product DEF Q, R
      <3>. QED  BY <2>2, <3>1 DEF Q, R
    <2>4. \A s \in S : s \in U /\ s[1] = d
      OBVIOUS
    <2>5. \A s \in S : c[s] = w[d] /\ w[d] \in Nat /\ K(d) * w[d] = Unit
      <3>. HIDE DEF w, each, g
      <3>. QED  BY <1>2, <2>4
    <2>6. total[d] = SumFunction(c)
      OBVIOUS
    <2>7. P # {}
      <3>1. PICK x \in kids(d) : TRUE
        BY DEF HDays
      <3>2. <<d, x>> \in P
        OBVIOUS
      <3>. HIDE DEF P
      <3>. QED  BY <3>2
    <2>8. c \in [S -> Int] /\ w[d] \in Int /\ K(d) * w[d] = Unit
      <3>. HIDE DEF w, each, K, S, P
      <3>. QED  BY <2>1, <2>5, <2>7
    <2>. HIDE DEF c, S, P, w, total, K
    <2>9. SumFunction(c) = Cardinality(S) * w[d]
      BY <2>1, <2>3, <2>5, <2>8, SumConstant
    <2>. QED  BY <2>1, <2>3, <2>6, <2>8, <2>9
  <1>9. total \in [D -> Int] /\ \A d \in D : total[d] = Unit
    BY <1>1, <1>8
  <1>. HIDE DEF total, D
  <1>10. SumFunction(total) = Cardinality(D) * Unit
    BY <1>1, <1>9, SumConstant
  <1>. QED  BY <1>5, <1>6, <1>7, <1>10 DEF D

\* Every holiday is credited to somebody or listed as unassigned, once
\* (calculateHolidayStats).
LEMMA HolidaysAdd == Figures!TypeOK => Figures!HolidaysAddUp
  <1>. SUFFICES ASSUME Figures!TypeOK, NEW range \in Figures!Ranges, NEW kid \in Figures!Selections
                PROVE  LET s == Figures!HolidayStats(range, kid)
                       IN  Figures!SumFunction(s.byParty) + Figures!SumFunction(s.legacy) + s.unassigned
                             = s.days * Unit
    BY DEF Figures!HolidaysAddUp
  <1>. DEFINE s == Figures!HolidayStats(range, kid)
              A == Figures!Accounts
              L == Figures!Legacy
              P == CareParties
              e == [a \in A |-> PartOf(range, kid, a)]
              x == Figures!Unassigned
              y == Figures!Unresolved
  <1>1. e \in [A -> Int] /\ SumFunction(e) = Cardinality(HDays(range, kid)) * Unit
    BY PartsAdd
  <1>2. /\ P \in SUBSET A /\ L \in SUBSET A /\ x \in A /\ y \in A /\ IsFiniteSet(A)
        /\ P \cap L = {} /\ x \notin P \cup L /\ y \notin (P \cup L) \cup {x}
        /\ A = ((P \cup L) \cup {x}) \cup {y}
    BY AccountsAre DEF Figures!Accounts, Figures!Legacy, Figures!Unassigned, Figures!Unresolved
  <1>3. /\ s.days = Cardinality(HDays(range, kid))
        /\ s.byParty = [p \in P |-> PartOf(range, kid, p)]
        /\ s.legacy = [g \in L |-> PartOf(range, kid, g)]
        /\ s.unassigned = PartOf(range, kid, x) + PartOf(range, kid, y)
    BY StatsUnfold
  <1>4. /\ s.byParty = [p \in P |-> e[p]] /\ s.legacy = [g \in L |-> e[g]]
        /\ s.unassigned = e[x] + e[y]
    BY <1>2, <1>3
  <1>. HIDE DEF s, A, L, P, e, x, y
  <1>5. PICK h : SumsOf(h, e, A)
    BY <1>1, <1>2, SumIs
  <1>6. h[P \cup L] = h[P] + h[L]
    BY <1>1, <1>2, <1>5, SumsSplit
  <1>7. h[(P \cup L) \cup {x}] = e[x] + h[P \cup L]
    <2>1. P \cup L \in SUBSET A
      BY <1>2
    <2>. QED  BY <1>2, <1>5, <2>1 DEF SumsOf, Accumulates
  <1>8. h[A] = e[y] + h[(P \cup L) \cup {x}]
    <2>1. (P \cup L) \cup {x} \in SUBSET A
      BY <1>2
    <2>. QED  BY <1>2, <1>5, <2>1 DEF SumsOf, Accumulates
  <1>9. /\ h[A] = SumFunction([a \in A |-> e[a]]) /\ [a \in A |-> e[a]] = e
        /\ h[P] = SumFunction(s.byParty) /\ h[L] = SumFunction(s.legacy)
        /\ h[P] \in Int /\ h[L] \in Int /\ e[x] \in Int /\ e[y] \in Int
    BY <1>1, <1>2, <1>4, <1>5 DEF SumsOf, Accumulates
  <1>10. (h[P] + h[L]) + (e[x] + e[y]) = SumFunction(e)
    BY <1>6, <1>7, <1>8, <1>9
  <1>. QED  BY <1>1, <1>3, <1>4, <1>9, <1>10, SumOfFigures DEF s

-----------------------------------------------------------------------------
(* Overlapping times, counted once (UnionDuration, CareTime).              *)

Spans == [from : Nat, to : Nat]

StartOrder(T) == {p \in T \X T : Figures!Starts(p[1], p[2])}

\* Intervals are ordered by start and end.
LEMMA StartsOrders ==
  ASSUME NEW T \in SUBSET Spans
  PROVE  Orders(StartOrder(T), T)
  <1>1. \A a \in T : <<a, a>> \notin StartOrder(T)
    BY DEF StartOrder, Figures!Starts, Spans
  <1>2. \A a, b \in T : <<a, b>> \in StartOrder(T) <=> Figures!Starts(a, b)
    BY DEF StartOrder
  <1>3. \A a, b, c \in Spans : Figures!Starts(a, b) /\ Figures!Starts(b, c) => Figures!Starts(a, c)
    BY DEF Figures!Starts, Spans
  <1>4. \A a, b \in Spans : a # b => Figures!Starts(a, b) \/ Figures!Starts(b, a)
    BY DEF Figures!Starts, Spans
  <1>5. \A a, b, c \in T : <<a, b>> \in StartOrder(T) /\ <<b, c>> \in StartOrder(T) => <<a, c>> \in StartOrder(T)
    BY <1>2, <1>3
  <1>6. \A a, b \in T : a # b => <<a, b>> \in StartOrder(T) \/ <<b, a>> \in StartOrder(T)
    BY <1>2, <1>4
  <1>. QED  BY <1>1, <1>5, <1>6 DEF Orders

\* The order of the model is the one by rank.
LEMMA StartOrderIs ==
  ASSUME NEW T
  PROVE  Figures!InOrder(T, Figures!Starts) = Ranked(StartOrder(T), T)
  <1>1. \A n \in T : {m \in T : Figures!Starts(m, n)} = {m \in T : <<m, n>> \in StartOrder(T)}
    BY DEF StartOrder
  <1>2. \A n \in T : Figures!Cardinality({m \in T : Figures!Starts(m, n)}) + 1 = Rank(n, StartOrder(T), T)
    BY <1>1, CardinalityOfFigures DEF Rank
  <1>3. \A i : (CHOOSE n \in T : Figures!Cardinality({m \in T : Figures!Starts(m, n)}) + 1 = i)
             = (CHOOSE n \in T : Rank(n, StartOrder(T), T) = i)
    BY <1>2
  <1>. QED  BY <1>3, CardinalityOfFigures DEF Figures!InOrder, Ranked

\* The recursion of the union of intervals.
NoneYet == [sum |-> 0, open |-> Nothing]

AddsUp(h, s) ==
  h = [T \in SUBSET DOMAIN s |->
         IF T = {} THEN NoneYet ELSE Figures!Added(h[T \ {Last(T)}], s[Last(T)])]

NotEmpty(ivs) == {iv \in ivs : iv.from < iv.to}

InStartOrder(ivs) == Figures!InOrder(NotEmpty(ivs), Figures!Starts)

\* The model's union is what this recursion yields.
LEMMA UnionChosen ==
  ASSUME NEW ivs
  PROVE  LET s == InStartOrder(ivs)
             end == (CHOOSE h : AddsUp(h, s))[DOMAIN s]
         IN  Figures!UnionDuration(ivs) = end.sum + Figures!Length(end.open)
  BY DEF Figures!UnionDuration, Figures!FoldLeft, Figures!MapThenFoldSet, Figures!Max, AddsUp, Last,
         NoneYet, InStartOrder, NotEmpty

\* The recursion of the union has a solution.
LEMMA AddsUpExists ==
  ASSUME NEW n \in Nat, NEW s \in [1..n -> Spans]
  PROVE  \E h : AddsUp(h, s)
  <1>. DEFINE D == 1..n
              V == [sum : Int, open : {Nothing} \cup Spans]
              step == [p \in D \X V |-> Figures!Added(p[2], s[p[1]])]
  <1>1. \A v \in V, x \in Spans : Figures!Added(v, x) \in V
    <2>. SUFFICES ASSUME NEW v \in V, NEW x \in Spans PROVE Figures!Added(v, x) \in V
      OBVIOUS
    <2>0. v.sum \in Int /\ v.open \in {Nothing} \cup Spans /\ v = [sum |-> v.sum, open |-> v.open]
          /\ x.from \in Nat /\ x.to \in Nat
      BY DEF Spans
    <2>1. CASE v.open # Nothing /\ x.from <= v.open.to
      <3>1. v.open \in Spans
        BY <2>0, <2>1
      <3>2. Figures!Merged(v.open, x) \in Spans
        BY <2>0, <3>1 DEF Figures!Merged, Figures!Later, Spans
      <3>3. Figures!Added(v, x) = [v EXCEPT !.open = Figures!Merged(v.open, x)]
        BY <2>1 DEF Figures!Added
      <3>4. Figures!Added(v, x) = [sum |-> v.sum, open |-> Figures!Merged(v.open, x)]
        BY <2>0, <3>3
      <3>. QED  BY <2>0, <3>2, <3>4
    <2>2. CASE ~ (v.open # Nothing /\ x.from <= v.open.to)
      <3>1. Figures!Length(v.open) \in Int
        BY <2>0 DEF Figures!Length, Spans
      <3>2. Figures!Added(v, x) = [sum |-> v.sum + Figures!Length(v.open), open |-> x]
        BY <2>2 DEF Figures!Added
      <3>. QED  BY <2>0, <3>1, <3>2
    <2>. QED  BY <2>1, <2>2
  <1>2. step \in [D \X V -> V] /\ \A i \in D, v \in V : step[<<i, v>>] = Figures!Added(v, s[i])
    <2>. HIDE DEF V
    <2>. QED  BY <1>1
  <1>3. NoneYet \in V
    BY DEF NoneYet
  <1>4. PICK h : h \in [SUBSET D -> V] /\ Folds(h, n, NoneYet, step)
    <2>. HIDE DEF V, step
    <2>. QED  BY <1>2, <1>3, FoldExists
  <1>5. \A T \in SUBSET D : h[T] = IF T = {} THEN NoneYet ELSE Figures!Added(h[T \ {Last(T)}], s[Last(T)])
    <2>. HIDE DEF V, step
    <2>. SUFFICES ASSUME NEW T \in SUBSET D
                  PROVE  h[T] = IF T = {} THEN NoneYet ELSE Figures!Added(h[T \ {Last(T)}], s[Last(T)])
      OBVIOUS
    <2>1. T # {} => Last(T) \in D /\ h[T \ {Last(T)}] \in V
      BY <1>4, LastIs
    <2>. QED  BY <1>2, <1>4, <2>1 DEF Folds
  <1>6. DOMAIN s = D
    OBVIOUS
  <1>. HIDE DEF D, V, step
  <1>. QED  BY <1>4, <1>5, <1>6 DEF AddsUp

\* The instants in some of the intervals.
Covered(ivs) == {t \in Nat : \E iv \in ivs : iv.from <= t /\ t < iv.to}

InOne(s, k, t) == \E i \in 1..k : s[i].from <= t /\ t < s[i].to

\* What has been added up is apart from the interval that is open.
IsUnion(acc, s, k) ==
  /\ acc = [sum |-> acc.sum, open |-> acc.open] /\ acc.open \in Spans
  /\ acc.open.from < acc.open.to /\ acc.open.from <= s[k].from
  /\ \E C \in SUBSET Nat :
       /\ IsFiniteSet(C) /\ acc.sum = Cardinality(C) /\ \A t \in C : t < acc.open.from
       /\ \A t \in Nat : t \in C \/ (acc.open.from <= t /\ t < acc.open.to) <=> InOne(s, k, t)

AscendingFrom(s, n) ==
  /\ n \in Nat /\ s \in [1..n -> Spans] /\ \A i \in 1..n : s[i].from < s[i].to
  /\ \A i, j \in 1..n : i < j => s[i].from <= s[j].from

\* An interval after all earlier ones opens the next part.
LEMMA OpenedUnion ==
  ASSUME NEW n, NEW s, AscendingFrom(s, n), NEW k \in 0..(n - 1), NEW C \in SUBSET Nat, IsFiniteSet(C),
         \A t \in Nat : t \in C <=> InOne(s, k, t),
         \A t \in C : t < s[k + 1].from
  PROVE  IsUnion([sum |-> Cardinality(C), open |-> s[k + 1]], s, k + 1)
  <1>. DEFINE acc == [sum |-> Cardinality(C), open |-> s[k + 1]]
  <1>1. acc.sum = Cardinality(C) /\ acc.open = s[k + 1]
    OBVIOUS
  <1>2. /\ n \in Nat /\ k \in Nat /\ k + 1 \in 1..n /\ s[k + 1] \in Spans /\ s[k + 1].from < s[k + 1].to
        /\ \A i \in 1..(k + 1) : i \in 1..k \/ i = k + 1
        /\ \A i \in 1..k : i \in 1..(k + 1)
        /\ k + 1 \in 1..(k + 1)
    BY DEF AscendingFrom
  <1>3. acc.open.from <= s[k + 1].from
    BY <1>1, <1>2 DEF Spans
  <1>4. \A t \in Nat : InOne(s, k + 1, t) <=> InOne(s, k, t) \/ (s[k + 1].from <= t /\ t < s[k + 1].to)
    BY <1>2 DEF InOne
  <1>5. acc = [sum |-> acc.sum, open |-> acc.open]
    OBVIOUS
  <1>. HIDE DEF acc
  <1>. QED  BY <1>1, <1>2, <1>3, <1>4, <1>5 DEF IsUnion, acc

\* A part that is closed joins what has been added up.
LEMMA ClosedUnion ==
  ASSUME NEW s, NEW k \in Nat, NEW acc, IsUnion(acc, s, k)
  PROVE  \E D \in SUBSET Nat :
           /\ IsFiniteSet(D) /\ Cardinality(D) = acc.sum + (acc.open.to - acc.open.from)
           /\ \A t \in Nat : t \in D <=> InOne(s, k, t)
           /\ \A t \in D : t < acc.open.to
  <1>1. /\ acc.open.from \in Nat /\ acc.open.to \in Nat /\ acc.open.from < acc.open.to
    BY DEF IsUnion, Spans
  <1>2. PICK C \in SUBSET Nat :
       /\ IsFiniteSet(C) /\ acc.sum = Cardinality(C) /\ \A t \in C : t < acc.open.from
       /\ \A t \in Nat : t \in C \/ (acc.open.from <= t /\ t < acc.open.to) <=> InOne(s, k, t)
    BY DEF IsUnion
  <1>. DEFINE a == acc.open.from
              b == acc.open.to
              E == a .. (b - 1)
  <1>3. IsFiniteSet(E) /\ Cardinality(E) = b - a
    BY <1>1, FS_Interval
  <1>4. C \cap E = {} /\ E \subseteq Nat /\ \A t \in Nat : t \in E <=> a <= t /\ t < b
    BY <1>1, <1>2
  <1>5. \A t \in C \cup E : t < b
    BY <1>1, <1>2
  <1>. HIDE DEF E, a, b
  <1>6. Cardinality(C \cap E) = 0
    BY <1>4, FS_EmptySet
  <1>7. IsFiniteSet(C \cup E) /\ Cardinality(C \cup E) = Cardinality(C) + Cardinality(E) - Cardinality(C \cap E)
    BY <1>2, <1>3, FS_Union
  <1>8. Cardinality(C \cup E) = acc.sum + (b - a)
    BY <1>1, <1>2, <1>3, <1>6, <1>7, FS_CardinalityType DEF a, b
  <1>9. C \cup E \in SUBSET Nat /\ \A t \in Nat : t \in C \cup E <=> InOne(s, k, t)
    BY <1>2, <1>4 DEF a, b
  <1>. QED  BY <1>5, <1>7, <1>8, <1>9, <1>2, <1>3 DEF a, b

\* One interval more is merged into the open part or closes it (unionDuration).
LEMMA AddedUnion ==
  ASSUME NEW n, NEW s, AscendingFrom(s, n), NEW k \in 1..(n - 1), NEW acc, IsUnion(acc, s, k)
  PROVE  IsUnion(Figures!Added(acc, s[k + 1]), s, k + 1)
  <1>. DEFINE x == s[k + 1]
              o == acc.open
  <1>1. /\ n \in Nat /\ k \in Nat /\ k \in 1..n /\ k + 1 \in 1..n /\ x \in Spans /\ x.from < x.to /\ s[k].from <= x.from
        /\ s[k] \in Spans
        /\ \A i \in 1..(k + 1) : i \in 1..k \/ i = k + 1
        /\ \A i \in 1..k : i \in 1..(k + 1)
        /\ k + 1 \in 1..(k + 1)
    BY DEF AscendingFrom
  <1>2. o \in Spans /\ o.from < o.to /\ o.from <= s[k].from /\ acc = [sum |-> acc.sum, open |-> o]
    BY DEF IsUnion
  <1>3. o # Nothing
    BY <1>2, FiguresConstants DEF Figures!EntryAssumption, Spans
  <1>4. x.from \in Nat /\ x.to \in Nat /\ o.from \in Nat /\ o.to \in Nat /\ o.from <= x.from
    BY <1>1, <1>2 DEF Spans
  <1>5. CASE x.from <= o.to
    <2>. DEFINE m == Figures!Merged(o, x)
                r == [sum |-> acc.sum, open |-> m]
    <2>1. Figures!Added(acc, x) = [acc EXCEPT !.open = m]
      BY <1>3, <1>5 DEF Figures!Added
    <2>2. Figures!Added(acc, x) = r
      BY <1>2, <2>1
    <2>3. m \in Spans /\ m.from = o.from /\ m.to = IF o.to > x.to THEN o.to ELSE x.to
      BY <1>2, <1>4 DEF Figures!Merged, Figures!Later, Spans
    <2>4. r = [sum |-> r.sum, open |-> r.open] /\ r.sum = acc.sum /\ r.open = m
      OBVIOUS
    <2>5. m.from < m.to /\ m.from <= x.from
      BY <1>2, <1>4, <2>3
    <2>6. PICK C \in SUBSET Nat :
            /\ IsFiniteSet(C) /\ acc.sum = Cardinality(C) /\ \A t \in C : t < o.from
            /\ \A t \in Nat : t \in C \/ (o.from <= t /\ t < o.to) <=> InOne(s, k, t)
      BY DEF IsUnion
    <2>7. \A t \in Nat : (m.from <= t /\ t < m.to) <=> (o.from <= t /\ t < o.to) \/ (x.from <= t /\ t < x.to)
      <3>. DEFINE mf == m.from
                  mt == m.to
                  of == o.from
                  ot == o.to
                  xf == x.from
                  xt == x.to
      <3>1. /\ of \in Nat /\ ot \in Nat /\ xf \in Nat /\ xt \in Nat /\ mf = of
            /\ mt = IF ot > xt THEN ot ELSE xt
            /\ xf <= ot /\ of <= xf /\ xf < xt /\ of < ot
        BY <1>1, <1>2, <1>4, <1>5, <2>3
      <3>. HIDE DEF mf, mt, of, ot, xf, xt
      <3>2. \A t \in Nat : (mf <= t /\ t < mt) <=> (of <= t /\ t < ot) \/ (xf <= t /\ t < xt)
        BY <3>1
      <3>. QED  BY <3>2 DEF mf, mt, of, ot, xf, xt
    <2>8. \A t \in Nat : InOne(s, k + 1, t) <=> InOne(s, k, t) \/ (x.from <= t /\ t < x.to)
      BY <1>1 DEF InOne
    <2>. HIDE DEF m, r, x, o
    <2>9. \A t \in Nat : t \in C \/ (m.from <= t /\ t < m.to) <=> InOne(s, k + 1, t)
      BY <2>6, <2>7, <2>8
    <2>10. \A t \in C : t < m.from
      BY <2>3, <2>6
    <2>11. IsUnion(r, s, k + 1)
      BY <2>3, <2>4, <2>5, <2>6, <2>9, <2>10 DEF IsUnion, x
    <2>. QED  BY <2>2, <2>11 DEF x
  <1>6. CASE ~ x.from <= o.to
    <2>1. Figures!Added(acc, x) = [sum |-> acc.sum + Figures!Length(o), open |-> x]
      BY <1>6 DEF Figures!Added
    <2>2. Figures!Length(o) = o.to - o.from
      BY <1>3 DEF Figures!Length
    <2>3. PICK D \in SUBSET Nat :
           /\ IsFiniteSet(D) /\ Cardinality(D) = acc.sum + (o.to - o.from)
           /\ \A t \in Nat : t \in D <=> InOne(s, k, t)
           /\ \A t \in D : t < o.to
      BY <1>1, ClosedUnion
    <2>4. \A t \in D : t < x.from
      BY <1>4, <1>6, <2>3
    <2>5. Figures!Added(acc, x) = [sum |-> Cardinality(D), open |-> x]
      BY <2>1, <2>2, <2>3
    <2>6. k \in 0..(n - 1)
      BY <1>1
    <2>7. IsUnion([sum |-> Cardinality(D), open |-> s[k + 1]], s, k + 1)
      BY <2>3, <2>4, <2>6, OpenedUnion
    <2>. QED  BY <2>5, <2>7
  <1>. QED  BY <1>5, <1>6

\* Merging intervals counts the instants that are in one of them, once.
LEMMA UnionDurationIs ==
  ASSUME NEW ivs \in SUBSET Spans, IsFiniteSet(ivs)
  PROVE  Figures!UnionDuration(ivs) = Cardinality(Covered(ivs))
  <1>. DEFINE T == NotEmpty(ivs)
              s == InStartOrder(ivs)
              n == Cardinality(T)
              h == CHOOSE h : AddsUp(h, s)
              last == h[DOMAIN s]
  <1>1. T \in SUBSET Spans /\ IsFiniteSet(T) /\ \A x \in T : x.from < x.to
    <2>1. T \in SUBSET ivs /\ \A x \in T : x.from < x.to
      BY DEF NotEmpty
    <2>. HIDE DEF T
    <2>. QED  BY <2>1, FS_Subset
  <1>2. s = Ranked(StartOrder(T), T)
    BY StartOrderIs DEF InStartOrder
  <1>3. Figures!UnionDuration(ivs) = last.sum + Figures!Length(last.open)
    BY UnionChosen
  <1>4. \A t : t \in Covered(ivs) <=> t \in Nat /\ \E x \in T : x.from <= t /\ t < x.to
    <2>1. \A x \in Spans, t \in Nat : x.from <= t /\ t < x.to => x.from < x.to
      BY DEF Spans
    <2>. QED  BY <2>1 DEF Covered, NotEmpty
  <1>. HIDE DEF T, s
  <1>5. Orders(StartOrder(T), T)
    BY <1>1, StartsOrders
  <1>6. /\ n \in Nat /\ s \in [1..n -> T]
        /\ \A i, j \in 1..n : i < j <=> <<s[i], s[j]>> \in StartOrder(T)
        /\ \A x \in T : \E i \in 1..n : s[i] = x
    BY <1>1, <1>2, <1>5, RankedIs
  <1>. HIDE DEF n
  <1>7. AscendingFrom(s, n)
    <2>1. s \in [1..n -> Spans] /\ \A i \in 1..n : s[i].from < s[i].to
      BY <1>1, <1>6
    <2>2. \A a, b \in Spans : Figures!Starts(a, b) => a.from <= b.from
      BY DEF Figures!Starts, Spans
    <2>3. \A i, j \in 1..n : i < j => Figures!Starts(s[i], s[j])
      BY <1>6 DEF StartOrder
    <2>. QED  BY <1>6, <2>1, <2>2, <2>3 DEF AscendingFrom
  <1>8. AddsUp(h, s)
    <2>1. \E g : AddsUp(g, s)
      BY <1>7, AddsUpExists DEF AscendingFrom
    <2>. QED  BY <2>1
  <1>. HIDE DEF h
  <1>9. h[{}] = NoneYet /\ DOMAIN s = 1..n
    BY <1>6, <1>8 DEF AddsUp
  <1>10. ASSUME NEW i \in 0..(n - 1) PROVE h[1..(i + 1)] = Figures!Added(h[1..i], s[i + 1])
    <2>1. /\ 1..(i + 1) \in SUBSET (1..n) /\ 1..(i + 1) # {}
          /\ Last(1..(i + 1)) = i + 1 /\ (1..(i + 1)) \ {Last(1..(i + 1))} = 1..i
      BY <1>6, UpToNext
    <2>. QED  BY <1>8, <1>9, <2>1 DEF AddsUp
  <1>. DEFINE C == {k \in Nat : k \in 1..n => IsUnion(h[1..k], s, k)}
  <1>11. 0 \in C
    OBVIOUS
  <1>12. \A k \in Nat : k \in C => k + 1 \in C
    <2>. SUFFICES ASSUME NEW k \in Nat, k \in C, k + 1 \in 1..n PROVE IsUnion(h[1..(k + 1)], s, k + 1)
      OBVIOUS
    <2>1. k \in 0..(n - 1)
      BY <1>6
    <2>2. h[1..(k + 1)] = Figures!Added(h[1..k], s[k + 1])
      BY <1>10, <2>1
    <2>3. CASE k = 0
      <3>1. h[1..k] = NoneYet
        <4>1. 1..k = {}
          BY <2>3
        <4>. QED  BY <1>9, <4>1
      <3>2. Figures!Added(NoneYet, s[k + 1]) = [sum |-> Cardinality({}), open |-> s[k + 1]]
        <4>1. Figures!Added(NoneYet, s[k + 1]) = [sum |-> 0 + Figures!Length(Nothing), open |-> s[k + 1]]
          BY DEF Figures!Added, NoneYet
        <4>2. Figures!Length(Nothing) = 0 /\ Cardinality({}) = 0
          BY FS_EmptySet DEF Figures!Length
        <4>. QED  BY <4>1, <4>2
      <3>3. IsFiniteSet({}) /\ \A t \in Nat : t \in {} <=> InOne(s, k, t)
        <4>1. 1..k = {}
          BY <2>3
        <4>. QED  BY <4>1, FS_EmptySet DEF InOne
      <3>. DEFINE Z == {}
      <3>4. Z \in SUBSET Nat /\ (\A t \in Z : t < s[k + 1].from) /\ IsFiniteSet(Z) /\ \A t \in Nat : t \in Z <=> InOne(s, k, t)
        BY <3>3
      <3>. HIDE DEF Z
      <3>5. IsUnion([sum |-> Cardinality(Z), open |-> s[k + 1]], s, k + 1)
        BY <1>7, <2>1, <3>4, OpenedUnion
      <3>. QED  BY <2>2, <3>1, <3>2, <3>5 DEF Z
    <2>4. CASE k # 0
      <3>1. k \in 1..(n - 1) /\ k \in 1..n
        BY <1>6, <2>1, <2>4
      <3>2. IsUnion(h[1..k], s, k)
        BY <3>1
      <3>. HIDE DEF C
      <3>. QED  BY <1>7, <2>2, <3>1, <3>2, AddedUnion
    <2>. QED  BY <2>3, <2>4
  <1>13. Nat \subseteq C
    <2>. HIDE DEF C
    <2>. QED  BY <1>11, <1>12, CountingUp
  <1>14. CASE n = 0
    <2>1. last = NoneYet
      <3>1. 1..n = {}
        BY <1>14
      <3>. QED  BY <1>9, <3>1
    <2>2. last.sum + Figures!Length(last.open) = 0
      BY <2>1 DEF NoneYet, Figures!Length
    <2>3. Covered(ivs) = {}
      <3>1. T = {}
        BY <1>6, <1>14
      <3>. QED  BY <1>4, <3>1
    <2>. QED  BY <1>3, <2>2, <2>3, FS_EmptySet
  <1>15. CASE n # 0
    <2>1. n \in 1..n
      BY <1>6, <1>15
    <2>2. IsUnion(last, s, n)
      BY <1>6, <1>9, <1>13, <2>1
    <2>. HIDE DEF last
    <2>3. PICK D \in SUBSET Nat :
           /\ Cardinality(D) = last.sum + (last.open.to - last.open.from)
           /\ \A t \in Nat : t \in D <=> InOne(s, n, t)
      BY <1>6, <2>2, ClosedUnion
    <2>4. last.open # Nothing
      BY <2>2, FiguresConstants DEF IsUnion, Figures!EntryAssumption, Spans
    <2>5. \A t \in Nat : t \in Covered(ivs) <=> InOne(s, n, t)
      BY <1>4, <1>6 DEF InOne
    <2>6. Covered(ivs) \in SUBSET Nat
      BY DEF Covered
    <2>7. D = Covered(ivs)
      BY <2>3, <2>5, <2>6
    <2>. QED  BY <1>3, <2>3, <2>4, <2>7 DEF Figures!Length
  <1>. QED  BY <1>14, <1>15

\* The instants of the days of a range.
InDays(range, t) == t \div PerDay \in Figures!InRange(range)

\* The bounds of a range contain the instants of its days.
LEMMA RangeBounds ==
  ASSUME NEW range \in Figures!Ranges
  PROVE  LET b == Figures!Bounds(range)
         IN  /\ b.from \in Nat /\ b.to \in Nat /\ b.to <= (LastOfFigures + 1) * PerDay
             /\ (LastOfFigures + 1) * PerDay \in Nat
             /\ \A t \in Nat : InDays(range, t) <=> b.from <= t /\ t < b.to
  <1>. DEFINE f == range.first
              l == range.last
              lo == f * PerDay
              hi == (l + 1) * PerDay
              end == (LastOfFigures + 1) * PerDay
  <1>1. f \in Nat /\ l \in Nat /\ PerDay \in Nat \ {0} /\ LastOfFigures \in Nat
    BY RangesAre, DaysAre
  <1>2. Figures!Bounds(range) = [from |-> lo, to |-> hi]
    BY DEF Figures!Bounds
  <1>3. lo \in Nat /\ hi \in Nat /\ end \in Nat
    BY <1>1
  <1>4. l <= LastOfFigures
    <2>1. range \in FigureMonths \/ range = Figures!Whole
      BY DEF Figures!Ranges
    <2>2. CASE range \in FigureMonths
      BY <1>1, <2>2, FiguresConstants DEF Figures!MonthAssumption, Figures!Days
    <2>3. CASE range = Figures!Whole
      BY <1>1, <2>3 DEF Figures!Whole
    <2>. QED  BY <2>1, <2>2, <2>3
  <1>5. hi <= end
    <2>1. PICK k \in Nat : LastOfFigures + 1 = (l + 1) + k
      <3>1. LastOfFigures - l \in Nat /\ LastOfFigures + 1 = (l + 1) + (LastOfFigures - l)
        BY <1>1, <1>4
      <3>. QED  BY <3>1
    <2>2. ((l + 1) + k) * PerDay = (l + 1) * PerDay + k * PerDay /\ k * PerDay \in Nat
      BY <1>1
    <2>3. (l + 1) * PerDay \in Nat
      BY <1>1
    <2>. QED  BY <2>1, <2>2, <2>3
  <1>. HIDE DEF hi, lo, end
  <1>6. ASSUME NEW t \in Nat PROVE InDays(range, t) <=> lo <= t /\ t < hi
    <2>. DEFINE q == t \div PerDay
    <2>1. q \in Nat
      BY DaysAre
    <2>2. t \in DayInstants(q)
      BY <2>1, DaysAre
    <2>. HIDE DEF q
    <2>3. q * PerDay <= t /\ t < (q + 1) * PerDay /\ q * PerDay \in Nat /\ (q + 1) * PerDay \in Nat
      <3>1. q * PerDay \in Nat /\ (q + 1) * PerDay \in Nat
        BY <1>1, <2>1
      <3>. QED  BY <2>2, <3>1 DEF DayInstants
    <2>4. \A x, y \in Nat : x <= y => x * PerDay <= y * PerDay
      <3>. SUFFICES ASSUME NEW x \in Nat, NEW y \in Nat, x <= y PROVE x * PerDay <= y * PerDay
        OBVIOUS
      <3>1. PICK k \in Nat : y = x + k
        <4>1. y - x \in Nat /\ y = x + (y - x)
          OBVIOUS
        <4>. QED  BY <4>1
      <3>2. (x + k) * PerDay = x * PerDay + k * PerDay /\ k * PerDay \in Nat /\ x * PerDay \in Nat
        BY <1>1
      <3>. QED  BY <3>1, <3>2
    <2>5. InDays(range, t) <=> f <= q /\ q <= l
      BY <1>1, <2>1 DEF InDays, Figures!InRange, q
    <2>6. f <= q => lo <= t
      BY <1>1, <1>3, <2>1, <2>3, <2>4 DEF lo
    <2>7. q <= l => t < hi
      <3>1. q <= l => (q + 1) * PerDay <= hi
        BY <1>1, <2>1, <2>4 DEF hi
      <3>. QED  BY <1>3, <2>3, <3>1
    <2>8. ~ f <= q => t < lo
      <3>1. ~ f <= q => (q + 1) * PerDay <= lo
        BY <1>1, <2>1, <2>4 DEF lo
      <3>. QED  BY <1>3, <2>3, <3>1
    <2>9. ~ q <= l => hi <= t
      <3>1. ~ q <= l => hi <= q * PerDay
        BY <1>1, <2>1, <2>4 DEF hi
      <3>. QED  BY <1>3, <2>3, <3>1
    <2>. QED  BY <1>1, <1>3, <2>1, <2>5, <2>6, <2>7, <2>8, <2>9
  <1>. QED  BY <1>2, <1>3, <1>5, <1>6 DEF end

\* An interval within the bounds of a range.
LEMMA ClippedIs ==
  ASSUME NEW range \in Figures!Ranges, NEW iv, iv.from \in Nat, iv.to \in Nat
  PROVE  LET c == Figures!Clipped(iv, Figures!Bounds(range))
         IN  /\ c \in Spans
             /\ \A t \in Nat : c.from <= t /\ t < c.to <=> iv.from <= t /\ t < iv.to /\ InDays(range, t)
  <1>. DEFINE b == Figures!Bounds(range)
              x == iv.from
              y == iv.to
              lo == b.from
              hi == b.to
              u == IF x > lo THEN x ELSE lo
              w == IF y < hi THEN y ELSE hi
  <1>1. /\ lo \in Nat /\ hi \in Nat /\ \A t \in Nat : InDays(range, t) <=> lo <= t /\ t < hi
    BY RangeBounds
  <1>2. Figures!Clipped(iv, b) = [from |-> u, to |-> w]
    BY DEF Figures!Clipped, Figures!Later, Figures!Earlier
  <1>. HIDE DEF b, lo, hi, x, y
  <1>3. x \in Nat /\ y \in Nat
    BY DEF x, y
  <1>4. u \in Nat /\ w \in Nat /\ \A t \in Nat : u <= t /\ t < w <=> x <= t /\ t < y /\ lo <= t /\ t < hi
    BY <1>1, <1>3
  <1>. HIDE DEF u, w
  <1>. QED  BY <1>1, <1>2, <1>4 DEF b, x, y, Spans

\* The time of finitely many entries in a range, counted once.
LEMMA CareTimeIs ==
  ASSUME Figures!TypeOK, NEW range \in Figures!Ranges, NEW ids \in SUBSET Figures!Rows
  PROVE  Figures!CareTime(ids, range)
           = Cardinality({t \in 0..((LastOfFigures + 1) * PerDay - 1) : InDays(range, t) /\ Going(ids, t) # {}})
  <1>. DEFINE f == [i \in ids |-> Figures!Clipped(Figures!Interval(entry[i]), Figures!Bounds(range))]
              ivs == {f[i] : i \in ids}
              end == (LastOfFigures + 1) * PerDay
  <1>1. Figures!CareTime(ids, range) = Figures!UnionDuration(ivs)
    BY DEF Figures!CareTime
  <1>2. IsFiniteSet(ids) /\ \A i \in ids : From(i) \in Nat /\ To(i) \in Nat
    BY RowsAre, FS_Subset
  <1>3. \A i \in ids : /\ f[i] \in Spans
                       /\ \A t \in Nat : f[i].from <= t /\ t < f[i].to
                                           <=> From(i) <= t /\ t < To(i) /\ InDays(range, t)
    <2>. SUFFICES ASSUME NEW i \in ids
                  PROVE  /\ f[i] \in Spans
                         /\ \A t \in Nat : f[i].from <= t /\ t < f[i].to
                                             <=> From(i) <= t /\ t < To(i) /\ InDays(range, t)
      OBVIOUS
    <2>. DEFINE iv == Figures!Interval(entry[i])
    <2>1. iv.from \in Nat /\ iv.to \in Nat /\ iv.from = From(i) /\ iv.to = To(i)
      BY <1>2 DEF From, To
    <2>2. f[i] = Figures!Clipped(iv, Figures!Bounds(range))
      OBVIOUS
    <2>. HIDE DEF iv, f
    <2>. QED  BY <2>1, <2>2, ClippedIs
  <1>4. \A x : x \in ivs <=> \E i \in ids : x = f[i]
    OBVIOUS
  <1>5. IsFiniteSet(ivs)
    <2>1. f \in Surjection(ids, ivs)
      BY Zenon DEF Surjection
    <2>. HIDE DEF f, ivs
    <2>. QED  BY <1>2, <2>1, FS_Surjection
  <1>. HIDE DEF f, ivs
  <1>6. ivs \in SUBSET Spans
    BY <1>3, <1>4
  <1>7. Figures!UnionDuration(ivs) = Cardinality(Covered(ivs))
    BY <1>5, <1>6, UnionDurationIs
  <1>8. end \in Nat /\ \A t \in Nat : InDays(range, t) => t < end
    <2>. DEFINE to == Figures!Bounds(range).to
    <2>1. end \in Nat /\ to \in Nat /\ to <= end /\ \A t \in Nat : InDays(range, t) => t < to
      BY RangeBounds
    <2>. HIDE DEF end, to
    <2>. QED  BY <2>1
  <1>9. \A t \in Nat : t \in Covered(ivs) <=> InDays(range, t) /\ Going(ids, t) # {}
    BY <1>3, <1>4 DEF Covered, Going
  <1>. HIDE DEF end
  <1>10. Covered(ivs) = {t \in 0..(end - 1) : InDays(range, t) /\ Going(ids, t) # {}}
    <2>1. \A t \in Nat : t < end <=> t \in 0..(end - 1)
      BY <1>8
    <2>2. \A t : t \in 0..(end - 1) => t \in Nat
      BY <1>8
    <2>3. \A t : t \in Covered(ivs) => t \in Nat
      BY DEF Covered
    <2>. QED  BY <1>8, <1>9, <2>1, <2>2, <2>3
  <1>. QED  BY <1>1, <1>7, <1>10 DEF end

\* A set has several elements.
LEMMA Several ==
  ASSUME NEW S, IsFiniteSet(S)
  PROVE  Cardinality(S) > 1 <=> \E x, y \in S : x # y
  <1>1. Cardinality(S) \in Nat
    BY FS_CardinalityType
  <1>2. Cardinality(S) = 0 <=> S = {}
    BY FS_EmptySet
  <1>3. Cardinality(S) = 1 <=> \E x : S = {x}
    BY FS_Singleton
  <1>4. CASE Cardinality(S) > 1
    <2>1. S # {} /\ \A x : S # {x}
      BY <1>2, <1>3, <1>4
    <2>2. PICK x : x \in S
      BY <2>1
    <2>3. PICK y \in S : y # x
      BY <2>1, <2>2
    <2>. QED  BY <1>4, <2>2, <2>3
  <1>5. CASE ~ Cardinality(S) > 1
    <2>1. Cardinality(S) = 0 \/ Cardinality(S) = 1
      BY <1>1, <1>5
    <2>. QED  BY <1>2, <1>3, <1>5, <2>1
  <1>. QED  BY <1>4, <1>5

-----------------------------------------------------------------------------
(* The sweep finds all overlaps (Sweep, Conflicts).                        *)

Items == [id : Nat, from : Nat, to : Nat, kids : SUBSET Children, actual : BOOLEAN]

\* Finitely many items of different entries, none of them empty.
AreItems(items) ==
  /\ IsFiniteSet(items) /\ items \subseteq Items
  /\ \A a \in items : a.from < a.to
  /\ \A a, b \in items : a.id = b.id => a = b

SweepOrder(items) == {p \in items \X items : Editing!Before(p[1], p[2])}

\* The number of elements is the same in the model of the form.
LEMMA CardinalityOfEditing == \A S : Editing!Cardinality(S) = Cardinality(S)
  BY DEF Editing!Cardinality, Cardinality

\* Items are ordered by start, end and id.
LEMMA BeforeOrders ==
  ASSUME NEW items, AreItems(items)
  PROVE  Orders(SweepOrder(items), items)
  <1>. items \subseteq Items /\ \A a, b \in items : a.id = b.id => a = b
    BY DEF AreItems
  <1>1. \A a \in items : <<a, a>> \notin SweepOrder(items)
    BY DEF SweepOrder, Editing!Before, Items
  <1>2. \A a, b \in items : <<a, b>> \in SweepOrder(items) <=> Editing!Before(a, b)
    BY DEF SweepOrder
  <1>3. \A a, b, c \in Items : Editing!Before(a, b) /\ Editing!Before(b, c) => Editing!Before(a, c)
    BY DEF Editing!Before, Items
  <1>4. \A a, b \in Items : a.id # b.id => Editing!Before(a, b) \/ Editing!Before(b, a)
    BY DEF Editing!Before, Items
  <1>5. \A a, b, c \in items : <<a, b>> \in SweepOrder(items) /\ <<b, c>> \in SweepOrder(items)
                               => <<a, c>> \in SweepOrder(items)
    BY <1>2, <1>3
  <1>6. \A a, b \in items : a # b => <<a, b>> \in SweepOrder(items) \/ <<b, a>> \in SweepOrder(items)
    BY <1>2, <1>4
  <1>. QED  BY <1>1, <1>5, <1>6 DEF Orders

\* The order of the model is the one by rank.
LEMMA SweepOrderIs ==
  ASSUME NEW items
  PROVE  Editing!InOrder(items, Editing!Before) = Ranked(SweepOrder(items), items)
  <1>1. \A n \in items : {m \in items : Editing!Before(m, n)} = {m \in items : <<m, n>> \in SweepOrder(items)}
    BY DEF SweepOrder
  <1>2. \A n \in items : Editing!Cardinality({m \in items : Editing!Before(m, n)}) + 1 = Rank(n, SweepOrder(items), items)
    BY <1>1, CardinalityOfEditing DEF Rank
  <1>3. \A i : (CHOOSE n \in items : Editing!Cardinality({m \in items : Editing!Before(m, n)}) + 1 = i)
             = (CHOOSE n \in items : Rank(n, SweepOrder(items), items) = i)
    BY <1>2
  <1>. QED  BY <1>3, CardinalityOfEditing DEF Editing!InOrder, Ranked

Swept(h, s) ==
  h = [T \in SUBSET DOMAIN s |->
         IF T = {} THEN [active |-> {}, found |-> {}]
         ELSE Editing!Step(h[T \ {Last(T)}], s[Last(T)])]

\* The model's sweep is what this recursion yields.
LEMMA SweepChosen ==
  ASSUME NEW items
  PROVE  LET s == Editing!InOrder(items, Editing!Before)
         IN  Editing!Sweep(items) = (CHOOSE h : Swept(h, s))[DOMAIN s].found
  BY DEF Editing!Sweep, Editing!FoldLeft, Editing!MapThenFoldSet, Editing!Max, Swept, Last

\* The recursion of the sweep has a solution.
LEMMA SweptExists ==
  ASSUME NEW n \in Nat, NEW items, NEW s \in [1..n -> items]
  PROVE  \E h : Swept(h, s)
  <1>. DEFINE D == 1..n
              Found == UNION {{Editing!Overlap(a, b) : a \in items} : b \in items}
              V == [active : SUBSET items, found : SUBSET Found]
              base == [active |-> {}, found |-> {}]
              step == [p \in D \X V |-> Editing!Step(p[2], s[p[1]])]
  <1>1. \A v \in V, x \in items : Editing!Step(v, x) \in V
    <2>. SUFFICES ASSUME NEW v \in V, NEW x \in items PROVE Editing!Step(v, x) \in V
      OBVIOUS
    <2>. DEFINE still == Editing!StillActive(v.active, x)
                more == {o \in {Editing!Overlap(a, x) : a \in still} : o.from < o.to}
    <2>1. still \subseteq items
      BY DEF Editing!StillActive
    <2>2. more \subseteq Found
      <3>. HIDE DEF still
      <3>1. \A a \in still : Editing!Overlap(a, x) \in Found
        BY <2>1
      <3>. HIDE DEF Found
      <3>. QED  BY <3>1
    <2>3. Editing!Step(v, x) = [active |-> still \cup {x}, found |-> v.found \cup more]
      BY DEF Editing!Step
    <2>. HIDE DEF still, more, Found
    <2>. QED  BY <2>1, <2>2, <2>3
  <1>2. step \in [D \X V -> V] /\ \A i \in D, v \in V : step[<<i, v>>] = Editing!Step(v, s[i])
    <2>. HIDE DEF V
    <2>. QED  BY <1>1
  <1>3. base \in V
    OBVIOUS
  <1>4. PICK h : h \in [SUBSET D -> V] /\ Folds(h, n, base, step)
    <2>. HIDE DEF V, base, step
    <2>. QED  BY <1>2, <1>3, FoldExists
  <1>5. \A T \in SUBSET D : h[T] = IF T = {} THEN base ELSE Editing!Step(h[T \ {Last(T)}], s[Last(T)])
    <2>. HIDE DEF V, base, step
    <2>. SUFFICES ASSUME NEW T \in SUBSET D
                  PROVE  h[T] = IF T = {} THEN base ELSE Editing!Step(h[T \ {Last(T)}], s[Last(T)])
      OBVIOUS
    <2>1. T # {} => Last(T) \in D /\ h[T \ {Last(T)}] \in V
      BY <1>4, LastIs
    <2>. QED  BY <1>2, <1>4, <2>1 DEF Folds
  <1>6. DOMAIN s = D
    OBVIOUS
  <1>. HIDE DEF D, V, step
  <1>. QED  BY <1>4, <1>5, <1>6 DEF Swept

\* Entry i of the order is still active, or the current one.
ActiveAt(s, i) == {s[j] : j \in {k \in 1..i : k = i \/ s[k].to > s[i].from}}

NewAt(s, k) == {Editing!Overlap(s[j], s[k]) : j \in {l \in 1..(k - 1) : s[l].to > s[k].from}}

FoundAt(s, i) == UNION {NewAt(s, k) : k \in 1..i}

\* One step of the sweep adds the overlaps of the next entry with earlier ones.
LEMMA SweepStep ==
  ASSUME NEW n \in Nat, NEW s \in [1..n -> Items], \A i \in 1..n : s[i].from < s[i].to,
         \A i, j \in 1..n : i < j => s[i].from <= s[j].from,
         NEW i \in 0..(n - 1)
  PROVE  Editing!Step([active |-> ActiveAt(s, i), found |-> FoundAt(s, i)], s[i + 1])
           = [active |-> ActiveAt(s, i + 1), found |-> FoundAt(s, i + 1)]
  <1>. DEFINE c == s[i + 1]
              sweep == [active |-> ActiveAt(s, i), found |-> FoundAt(s, i)]
              still == Editing!StillActive(sweep.active, c)
  <1>0. i + 1 \in 1..n /\ c \in Items /\ 1..i \subseteq 1..n
    OBVIOUS
  <1>1. still = {s[j] : j \in {k \in 1..i : s[k].to > c.from}}
    <2>1. still = {a \in {s[j] : j \in {k \in 1..i : k = i \/ s[k].to > s[i].from}} : a.to > c.from}
      BY DEF Editing!StillActive, ActiveAt
    <2>2. \A k \in 1..i : s[k].to > c.from => k = i \/ s[k].to > s[i].from
      <3>. SUFFICES ASSUME NEW k \in 1..i, s[k].to > c.from, k # i PROVE s[k].to > s[i].from
        OBVIOUS
      <3>1. i \in 1..n /\ s[i].from <= c.from
        BY <1>0
      <3>2. s[k] \in Items /\ s[i] \in Items
        BY <1>0, <3>1
      <3>. QED  BY <1>0, <3>1, <3>2 DEF Items
    <2>. HIDE DEF still, c
    <2>. QED  BY <2>1, <2>2
  <1>2. still \cup {c} = ActiveAt(s, i + 1)
    <2>1. {k \in 1..(i + 1) : k = i + 1 \/ s[k].to > s[i + 1].from}
            = {k \in 1..i : s[k].to > c.from} \cup {i + 1}
      OBVIOUS
    <2>. HIDE DEF still
    <2>. QED  BY <1>1, <2>1 DEF ActiveAt
  <1>3. {o \in {Editing!Overlap(a, c) : a \in still} : o.from < o.to} = {Editing!Overlap(a, c) : a \in still}
    <2>1. \A a \in still : a \in Items /\ a.from <= c.from /\ a.to > c.from /\ c.from < c.to
      <3>. HIDE DEF still
      <3>. QED  BY <1>0, <1>1
    <2>2. \A a \in still : Editing!Overlap(a, c).from < Editing!Overlap(a, c).to
      <3>. HIDE DEF still, c
      <3>. QED  BY <1>0, <2>1 DEF Editing!Overlap, Editing!Later, Editing!Earlier, Items
    <2>. HIDE DEF still, c
    <2>. QED  BY <2>2
  <1>4. FoundAt(s, i + 1) = FoundAt(s, i) \cup {Editing!Overlap(a, c) : a \in still}
    <2>1. FoundAt(s, i + 1) = FoundAt(s, i) \cup NewAt(s, i + 1)
      <3>1. 1..(i + 1) = 1..i \cup {i + 1}
        OBVIOUS
      <3>. QED  BY <3>1 DEF FoundAt
    <2>2. (i + 1) - 1 = i
      OBVIOUS
    <2>3. NewAt(s, i + 1) = {Editing!Overlap(a, c) : a \in still}
      <3>. HIDE DEF still
      <3>. QED  BY <1>1, <2>2 DEF NewAt
    <2>. QED  BY <2>1, <2>3
  <1>. HIDE DEF still, c
  <1>5. Editing!Step(sweep, c)
          = [active |-> still \cup {c},
             found |-> FoundAt(s, i) \cup {o \in {Editing!Overlap(a, c) : a \in still} : o.from < o.to}]
    BY DEF Editing!Step, still
  <1>. QED  BY <1>2, <1>3, <1>4, <1>5 DEF c

\* What the sweep has found after all entries.
LEMMA SweepFinds ==
  ASSUME NEW items, AreItems(items)
  PROVE  LET s == Editing!InOrder(items, Editing!Before)
             n == Cardinality(items)
         IN  /\ n \in Nat /\ s \in [1..n -> items]
             /\ \A i, j \in 1..n : i < j <=> Editing!Before(s[i], s[j])
             /\ \A x \in items : \E i \in 1..n : s[i] = x
             /\ Editing!Sweep(items) = FoundAt(s, n)
  <1>. DEFINE s == Editing!InOrder(items, Editing!Before)
              n == Cardinality(items)
              h == CHOOSE h : Swept(h, s)
              F(i) == [active |-> ActiveAt(s, i), found |-> FoundAt(s, i)]
  <1>1. /\ n \in Nat /\ s \in [1..n -> items]
        /\ \A i, j \in 1..n : i < j <=> <<s[i], s[j]>> \in SweepOrder(items)
        /\ \A x \in items : \E i \in 1..n : s[i] = x
    BY SweepOrderIs, BeforeOrders, RankedIs DEF AreItems
  <1>2. Editing!Sweep(items) = h[DOMAIN s].found
    BY SweepChosen
  <1>. HIDE DEF s, n
  <1>3. Swept(h, s)
    <2>1. \E g : Swept(g, s)
      BY <1>1, SweptExists
    <2>. QED  BY <2>1
  <1>. HIDE DEF h
  <1>4. \A i, j \in 1..n : i < j <=> Editing!Before(s[i], s[j])
    BY <1>1 DEF SweepOrder
  <1>5. /\ s \in [1..n -> Items] /\ \A i \in 1..n : s[i].from < s[i].to
        /\ \A i, j \in 1..n : i < j => s[i].from <= s[j].from
    <2>1. s \in [1..n -> Items] /\ \A i \in 1..n : s[i].from < s[i].to
      BY <1>1 DEF AreItems
    <2>2. \A a, b \in Items : Editing!Before(a, b) => a.from <= b.from
      BY DEF Editing!Before, Items
    <2>. QED  BY <1>4, <2>1, <2>2
  <1>. DEFINE C == {i \in Nat : i <= n => h[1..i] = F(i)}
  <1>6. 0 \in C
    <2>1. 1..0 = {}
      OBVIOUS
    <2>2. h[{}] = [active |-> {}, found |-> {}]
      BY <1>3 DEF Swept
    <2>3. ActiveAt(s, 0) = {} /\ FoundAt(s, 0) = {}
      BY <2>1 DEF ActiveAt, FoundAt
    <2>. QED  BY <2>1, <2>2, <2>3
  <1>7. ASSUME NEW i \in Nat, i \in C PROVE i + 1 \in C
    <2>. SUFFICES ASSUME i + 1 <= n PROVE h[1..(i + 1)] = F(i + 1)
      OBVIOUS
    <2>1. h[1..i] = F(i) /\ i \in 0..(n - 1)
      BY <1>1, <1>7
    <2>2. /\ 1..(i + 1) \in SUBSET DOMAIN s /\ 1..(i + 1) # {}
          /\ Last(1..(i + 1)) = i + 1 /\ (1..(i + 1)) \ {i + 1} = 1..i
      <3>1. i + 1 \in Nat /\ i + 1 # 0 /\ (i + 1) - 1 = i
        OBVIOUS
      <3>2. Last(1..(i + 1)) = i + 1 /\ (1..(i + 1)) \ {i + 1} = 1..i /\ 1..(i + 1) # {}
        BY <3>1, LastOne DEF Last
      <3>. QED  BY <1>1, <3>2
    <2>3. h[1..(i + 1)] = Editing!Step(h[1..i], s[i + 1])
      BY <1>3, <2>2 DEF Swept
    <2>. QED  BY <1>1, <1>5, <2>1, <2>3, SweepStep
  <1>8. n \in C
    <2>. HIDE DEF C
    <2>. QED  BY <1>1, <1>6, <1>7, CountingUp
  <1>9. Editing!Sweep(items) = FoundAt(s, n)
    BY <1>1, <1>2, <1>8
  <1>. QED  BY <1>1, <1>4, <1>9 DEF s, n

\* Two entries overlap in time.
Meets(a, b) == a.from < b.to /\ b.from < a.to

\* The sweep finds the overlaps of all pairs, each pair once.
LEMMA SweepIs ==
  ASSUME NEW items, AreItems(items), NEW o
  PROVE  o \in Editing!Sweep(items)
           <=> \E a, b \in items : a.id < b.id /\ Meets(a, b) /\ o = Editing!Overlap(a, b)
  <1>. DEFINE s == Editing!InOrder(items, Editing!Before)
              n == Cardinality(items)
  <1>1. /\ n \in Nat /\ s \in [1..n -> items]
        /\ \A i, j \in 1..n : i < j <=> Editing!Before(s[i], s[j])
        /\ \A x \in items : \E i \in 1..n : s[i] = x
        /\ Editing!Sweep(items) = FoundAt(s, n)
    BY SweepFinds
  <1>. HIDE DEF s, n
  <1>2. items \subseteq Items /\ (\A a \in items : a.from < a.to)
        /\ \A a, b \in items : a.id = b.id => a = b
    BY DEF AreItems
  <1>3. o \in FoundAt(s, n)
          <=> \E k \in 1..n : \E j \in 1..(k - 1) : s[j].to > s[k].from /\ o = Editing!Overlap(s[j], s[k])
    BY DEF FoundAt, NewAt
  <1>4. (\E k \in 1..n : \E j \in 1..(k - 1) : s[j].to > s[k].from /\ o = Editing!Overlap(s[j], s[k]))
          <=> \E a, b \in items : Editing!Before(a, b) /\ a.to > b.from /\ o = Editing!Overlap(a, b)
    <2>1. ASSUME NEW k \in 1..n, NEW j \in 1..(k - 1), s[j].to > s[k].from, o = Editing!Overlap(s[j], s[k])
          PROVE  \E a, b \in items : Editing!Before(a, b) /\ a.to > b.from /\ o = Editing!Overlap(a, b)
      <3>1. j \in 1..n /\ j < k
        BY <1>1
      <3>2. s[j] \in items /\ s[k] \in items /\ Editing!Before(s[j], s[k])
        BY <1>1, <3>1
      <3>. QED  BY <2>1, <3>2
    <2>2. ASSUME NEW a \in items, NEW b \in items, Editing!Before(a, b), a.to > b.from, o = Editing!Overlap(a, b)
          PROVE  \E k \in 1..n : \E j \in 1..(k - 1) : s[j].to > s[k].from /\ o = Editing!Overlap(s[j], s[k])
      <3>1. PICK j \in 1..n, k \in 1..n : s[j] = a /\ s[k] = b
        BY <1>1
      <3>2. j \in 1..(k - 1)
        BY <1>1, <2>2, <3>1
      <3>. QED  BY <2>2, <3>1, <3>2
    <2>. QED  BY <2>1, <2>2
  <1>5. \A a, b \in items : Editing!Overlap(a, b) = Editing!Overlap(b, a)
    <2>1. \A a, b \in Items : Editing!Overlap(a, b) = Editing!Overlap(b, a)
      <3>. SUFFICES ASSUME NEW a \in Items, NEW b \in Items PROVE Editing!Overlap(a, b) = Editing!Overlap(b, a)
        OBVIOUS
      <3>1. {a.id, b.id} = {b.id, a.id}
        OBVIOUS
      <3>2. Editing!Later(a.from, b.from) = Editing!Later(b.from, a.from)
            /\ Editing!Earlier(a.to, b.to) = Editing!Earlier(b.to, a.to)
        BY DEF Items, Editing!Later, Editing!Earlier
      <3>3. Editing!Severity(a, b) = Editing!Severity(b, a)
        BY DEF Editing!Severity
      <3>. QED  BY <3>1, <3>2, <3>3 DEF Editing!Overlap
    <2>. QED  BY <1>2, <2>1
  <1>6. \A a, b \in Items : a.from < a.to /\ b.from < b.to =>
          /\ Editing!Before(a, b) /\ a.to > b.from => Meets(a, b) /\ Meets(b, a)
          /\ Meets(a, b) /\ a.id # b.id => \/ Editing!Before(a, b) /\ a.to > b.from
                                           \/ Editing!Before(b, a) /\ b.to > a.from
    BY DEF Items, Meets, Editing!Before
  <1>7. \A a, b \in Items : a.id # b.id => a.id < b.id \/ b.id < a.id
    BY DEF Items
  <1>8. \A a, b \in items : Editing!Before(a, b) => a.id # b.id
    <2>1. \A a \in Items : ~Editing!Before(a, a)
      BY DEF Items, Editing!Before
    <2>. QED  BY <1>2, <2>1
  <1>9. (\E a, b \in items : Editing!Before(a, b) /\ a.to > b.from /\ o = Editing!Overlap(a, b))
          => \E a, b \in items : a.id < b.id /\ Meets(a, b) /\ o = Editing!Overlap(a, b)
    BY <1>2, <1>5, <1>6, <1>7, <1>8
  <1>10. (\E a, b \in items : a.id < b.id /\ Meets(a, b) /\ o = Editing!Overlap(a, b))
           => \E a, b \in items : Editing!Before(a, b) /\ a.to > b.from /\ o = Editing!Overlap(a, b)
    <2>. SUFFICES ASSUME NEW a \in items, NEW b \in items, a.id < b.id, Meets(a, b), o = Editing!Overlap(a, b)
                  PROVE  \E x, y \in items : Editing!Before(x, y) /\ x.to > y.from /\ o = Editing!Overlap(x, y)
      OBVIOUS
    <2>1. a \in Items /\ b \in Items /\ a.from < a.to /\ b.from < b.to /\ a.id # b.id
      BY <1>2 DEF Items
    <2>2. \/ Editing!Before(a, b) /\ a.to > b.from
          \/ Editing!Before(b, a) /\ b.to > a.from
      BY <1>6, <2>1
    <2>. QED  BY <1>5, <2>2
  <1>. QED  BY <1>1, <1>3, <1>4, <1>9, <1>10

\* The pairs of items that overlap for a common child.
PairsOf(items) ==
  {[o |-> Editing!Overlap(p[1], p[2]), kids |-> p[1].kids \cap p[2].kids] : p \in
    {t \in items \X items : /\ t[1].id < t[2].id /\ t[1].kids \cap t[2].kids # {}
                            /\ t[1].from < t[2].to /\ t[2].from < t[1].to}}

\* These pairs, spelt out.
LEMMA PairsAre ==
  ASSUME NEW items, NEW c
  PROVE  c \in PairsOf(items) <=>
           \E a, b \in items : /\ a.id < b.id /\ Meets(a, b) /\ a.kids \cap b.kids # {}
                               /\ c = [o |-> Editing!Overlap(a, b), kids |-> a.kids \cap b.kids]
  <1>1. ASSUME c \in PairsOf(items)
        PROVE  \E a, b \in items : /\ a.id < b.id /\ Meets(a, b) /\ a.kids \cap b.kids # {}
                                   /\ c = [o |-> Editing!Overlap(a, b), kids |-> a.kids \cap b.kids]
    <2>1. PICK p \in items \X items :
            /\ p[1].id < p[2].id /\ p[1].kids \cap p[2].kids # {}
            /\ p[1].from < p[2].to /\ p[2].from < p[1].to
            /\ c = [o |-> Editing!Overlap(p[1], p[2]), kids |-> p[1].kids \cap p[2].kids]
      BY <1>1 DEF PairsOf
    <2>2. p[1] \in items /\ p[2] \in items
      OBVIOUS
    <2>. QED  BY <2>1, <2>2 DEF Meets
  <1>2. ASSUME NEW a \in items, NEW b \in items, a.id < b.id, Meets(a, b), a.kids \cap b.kids # {},
               c = [o |-> Editing!Overlap(a, b), kids |-> a.kids \cap b.kids]
        PROVE  c \in PairsOf(items)
    <2>. DEFINE p == <<a, b>>
    <2>1. p \in items \X items /\ p[1] = a /\ p[2] = b
      OBVIOUS
    <2>. HIDE DEF p
    <2>2. p \in {t \in items \X items : /\ t[1].id < t[2].id /\ t[1].kids \cap t[2].kids # {}
                                       /\ t[1].from < t[2].to /\ t[2].from < t[1].to}
      BY <1>2, <2>1 DEF Meets
    <2>3. c = [o |-> Editing!Overlap(p[1], p[2]), kids |-> p[1].kids \cap p[2].kids]
      BY <1>2, <2>1
    <2>. QED  BY <2>2, <2>3 DEF PairsOf
  <1>. QED  BY <1>1, <1>2

\* What is found is found for exactly the common children.
LEMMA ConflictsAre ==
  ASSUME NEW items, AreItems(items)
  PROVE  Editing!Conflicts(items) = PairsOf(items)
  <1>. DEFINE of(k) == {n \in items : k \in n.kids}
              found == [k \in Children |-> Editing!Sweep(of(k))]
              All == UNION {found[k] : k \in Children}
  <1>1. items \subseteq Items /\ \A a, b \in items : a.id = b.id => a = b
    BY DEF AreItems
  <1>2. \A k \in Children : AreItems(of(k))
    <2>. SUFFICES ASSUME NEW k \in Children PROVE AreItems(of(k))
      OBVIOUS
    <2>1. of(k) \subseteq items
      OBVIOUS
    <2>2. IsFiniteSet(of(k))
      BY <2>1, FS_Subset DEF AreItems
    <2>. HIDE DEF of
    <2>. QED  BY <2>1, <2>2 DEF AreItems
  <1>3. \A k \in Children : \A o :
          o \in found[k] <=> \E a, b \in items : /\ k \in a.kids /\ k \in b.kids
                                                 /\ a.id < b.id /\ Meets(a, b) /\ o = Editing!Overlap(a, b)
    <2>. SUFFICES ASSUME NEW k \in Children, NEW o
                  PROVE  o \in Editing!Sweep(of(k))
                           <=> \E a, b \in items : /\ k \in a.kids /\ k \in b.kids
                                                   /\ a.id < b.id /\ Meets(a, b) /\ o = Editing!Overlap(a, b)
      OBVIOUS
    <2>1. o \in Editing!Sweep(of(k))
            <=> \E a, b \in of(k) : a.id < b.id /\ Meets(a, b) /\ o = Editing!Overlap(a, b)
      <3>. HIDE DEF of
      <3>. QED  BY <1>2, SweepIs
    <2>. QED  BY <2>1
  <1>4. \A a, b, x, y \in items : a.id < b.id /\ x.id < y.id /\ Editing!Overlap(a, b) = Editing!Overlap(x, y)
                                    => a = x /\ b = y
    <2>. SUFFICES ASSUME NEW a \in items, NEW b \in items, NEW x \in items, NEW y \in items,
                         a.id < b.id, x.id < y.id, Editing!Overlap(a, b) = Editing!Overlap(x, y)
                  PROVE  a = x /\ b = y
      OBVIOUS
    <2>1. {a.id, b.id} = {x.id, y.id}
      BY DEF Editing!Overlap
    <2>2. a.id \in Nat /\ b.id \in Nat /\ x.id \in Nat /\ y.id \in Nat
      BY <1>1 DEF Items
    <2>3. a.id = x.id /\ b.id = y.id
      BY <2>1, <2>2
    <2>. QED  BY <1>1, <2>3
  <1>5. ASSUME NEW a \in items, NEW b \in items, a.id < b.id, Meets(a, b)
        PROVE  {k \in Children : Editing!Overlap(a, b) \in found[k]} = a.kids \cap b.kids
    <2>1. a.kids \subseteq Children
      BY <1>1 DEF Items
    <2>2. \A k \in Children : Editing!Overlap(a, b) \in found[k] => k \in a.kids /\ k \in b.kids
      BY <1>3, <1>4, <1>5
    <2>3. \A k \in Children : k \in a.kids /\ k \in b.kids => Editing!Overlap(a, b) \in found[k]
      BY <1>3, <1>5
    <2>. HIDE DEF found
    <2>. QED  BY <2>1, <2>2, <2>3
  <1>6. Editing!Conflicts(items) = {[o |-> c, kids |-> {k \in Children : c \in found[k]}] : c \in All}
    BY DEF Editing!Conflicts
  <1>7. \A c : c \in All <=> \E k \in Children : c \in found[k]
    OBVIOUS
  <1>. HIDE DEF found, All
  <1>8. ASSUME NEW c \in Editing!Conflicts(items) PROVE c \in PairsOf(items)
    <2>1. PICK o \in All : c = [o |-> o, kids |-> {k \in Children : o \in found[k]}]
      BY <1>6
    <2>2. PICK k \in Children : o \in found[k]
      BY <1>7
    <2>3. PICK a \in items, b \in items :
            /\ k \in a.kids /\ k \in b.kids /\ a.id < b.id /\ Meets(a, b) /\ o = Editing!Overlap(a, b)
      BY <1>3, <2>2
    <2>4. c = [o |-> Editing!Overlap(a, b), kids |-> a.kids \cap b.kids] /\ a.kids \cap b.kids # {}
      BY <1>5, <2>1, <2>3
    <2>. QED  BY <2>3, <2>4, PairsAre
  <1>9. ASSUME NEW c \in PairsOf(items) PROVE c \in Editing!Conflicts(items)
    <2>1. PICK a \in items, b \in items :
            /\ a.id < b.id /\ Meets(a, b) /\ a.kids \cap b.kids # {}
            /\ c = [o |-> Editing!Overlap(a, b), kids |-> a.kids \cap b.kids]
      BY PairsAre
    <2>2. PICK k \in Children : k \in a.kids /\ k \in b.kids
      BY <1>1, <2>1 DEF Items
    <2>3. Editing!Overlap(a, b) \in All
      BY <1>3, <1>7, <2>1, <2>2
    <2>4. c = [o |-> Editing!Overlap(a, b), kids |-> {x \in Children : Editing!Overlap(a, b) \in found[x]}]
      BY <1>5, <2>1
    <2>. QED  BY <1>6, <2>3, <2>4
  <1>. QED  BY <1>8, <1>9

-----------------------------------------------------------------------------
(* Times in dispute (UnresolvedCare).                                      *)

\* The two instances of ConflictDetection, in the figures and in the form, define
\* the same: the number of elements,
LEMMA CardinalitiesSame == \A S : Figures!Cardinality(S) = Editing!Cardinality(S)
  BY DEF Figures!Cardinality, Editing!Cardinality

\* one step of the sweep,
LEMMA StepsSame == \A v, x : Figures!Step(v, x) = Editing!Step(v, x)
  BY DEF Figures!Step, Editing!Step, Figures!StillActive, Editing!StillActive, Figures!Overlap, Editing!Overlap,
         Figures!Later, Editing!Later, Figures!Earlier, Editing!Earlier, Figures!Severity, Editing!Severity

\* its order,
LEMMA OrdersSame == \A items : Figures!InOrder(items, Figures!Before) = Editing!InOrder(items, Editing!Before)
  <1>. SUFFICES ASSUME NEW items
                PROVE  Figures!InOrder(items, Figures!Before) = Editing!InOrder(items, Editing!Before)
    OBVIOUS
  <1>1. \A n \in items : {m \in items : Figures!Before(m, n)} = {m \in items : <<m, n>> \in SweepOrder(items)}
    BY DEF SweepOrder, Editing!Before, Figures!Before
  <1>2. \A n \in items : Figures!Cardinality({m \in items : Figures!Before(m, n)}) + 1 = Rank(n, SweepOrder(items), items)
    BY <1>1, CardinalityOfFigures DEF Rank
  <1>3. \A i : (CHOOSE n \in items : Figures!Cardinality({m \in items : Figures!Before(m, n)}) + 1 = i)
             = (CHOOSE n \in items : Rank(n, SweepOrder(items), items) = i)
    BY <1>2
  <1>4. Figures!InOrder(items, Figures!Before) = Ranked(SweepOrder(items), items)
    BY <1>3, CardinalityOfFigures DEF Figures!InOrder, Ranked
  <1>. QED  BY <1>4, SweepOrderIs

\* the sweep,
LEMMA SweepsSame == \A items : Figures!Sweep(items) = Editing!Sweep(items)
  <1>. SUFFICES ASSUME NEW items PROVE Figures!Sweep(items) = Editing!Sweep(items)
    OBVIOUS
  <1>. DEFINE s == Editing!InOrder(items, Editing!Before)
  <1>1. Figures!InOrder(items, Figures!Before) = s
    BY OrdersSame
  <1>2. Editing!Sweep(items) = (CHOOSE h : Swept(h, s))[DOMAIN s].found
    BY SweepChosen
  <1>3. Figures!Sweep(items) = (CHOOSE h : Swept(h, s))[DOMAIN s].found
    BY <1>1, StepsSame DEF Figures!Sweep, Figures!FoldLeft, Figures!MapThenFoldSet, Figures!Max, Swept, Last
  <1>. QED  BY <1>2, <1>3

\* and the conflicts.
LEMMA ConflictsSame == \A items : Figures!Conflicts(items) = Editing!Conflicts(items)
  BY SweepsSame DEF Figures!Conflicts, Editing!Conflicts

Taken == {"completed", "partial"}

\* Two entries for which different care parties are responsible.
Contradicting(ids) ==
  {p \in ids \X ids : Figures!ResponsibleParty(entry[p[1]]) # Figures!ResponsibleParty(entry[p[2]])}

Both(i, j) == [from |-> Figures!Later(From(i), From(j)), to |-> Figures!Earlier(To(i), To(j))]

ItemsOf(ids) == {Figures!Normalized(i, entry[i]) : i \in ids}

\* An entry that took place, as the detection of conflicts sees it.
LEMMA ItemIs ==
  ASSUME Figures!TypeOK, NEW i \in Figures!Rows, entry[i].status \in Taken
  PROVE  LET n == Figures!Normalized(i, entry[i])
         IN  /\ n \in Items /\ n.id = i /\ n.from = From(i) /\ n.to = To(i)
             /\ n.kids = Figures!KidsOf(entry[i]) /\ n.actual = TRUE /\ n.from < n.to
  <1>. DEFINE n == Figures!Normalized(i, entry[i])
              x == Figures!Effective(entry[i]).from
              y == Figures!Effective(entry[i]).to
              z == Figures!Effective(entry[i]).kids
  <1>1. /\ From(i) \in Nat /\ To(i) \in Nat /\ From(i) < To(i) /\ i \in Nat
        /\ Figures!KidsOf(entry[i]) \in SUBSET Children
    BY RowsAre
  <1>2. From(i) = x /\ To(i) = y /\ Figures!KidsOf(entry[i]) = z
    BY DEF From, To, Figures!Interval, Figures!KidsOf
  <1>3. Figures!IsActual(entry[i]) = TRUE
    BY DEF Figures!IsActual, Taken
  <1>4. n = [id |-> i, from |-> x, to |-> y, kids |-> z, actual |-> TRUE]
    BY <1>3 DEF Figures!Normalized
  <1>. HIDE DEF n, x, y, z
  <1>. QED  BY <1>1, <1>2, <1>4 DEF n, Items

\* Entries of one child that took place conflict where they overlap in time.
LEMMA ActualConflicts ==
  ASSUME Figures!TypeOK, NEW kid \in Children, NEW ids \in SUBSET CareOf(kid, Taken)
  PROVE  /\ \A c \in Figures!Conflicts(ItemsOf(ids)) : \E i, j \in ids :
              /\ i < j /\ From(i) < To(j) /\ From(j) < To(i)
              /\ c.o.ids = {i, j} /\ c.o.from = Both(i, j).from /\ c.o.to = Both(i, j).to
              /\ c.o.severity = "unresolved_actual"
         /\ \A i, j \in ids : i < j /\ From(i) < To(j) /\ From(j) < To(i) =>
              \E c \in Figures!Conflicts(ItemsOf(ids)) :
                /\ c.o.ids = {i, j} /\ c.o.from = Both(i, j).from /\ c.o.to = Both(i, j).to
                /\ c.o.severity = "unresolved_actual"
  <1>. DEFINE n(i) == Figures!Normalized(i, entry[i])
              items == ItemsOf(ids)
              f == [i \in ids |-> n(i)]
  <1>1. \A i \in ids : i \in Figures!Rows /\ entry[i].status \in Taken /\ kid \in Figures!KidsOf(entry[i])
    BY DEF CareOf
  <1>2. \A i \in ids : /\ n(i) \in Items /\ n(i).id = i /\ n(i).from = From(i) /\ n(i).to = To(i)
                       /\ kid \in n(i).kids /\ n(i).actual = TRUE /\ n(i).from < n(i).to
    BY <1>1, ItemIs
  <1>3. \A x : x \in items <=> \E i \in ids : x = n(i)
    BY DEF ItemsOf
  <1>4. AreItems(items)
    <2>1. IsFiniteSet(ids)
      <3>1. ids \in SUBSET Figures!Rows
        BY <1>1
      <3>. QED  BY <3>1, RowsAre, FS_Subset
    <2>2. \A i \in ids : f[i] = n(i)
      OBVIOUS
    <2>3. f \in Surjection(ids, items)
      <3>1. f \in [ids -> items]
        BY <1>3
      <3>. HIDE DEF f, n, items
      <3>. QED  BY <1>3, <2>2, <3>1 DEF Surjection
    <2>. HIDE DEF f, n, items
    <2>4. IsFiniteSet(items)
      BY <2>1, <2>3, FS_Surjection
    <2>. QED  BY <1>2, <1>3, <2>4 DEF AreItems
  <1>5. Figures!Conflicts(items) = PairsOf(items)
    BY <1>4, ConflictsSame, ConflictsAre
  <1>6. \A i, j \in ids : LET o == Editing!Overlap(n(i), n(j))
                          IN  /\ o.ids = {i, j} /\ o.from = Both(i, j).from /\ o.to = Both(i, j).to
                              /\ o.severity = "unresolved_actual"
    <2>. SUFFICES ASSUME NEW i \in ids, NEW j \in ids
                  PROVE  LET o == Editing!Overlap(n(i), n(j))
                         IN  /\ o.ids = {i, j} /\ o.from = Both(i, j).from /\ o.to = Both(i, j).to
                             /\ o.severity = "unresolved_actual"
      OBVIOUS
    <2>1. /\ n(i).id = i /\ n(i).from = From(i) /\ n(i).to = To(i) /\ n(i).actual = TRUE
          /\ n(j).id = j /\ n(j).from = From(j) /\ n(j).to = To(j) /\ n(j).actual = TRUE
      BY <1>2
    <2>. HIDE DEF n
    <2>. QED  BY <2>1 DEF Editing!Overlap, Editing!Severity, Both, Editing!Later, Editing!Earlier,
                         Figures!Later, Figures!Earlier
  <1>. HIDE DEF n, items, f
  <1>7. ASSUME NEW c \in PairsOf(items)
        PROVE  \E i, j \in ids :
              /\ i < j /\ From(i) < To(j) /\ From(j) < To(i)
              /\ c.o.ids = {i, j} /\ c.o.from = Both(i, j).from /\ c.o.to = Both(i, j).to
              /\ c.o.severity = "unresolved_actual"
    <2>1. PICK a \in items, b \in items : /\ a.id < b.id /\ Meets(a, b)
                                          /\ c = [o |-> Editing!Overlap(a, b), kids |-> a.kids \cap b.kids]
      BY PairsAre
    <2>2. PICK i \in ids, j \in ids : a = n(i) /\ b = n(j)
      BY <1>3
    <2>3. i < j /\ From(i) < To(j) /\ From(j) < To(i)
      BY <1>2, <2>1, <2>2 DEF Meets
    <2>4. c.o = Editing!Overlap(n(i), n(j))
      BY <2>1, <2>2
    <2>. QED  BY <1>6, <2>3, <2>4
  <1>8. ASSUME NEW i \in ids, NEW j \in ids, i < j, From(i) < To(j), From(j) < To(i)
        PROVE  \E c \in PairsOf(items) :
                /\ c.o.ids = {i, j} /\ c.o.from = Both(i, j).from /\ c.o.to = Both(i, j).to
                /\ c.o.severity = "unresolved_actual"
    <2>. DEFINE a == n(i)
                b == n(j)
                c == [o |-> Editing!Overlap(a, b), kids |-> a.kids \cap b.kids]
    <2>1. a \in items /\ b \in items /\ a.id < b.id /\ Meets(a, b) /\ a.kids \cap b.kids # {}
      BY <1>2, <1>3, <1>8 DEF Meets
    <2>2. c.o = Editing!Overlap(n(i), n(j))
      OBVIOUS
    <2>3. c \in PairsOf(items)
      <3>1. c = [o |-> Editing!Overlap(a, b), kids |-> a.kids \cap b.kids]
        OBVIOUS
      <3>. HIDE DEF a, b, c
      <3>. QED  BY <2>1, <3>1, PairsAre
    <2>. HIDE DEF c
    <2>. QED  BY <1>6, <2>2, <2>3
  <1>. QED  BY <1>5, <1>7, <1>8 DEF items

\* Two responsible care parties at a time.
Clash(ids, t) == \E i, j \in ids : /\ i \in Going(ids, t) /\ j \in Going(ids, t)
                                   /\ Figures!ResponsibleParty(entry[i]) # Figures!ResponsibleParty(entry[j])

Clashes(ids, range) == {t \in Nat : InDays(range, t) /\ Clash(ids, t)}

\* The intervals that are in dispute.
DisputedIntervals(ids, range) ==
  LET contradicts(c) == Figures!Cardinality({Figures!ResponsibleParty(entry[i]) : i \in c.o.ids}) > 1
  IN  {Figures!Clipped(c.o, Figures!Bounds(range)) :
        c \in {x \in Figures!Conflicts(ItemsOf(ids)) : x.o.severity = "unresolved_actual" /\ contradicts(x)}}

\* The operator of the model in these terms.
LEMMA UnresolvedUnfolds ==
  ASSUME NEW ids, NEW range
  PROVE  Figures!UnresolvedCare(ids, range) = Figures!UnionDuration(DisputedIntervals(ids, range))
  BY DEF Figures!UnresolvedCare, DisputedIntervals, ItemsOf

\* The intervals in dispute are the overlaps of two entries that took place and
\* for which different care parties are responsible (unresolvedCareDuration).
LEMMA DisputedIntervalsAre ==
  ASSUME Figures!TypeOK, NEW kid \in Children, NEW ids \in SUBSET CareOf(kid, Taken),
         NEW range \in Figures!Ranges, NEW c
  PROVE  c \in DisputedIntervals(ids, range)
           <=> \E i, j \in ids : /\ From(i) < To(j) /\ From(j) < To(i)
                                 /\ Figures!ResponsibleParty(entry[i]) # Figures!ResponsibleParty(entry[j])
                                 /\ c = Figures!Clipped(Both(i, j), Figures!Bounds(range))
  <1>. DEFINE RP(i) == Figures!ResponsibleParty(entry[i])
              b == Figures!Bounds(range)
              K == Figures!Conflicts(ItemsOf(ids))
  <1>0. \A i \in ids : i \in Nat /\ From(i) \in Nat /\ To(i) \in Nat
    <2>1. ids \in SUBSET Figures!Rows
      BY DEF CareOf
    <2>. QED  BY <2>1, RowsAre
  <1>1. \A i, j : Figures!Cardinality({RP(k) : k \in {i, j}}) > 1 <=> RP(i) # RP(j)
    <2>. SUFFICES ASSUME NEW i, NEW j PROVE Cardinality({RP(k) : k \in {i, j}}) > 1 <=> RP(i) # RP(j)
      BY CardinalityOfFigures
    <2>. DEFINE S == {RP(k) : k \in {i, j}}
    <2>1. S = {RP(i), RP(j)}
      OBVIOUS
    <2>. HIDE DEF S, RP
    <2>2. IsFiniteSet(S)
      <3>1. S = {RP(i)} \cup {RP(j)}
        BY <2>1
      <3>. QED  BY <3>1, FS_Singleton, FS_Union
    <2>3. Cardinality(S) > 1 <=> RP(i) # RP(j)
      BY <2>1, <2>2, Several
    <2>. QED  BY <2>3 DEF S
  <1>2. c \in DisputedIntervals(ids, range)
          <=> \E x \in K : /\ x.o.severity = "unresolved_actual"
                           /\ Figures!Cardinality({RP(k) : k \in x.o.ids}) > 1
                           /\ c = Figures!Clipped(x.o, b)
    BY DEF DisputedIntervals
  <1>3. /\ \A x \in K : \E i, j \in ids :
             /\ i < j /\ From(i) < To(j) /\ From(j) < To(i)
             /\ x.o.ids = {i, j} /\ x.o.from = Both(i, j).from /\ x.o.to = Both(i, j).to
             /\ x.o.severity = "unresolved_actual"
        /\ \A i, j \in ids : i < j /\ From(i) < To(j) /\ From(j) < To(i) =>
             \E x \in K :
               /\ x.o.ids = {i, j} /\ x.o.from = Both(i, j).from /\ x.o.to = Both(i, j).to
               /\ x.o.severity = "unresolved_actual"
    BY ActualConflicts
  <1>4. \A x, y : x.from = y.from /\ x.to = y.to => Figures!Clipped(x, b) = Figures!Clipped(y, b)
    BY DEF Figures!Clipped
  <1>5. \A i, j \in ids : Both(i, j) = Both(j, i)
    BY <1>0 DEF Both, Figures!Later, Figures!Earlier
  <1>. HIDE DEF RP, K, b
  <1>6. ASSUME c \in DisputedIntervals(ids, range)
        PROVE  \E i, j \in ids : /\ From(i) < To(j) /\ From(j) < To(i) /\ RP(i) # RP(j)
                                 /\ c = Figures!Clipped(Both(i, j), b)
    <2>1. PICK x \in K : Figures!Cardinality({RP(k) : k \in x.o.ids}) > 1 /\ c = Figures!Clipped(x.o, b)
      BY <1>2, <1>6
    <2>2. PICK i \in ids, j \in ids : /\ From(i) < To(j) /\ From(j) < To(i)
                                      /\ x.o.ids = {i, j} /\ x.o.from = Both(i, j).from /\ x.o.to = Both(i, j).to
      BY <1>3
    <2>3. RP(i) # RP(j)
      BY <1>1, <2>1, <2>2
    <2>4. c = Figures!Clipped(Both(i, j), b)
      BY <1>4, <2>1, <2>2
    <2>. QED  BY <2>2, <2>3, <2>4
  <1>7. ASSUME NEW i \in ids, NEW j \in ids, i < j, From(i) < To(j), From(j) < To(i), RP(i) # RP(j),
               c = Figures!Clipped(Both(i, j), b)
        PROVE  c \in DisputedIntervals(ids, range)
    <2>1. PICK x \in K : /\ x.o.ids = {i, j} /\ x.o.from = Both(i, j).from /\ x.o.to = Both(i, j).to
                         /\ x.o.severity = "unresolved_actual"
      BY <1>3, <1>7
    <2>2. Figures!Cardinality({RP(k) : k \in x.o.ids}) > 1
      BY <1>1, <1>7, <2>1
    <2>3. c = Figures!Clipped(x.o, b)
      BY <1>4, <1>7, <2>1
    <2>. QED  BY <1>2, <2>1, <2>2, <2>3
  <1>8. ASSUME NEW i \in ids, NEW j \in ids, From(i) < To(j), From(j) < To(i), RP(i) # RP(j),
               c = Figures!Clipped(Both(i, j), b)
        PROVE  c \in DisputedIntervals(ids, range)
    <2>1. i # j
      BY <1>8
    <2>2. i < j \/ j < i
      BY <1>0, <2>1
    <2>. QED  BY <1>5, <1>7, <1>8, <2>2
  <1>. QED  BY <1>6, <1>8 DEF RP, b

\* Comparing entries finds the instants at which they contradict each other.
LEMMA UnresolvedCareIs ==
  ASSUME Figures!TypeOK, NEW kid \in Children, NEW ids \in SUBSET CareOf(kid, Taken),
         NEW range \in Figures!Ranges
  PROVE  Figures!UnresolvedCare(ids, range) = Cardinality(Clashes(ids, range))
  <1>. DEFINE D == DisputedIntervals(ids, range)
              b == Figures!Bounds(range)
              P == ids \X ids
              f == [p \in P |-> Figures!Clipped(Both(p[1], p[2]), b)]
              T == {f[p] : p \in P}
  <1>1. IsFiniteSet(ids) /\ \A i \in ids : From(i) \in Nat /\ To(i) \in Nat
    <2>1. ids \in SUBSET Figures!Rows
      BY DEF CareOf
    <2>. QED  BY <2>1, RowsAre, FS_Subset
  <1>2. \A i, j \in ids : LET c == Figures!Clipped(Both(i, j), b)
                          IN  /\ c \in Spans
                              /\ \A t \in Nat : c.from <= t /\ t < c.to
                                   <=> i \in Going(ids, t) /\ j \in Going(ids, t) /\ InDays(range, t)
    <2>. SUFFICES ASSUME NEW i \in ids, NEW j \in ids
                  PROVE  LET c == Figures!Clipped(Both(i, j), b)
                         IN  /\ c \in Spans
                             /\ \A t \in Nat : c.from <= t /\ t < c.to
                                   <=> i \in Going(ids, t) /\ j \in Going(ids, t) /\ InDays(range, t)
      OBVIOUS
    <2>. DEFINE v == Both(i, j)
                w == From(i)
                x == To(i)
                y == From(j)
                z == To(j)
    <2>1. v.from = (IF w > y THEN w ELSE y) /\ v.to = (IF x < z THEN x ELSE z)
      BY DEF Both, Figures!Later, Figures!Earlier
    <2>2. w \in Nat /\ x \in Nat /\ y \in Nat /\ z \in Nat
      BY <1>1
    <2>3. \A t : (i \in Going(ids, t) <=> w <= t /\ t < x) /\ (j \in Going(ids, t) <=> y <= t /\ t < z)
      BY DEF Going
    <2>. HIDE DEF v, w, x, y, z
    <2>4. /\ v.from \in Nat /\ v.to \in Nat
          /\ \A t \in Nat : v.from <= t /\ t < v.to <=> (w <= t /\ t < x) /\ (y <= t /\ t < z)
      BY <2>1, <2>2
    <2>5. LET c == Figures!Clipped(v, b)
          IN  /\ c \in Spans
              /\ \A t \in Nat : c.from <= t /\ t < c.to <=> v.from <= t /\ t < v.to /\ InDays(range, t)
      BY <2>4, ClippedIs
    <2>. DEFINE c == Figures!Clipped(v, b)
    <2>. HIDE DEF c
    <2>6. c \in Spans /\ \A t \in Nat : c.from <= t /\ t < c.to
                           <=> i \in Going(ids, t) /\ j \in Going(ids, t) /\ InDays(range, t)
      BY <2>3, <2>4, <2>5 DEF c
    <2>. QED  BY <2>6 DEF c, v
  <1>3. \A c : c \in D <=> \E i, j \in ids :
          /\ From(i) < To(j) /\ From(j) < To(i)
          /\ Figures!ResponsibleParty(entry[i]) # Figures!ResponsibleParty(entry[j])
          /\ c = Figures!Clipped(Both(i, j), b)
    BY DisputedIntervalsAre
  <1>4. \A i, j \in ids : <<i, j>> \in P /\ f[<<i, j>>] = Figures!Clipped(Both(i, j), b)
    OBVIOUS
  <1>5. IsFiniteSet(T)
    <2>1. IsFiniteSet(P)
      BY <1>1, FS_Product
    <2>2. f \in Surjection(P, T)
      BY Zenon DEF Surjection
    <2>. HIDE DEF f, T, P
    <2>. QED  BY <2>1, <2>2, FS_Surjection
  <1>6. \A p \in P : f[p] \in T
    OBVIOUS
  <1>. HIDE DEF D, b, f, T, P
  <1>7. IsFiniteSet(D)
    <2>1. \A c \in D : \E i, j \in ids : c = Figures!Clipped(Both(i, j), b)
      BY <1>3
    <2>2. \A i, j \in ids : Figures!Clipped(Both(i, j), b) \in T
      BY <1>4, <1>6
    <2>3. \A c \in D : c \in T
      BY <2>1, <2>2
    <2>4. D \in SUBSET T
      BY <2>3
    <2>. QED  BY <1>5, <2>4, FS_Subset
  <1>8. D \in SUBSET Spans
    BY <1>2, <1>3
  <1>9. \A t \in Nat, i, j \in ids : i \in Going(ids, t) /\ j \in Going(ids, t) => From(i) < To(j) /\ From(j) < To(i)
    BY <1>1 DEF Going
  <1>10. \A t \in Nat : (\E c \in D : c.from <= t /\ t < c.to) <=> InDays(range, t) /\ Clash(ids, t)
    <2>. SUFFICES ASSUME NEW t \in Nat
                  PROVE  (\E c \in D : c.from <= t /\ t < c.to) <=> InDays(range, t) /\ Clash(ids, t)
      OBVIOUS
    <2>1. ASSUME NEW c \in D, c.from <= t, t < c.to PROVE InDays(range, t) /\ Clash(ids, t)
      <3>1. PICK i \in ids, j \in ids :
              /\ Figures!ResponsibleParty(entry[i]) # Figures!ResponsibleParty(entry[j])
              /\ c = Figures!Clipped(Both(i, j), b)
        BY <1>3
      <3>. QED  BY <1>2, <2>1, <3>1 DEF Clash
    <2>2. ASSUME InDays(range, t), Clash(ids, t) PROVE \E c \in D : c.from <= t /\ t < c.to
      <3>1. PICK i \in ids, j \in ids :
              /\ i \in Going(ids, t) /\ j \in Going(ids, t)
              /\ Figures!ResponsibleParty(entry[i]) # Figures!ResponsibleParty(entry[j])
        BY <2>2 DEF Clash
      <3>. DEFINE c == Figures!Clipped(Both(i, j), b)
      <3>2. c \in D
        BY <1>3, <1>9, <3>1
      <3>3. c.from <= t /\ t < c.to
        BY <1>2, <2>2, <3>1
      <3>. HIDE DEF c
      <3>. QED  BY <3>2, <3>3
    <2>. QED  BY <2>1, <2>2
  <1>11. Covered(D) = Clashes(ids, range)
    BY <1>10 DEF Covered, Clashes
  <1>12. Figures!UnionDuration(D) = Cardinality(Covered(D))
    BY <1>7, <1>8, UnionDurationIs
  <1>. QED  BY <1>11, <1>12, UnresolvedUnfolds DEF D

\* The part of a day at which entries contradict each other.
DayClashes(ids, d) == {t \in DayInstants(d) : Clash(ids, t)}

\* Dividing up a day finds the same instants.
LEMMA DayDisputes ==
  ASSUME Figures!TypeOK, NEW kid \in Children, NEW d \in Nat
  PROVE  LET r == Figures!Actually(d, kid)
         IN  r.share[Figures!Unresolved] * r.covered = Cardinality(DayClashes(CareOf(kid, Taken), d)) * Unit
  <1>. DEFINE ivs == DayParts(d, kid, Taken)
              ids == CareOf(kid, Taken)
              n == (d + 1) * PerDay
  <1>1. Figures!Actually(d, kid) = Figures!TimedAllocation(ivs, TRUE)
    <2>1. (Taken = {"completed", "partial"}) = TRUE
      BY DEF Taken
    <2>2. Figures!Actually(d, kid) = Figures!DayAllocation(d, kid, Taken)
      BY DEF Figures!Actually, Taken
    <2>. QED  BY <2>1, <2>2, DayUnfolds
  <1>2. /\ AreParts(ivs, n)
        /\ \A t \in DayInstants(d) : CarersAt(ivs, t) = Responsible(ids, t)
        /\ Busy(ivs) = {t \in DayInstants(d) : Going(ids, t) # {}}
        /\ Cardinality(Busy(ivs)) <= PerDay
    BY DayPartsAre
  <1>. HIDE DEF ivs, n
  <1>3. LET r == Figures!TimedAllocation(ivs, TRUE)
        IN  r.share["unresolved"] * r.covered = Cardinality(Disputed(ivs)) * Unit
    BY <1>2, DisputedIs
  <1>4. Disputed(ivs) = DayClashes(ids, d)
    <2>1. \A t \in DayInstants(d) : Cardinality(Responsible(ids, t)) > 1 <=> Clash(ids, t)
      <3>. SUFFICES ASSUME NEW t \in DayInstants(d)
                    PROVE  Cardinality(Responsible(ids, t)) > 1 <=> Clash(ids, t)
        OBVIOUS
      <3>1. ids \in SUBSET Figures!Rows
        BY DEF CareOf
      <3>. HIDE DEF ids
      <3>2. Responsible(ids, t) \in SUBSET (CareParties \cup {Nothing})
        BY <3>1, RowsAre DEF Responsible, Going
      <3>3. IsFiniteSet(CareParties \cup {Nothing})
        <4>1. IsFiniteSet(CareParties)
          BY FiguresConstants, FiniteOfFigures DEF Figures!EntryAssumption
        <4>. QED  BY <4>1, FS_Singleton, FS_Union
      <3>4. IsFiniteSet(Responsible(ids, t))
        BY <3>2, <3>3, FS_Subset
      <3>5. Cardinality(Responsible(ids, t)) > 1 <=> \E x, y \in Responsible(ids, t) : x # y
        BY <3>4, Several
      <3>6. (\E x, y \in Responsible(ids, t) : x # y) <=> Clash(ids, t)
        BY DEF Responsible, Clash, Going
      <3>. QED  BY <3>5, <3>6
    <2>2. \A t \in DayInstants(d) : Clash(ids, t) => Going(ids, t) # {}
      BY DEF Clash
    <2>3. \A t \in DayInstants(d) : t \in Disputed(ivs) <=> Clash(ids, t)
      BY <1>2, <2>1, <2>2 DEF Disputed
    <2>4. Disputed(ivs) \in SUBSET DayInstants(d)
      BY <1>2 DEF Disputed
    <2>. HIDE DEF ids
    <2>. QED  BY <2>3, <2>4 DEF DayClashes
  <1>. QED  BY <1>1, <1>3, <1>4 DEF Figures!Unresolved

\* Both ways of finding the time in dispute agree.
LEMMA DisputesAgree ==
  ASSUME Figures!TypeOK, NEW kid \in Children, NEW range \in Figures!Ranges
  PROVE  Figures!UnresolvedCare(CareOf(kid, Taken), range) * Unit
           = SumFunction([d \in Figures!InRange(range) |->
                            Figures!Actually(d, kid).share[Figures!Unresolved] * Figures!Actually(d, kid).covered])
  <1>. DEFINE ids == CareOf(kid, Taken)
              R == Figures!InRange(range)
              U == Clashes(ids, range)
              F == [d \in R |-> DayClashes(ids, d)]
              g == [d \in R |-> Figures!Actually(d, kid).share[Figures!Unresolved] * Figures!Actually(d, kid).covered]
              c == [d \in R |-> Cardinality(F[d])]
  <1>1. R \subseteq Nat /\ IsFiniteSet(R) /\ Unit \in Nat
    BY RangesAre, FiguresConstants DEF Figures!UnitAssumption
  <1>2. \A d \in R : g[d] = Cardinality(F[d]) * Unit
    <2>1. \A d \in R : /\ g[d] = Figures!Actually(d, kid).share[Figures!Unresolved] * Figures!Actually(d, kid).covered
                       /\ F[d] = DayClashes(ids, d) /\ d \in Nat
      BY <1>1
    <2>. HIDE DEF g, F, R
    <2>. QED  BY <2>1, DayDisputes
  <1>3. \A t \in Nat : t \in U <=> InDays(range, t) /\ Clash(ids, t)
    BY DEF Clashes
  <1>4. \A d \in R, t \in Nat : t \in F[d] <=> t \div PerDay = d /\ Clash(ids, t)
    <2>1. \A d \in R : d \in Nat /\ F[d] = DayClashes(ids, d)
      BY <1>1
    <2>. HIDE DEF F, R, ids
    <2>. QED  BY <2>1, DaysAre DEF DayClashes
  <1>5. \A t \in Nat : InDays(range, t) <=> t \div PerDay \in R
    BY DEF InDays
  <1>6. U \in SUBSET Nat /\ \A d \in R : F[d] \in SUBSET Nat
    <2>1. \A d \in Nat : DayInstants(d) \subseteq Nat
      BY DaysAre DEF DayInstants
    <2>. QED  BY <1>1, <2>1 DEF Clashes, DayClashes
  <1>7. IsFiniteSet(U)
    <2>. DEFINE b == Figures!Bounds(range)
    <2>1. b.from \in Nat /\ b.to \in Nat /\ \A t \in Nat : InDays(range, t) => b.from <= t /\ t < b.to
      BY RangeBounds
    <2>. HIDE DEF b, U
    <2>2. U \in SUBSET (b.from .. (b.to - 1))
      BY <1>3, <1>6, <2>1
    <2>3. IsFiniteSet(b.from .. (b.to - 1))
      <3>1. b.from \in Int /\ b.to - 1 \in Int
        BY <2>1
      <3>. QED  BY <3>1, FS_Interval
    <2>. QED  BY <2>2, <2>3, FS_Subset
  <1>8. F = [d \in R |-> F[d]] /\ c = [d \in R |-> Cardinality(F[d])] /\ g = [d \in R |-> g[d]]
    OBVIOUS
  <1>9. \A d \in R : c[d] = Cardinality(F[d])
    OBVIOUS
  <1>. HIDE DEF ids, U, F, g, c, R
  <1>10. \A d \in R : F[d] \in SUBSET U
    BY <1>3, <1>4, <1>5, <1>6
  <1>11. IsPartition(F, R, U)
    <2>1. \A x, y \in R : x # y => F[x] \cap F[y] = {}
      BY <1>4, <1>6
    <2>2. \A t \in U : \E d \in R : t \in F[d]
      BY <1>3, <1>4, <1>5, <1>6
    <2>3. UNION {F[d] : d \in R} = U
      BY <1>10, <2>2
    <2>4. F \in [R -> SUBSET U]
      BY <1>8, <1>10
    <2>. QED  BY <1>1, <1>7, <2>1, <2>3, <2>4 DEF IsPartition
  <1>12. Cardinality(U) = SumFunction(c)
    BY <1>8, <1>11, CountUnion
  <1>13. \A d \in R : Cardinality(F[d]) \in Nat
    BY <1>7, <1>10, FS_Subset, FS_CardinalityType
  <1>14. c \in [R -> Int] /\ g \in [R -> Int] /\ \A d \in R : g[d] = Unit * c[d]
    BY <1>1, <1>2, <1>8, <1>9, <1>13
  <1>15. SumFunction(g) = Unit * SumFunction(c)
    <2>1. IsFiniteSet(R) /\ Unit \in Int
      BY <1>1
    <2>2. c \in [R -> Int]
      BY <1>14
    <2>3. g \in [R -> Int]
      BY <1>14
    <2>4. \A d \in R : g[d] = Unit * c[d]
      BY <1>14
    <2>. QED  BY <2>1, <2>2, <2>3, <2>4, SumScale
  <1>16. Cardinality(U) \in Nat
    BY <1>7, FS_CardinalityType
  <1>17. Figures!UnresolvedCare(ids, range) = Cardinality(U)
    BY UnresolvedCareIs DEF ids, U
  <1>18. SumFunction(g) = Figures!UnresolvedCare(ids, range) * Unit
    BY <1>1, <1>12, <1>15, <1>16, <1>17
  <1>. QED  BY <1>18 DEF g, ids, R

\* Overlapping care is counted once, and what is in dispute is found both ways.
LEMMA CareCounted == Figures!TypeOK => Figures!CareCountedOnce
  <1>. SUFFICES ASSUME Figures!TypeOK, NEW range \in Figures!Ranges
                PROVE
    /\ \A kid \in Figures!Selections :
         LET done == Figures!Completed(range, kid)
             instants == {t \in 0..((LastOfFigures + 1) * PerDay - 1) :
                            t \div PerDay \in Figures!InRange(range)
                            /\ \E i \in done : Figures!Interval(entry[i]).from <= t /\ t < Figures!Interval(entry[i]).to}
         IN  Figures!Figures(range, kid).time = Figures!Cardinality(instants)
    /\ \A kid \in Children :
         Figures!UnresolvedCare({i \in Figures!Rows : Figures!IsActual(entry[i]) /\ kid \in Figures!KidsOf(entry[i])}, range) * Unit
           = Figures!SumFunction([d \in Figures!InRange(range) |->
                            Figures!Actually(d, kid).share[Figures!Unresolved] * Figures!Actually(d, kid).covered])
    BY DEF Figures!CareCountedOnce
  <1>1. ASSUME NEW kid \in Figures!Selections
        PROVE  LET done == Figures!Completed(range, kid)
                   instants == {t \in 0..((LastOfFigures + 1) * PerDay - 1) :
                            t \div PerDay \in Figures!InRange(range)
                            /\ \E i \in done : Figures!Interval(entry[i]).from <= t /\ t < Figures!Interval(entry[i]).to}
               IN  Figures!Figures(range, kid).time = Figures!Cardinality(instants)
    <2>. DEFINE done == Figures!Completed(range, kid)
    <2>1. Figures!Figures(range, kid).time = Figures!CareTime(done, range)
      BY DEF Figures!Figures
    <2>2. done \in SUBSET Figures!Rows
      BY DEF Figures!Completed, Figures!Relevant, Figures!EntriesForRange
    <2>. HIDE DEF done
    <2>3. Figures!CareTime(done, range)
           = Cardinality({t \in 0..((LastOfFigures + 1) * PerDay - 1) : InDays(range, t) /\ Going(done, t) # {}})
      BY <2>2, CareTimeIs
    <2>4. \A t : Going(done, t) # {} <=> \E i \in done : Figures!Interval(entry[i]).from <= t /\ t < Figures!Interval(entry[i]).to
      BY DEF Going, From, To
    <2>5. {t \in 0..((LastOfFigures + 1) * PerDay - 1) : InDays(range, t) /\ Going(done, t) # {}}
            = {t \in 0..((LastOfFigures + 1) * PerDay - 1) :
                 t \div PerDay \in Figures!InRange(range)
                 /\ \E i \in done : Figures!Interval(entry[i]).from <= t /\ t < Figures!Interval(entry[i]).to}
      BY <2>4 DEF InDays
    <2>. QED  BY <2>1, <2>3, <2>5, CardinalityOfFigures DEF done
  <1>2. ASSUME NEW kid \in Children
        PROVE  Figures!UnresolvedCare({i \in Figures!Rows : Figures!IsActual(entry[i]) /\ kid \in Figures!KidsOf(entry[i])}, range) * Unit
                 = Figures!SumFunction([d \in Figures!InRange(range) |->
                            Figures!Actually(d, kid).share[Figures!Unresolved] * Figures!Actually(d, kid).covered])
    <2>1. {i \in Figures!Rows : Figures!IsActual(entry[i]) /\ kid \in Figures!KidsOf(entry[i])} = CareOf(kid, Taken)
      BY DEF CareOf, Taken, Figures!IsActual
    <2>. QED  BY <2>1, DisputesAgree, SumOfFigures
  <1>. QED  BY <1>1, <1>2

-----------------------------------------------------------------------------
(* The figures, in every state that is reached.                            *)

\* Every variable the figures are computed from has its type.
THEOREM FiguresTypes == Spec => []Figures!TypeOK
  <1>1. Init => Figures!Init
    BY DEF Init
  <1>2. [Next]_vars => [Figures!Next]_(Figures!vars)
    BY DEF Next, vars, figuresVars, Figures!vars
  <1>3. Figures!Init => Figures!TypeOK
    BY DEF Figures!Init, Figures!TypeOK
  <1>4. Figures!TypeOK /\ [Figures!Next]_(Figures!vars) => Figures!TypeOK'
    BY DEF Figures!TypeOK, Figures!Next, Figures!vars, Figures!SaveEntry, Figures!DeleteEntry,
           Figures!SaveHoliday, Figures!SaveSettings
  <1>. QED  BY <1>1, <1>2, <1>3, <1>4, PTL DEF Spec

\* Every holiday is credited to somebody or listed as unassigned, once;
\* overlapping care is counted once, and time in dispute is the same in both
\* ways it is found (calculateHolidayStats, unionDuration,
\* unresolvedCareDuration, careAllocationForDay).
THEOREM FiguresAreRight == Spec => []FiguresAddUp
  <1>1. Figures!TypeOK => FiguresAddUp
    BY HolidaysAdd, CareCounted DEF FiguresAddUp
  <1>. QED  BY <1>1, FiguresTypes, PTL

-----------------------------------------------------------------------------
(* Months and the whole period.                                            *)

\* The whole period selects every entry.
LEMMA WholeSelectsAll == Figures!TypeOK => Figures!EntriesForRange(Figures!Whole) = Figures!Rows
  <1>. SUFFICES ASSUME Figures!TypeOK, NEW i \in Figures!Rows PROVE i \in Figures!EntriesForRange(Figures!Whole)
    BY DEF Figures!EntriesForRange
  <1>. DEFINE d == entry[i]
  <1>1. d \in FigureDrafts
    BY DEF Figures!Rows, Figures!TypeOK
  <1>2. d.from \in Nat /\ d.to \in Nat /\ d.from < d.to /\ d.to <= (LastOfFigures + 1) * PerDay
    BY <1>1, FiguresConstants DEF Figures!DraftAssumption
  <1>. HIDE DEF d
  <1>3. d.from \div PerDay \in Nat /\ d.to \div PerDay \in Nat
    BY <1>2, DaysAre
  <1>4. d.from \div PerDay <= LastOfFigures
    <2>. DEFINE q == d.from \div PerDay
    <2>1. d.from \in DayInstants(q) /\ q \in Nat
      BY <1>2, <1>3, DaysAre
    <2>2. q * PerDay <= d.from /\ q * PerDay \in Nat
      BY <2>1, DaysAre DEF DayInstants
    <2>. HIDE DEF q
    <2>3. q * PerDay < (LastOfFigures + 1) * PerDay
      BY <1>2, <2>2, DaysAre
    <2>4. CASE q > LastOfFigures
      <3>1. PICK k \in Nat : q = (LastOfFigures + 1) + k
        BY <2>1, <2>4, DaysAre
      <3>2. q * PerDay = (LastOfFigures + 1) * PerDay + k * PerDay /\ k * PerDay \in Nat
        BY <3>1, DaysAre
      <3>. QED  BY <2>3, <3>2, DaysAre
    <2>. QED  BY <2>1, <2>4, DaysAre DEF q
  <1>. QED  BY <1>3, <1>4 DEF d, Figures!EntriesForRange, Figures!RangesOverlap, Figures!Whole

\* The time at which somebody has the children in a month, found in the month
\* and in the whole period.
LEMMA MonthFindsItsCare ==
  ASSUME Figures!TypeOK, Figures!TookPlaceWherePlanned, NEW kid \in Figures!Selections, NEW m \in FigureMonths,
         NEW t \in Nat, InDays(m, t)
  PROVE  Going(Figures!Completed(m, kid), t) # {} <=> Going(Figures!Completed(Figures!Whole, kid), t) # {}
  <1>. DEFINE Wanted(i) == kid # Nothing => kid \in (IF Figures!IsActual(entry[i]) THEN Figures!KidsOf(entry[i])
                                                     ELSE entry[i].kids)
  <1>1. \A range : Figures!Completed(range, kid)
                     = {i \in Figures!EntriesForRange(range) : Wanted(i) /\ Figures!IsActual(entry[i])}
    BY DEF Figures!Completed, Figures!Relevant
  <1>. HIDE DEF Wanted
  <1>2. Figures!EntriesForRange(m) \subseteq Figures!Rows
    BY DEF Figures!EntriesForRange
  <1>3. ASSUME NEW i \in Figures!Rows, Figures!IsActual(entry[i]), From(i) <= t, t < To(i)
        PROVE  i \in Figures!EntriesForRange(m)
    <2>1. From(i) \in Nat /\ To(i) \in Nat
      BY RowsAre
    <2>2. From(i) \div PerDay <= t \div PerDay /\ t \div PerDay <= (To(i) - 1) \div PerDay
      <3>. DEFINE first == From(i)
                  last == To(i) - 1
      <3>1. first \in Nat /\ last \in Nat /\ first <= t /\ t <= last /\ PerDay \in Nat \ {0}
        BY <1>3, <2>1, DaysAre
      <3>. HIDE DEF first, last
      <3>2. first \div PerDay <= t \div PerDay
        BY <3>1, DivisionGrows
      <3>3. t \div PerDay <= last \div PerDay
        BY <3>1, DivisionGrows
      <3>. QED  BY <3>2, <3>3 DEF first, last
    <2>3. t \div PerDay \in Figures!DatesOf(Figures!Interval(entry[i])) \cap Figures!InRange(m)
      <3>1. /\ From(i) \div PerDay \in Nat /\ t \div PerDay \in Nat /\ To(i) - 1 \in Nat
            /\ (To(i) - 1) \div PerDay \in Nat
        BY <1>3, <2>1, DaysAre
      <3>. QED  BY <2>2, <3>1 DEF Figures!DatesOf, From, To, InDays
    <2>. QED  BY <1>3, <2>3 DEF Figures!TookPlaceWherePlanned
  <1>4. Going(Figures!Completed(m, kid), t) = Going(Figures!Completed(Figures!Whole, kid), t)
    BY <1>1, <1>2, <1>3, WholeSelectsAll DEF Going
  <1>. QED  BY <1>4

\* The instants of care in the months make up those in the whole period.
LEMMA MonthsAreParts ==
  ASSUME Figures!TypeOK, Figures!TookPlaceWherePlanned, NEW kid \in Figures!Selections
  PROVE  Figures!SumFunction([m \in FigureMonths |-> Figures!Figures(m, kid).time])
           = Figures!Figures(Figures!Whole, kid).time
  <1>. DEFINE all == 0..((LastOfFigures + 1) * PerDay - 1)
              Cared(r) == {t \in all : InDays(r, t) /\ Going(Figures!Completed(r, kid), t) # {}}
              U == Cared(Figures!Whole)
              F == [m \in FigureMonths |-> Cared(m)]
  <1>1. \A r \in Figures!Ranges : Figures!Figures(r, kid).time = Cardinality(Cared(r))
    <2>. SUFFICES ASSUME NEW r \in Figures!Ranges PROVE Figures!Figures(r, kid).time = Cardinality(Cared(r))
      OBVIOUS
    <2>1. Figures!Figures(r, kid).time = Figures!CareTime(Figures!Completed(r, kid), r)
      BY DEF Figures!Figures
    <2>2. Figures!Completed(r, kid) \in SUBSET Figures!Rows
      BY DEF Figures!Completed, Figures!Relevant, Figures!EntriesForRange
    <2>. QED  BY <2>1, <2>2, CareTimeIs
  <1>2. all \subseteq Nat /\ IsFiniteSet(all) /\ \A t \in all : t \div PerDay \in Figures!Days
    <2>1. (LastOfFigures + 1) * PerDay \in Nat
      BY DaysAre
    <2>2. \A t \in all : InDays(Figures!Whole, t)
      <3>. DEFINE b == Figures!Bounds(Figures!Whole)
      <3>1. b.from = 0 /\ b.to = (LastOfFigures + 1) * PerDay
        BY DaysAre DEF Figures!Bounds, Figures!Whole
      <3>2. Figures!Whole \in Figures!Ranges
        BY DEF Figures!Ranges
      <3>3. \A t \in Nat : InDays(Figures!Whole, t) <=> b.from <= t /\ t < b.to
        BY <3>2, RangeBounds
      <3>. HIDE DEF b
      <3>. QED  BY <2>1, <3>1, <3>3
    <2>. QED  BY <2>1, <2>2, FS_Interval DEF InDays, Figures!InRange, Figures!Whole, Figures!Days
  <1>3. \A m \in FigureMonths, t \in all : InDays(m, t) => InDays(Figures!Whole, t)
    BY <1>2 DEF InDays, Figures!InRange, Figures!Whole, Figures!Days
  <1>4. \A m \in FigureMonths : Cared(m) = {t \in U : InDays(m, t)}
    BY <1>2, <1>3, MonthFindsItsCare
  <1>5. /\ \A t \in all : \E m \in FigureMonths : InDays(m, t)
        /\ \A m, n \in FigureMonths, t \in all : m # n => ~(InDays(m, t) /\ InDays(n, t))
        /\ IsFiniteSet(FigureMonths)
    <2>1. UNION {m.first .. m.last : m \in FigureMonths} = Figures!Days /\ IsFiniteSet(FigureMonths)
      BY FiguresConstants, FiniteOfFigures DEF Figures!MonthAssumption
    <2>2. \A m, n \in FigureMonths : m # n => (m.first .. m.last) \cap (n.first .. n.last) = {}
      BY FiguresConstants DEF Figures!MonthAssumption
    <2>. QED  BY <1>2, <2>1, <2>2 DEF InDays, Figures!InRange
  <1>6. IsPartition(F, FigureMonths, U)
    <2>1. U \subseteq all /\ IsFiniteSet(U)
      BY <1>2, FS_Subset
    <2>2. \A m \in FigureMonths : F[m] = {t \in U : InDays(m, t)}
      BY <1>4
    <2>3. F \in [FigureMonths -> SUBSET U]
      BY <1>4
    <2>. HIDE DEF F, U, Cared, all
    <2>. QED  BY <1>5, <2>1, <2>2, <2>3 DEF IsPartition
  <1>7. Cardinality(U) = SumFunction([m \in FigureMonths |-> Cardinality(F[m])])
    <2>. HIDE DEF F, U
    <2>. QED  BY <1>6, CountUnion
  <1>8. [m \in FigureMonths |-> Figures!Figures(m, kid).time] = [m \in FigureMonths |-> Cardinality(F[m])]
    <2>1. \A m \in FigureMonths : Figures!Figures(m, kid).time = Cardinality(F[m])
      BY <1>1 DEF Figures!Ranges
    <2>. HIDE DEF F
    <2>. QED  BY <2>1
  <1>9. Figures!Figures(Figures!Whole, kid).time = Cardinality(U)
    BY <1>1 DEF Figures!Ranges
  <1>. QED  BY <1>7, <1>8, <1>9, SumOfFigures

\* What keeps the months from adding up (MonthsAddUp) is nothing but the
\* selection by plan (entriesForRange): they do wherever care took place in the
\* months it was planned for.
THEOREM MonthsAddUpAsPlanned == Spec => [](Figures!TookPlaceWherePlanned => MonthsAddUp)
  <1>1. Figures!TypeOK => (Figures!TookPlaceWherePlanned => MonthsAddUp)
    BY MonthsAreParts DEF MonthsAddUp, Figures!MonthsAddUp
  <1>. QED  BY <1>1, FiguresTypes, PTL
=============================================================================
