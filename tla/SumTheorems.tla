---------------------------- MODULE SumTheorems ----------------------------
(***************************************************************************)
(* What the ledgers of the contracts need of arithmetic: SumFunction of    *)
(* the community modules over any finite set, and shares rounded down.     *)
(* SumFunction is a fold, hence a recursive function on subsets; the       *)
(* inductions are stated over sets (a set that holds 0 and is closed under *)
(* successor holds Nat), because the installed provers cannot instantiate  *)
(* theorems that take an operator as a parameter.                          *)
(***************************************************************************)
EXTENDS Integers, FiniteSets, Functions, FiniteSetTheorems, WellFoundedInduction, TLAPS

\* A set of naturals that is not empty has a least element.
LEMMA LeastNatural ==
  ASSUME NEW T, T \subseteq Nat, T # {}
  PROVE  \E n \in T : \A m \in T : ~(m < n)
<1> DEFINE R == {ss \in Nat \X Nat : ss[1] < ss[2]}
<1>1. IsWellFoundedOn(R, Nat)
  BY NatLessThanWellFounded DEF OpToRel
<1>2. PICK x \in T : \A y \in T : ~(<<y, x>> \in R)
  <2> HIDE DEF R
  <2> QED BY <1>1, WFMin
<1>3. \A y \in T : y < x => <<y, x>> \in R
  OBVIOUS
<1> QED
  BY <1>2, <1>3

\* Induction on the naturals, for a set in place of a predicate.
LEMMA SetInduction ==
  ASSUME NEW T, 0 \in T, \A n \in Nat : n \in T => n + 1 \in T
  PROVE  Nat \subseteq T
<1> DEFINE U == Nat \ T
<1> SUFFICES ASSUME U # {} PROVE FALSE
  OBVIOUS
<1>1. PICK n \in U : \A m \in U : ~(m < n)
  <2> HIDE DEF U
  <2>1. U \subseteq Nat
    BY DEF U
  <2> QED BY <2>1, LeastNatural
<1>2. n # 0 /\ n - 1 \in Nat /\ n - 1 < n
  OBVIOUS
<1>3. n - 1 \in T
  BY <1>1, <1>2
<1> QED
  BY <1>2, <1>3

\* The element MapThenFoldSet takes out of a set first.
Choice(s) == CHOOSE x \in s : TRUE

\* One step of the recursion behind SumFunctionOnSet.
Body(f, g, s) == IF s = {} THEN 0 ELSE f[Choice(s)] + g[s \ {Choice(s)}]

\* g is the function of partial sums of f over the subsets of S.
Sums(f, S, g) == g = [s \in SUBSET S |-> Body(f, g, s)]

\* The function MapThenFoldSet builds.
Iter(f, S) == CHOOSE g : Sums(f, S, g)

\* SumFunctionOnSet is that function at the whole set.
LEMMA SumIsIter ==
  ASSUME NEW f, NEW S
  PROVE  SumFunctionOnSet(f, S) = Iter(f, S)[S]
BY DEF SumFunctionOnSet, FoldFunctionOnSet, MapThenFoldSet, Iter, Sums, Body, Choice

\* g satisfies the recursion of SumFunctionOnSet on the subsets of S with at most n elements.
UpTo(f, S, g, n) ==
  /\ g \in [SUBSET S -> Int]
  /\ \A s \in SUBSET S : Cardinality(s) <= n => g[s] = Body(f, g, s)

\* CHOOSE takes an element of the set.
LEMMA ChoiceInSet == \A s : s # {} => Choice(s) \in s
BY DEF Choice

\* The two cases of one step of the recursion.
LEMMA BodyCases ==
  ASSUME NEW f, NEW g, NEW s
  PROVE  /\ s = {} => Body(f, g, s) = 0
         /\ s # {} => \E c \in s : Body(f, g, s) = f[c] + g[s \ {c}]
BY ChoiceInSet DEF Body

\* Taking one element out of a subset leaves a subset with one element less.
LEMMA SmallerSets ==
  ASSUME NEW S, IsFiniteSet(S), NEW s \in SUBSET S, NEW x \in s
  PROVE  /\ IsFiniteSet(s) /\ Cardinality(s) \in Nat
         /\ s \ {x} \in SUBSET S
         /\ Cardinality(s \ {x}) = Cardinality(s) - 1
         /\ Cardinality(s \ {x}) \in Nat
<1>1. IsFiniteSet(s)
  BY FS_Subset
<1>2. Cardinality(s) \in Nat /\ Cardinality(s \ {x}) = Cardinality(s) - 1
  BY <1>1, FS_RemoveElement, FS_CardinalityType
<1>3. IsFiniteSet(s \ {x}) /\ Cardinality(s \ {x}) \in Nat
  BY <1>1, FS_Subset, FS_CardinalityType
<1> QED
  BY <1>1, <1>2, <1>3

\* For every n there is a function that sums the subsets of at most n elements.
LEMMA ApproximationsExist ==
  ASSUME NEW S, IsFiniteSet(S), NEW f \in [S -> Int]
  PROVE  \A n \in Nat : \E g : UpTo(f, S, g, n)
<1> DEFINE T == {n \in Nat : \E g : UpTo(f, S, g, n)}
<1>1. 0 \in T
  <2> DEFINE g == [s \in SUBSET S |-> 0]
  <2>1. \A s \in SUBSET S : Cardinality(s) <= 0 => s = {}
    <3> SUFFICES ASSUME NEW s \in SUBSET S, Cardinality(s) <= 0 PROVE s = {}
      OBVIOUS
    <3>1. IsFiniteSet(s) /\ Cardinality(s) \in Nat
      BY FS_Subset, FS_CardinalityType
    <3> QED BY <3>1, FS_EmptySet
  <2>2. UpTo(f, S, g, 0)
    BY <2>1 DEF UpTo, Body
  <2> QED BY <2>2
<1>2. ASSUME NEW n \in Nat, n \in T
      PROVE  n + 1 \in T
  <2>1. PICK g : UpTo(f, S, g, n)
    BY <1>2
  <2> DEFINE h == [s \in SUBSET S |-> Body(f, g, s)]
  <2>2. h \in [SUBSET S -> Int]
    <3> SUFFICES ASSUME NEW s \in SUBSET S PROVE Body(f, g, s) \in Int
      OBVIOUS
    <3>1. CASE s = {}
      BY <3>1 DEF Body
    <3>2. CASE s # {}
      BY <3>2, <2>1, ChoiceInSet DEF Body, UpTo
    <3> QED BY <3>1, <3>2
  <2>3. ASSUME NEW s \in SUBSET S, Cardinality(s) <= n + 1
        PROVE  h[s] = Body(f, h, s)
    <3>1. CASE s = {}
      BY <3>1 DEF Body
    <3>2. CASE s # {}
      <4> DEFINE c == Choice(s)
      <4>1. c \in s
        BY <3>2, ChoiceInSet
      <4>2. s \ {c} \in SUBSET S /\ Cardinality(s \ {c}) <= n
        BY <4>1, <2>3, SmallerSets
      <4>3. g[s \ {c}] = h[s \ {c}]
        BY <4>2, <2>1 DEF UpTo
      <4> QED BY <3>2, <4>3 DEF Body
    <3> QED BY <3>1, <3>2
  <2>4. UpTo(f, S, h, n + 1)
    BY <2>2, <2>3 DEF UpTo
  <2> QED BY <2>4
<1>3. Nat \subseteq T
  <2> HIDE DEF T
  <2> QED BY <1>1, <1>2, SetInduction
<1> QED
  BY <1>3

\* Iter satisfies its recursion on every subset: the recursion has a solution, so CHOOSE
\* takes one.
LEMMA IterSums ==
  ASSUME NEW S, IsFiniteSet(S), NEW f \in [S -> Int]
  PROVE  Sums(f, S, Iter(f, S))
<1>1. PICK g : UpTo(f, S, g, Cardinality(S))
  BY ApproximationsExist, FS_CardinalityType
<1>2. \A s \in SUBSET S : Cardinality(s) <= Cardinality(S)
  BY FS_Subset
<1>3. Sums(f, S, g)
  BY <1>1, <1>2 DEF UpTo, Sums
<1> QED
  BY <1>3 DEF Iter

\* Induction on subsets of a finite set, with the property as a set of subsets.
LEMMA SubsetInduction ==
  ASSUME NEW S, IsFiniteSet(S), NEW P \in SUBSET (SUBSET S), {} \in P,
         \A s \in SUBSET S : s # {} /\ (\A x \in s : s \ {x} \in P) => s \in P
  PROVE  P = SUBSET S
<1> DEFINE T == {n \in Nat : \A s \in SUBSET S : Cardinality(s) = n => s \in P}
<1>1. 0 \in T
  <2> SUFFICES ASSUME NEW s \in SUBSET S, Cardinality(s) = 0 PROVE s \in P
    OBVIOUS
  <2> QED BY FS_Subset, FS_EmptySet
<1>2. ASSUME NEW n \in Nat, n \in T
      PROVE  n + 1 \in T
  <2> SUFFICES ASSUME NEW s \in SUBSET S, Cardinality(s) = n + 1 PROVE s \in P
    OBVIOUS
  <2>1. s # {}
    BY FS_EmptySet
  <2>2. \A x \in s : s \ {x} \in SUBSET S /\ Cardinality(s \ {x}) = n
    BY SmallerSets
  <2> QED BY <1>2, <2>1, <2>2
<1>3. Nat \subseteq T
  <2> HIDE DEF T
  <2> QED BY <1>1, <1>2, SetInduction
<1>4. \A s \in SUBSET S : Cardinality(s) \in Nat
  BY FS_Subset, FS_CardinalityType
<1> QED
  BY <1>3, <1>4

\* Every partial sum is an integer, a natural if the values are.
LEMMA SumsTyped ==
  ASSUME NEW S, IsFiniteSet(S), NEW N, N = Int \/ N = Nat, NEW f \in [S -> N],
         NEW g, \A s \in SUBSET S : g[s] = Body(f, g, s)
  PROVE  \A s \in SUBSET S : g[s] \in N
<1> DEFINE P == {s \in SUBSET S : g[s] \in N}
<1>1. \A x, y \in N : x + y \in N
  OBVIOUS
<1>2. {} \in P
  <2>1. g[{}] = 0
    BY BodyCases
  <2> QED BY <2>1
<1>3. ASSUME NEW s \in SUBSET S, s # {}, \A x \in s : s \ {x} \in P
      PROVE  s \in P
  <2>1. PICK c \in s : g[s] = f[c] + g[s \ {c}]
    BY <1>3, BodyCases
  <2>2. f[c] \in N /\ g[s \ {c}] \in N
    BY <1>3
  <2> QED BY <2>1, <2>2, <1>1
<1>4. P = SUBSET S
  <2>1. P \in SUBSET (SUBSET S)
    OBVIOUS
  <2> HIDE DEF P
  <2> QED BY <2>1, <1>2, <1>3, SubsetInduction
<1> QED
  BY <1>4

\* Partial sums of integers satisfy the recursion and are integers.
LEMMA IterTyped ==
  ASSUME NEW S, IsFiniteSet(S), NEW f \in [S -> Int]
  PROVE  \A s \in SUBSET S : /\ Iter(f, S)[s] = Body(f, Iter(f, S), s)
                             /\ Iter(f, S)[s] \in Int
<1> DEFINE g == Iter(f, S)
<1>1. Sums(f, S, g)
  BY IterSums
<1> HIDE DEF g
<1>2. \A s \in SUBSET S : g[s] = Body(f, g, s)
  BY <1>1 DEF Sums
<1>3. \A s \in SUBSET S : g[s] \in Int
  BY <1>2, SumsTyped
<1> QED
  BY <1>2, <1>3 DEF g

\* The sum may be taken from any element, not only from the one CHOOSE takes.
LEMMA IterAnyElement ==
  ASSUME NEW S, IsFiniteSet(S), NEW f \in [S -> Int]
  PROVE  \A s \in SUBSET S : \A u \in s :
           Iter(f, S)[s] = f[u] + Iter(f, S)[s \ {u}]
<1> DEFINE g == Iter(f, S)
           P == {s \in SUBSET S : \A u \in s : g[s] = f[u] + g[s \ {u}]}
<1>1. \A s \in SUBSET S : g[s] = Body(f, g, s) /\ g[s] \in Int
  BY IterTyped
<1> HIDE DEF g
<1>2. {} \in P
  OBVIOUS
<1>3. ASSUME NEW s \in SUBSET S, s # {}, \A x \in s : s \ {x} \in P
      PROVE  s \in P
  <2> SUFFICES ASSUME NEW u \in s
               PROVE  g[s] = f[u] + g[s \ {u}]
    OBVIOUS
  <2> DEFINE c == Choice(s)
  <2>1. c \in s
    BY <1>3, ChoiceInSet
  <2>2. g[s] = f[c] + g[s \ {c}]
    BY <1>1, <1>3 DEF Body
  <2> HIDE DEF c
  <2>3. CASE c = u
    BY <2>2, <2>3
  <2>4. CASE c # u
    <3>1. /\ g[s \ {c}] = f[u] + g[(s \ {c}) \ {u}]
          /\ g[s \ {u}] = f[c] + g[(s \ {u}) \ {c}]
      BY <2>1, <2>4, <1>3
    <3>2. (s \ {c}) \ {u} = (s \ {u}) \ {c}
      OBVIOUS
    <3>3. /\ f[u] \in Int /\ f[c] \in Int
          /\ g[(s \ {c}) \ {u}] \in Int
      BY <1>1, <2>1
    <3>4. /\ g[s] = f[c] + (f[u] + g[(s \ {c}) \ {u}])
          /\ g[s \ {u}] = f[c] + g[(s \ {c}) \ {u}]
      BY <2>2, <3>1, <3>2
    <3> HIDE DEF P
    <3> QED BY <3>3, <3>4
  <2> QED BY <2>3, <2>4
<1>4. P = SUBSET S
  <2>1. P \in SUBSET (SUBSET S)
    OBVIOUS
  <2> HIDE DEF P
  <2> QED BY <2>1, <1>2, <1>3, SubsetInduction
<1> QED
  BY <1>4 DEF g

\* Functions that agree on a set have the same sum over it.
LEMMA IterAgrees ==
  ASSUME NEW S, IsFiniteSet(S), NEW f \in [S -> Int], NEW h \in [S -> Int],
         NEW t \in SUBSET S, \A x \in t : f[x] = h[x]
  PROVE  Iter(f, S)[t] = Iter(h, S)[t]
<1> DEFINE F == Iter(f, S)
           H == Iter(h, S)
           P == {s \in SUBSET S : s \subseteq t => F[s] = H[s]}
<1>1. /\ \A s \in SUBSET S : F[s] = Body(f, F, s)
      /\ \A s \in SUBSET S : H[s] = Body(h, H, s)
  BY IterTyped
<1> HIDE DEF F, H
<1>2. {} \in P
  BY <1>1 DEF Body
<1>3. ASSUME NEW s \in SUBSET S, s # {}, \A x \in s : s \ {x} \in P
      PROVE  s \in P
  <2> SUFFICES ASSUME s \subseteq t PROVE F[s] = H[s]
    OBVIOUS
  <2>1. Choice(s) \in s
    BY <1>3, ChoiceInSet
  <2>2. F[s \ {Choice(s)}] = H[s \ {Choice(s)}]
    BY <1>3, <2>1
  <2> QED BY <1>1, <1>3, <2>1, <2>2 DEF Body
<1>4. P = SUBSET S
  <2>1. P \in SUBSET (SUBSET S)
    OBVIOUS
  <2> HIDE DEF P
  <2> QED BY <2>1, <1>2, <1>3, SubsetInduction
<1> QED
  BY <1>4 DEF F, H

-----------------------------------------------------------------------------

\* A sum of integers over a finite set is an integer.
LEMMA SumTyped ==
  ASSUME NEW S, IsFiniteSet(S), NEW f \in [S -> Int]
  PROVE  SumFunction(f) \in Int
<1>1. S \in SUBSET S /\ DOMAIN f = S
  OBVIOUS
<1>2. SumFunction(f) = Iter(f, S)[S]
  BY <1>1, SumIsIter DEF SumFunction
<1> QED
  BY <1>1, <1>2, IterTyped

\* A sum of zeros is zero.
LEMMA SumZero ==
  ASSUME NEW S, IsFiniteSet(S), NEW f \in [S -> Int], \A x \in S : f[x] = 0
  PROVE  SumFunction(f) = 0
<1> DEFINE g == Iter(f, S)
           P == {s \in SUBSET S : g[s] = 0}
<1>1. \A s \in SUBSET S : g[s] = Body(f, g, s)
  BY IterTyped
<1>2. SumFunction(f) = g[S]
  BY SumIsIter DEF SumFunction
<1> HIDE DEF g
<1>3. {} \in P
  BY <1>1, BodyCases
<1>4. ASSUME NEW s \in SUBSET S, s # {}, \A x \in s : s \ {x} \in P
      PROVE  s \in P
  <2>1. PICK c \in s : g[s] = f[c] + g[s \ {c}]
    BY <1>1, <1>4, BodyCases
  <2>2. f[c] = 0 /\ g[s \ {c}] = 0
    BY <1>4
  <2> QED BY <2>1, <2>2
<1>5. P = SUBSET S
  <2>1. P \in SUBSET (SUBSET S)
    OBVIOUS
  <2> HIDE DEF P
  <2> QED BY <2>1, <1>3, <1>4, SubsetInduction
<1> QED
  BY <1>2, <1>5

\* A sum of naturals is a natural no smaller than any of them.
LEMMA SumBounds ==
  ASSUME NEW S, IsFiniteSet(S), NEW f \in [S -> Nat]
  PROVE  /\ SumFunction(f) \in Nat
         /\ \A u \in S : f[u] <= SumFunction(f)
<1> DEFINE g == Iter(f, S)
<1>1. f \in [S -> Int]
  OBVIOUS
<1>2. \A s \in SUBSET S : g[s] = Body(f, g, s)
  BY <1>1, IterTyped
<1>3. \A u \in S : g[S] = f[u] + g[S \ {u}]
  BY <1>1, IterAnyElement
<1>4. SumFunction(f) = g[S]
  BY SumIsIter DEF SumFunction
<1> HIDE DEF g
<1>5. \A s \in SUBSET S : g[s] \in Nat
  BY <1>2, SumsTyped
<1>6. \A u \in S : g[S \ {u}] \in Nat /\ f[u] \in Nat
  BY <1>5
<1>7. g[S] \in Nat
  BY <1>5
<1>8. ASSUME NEW u \in S PROVE f[u] <= g[S]
  <2>1. PICK r \in Nat : g[S] = f[u] + r
    BY <1>3, <1>6
  <2>2. f[u] \in Nat
    OBVIOUS
  <2> QED BY <2>1, <2>2
<1> QED
  BY <1>4, <1>7, <1>8

\* Terms that compare, after scaling, have sums that compare.
LEMMA SumScaled ==
  ASSUME NEW S, IsFiniteSet(S), NEW f \in [S -> Nat], NEW h \in [S -> Nat],
         NEW a \in Nat, NEW b \in Nat, \A x \in S : a * f[x] <= b * h[x]
  PROVE  a * SumFunction(f) <= b * SumFunction(h)
<1> DEFINE F == Iter(f, S)
           H == Iter(h, S)
           P == {s \in SUBSET S : a * F[s] <= b * H[s]}
<1>1. f \in [S -> Int] /\ h \in [S -> Int]
  OBVIOUS
<1>2. \A s \in SUBSET S : F[s] = Body(f, F, s) /\ H[s] = Body(h, H, s)
  BY <1>1, IterTyped
<1>3. SumFunction(f) = F[S] /\ SumFunction(h) = H[S]
  BY SumIsIter DEF SumFunction
<1>4. \A s \in SUBSET S : \A u \in s : F[s] = f[u] + F[s \ {u}]
  BY <1>1, IterAnyElement
<1>5. \A s \in SUBSET S : \A u \in s : H[s] = h[u] + H[s \ {u}]
  BY <1>1, IterAnyElement
<1> HIDE DEF F, H
<1>6. \A s \in SUBSET S : F[s] \in Nat /\ H[s] \in Nat
  BY <1>2, SumsTyped
<1>7. {} \in P
  BY <1>2, BodyCases
<1>8. ASSUME NEW s \in SUBSET S, s # {}, \A x \in s : s \ {x} \in P
      PROVE  s \in P
  <2>1. PICK u \in s : TRUE
    BY <1>8
  <2> DEFINE m == f[u]
             n == h[u]
             p == F[s \ {u}]
             q == H[s \ {u}]
  <2>2. m \in Nat /\ n \in Nat /\ p \in Nat /\ q \in Nat
    BY <1>6, <2>1
  <2>3. a * m <= b * n /\ a * p <= b * q
    BY <1>8, <2>1
  <2>4. F[s] = m + p /\ H[s] = n + q
    BY <1>4, <1>5, <2>1
  <2> HIDE DEF m, n, p, q
  <2>5. a * (m + p) = a * m + a * p /\ b * (n + q) = b * n + b * q
    BY <2>2
  <2>6. a * m \in Nat /\ a * p \in Nat /\ b * n \in Nat /\ b * q \in Nat
    BY <2>2
  <2>7. a * F[s] <= b * H[s]
    BY <2>3, <2>4, <2>5, <2>6
  <2> QED BY <2>7
<1>9. P = SUBSET S
  <2>1. P \in SUBSET (SUBSET S)
    OBVIOUS
  <2> HIDE DEF P
  <2> QED BY <2>1, <1>7, <1>8, SubsetInduction
<1> QED
  BY <1>3, <1>9

\* Two functions that differ at u only have sums that differ by what they differ there.
LEMMA SumChanged ==
  ASSUME NEW S, IsFiniteSet(S), NEW f \in [S -> Int], NEW h \in [S -> Int],
         NEW u \in S, \A y \in S \ {u} : f[y] = h[y]
  PROVE  SumFunction(h) = SumFunction(f) + h[u] - f[u]
<1> DEFINE F == Iter(f, S)
           H == Iter(h, S)
<1>1. S \in SUBSET S /\ S \ {u} \in SUBSET S
  OBVIOUS
<1>2. F[S] = f[u] + F[S \ {u}]
  BY <1>1, IterAnyElement
<1>3. H[S] = h[u] + H[S \ {u}]
  BY <1>1, IterAnyElement
<1>4. F[S \ {u}] = H[S \ {u}]
  BY <1>1, IterAgrees
<1>5. F[S \ {u}] \in Int
  BY <1>1, IterTyped
<1>6. SumFunction(h) = H[S] /\ SumFunction(f) = F[S]
  BY SumIsIter DEF SumFunction
<1> HIDE DEF F, H
<1>7. f[u] \in Int /\ h[u] \in Int
  OBVIOUS
<1> QED
  BY <1>2, <1>3, <1>4, <1>5, <1>6, <1>7

\* Adding an element to the domain adds its value to the sum.
LEMMA SumGrown ==
  ASSUME NEW S, IsFiniteSet(S), NEW u, u \notin S,
         NEW f \in [S -> Int], NEW h \in [S \union {u} -> Int], \A x \in S : f[x] = h[x]
  PROVE  SumFunction(h) = SumFunction(f) + h[u]
<1> DEFINE W == S \union {u}
           F == Iter(f, S)
           H == Iter(h, W)
           P == {s \in SUBSET S : F[s] = H[s]}
<1>1. IsFiniteSet(W)
  BY FS_AddElement
<1>2. /\ \A s \in SUBSET S : F[s] = Body(f, F, s) /\ F[s] \in Int
      /\ \A s \in SUBSET W : H[s] = Body(h, H, s) /\ H[s] \in Int
  BY <1>1, IterTyped
<1>3. SumFunction(f) = F[S] /\ SumFunction(h) = H[W]
  BY SumIsIter DEF SumFunction
<1>4. H[W] = h[u] + H[W \ {u}]
  <2>1. W \in SUBSET W /\ u \in W /\ h \in [W -> Int]
    OBVIOUS
  <2> QED BY <1>1, <2>1, IterAnyElement
<1> HIDE DEF F, H
<1>5. {} \in P
  BY <1>2 DEF Body
<1>6. ASSUME NEW s \in SUBSET S, s # {}, \A x \in s : s \ {x} \in P
      PROVE  s \in P
  <2>1. Choice(s) \in s
    BY <1>6, ChoiceInSet
  <2>2. F[s \ {Choice(s)}] = H[s \ {Choice(s)}]
    BY <1>6, <2>1
  <2>3. s \in SUBSET W
    OBVIOUS
  <2> QED BY <1>2, <1>6, <2>1, <2>2, <2>3 DEF Body
<1>7. P = SUBSET S
  <2>1. P \in SUBSET (SUBSET S)
    OBVIOUS
  <2> HIDE DEF P
  <2> QED BY <2>1, <1>5, <1>6, SubsetInduction
<1>8. F[S] = H[S] /\ W \ {u} = S /\ F[S] \in Int
  BY <1>2, <1>7
<1>9. h[u] \in Int
  OBVIOUS
<1>10. H[W] = h[u] + F[S]
  BY <1>4, <1>8
<1> HIDE DEF W
<1> QED
  BY <1>3, <1>8, <1>9, <1>10

\* The sum of two functions, point by point, is the sum of their sums.
LEMMA SumAdds ==
  ASSUME NEW S, IsFiniteSet(S), NEW f \in [S -> Int], NEW d \in [S -> Int]
  PROVE  SumFunction([x \in S |-> f[x] + d[x]]) = SumFunction(f) + SumFunction(d)
<1> DEFINE Part(s) == [x \in S |-> IF x \in s THEN f[x] + d[x] ELSE f[x]]
           Added(s) == [x \in S |-> IF x \in s THEN d[x] ELSE 0]
           P == {s \in SUBSET S : SumFunction(Part(s)) = SumFunction(f) + SumFunction(Added(s))}
<1>1. \A s : Part(s) \in [S -> Int] /\ Added(s) \in [S -> Int]
  OBVIOUS
<1>2. {} \in P
  <2>1. Part({}) = f
    OBVIOUS
  <2>2. SumFunction(Added({})) = 0
    <3>1. \A x \in S : Added({})[x] = 0
      OBVIOUS
    <3> HIDE DEF Added
    <3> QED BY <1>1, <3>1, SumZero
  <2>3. SumFunction(f) \in Int
    BY SumTyped
  <2> HIDE DEF Part, Added
  <2> QED BY <2>1, <2>2, <2>3
<1>3. ASSUME NEW s \in SUBSET S, NEW u \in s, s \ {u} \in P
      PROVE  s \in P
  <2> DEFINE F == Part(s \ {u})
             H == Part(s)
             A == Added(s \ {u})
             B == Added(s)
  <2>1. /\ \A y \in S \ {u} : F[y] = H[y] /\ A[y] = B[y]
        /\ F[u] = f[u] /\ H[u] = f[u] + d[u] /\ A[u] = 0 /\ B[u] = d[u]
        /\ u \in S
    BY <1>3
  <2>2. SumFunction(F) = SumFunction(f) + SumFunction(A)
    BY <1>3
  <2>3. /\ F \in [S -> Int] /\ H \in [S -> Int] /\ A \in [S -> Int] /\ B \in [S -> Int]
    BY <1>1
  <2> HIDE DEF F, H, A, B
  <2>4. /\ SumFunction(H) = SumFunction(F) + H[u] - F[u]
        /\ SumFunction(B) = SumFunction(A) + B[u] - A[u]
    <3>1. SumFunction(H) = SumFunction(F) + H[u] - F[u]
      BY <2>1, <2>3, SumChanged
    <3>2. SumFunction(B) = SumFunction(A) + B[u] - A[u]
      BY <2>1, <2>3, SumChanged
    <3> QED BY <3>1, <3>2
  <2>5. SumFunction(f) \in Int /\ SumFunction(A) \in Int /\ f[u] \in Int /\ d[u] \in Int
    BY <2>1, <2>3, SumTyped
  <2>6. SumFunction(H) = SumFunction(f) + SumFunction(B)
    BY <2>1, <2>2, <2>4, <2>5
  <2> QED BY <2>6 DEF H, B
<1>4. \A s \in SUBSET S : s # {} /\ (\A x \in s : s \ {x} \in P) => s \in P
  <2> HIDE DEF P
  <2> QED BY <1>3
<1>5. P = SUBSET S
  <2>1. P \in SUBSET (SUBSET S)
    OBVIOUS
  <2> HIDE DEF P
  <2> QED BY ONLY <1>2, <1>4, <2>1, IsFiniteSet(S), SubsetInduction
<1>6. S \in P
  BY <1>5
<1>7. Part(S) = [x \in S |-> f[x] + d[x]] /\ Added(S) = d
  OBVIOUS
<1> HIDE DEF Part, Added
<1> QED
  BY <1>6, <1>7

\* A sum that has c on a subset and nothing elsewhere is c as often as the subset has elements.
LEMMA SumConstant ==
  ASSUME NEW S, IsFiniteSet(S), NEW W \in SUBSET S, NEW c \in Int
  PROVE  SumFunction([x \in S |-> IF x \in W THEN c ELSE 0]) = Cardinality(W) * c
<1> DEFINE Part(s) == [x \in S |-> IF x \in s THEN c ELSE 0]
           P == {s \in SUBSET S : SumFunction(Part(s)) = Cardinality(s) * c}
<1>1. \A s : Part(s) \in [S -> Int]
  OBVIOUS
<1>2. {} \in P
  <2>1. SumFunction(Part({})) = 0
    <3>1. \A x \in S : Part({})[x] = 0
      OBVIOUS
    <3> HIDE DEF Part
    <3> QED BY <1>1, <3>1, SumZero
  <2>2. Cardinality({}) = 0
    BY FS_EmptySet
  <2> HIDE DEF Part
  <2> QED BY <2>1, <2>2
<1>3. ASSUME NEW s \in SUBSET S, NEW u \in s, s \ {u} \in P
      PROVE  s \in P
  <2> DEFINE F == Part(s \ {u})
             H == Part(s)
             n == Cardinality(s)
  <2>1. /\ \A y \in S \ {u} : F[y] = H[y]
        /\ F[u] = 0 /\ H[u] = c
        /\ u \in S
    BY <1>3
  <2>2. SumFunction(F) = Cardinality(s \ {u}) * c
    BY <1>3
  <2>3. F \in [S -> Int] /\ H \in [S -> Int]
    BY <1>1
  <2>4. n \in Nat /\ Cardinality(s \ {u}) = n - 1
    BY SmallerSets
  <2> HIDE DEF F, H, n
  <2>5. SumFunction(H) = SumFunction(F) + H[u] - F[u]
    BY <2>1, <2>3, SumChanged
  <2>6. \A k \in Nat : (k - 1) * c + c - 0 = k * c
    OBVIOUS
  <2>7. SumFunction(H) = n * c
    BY <2>1, <2>2, <2>4, <2>5, <2>6
  <2> QED BY <2>7 DEF H, n
<1>4. \A s \in SUBSET S : s # {} /\ (\A x \in s : s \ {x} \in P) => s \in P
  <2> HIDE DEF P
  <2> QED BY <1>3
<1>5. P = SUBSET S
  <2>1. P \in SUBSET (SUBSET S)
    OBVIOUS
  <2> HIDE DEF P
  <2> QED BY ONLY <1>2, <1>4, <2>1, IsFiniteSet(S), SubsetInduction
<1> HIDE DEF Part
<1>6. SumFunction(Part(W)) = Cardinality(W) * c
  BY <1>5
<1> QED
  BY <1>6 DEF Part

-----------------------------------------------------------------------------
(* Shares rounded down.                                                    *)

\* Products grow with their first factor.
LEMMA ProductsMonotone ==
  \A a, b, c \in Nat : a <= b => a * c <= b * c
OBVIOUS

\* Division with rounding down, by its defining inequalities.
LEMMA DivisionBounds ==
  ASSUME NEW n \in Nat, NEW d \in Nat \ {0}
  PROVE  /\ n \div d \in Nat
         /\ (n \div d) * d <= n
         /\ n < (n \div d) * d + d
OBVIOUS

\* The share of l that s is of a is no more than l.
LEMMA ShareWithin ==
  ASSUME NEW a \in Nat \ {0}, NEW l \in Nat, NEW s \in 0..a
  PROVE  (l * s) \div a \in 0..l
<1> DEFINE q == (l * s) \div a
<1>0. s \in Nat /\ l * s \in Nat /\ s <= a
  OBVIOUS
<1>1. q \in Nat /\ q * a <= l * s /\ l * s < q * a + a
  BY <1>0, DivisionBounds
<1> HIDE DEF q
<1>2. q <= l
  <2>1. SUFFICES ASSUME q >= l + 1 PROVE FALSE
    BY <1>0, <1>1
  <2>2. (l + 1) * a <= q * a
    BY <1>0, <1>1, <2>1, ProductsMonotone
  <2>3. l * s <= l * a
    <3>1. s * l <= a * l
      BY <1>0, ProductsMonotone
    <3> QED
      BY <1>0, <3>1
  <2>4. (l + 1) * a = l * a + a
    BY <1>0
  <2>5. l * a \in Nat /\ q * a \in Nat
    BY <1>0, <1>1
  <2> QED
    BY <1>0, <1>1, <2>2, <2>3, <2>4, <2>5
<1> QED
  BY <1>1, <1>2 DEF q

\* If a slash takes s of a bond a, and the share of the lock l that it takes is
\* l * s / a rounded down, then what is left of the bond covers what is left of
\* the lock: the remainder of the lock exceeds its exact value l * (a - s) / a by
\* less than one, and that value is at most the integer a - s.
LEMMA ShareLeavesCover ==
  ASSUME NEW a \in Nat \ {0}, NEW l \in 0..a, NEW s \in 0..a
  PROVE  /\ (l * s) \div a \in 0..l
         /\ l - (l * s) \div a <= a - s
<1> DEFINE q == (l * s) \div a
<1>0. l \in Nat /\ s \in Nat /\ l * s \in Nat /\ l <= a /\ s <= a
  OBVIOUS
<1>1. q \in Nat /\ q * a <= l * s /\ l * s < q * a + a
  BY <1>0, DivisionBounds
<1>2. q \in 0..l
  BY <1>0, ShareWithin
<1> HIDE DEF q
<1>3. l - q <= a - s
  <2>1. SUFFICES ASSUME l - q >= a - s + 1 PROVE FALSE
    BY <1>0, <1>1
  <2> DEFINE x == a - s
             y == a - l
  <2>2. x \in Nat /\ y \in Nat /\ q + 1 <= l - x
    BY <1>0, <1>1, <2>1
  <2>3. (q + 1) * a <= (l - x) * a
    BY <1>0, <1>1, <2>2, ProductsMonotone
  <2>4. (q + 1) * a = q * a + a
    BY <1>0, <1>1
  <2>5. (l - x) * a = l * a - x * a
    BY <1>0, <2>2
  <2>6. l * s = l * a - l * x
    BY <1>0, <2>2
  <2>7. l * x <= x * a
    <3>1. l * x <= a * x
      BY <1>0, <2>2, ProductsMonotone
    <3> QED
      BY <1>0, <2>2, <3>1
  <2>8. l * a \in Nat /\ l * x \in Nat /\ x * a \in Nat /\ q * a \in Nat
    BY <1>0, <1>1, <2>2
  <2> QED
    BY <1>1, <2>3, <2>4, <2>5, <2>6, <2>7, <2>8
<1> QED
  BY <1>0, <1>1, <1>2, <1>3 DEF q

\* Parts of p by weight, each rounded down, make up p but for less than one a part.
LEMMA SharesRoundDown ==
  ASSUME NEW S, IsFiniteSet(S), S # {}, NEW w \in [S -> Nat \ {0}], NEW p \in Nat,
         NEW q, q = [x \in S |-> (p * w[x]) \div SumFunction(w)]
  PROVE  /\ q \in [S -> Nat]
         /\ SumFunction(q) \in Nat
         /\ SumFunction(q) <= p
         /\ p <= SumFunction(q) + Cardinality(S) - 1
<1> DEFINE W == SumFunction(w)
           n == Cardinality(S)
           one == [x \in S |-> 1]
           pw1 == [x \in S |-> p * w[x] + 1]
           pw == [x \in S |-> p * w[x]]
           q1 == [x \in S |-> q[x] + 1]
<1>1. w \in [S -> Nat]
  OBVIOUS
<1>2. W \in Nat \ {0}
  <2>1. W \in Nat /\ \A x \in S : w[x] <= W
    BY <1>1, SumBounds
  <2> HIDE DEF W
  <2>2. PICK x \in S : TRUE
    OBVIOUS
  <2> QED BY <2>1, <2>2
<1>3. n \in Nat \ {0}
  BY FS_CardinalityType, FS_EmptySet
<1> HIDE DEF W, n
<1>4. ASSUME NEW x \in S
      PROVE  /\ q[x] \in Nat
             /\ W * q[x] <= p * w[x]
             /\ p * w[x] + 1 <= W * (q[x] + 1)
             /\ p * w[x] \in Nat
  <2>1. q[x] = (p * w[x]) \div W
    BY DEF W
  <2> DEFINE z == p * w[x]
  <2>2. z \in Nat
    BY <1>1
  <2> HIDE DEF z
  <2>3. /\ z \div W \in Nat /\ (z \div W) * W <= z /\ z < (z \div W) * W + W
    BY <1>2, <2>2, DivisionBounds
  <2>4. \A y \in Nat : y * W = W * y /\ W * y + W = W * (y + 1)
    BY <1>2
  <2> DEFINE y == z \div W
  <2>5. y \in Nat /\ W * y <= z /\ z < W * (y + 1) /\ W * (y + 1) \in Nat
    BY <2>3, <2>4, <1>2
  <2>6. q[x] = y
    BY <2>1 DEF z
  <2> HIDE DEF y
  <2>7. q[x] \in Nat /\ W * q[x] <= z /\ z + 1 <= W * (q[x] + 1)
    BY <2>2, <2>5, <2>6
  <2> QED BY <2>2, <2>7 DEF z
<1>5. q \in [S -> Nat]
  <2> HIDE DEF q1
  <2> QED BY <1>4
<1>6. /\ one \in [S -> Int] /\ pw \in [S -> Nat] /\ pw1 \in [S -> Nat] /\ q1 \in [S -> Nat]
  BY <1>4, <1>5
<1>7. /\ SumFunction(q) \in Nat /\ SumFunction(pw) \in Nat /\ SumFunction(pw1) \in Nat
      /\ SumFunction(q1) \in Nat
  BY <1>5, <1>6, SumBounds
<1>8. W * SumFunction(q) <= p * W
  <2>1. \A x \in S : W * q[x] <= p * w[x]
    BY <1>4
  <2> QED BY <2>1, <1>1, <1>2, <1>5, SumScaled DEF W
<1>9. SumFunction(pw) = p * W
  <2>1. \A x \in S : 1 * pw[x] <= p * w[x] /\ p * w[x] <= 1 * pw[x]
    BY <1>4
  <2> HIDE DEF pw
  <2>2. 1 * SumFunction(pw) <= p * W
    BY <2>1, <1>1, <1>6, SumScaled DEF W
  <2>3. p * W <= 1 * SumFunction(pw)
    BY <2>1, <1>1, <1>6, SumScaled DEF W
  <2>4. p * W \in Nat
    BY <1>2
  <2>5. \A a, b \in Nat : 1 * a <= b /\ b <= 1 * a => a = b
    OBVIOUS
  <2> QED BY <2>2, <2>3, <2>4, <2>5, <1>7
<1>10. SumFunction(one) = n
  <2>1. one = [x \in S |-> IF x \in S THEN 1 ELSE 0]
    OBVIOUS
  <2>2. SumFunction([x \in S |-> IF x \in S THEN 1 ELSE 0]) = Cardinality(S) * 1
    BY SumConstant
  <2> HIDE DEF one
  <2> QED BY <2>1, <2>2, <1>3 DEF n
<1>11. SumFunction(pw1) = SumFunction(pw) + n
  <2>1. pw1 = [x \in S |-> pw[x] + one[x]]
    OBVIOUS
  <2> HIDE DEF pw, one, pw1
  <2> QED BY <2>1, <1>6, <1>10, SumAdds
<1>12. SumFunction(q1) = SumFunction(q) + n
  <2>1. q1 = [x \in S |-> q[x] + one[x]]
    OBVIOUS
  <2> HIDE DEF q1, one
  <2>2. q \in [S -> Int]
    BY <1>5
  <2> QED BY <2>1, <2>2, <1>6, <1>10, SumAdds
<1>13. SumFunction(pw1) <= W * SumFunction(q1)
  <2>1. \A x \in S : 1 * pw1[x] <= W * q1[x]
    BY <1>4
  <2> HIDE DEF pw1, q1
  <2>2. 1 * SumFunction(pw1) <= W * SumFunction(q1)
    BY <2>1, <1>2, <1>6, SumScaled
  <2> QED BY <2>2, <1>7
<1> HIDE DEF pw, pw1, q1, one
<1> DEFINE Q == SumFunction(q)
<1>14. Q <= p
  <2>1. \A a, b \in Nat : W * a <= b * W => a <= b
    BY <1>2
  <2> QED BY <2>1, <1>7, <1>8
<1>15. p <= Q + n - 1
  <2>1. p * W + n <= W * (Q + n)
    BY <1>9, <1>11, <1>12, <1>13
  <2>2. \A a, b \in Nat : a * W + n <= W * b => a < b
    BY <1>2, <1>3
  <2>3. Q + n \in Nat
    BY <1>3, <1>7
  <2>4. p < Q + n
    BY <2>1, <2>2, <2>3
  <2> QED BY <2>4, <1>3, <1>7
<1> QED
  BY <1>5, <1>7, <1>14, <1>15 DEF n
=============================================================================
