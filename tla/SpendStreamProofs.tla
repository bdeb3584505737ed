---------------------------- MODULE SpendStreamProofs ----------------------------
(* Proofs about SpendStream, for every value of its constants. *)
EXTENDS SpendStream, FiniteSetTheorems, WellFoundedInduction, TLAPS

(***************************************************************************)
(* Induction over naturals and over finite sets, stated with a set of the  *)
(* cases instead of a predicate, and what it gives about sums.             *)
(***************************************************************************)
(* A set of naturals that has 0 and the successor of each of its elements  *)
(* has them all.                                                           *)
LEMMA NatSetInduction ==
  ASSUME NEW T \in SUBSET Nat, 0 \in T, \A n \in T : n + 1 \in T
  PROVE  T = Nat
<1>. DEFINE R == OpToRel(<, Nat)
<1>1. SUFFICES ASSUME Nat \ T # {} PROVE FALSE
  OBVIOUS
<1>2. IsWellFoundedOn(R, Nat)
  BY NatLessThanWellFounded
<1>3. PICK x \in Nat \ T : \A y \in Nat \ T : ~ (<<y, x>> \in R)
  <2>. HIDE DEF R
  <2>1. Nat \ T \subseteq Nat
    OBVIOUS
  <2>. QED BY <1>1, <1>2, <2>1, WFMin
<1>4. \A y \in Nat \ T : ~ (y < x)
  BY <1>3 DEF OpToRel
<1>5. x \in Nat /\ x # 0
  BY <1>3
<1>6. x - 1 \in Nat /\ x - 1 < x /\ (x - 1) + 1 = x
  BY <1>5
<1>7. x - 1 \in T
  BY <1>4, <1>6
<1>8. x \in T
  BY <1>6, <1>7
<1>. QED BY <1>3, <1>8

(* A set of subsets of a finite set that has a subset whenever it has all  *)
(* that are one element smaller has them all.                              *)
LEMMA SubsetInduction ==
  ASSUME NEW S, IsFiniteSet(S), NEW F \in SUBSET SUBSET S,
         \A T \in SUBSET S : (\A x \in T : T \ {x} \in F) => T \in F
  PROVE  F = SUBSET S
<1>. DEFINE N == {n \in Nat : \A T \in SUBSET S : Cardinality(T) = n => T \in F}
<1>1. \A T \in SUBSET S : IsFiniteSet(T) /\ Cardinality(T) \in Nat
  BY FS_Subset, FS_CardinalityType
<1>2. 0 \in N
  BY <1>1, FS_EmptySet
<1>3. ASSUME NEW n \in N PROVE n + 1 \in N
  <2>1. SUFFICES ASSUME NEW T \in SUBSET S, Cardinality(T) = n + 1 PROVE T \in F
    OBVIOUS
  <2>2. ASSUME NEW x \in T PROVE Cardinality(T \ {x}) = n
    <3>1. Cardinality(T \ {x}) = Cardinality(T) - 1
      BY <1>1, FS_RemoveElement
    <3>2. n \in Nat
      OBVIOUS
    <3>. QED BY <2>1, <3>1, <3>2
  <2>. QED BY <2>1, <2>2
<1>4. N = Nat
  <2>. HIDE DEF N
  <2>1. N \in SUBSET Nat
    BY DEF N
  <2>. QED BY <1>2, <1>3, <2>1, NatSetInduction
<1>. QED BY <1>1, <1>4

Some(s) == CHOOSE x \in s : TRUE
Step(w, f, s) == IF s = {} THEN 0 ELSE w[Some(s)] + f[s \ {Some(s)}]
IsSum(f, w, S) == f = [s \in SUBSET S |-> Step(w, f, s)]
Sums(f, w, S)  == \A s \in SUBSET S : f[s] = Step(w, f, s)
Integral(f, S) == \A s \in SUBSET S : f[s] \in Int
AnyOrder(f, w, S) == \A s \in SUBSET S : \A x \in s : f[s] = w[x] + f[s \ {x}]
Weighs(w, S)   == \A x \in S : w[x] \in Int

(* A chosen element of a set is in it. *)
LEMMA SomeIn ==
  ASSUME NEW s, s # {}
  PROVE  Some(s) \in s
BY DEF Some

(* The recursion that defines a sum has a solution, an integer everywhere. *)
LEMMA SumExists ==
  ASSUME NEW S, IsFiniteSet(S), NEW w, Weighs(w, S)
  PROVE  \E f \in [SUBSET S -> Int] : Sums(f, w, S)
<1>. USE DEF Weighs, Sums
<1>. DEFINE D(n) == {s \in SUBSET S : Cardinality(s) <= n}
            Solves(f, n) == \A s \in D(n) : f[s] = Step(w, f, s)
            N == {n \in Nat : \E f \in [D(n) -> Int] : Solves(f, n)}
<1>1. \A T \in SUBSET S : IsFiniteSet(T) /\ Cardinality(T) \in Nat
  BY FS_Subset, FS_CardinalityType
<1>2. 0 \in N
  <2>. DEFINE f == [s \in D(0) |-> 0]
  <2>1. \A s \in D(0) : s = {}
    BY <1>1, FS_EmptySet
  <2>2. f \in [D(0) -> Int] /\ Solves(f, 0)
    BY <2>1 DEF Step
  <2>. QED BY <2>2
<1>3. ASSUME NEW n \in N PROVE n + 1 \in N
  <2>1. PICK f \in [D(n) -> Int] : Solves(f, n)
    OBVIOUS
  <2>. DEFINE g == [s \in D(n + 1) |-> Step(w, f, s)]
  <2>2. ASSUME NEW s \in D(n + 1), s # {}
        PROVE  s \ {Some(s)} \in D(n) /\ w[Some(s)] \in Int
    <3>1. Some(s) \in s
      BY <2>2, SomeIn
    <3>2. Cardinality(s \ {Some(s)}) = Cardinality(s) - 1
      BY <1>1, <3>1, FS_RemoveElement
    <3>. QED BY <1>1, <3>1, <3>2
  <2>3. \A s \in D(n + 1) : Step(w, f, s) \in Int
    BY <2>1, <2>2 DEF Step
  <2>4. D(n) \subseteq D(n + 1)
    BY <1>1
  <2>5. \A s \in D(n) : g[s] = f[s]
    BY <2>1, <2>4
  <2>6. ASSUME NEW s \in D(n + 1) PROVE g[s] = Step(w, g, s)
    BY <2>2, <2>5 DEF Step
  <2>7. g \in [D(n + 1) -> Int]
    BY <2>3
  <2>. HIDE DEF g
  <2>8. Solves(g, n + 1)
    BY <2>6
  <2>. HIDE DEF D, Solves
  <2>9. n + 1 \in Nat /\ \E h \in [D(n + 1) -> Int] : Solves(h, n + 1)
    BY <2>7, <2>8
  <2>. QED BY <2>9
<1>4. N = Nat
  <2>. HIDE DEF N
  <2>1. N \in SUBSET Nat
    BY DEF N
  <2>. QED BY <1>2, <1>3, <2>1, NatSetInduction
<1>5. Cardinality(S) \in N
  BY <1>1, <1>4
<1>6. D(Cardinality(S)) = SUBSET S
  BY FS_Subset, <1>1
<1>. QED BY <1>5, <1>6

(* Two solutions agree where both are defined.                             *)
LEMMA SumUnique ==
  ASSUME NEW S, IsFiniteSet(S), NEW w, NEW f, NEW g,
         Sums(f, w, S),
         Sums(g, w, S)
  PROVE  \A s \in SUBSET S : f[s] = g[s]
<1>. USE DEF Sums
<1>. DEFINE F == {s \in SUBSET S : f[s] = g[s]}
<1>1. ASSUME NEW s \in SUBSET S, \A x \in s : s \ {x} \in F PROVE s \in F
  <2>1. Step(w, f, s) = Step(w, g, s)
    BY <1>1, SomeIn DEF Step
  <2>. QED BY <2>1
<1>2. F = SUBSET S
  <2>. HIDE DEF F
  <2>1. F \in SUBSET SUBSET S
    BY DEF F
  <2>. QED BY <1>1, <2>1, SubsetInduction
<1>. QED BY <1>2

(* The order in which elements are taken makes no difference.              *)
LEMMA SumAnyOrder ==
  ASSUME NEW S, IsFiniteSet(S), NEW w, Weighs(w, S),
         NEW f, Integral(f, S), Sums(f, w, S)
  PROVE  AnyOrder(f, w, S)
<1>. USE DEF AnyOrder, Sums, Weighs, Integral
<1>. DEFINE F == {s \in SUBSET S : \A x \in s : f[s] = w[x] + f[s \ {x}]}
<1>1. ASSUME NEW s \in SUBSET S, \A x \in s : s \ {x} \in F PROVE s \in F
  <2>. SUFFICES ASSUME NEW x \in s PROVE f[s] = w[x] + f[s \ {x}]
    OBVIOUS
  <2>. DEFINE c == Some(s)
  <2>1. c \in s /\ f[s] = w[c] + f[s \ {c}]
    BY SomeIn DEF Step
  <2>. HIDE DEF c
  <2>2. CASE c = x
    BY <2>1, <2>2
  <2>3. CASE c # x
    <3>1. f[s \ {c}] = w[x] + f[(s \ {c}) \ {x}]
      BY <1>1, <2>1, <2>3
    <3>2. f[s \ {x}] = w[c] + f[(s \ {x}) \ {c}]
      BY <1>1, <2>1, <2>3
    <3>. DEFINE rest == (s \ {c}) \ {x}
    <3>3. rest = (s \ {x}) \ {c}
      OBVIOUS
    <3>4. w[c] \in Int /\ w[x] \in Int /\ f[rest] \in Int
      BY <2>1
    <3>5. f[s \ {c}] = w[x] + f[rest] /\ f[s \ {x}] = w[c] + f[rest]
      BY <3>1, <3>2, <3>3
    <3>. HIDE DEF rest
    <3>6. w[c] + (w[x] + f[rest]) = w[x] + (w[c] + f[rest])
      BY <3>4
    <3>. QED BY <2>1, <3>5, <3>6
  <2>. QED BY <2>2, <2>3
<1>2. F = SUBSET S
  <2>. HIDE DEF F
  <2>1. F \in SUBSET SUBSET S
    BY DEF F
  <2>. QED BY <1>1, <2>1, SubsetInduction
<1>. QED BY <1>2

(* The fold of a weight over a finite set is what a function defined on its subsets
   by the same recursion gives. *)
LEMMA SumIs ==
  ASSUME NEW S, IsFiniteSet(S), NEW w, Weighs(w, S)
  PROVE  \E f \in [SUBSET S -> Int] :
           /\ Sums(f, w, S)
           /\ SumFunctionOnSet(w, S) = f[S]
<1>. DEFINE it == CHOOSE f : IsSum(f, w, S)
<1>1. PICK f \in [SUBSET S -> Int] : Sums(f, w, S)
  BY SumExists
<1>2. IsSum(f, w, S)
  BY <1>1 DEF IsSum, Sums
<1>3. IsSum(it, w, S)
  BY <1>2
<1>4. Sums(it, w, S)
  BY <1>3 DEF IsSum, Sums
<1>5. it[S] = f[S]
  <2>. HIDE DEF it
  <2>1. \A s \in SUBSET S : it[s] = f[s]
    BY <1>1, <1>4, SumUnique
  <2>. QED BY <2>1
<1>6. SumFunctionOnSet(w, S) = it[S]
  BY DEF SumFunctionOnSet, FoldFunctionOnSet, MapThenFoldSet, IsSum, Step, Some
<1>. QED BY <1>1, <1>5, <1>6

(* What is used of sums: nothing adds up to 0, an element that is added    *)
(* adds its weight, and only the weights of the elements matter.           *)
LEMMA SumEmpty ==
  ASSUME NEW w
  PROVE  SumFunctionOnSet(w, {}) = 0
<1>1. IsFiniteSet({})
  BY FS_EmptySet
<1>2. PICK f \in [SUBSET {} -> Int] :
        /\ Sums(f, w, {})
        /\ SumFunctionOnSet(w, {}) = f[{}]
  BY <1>1, SumIs DEF Weighs
<1>. QED BY <1>2 DEF Step, Sums

(* One more element adds its weight to the sum. *)
LEMMA SumAdd ==
  ASSUME NEW S, IsFiniteSet(S), NEW x, x \notin S, NEW w,
         Weighs(w, S \union {x})
  PROVE  /\ SumFunctionOnSet(w, S) \in Int
         /\ SumFunctionOnSet(w, S \union {x}) = SumFunctionOnSet(w, S) + w[x]
<1>. DEFINE T == S \union {x}
<1>0. Weighs(w, S) /\ Weighs(w, T) /\ w[x] \in Int
  BY DEF Weighs
<1>1. IsFiniteSet(T)
  BY FS_AddElement
<1>2. PICK f \in [SUBSET T -> Int] :
        /\ Sums(f, w, T)
        /\ SumFunctionOnSet(w, T) = f[T]
  BY <1>1, SumIs
<1>3. PICK g \in [SUBSET S -> Int] :
        /\ Sums(g, w, S)
        /\ SumFunctionOnSet(w, S) = g[S]
  BY SumIs, <1>0
<1>4. \A s \in SUBSET S : f[s] = g[s]
  <2>1. Sums(f, w, S)
    BY <1>2 DEF Sums
  <2>. QED BY <1>3, <2>1, SumUnique
<1>5. f[T] = w[x] + f[T \ {x}]
  <2>1. Integral(f, T)
    BY DEF Integral
  <2>2. AnyOrder(f, w, T)
    <3>. HIDE DEF T
    <3>. QED BY <1>0, <1>1, <1>2, <2>1, SumAnyOrder
  <2>. QED BY <2>2 DEF AnyOrder
<1>6. T \ {x} = S
  OBVIOUS
<1>7. f[T] = w[x] + g[S] /\ g[S] \in Int /\ w[x] \in Int
  BY <1>0, <1>3, <1>4, <1>5, <1>6
<1>. QED BY <1>2, <1>3, <1>7

(* The sum of integer weights is an integer. *)
LEMMA SumType ==
  ASSUME NEW S, IsFiniteSet(S), NEW w, Weighs(w, S)
  PROVE  SumFunctionOnSet(w, S) \in Int
<1>1. PICK f \in [SUBSET S -> Int] : SumFunctionOnSet(w, S) = f[S]
  BY SumIs
<1>. QED BY <1>1

(* Weights that agree on a set have the same sum over it. *)
LEMMA SumSame ==
  ASSUME NEW S, IsFiniteSet(S), NEW v, NEW w, Weighs(w, S), \A y \in S : v[y] = w[y]
  PROVE  SumFunctionOnSet(v, S) = SumFunctionOnSet(w, S)
<1>1. PICK f \in [SUBSET S -> Int] :
        /\ Sums(f, w, S)
        /\ SumFunctionOnSet(w, S) = f[S]
  BY SumIs
<1>2. Weighs(v, S)
  BY DEF Weighs
<1>3. PICK g \in [SUBSET S -> Int] :
        /\ Sums(g, v, S)
        /\ SumFunctionOnSet(v, S) = g[S]
  BY <1>2, SumIs
<1>4. Sums(g, w, S)
  BY <1>3, SomeIn DEF Step, Sums
<1>5. \A s \in SUBSET S : f[s] = g[s]
  BY <1>1, <1>4, SumUnique
<1>. QED BY <1>1, <1>3, <1>5

(* One weight that grows, of an element that is summed.                    *)
LEMMA SumGrows ==
  ASSUME NEW S, IsFiniteSet(S), NEW x \in S, NEW v, NEW w, NEW d \in Int,
         Weighs(w, S),
         \A y \in S : v[y] = IF y = x THEN w[y] + d ELSE w[y]
  PROVE  SumFunctionOnSet(v, S) = SumFunctionOnSet(w, S) + d
<1>. DEFINE R == S \ {x}
<1>1. IsFiniteSet(R) /\ x \notin R /\ S = R \union {x}
  BY FS_RemoveElement
<1>2. Weighs(w, R \union {x}) /\ Weighs(v, R \union {x}) /\ Weighs(w, R)
  BY DEF Weighs
<1>. HIDE DEF R
<1>3. SumFunctionOnSet(w, R) \in Int /\ SumFunctionOnSet(w, S) = SumFunctionOnSet(w, R) + w[x]
  BY <1>1, <1>2, SumAdd
<1>4. SumFunctionOnSet(v, S) = SumFunctionOnSet(v, R) + v[x]
  BY <1>1, <1>2, SumAdd
<1>5. SumFunctionOnSet(v, R) = SumFunctionOnSet(w, R)
  <2>1. \A y \in R : v[y] = w[y]
    BY <1>1
  <2>. QED BY <1>1, <1>2, <2>1, SumSame
<1>6. w[x] \in Int /\ v[x] = w[x] + d
  BY DEF Weighs
<1>. QED BY <1>3, <1>4, <1>5, <1>6

(* A sum of zeros is zero. *)
LEMMA SumZero ==
  ASSUME NEW S, IsFiniteSet(S), NEW w, \A x \in S : w[x] = 0
  PROVE  SumFunctionOnSet(w, S) = 0
<1>. DEFINE F == {T \in SUBSET S : SumFunctionOnSet(w, T) = 0}
<1>1. ASSUME NEW T \in SUBSET S, \A x \in T : T \ {x} \in F PROVE T \in F
  <2>1. CASE T = {}
    BY <2>1, SumEmpty
  <2>2. CASE T # {}
    <3>1. PICK x \in T : TRUE
      BY <2>2
    <3>. DEFINE R == T \ {x}
    <3>2. R \in SUBSET S /\ T = R \union {x} /\ x \notin R /\ R \in F
      BY <1>1, <3>1
    <3>. HIDE DEF R
    <3>3. IsFiniteSet(R) /\ Weighs(w, R \union {x}) /\ w[x] = 0
      BY <3>1, <3>2, FS_Subset DEF Weighs
    <3>4. SumFunctionOnSet(w, R \union {x}) = SumFunctionOnSet(w, R) + w[x]
      BY <3>2, <3>3, SumAdd
    <3>. QED BY <3>2, <3>3, <3>4
  <2>. QED BY <2>1, <2>2
<1>2. F \in SUBSET SUBSET S
  OBVIOUS
<1>. HIDE DEF F
<1>3. F = SUBSET S
  BY <1>1, <1>2, SubsetInduction
<1>. QED BY <1>3 DEF F

(* The sum of a single weight. *)
LEMMA SumOne ==
  ASSUME NEW x, NEW w, w[x] \in Int
  PROVE  SumFunctionOnSet(w, {x}) = w[x]
<1>1. IsFiniteSet({}) /\ x \notin {} /\ {} \union {x} = {x}
  BY FS_EmptySet
<1>2. Weighs(w, {} \union {x})
  BY DEF Weighs
<1>3. SumFunctionOnSet(w, {} \union {x}) = SumFunctionOnSet(w, {}) + w[x]
  BY <1>1, <1>2, SumAdd
<1>4. SumFunctionOnSet(w, {}) = 0
  BY SumEmpty
<1>. QED BY <1>1, <1>3, <1>4

(* Two sets that have no element in common are summed apart. *)
LEMMA SumUnion ==
  ASSUME NEW A, NEW B, IsFiniteSet(A), IsFiniteSet(B), A \intersect B = {},
         NEW w, Weighs(w, A \union B)
  PROVE  SumFunctionOnSet(w, A \union B) = SumFunctionOnSet(w, A) + SumFunctionOnSet(w, B)
<1>. DEFINE Apart(T) == SumFunctionOnSet(w, A \union T)
                          = SumFunctionOnSet(w, A) + SumFunctionOnSet(w, T)
            F == {T \in SUBSET B : Apart(T)}
<1>1. Weighs(w, A) /\ SumFunctionOnSet(w, A) \in Int
  <2>1. Weighs(w, A)
    BY DEF Weighs
  <2>. QED BY <2>1, SumType
<1>2. ASSUME NEW T \in SUBSET B, \A x \in T : T \ {x} \in F PROVE T \in F
  <2>1. CASE T = {}
    <3>1. A \union T = A
      BY <2>1
    <3>2. SumFunctionOnSet(w, T) = 0
      BY <2>1, SumEmpty
    <3>3. SumFunctionOnSet(w, A \union T) = SumFunctionOnSet(w, A)
      BY <3>1
    <3>4. SumFunctionOnSet(w, A) = SumFunctionOnSet(w, A) + 0
      BY <1>1
    <3>5. Apart(T)
      BY <3>2, <3>3, <3>4
    <3>. QED BY <3>5
  <2>2. CASE T # {}
    <3>1. PICK x \in T : TRUE
      BY <2>2
    <3>. DEFINE R == T \ {x}
    <3>2. R \in F /\ R \subseteq B /\ x \notin R /\ x \notin A \union R /\ T = R \union {x}
          /\ A \union T = (A \union R) \union {x} /\ (A \union R) \union {x} \subseteq A \union B
      BY <1>2, <3>1
    <3>. HIDE DEF R
    <3>3. IsFiniteSet(R) /\ IsFiniteSet(A \union R)
      BY <3>2, FS_Subset, FS_Union
    <3>4. Weighs(w, R \union {x}) /\ Weighs(w, (A \union R) \union {x}) /\ w[x] \in Int
      BY <3>2 DEF Weighs
    <3>5. SumFunctionOnSet(w, R \union {x}) = SumFunctionOnSet(w, R) + w[x]
          /\ SumFunctionOnSet(w, R) \in Int
      BY <3>2, <3>3, <3>4, SumAdd
    <3>6. SumFunctionOnSet(w, (A \union R) \union {x}) = SumFunctionOnSet(w, A \union R) + w[x]
      BY <3>2, <3>3, <3>4, SumAdd
    <3>7. SumFunctionOnSet(w, A \union R) = SumFunctionOnSet(w, A) + SumFunctionOnSet(w, R)
      BY <3>2
    <3>8. SumFunctionOnSet(w, A \union T) = SumFunctionOnSet(w, A \union R) + w[x]
      BY <3>2, <3>6
    <3>9. SumFunctionOnSet(w, T) = SumFunctionOnSet(w, R) + w[x]
      BY <3>2, <3>5
    <3>10. Apart(T)
      BY <1>1, <3>4, <3>5, <3>7, <3>8, <3>9
    <3>. QED BY <3>10
  <2>. QED BY <2>1, <2>2
<1>3. F = SUBSET B
  <2>. HIDE DEF F
  <2>1. F \in SUBSET SUBSET B
    BY DEF F
  <2>. QED BY <1>2, <2>1, SubsetInduction
<1>. QED BY <1>3

(* Weights that are read through an injection are those of its image. *)
LEMMA SumImage ==
  ASSUME NEW S, IsFiniteSet(S), NEW f, \A x, y \in S : f[x] = f[y] => x = y,
         NEW v, NEW w, Weighs(v, S), \A x \in S : v[x] = w[f[x]]
  PROVE  SumFunctionOnSet(w, {f[x] : x \in S}) = SumFunctionOnSet(v, S)
<1>. DEFINE Image(T) == {f[x] : x \in T}
            F == {T \in SUBSET S : SumFunctionOnSet(w, Image(T)) = SumFunctionOnSet(v, T)}
<1>1. ASSUME NEW T \in SUBSET S, \A x \in T : T \ {x} \in F PROVE T \in F
  <2>1. CASE T = {}
    <3>1. Image(T) = {}
      BY <2>1
    <3>. QED BY <2>1, <3>1, SumEmpty
  <2>2. CASE T # {}
    <3>1. PICK x \in T : TRUE
      BY <2>2
    <3>. DEFINE R == T \ {x}
    <3>2. R \in F /\ R \subseteq S /\ x \in S /\ x \notin R /\ T = R \union {x}
      BY <1>1, <3>1
    <3>3. Image(T) = Image(R) \union {f[x]} /\ f[x] \notin Image(R)
      BY <3>1
    <3>4. \A y \in Image(R) \union {f[x]} : w[y] \in Int
      BY <3>1 DEF Weighs
    <3>. DEFINE e == f[x]
    <3>. HIDE DEF R
    <3>5. IsFiniteSet(R) /\ Weighs(v, R \union {x})
      BY <3>2, FS_Subset DEF Weighs
    <3>6. IsFiniteSet(Image(R))
      <4>. DEFINE g == [y \in R |-> f[y]]
      <4>1. g \in Surjection(R, Image(R))
        BY DEF Surjection
      <4>. HIDE DEF F, g, Image
      <4>. QED BY <3>5, <4>1, FS_Surjection
    <3>7. SumFunctionOnSet(v, R \union {x}) = SumFunctionOnSet(v, R) + v[x]
      <4>. HIDE DEF F, Image
      <4>. QED BY ONLY <3>2, <3>5, SumAdd
    <3>8. SumFunctionOnSet(w, Image(R)) = SumFunctionOnSet(v, R) /\ v[x] = w[f[x]]
      BY <3>2
    <3>. HIDE DEF Image
    <3>9. SumFunctionOnSet(w, Image(R) \union {e}) = SumFunctionOnSet(w, Image(R)) + w[e]
      <4>1. Weighs(w, Image(R) \union {e}) /\ e \notin Image(R)
        BY <3>3, <3>4 DEF Weighs
      <4>. HIDE DEF e, F
      <4>. QED BY <3>6, <4>1, SumAdd
    <3>10. SumFunctionOnSet(w, Image(T)) = SumFunctionOnSet(v, T)
      BY <3>2, <3>3, <3>7, <3>8, <3>9
    <3>. QED BY <3>10
  <2>. QED BY <2>1, <2>2
<1>2. F = SUBSET S
  <2>. HIDE DEF F
  <2>1. F \in SUBSET SUBSET S
    BY DEF F
  <2>. QED BY <1>1, <2>1, SubsetInduction
<1>. QED BY <1>2

(* The members of a set that have one of the keys T, and the sums of those *)
(* that have each key.                                                     *)
Keyed(S, key, T) == {x \in S : key[x] \in T}
KeySums(v, w, S, key, K) == \A k \in K : v[k] = SumFunctionOnSet(w, Keyed(S, key, {k}))

(* The sums of the groups of a set, by a key, add up to the sum of those   *)
(* that have one of the keys.                                              *)
LEMMA SumByKey ==
  ASSUME NEW S, IsFiniteSet(S), NEW K, IsFiniteSet(K), NEW key, NEW w, Weighs(w, S),
         NEW v, KeySums(v, w, S, key, K)
  PROVE  SumFunctionOnSet(v, K) = SumFunctionOnSet(w, Keyed(S, key, K))
<1>. DEFINE Of(T) == Keyed(S, key, T)
            F == {T \in SUBSET K : SumFunctionOnSet(v, T) = SumFunctionOnSet(w, Of(T))}
<1>1. ASSUME NEW T PROVE IsFiniteSet(Of(T)) /\ Weighs(w, Of(T)) /\ SumFunctionOnSet(w, Of(T)) \in Int
  <2>1. Of(T) \subseteq S
    BY DEF Keyed
  <2>. HIDE DEF Of
  <2>2. IsFiniteSet(Of(T)) /\ Weighs(w, Of(T))
    BY <2>1, FS_Subset DEF Weighs
  <2>. QED BY <2>2, SumType
<1>2. \A k \in K : v[k] = SumFunctionOnSet(w, Of({k})) /\ v[k] \in Int
  <2>1. ASSUME NEW k \in K PROVE v[k] = SumFunctionOnSet(w, Of({k}))
    BY DEF KeySums
  <2>. HIDE DEF Of
  <2>. QED BY <1>1, <2>1
<1>3. ASSUME NEW T \in SUBSET K, \A x \in T : T \ {x} \in F PROVE T \in F
  <2>1. CASE T = {}
    <3>1. Of(T) = {}
      BY <2>1 DEF Keyed
    <3>. QED BY <2>1, <3>1, SumEmpty
  <2>2. CASE T # {}
    <3>1. PICK x \in T : TRUE
      BY <2>2
    <3>. DEFINE R == T \ {x}
    <3>2. R \in F /\ R \subseteq K /\ x \in K /\ x \notin R /\ T = R \union {x}
      BY <1>3, <3>1
    <3>3. Of(T) = Of(R) \union Of({x}) /\ Of(R) \intersect Of({x}) = {}
      BY <3>1 DEF Keyed
    <3>. HIDE DEF R
    <3>4. IsFiniteSet(R) /\ Weighs(v, R \union {x})
      <4>. HIDE DEF F, Of
      <4>. QED BY <1>2, <3>2, FS_Subset DEF Weighs
    <3>5. SumFunctionOnSet(v, R \union {x}) = SumFunctionOnSet(v, R) + v[x]
      <4>. HIDE DEF F, Of
      <4>. QED BY <3>2, <3>4, SumAdd
    <3>6. SumFunctionOnSet(w, Of(R) \union Of({x}))
            = SumFunctionOnSet(w, Of(R)) + SumFunctionOnSet(w, Of({x}))
      <4>. HIDE DEF F, Of
      <4>1. Weighs(w, Of(R) \union Of({x}))
        BY <1>1 DEF Weighs
      <4>. QED BY <1>1, <3>3, <4>1, SumUnion
    <3>7. SumFunctionOnSet(v, R) = SumFunctionOnSet(w, Of(R))
      BY <3>2
    <3>. HIDE DEF Of
    <3>8. SumFunctionOnSet(v, T) = SumFunctionOnSet(w, Of(T))
      BY <1>2, <3>2, <3>3, <3>5, <3>6, <3>7
    <3>. QED BY <3>8
  <2>. QED BY <2>1, <2>2
<1>4. F = SUBSET K
  <2>. HIDE DEF F
  <2>1. F \in SUBSET SUBSET K
    BY DEF F
  <2>. QED BY <1>3, <2>1, SubsetInduction
<1>. QED BY <1>4

(* A bounded set of naturals that is not empty has a maximum.              *)
LEMMA MaxOf ==
  ASSUME NEW n \in Nat, NEW S \in SUBSET (0..n), S # {}
  PROVE  Max(S) \in S /\ \A y \in S : y <= Max(S)
<1>. DEFINE R == OpToRel(<, Nat)
            T == {n - x : x \in S}
<1>1. IsWellFoundedOn(R, Nat) /\ T \subseteq Nat /\ T # {}
  <2>1. IsWellFoundedOn(R, Nat)
    BY NatLessThanWellFounded
  <2>2. \A x \in S : n - x \in Nat
    OBVIOUS
  <2>3. PICK x : x \in S
    OBVIOUS
  <2>4. n - x \in T
    BY <2>3
  <2>. HIDE DEF R
  <2>5. T \subseteq Nat /\ T # {}
    BY <2>2, <2>4
  <2>. QED BY <2>1, <2>5
<1>2. PICK t \in T : \A y \in T : ~ (<<y, t>> \in R)
  <2>. HIDE DEF R, T
  <2>. QED BY <1>1, WFMin
<1>3. \A y \in T : ~ (y < t)
  BY <1>1, <1>2 DEF OpToRel
<1>4. PICK x \in S : t = n - x
  BY <1>2
<1>5. \A y \in S : x >= y
  BY <1>3, <1>4
<1>6. \E z \in S : \A y \in S : z >= y
  BY <1>4, <1>5
<1>7. Max(S) \in S /\ \A y \in S : Max(S) >= y
  BY <1>6 DEF Max
<1>. QED BY <1>7

(* A finite set as a sequence: each element once, and nothing else.        *)
LEMMA SeqOfSet ==
  ASSUME NEW S, IsFiniteSet(S)
  PROVE  /\ SetToSeq(S) \in [1..Cardinality(S) -> S] /\ Cardinality(S) \in Nat
         /\ \A x \in S : \E n \in 1..Cardinality(S) : SetToSeq(S)[n] = x
         /\ \A m, n \in 1..Cardinality(S) : SetToSeq(S)[m] = SetToSeq(S)[n] => m = n
<1>. DEFINE D == 1..Cardinality(S)
<1>1. Cardinality(S) \in Nat /\ ExistsBijection(D, S)
  BY FS_CardinalityType
<1>2. PICK f \in [D -> S] : IsInjective(f)
  BY <1>1 DEF ExistsBijection, Bijection, Injection
<1>3. SetToSeq(S) \in [D -> S] /\ IsInjective(SetToSeq(S))
  BY <1>2 DEF SetToSeq
<1>. DEFINE s == SetToSeq(S)
<1>4. s \in Injection(D, S)
  BY <1>3 DEF Injection
<1>5. IsFiniteSet(D) /\ Cardinality(D) = Cardinality(S)
  BY <1>1, FS_Interval
<1>. HIDE DEF s
<1>6. s \in Surjection(D, S)
  <2>. HIDE DEF D
  <2>. QED BY <1>4, <1>5, FS_Injection
<1>7. \A x \in S : \E n \in D : s[n] = x
  BY <1>6 DEF Surjection
<1>8. \A m, n \in D : s[m] = s[n] => m = n
  BY <1>4 DEF Injection, IsInjective
<1>. QED BY <1>1, <1>3, <1>7, <1>8 DEF s

(***************************************************************************)
(* Types.                                                                  *)
(***************************************************************************)
Ids  == {Plan[n].id : n \in DOMAIN Plan}
Days == 1..MaxDay
Row  ==
  [spend : Int, reqs : SUBSET Requests, unpriced : Int, last : 0..MaxDay,
   marked : BOOLEAN, regions : [Regions -> Int], fixes : SUBSET Ids,
   fix : Ids \union {Nil}, fixDay : 0..MaxDay, stamp : Nat, notified : Nat, restored : BOOLEAN]
Image == [item : Items, old : Row, new : Row]
RowsOK   == rows \in [Items -> Row] /\ stream \in Seq(Image) /\ stamps \in Nat
LedgerOK ==
  /\ ledger \in [Items -> [usd : [Days -> Int], newest : 0..MaxDay]]
  /\ fold \subseteq Items
Position == [pc : {"idle", "check", "write", "put", "complete"}, n : Nat]
RunOK(r) ==
  /\ r.pc \in {"check", "write", "put"} => r.n \in DOMAIN Plan
  /\ r.pc = "complete" => r.n = Len(Plan)
RunsOK == run \in [Runs -> Position] /\ \A o \in Runs : RunOK(run[o])
TypeOK == RowsOK /\ LedgerOK /\ RunsOK

(* The empty row is a row. *)
LEMMA NoRowTyped == NoRow \in Row
BY TableAssumption DEF NoRow, Row

(* The rows of before the ledger are rows no correction was made to. *)
LEMMA OldRowTyped ==
  ASSUME NEW i \in DOMAIN OldRows
  PROVE  OldRows[i] \in Row /\ OldRows[i].fixes = {}
<1>. DEFINE r == OldRows[i]
<1>1. r \in [spend : Nat, reqs : SUBSET Requests, unpriced : Nat, last : 0..MaxDay,
            marked : BOOLEAN, regions : [Regions -> Nat], fixes : {{}}, fix : {Nil},
            fixDay : {0}, stamp : {0}, notified : {0}, restored : BOOLEAN]
  BY OldRowsAssumption
<1>. HIDE DEF r
<1>2. /\ r = [spend |-> r.spend, reqs |-> r.reqs, unpriced |-> r.unpriced, last |-> r.last,
             marked |-> r.marked, regions |-> r.regions, fixes |-> r.fixes, fix |-> r.fix,
             fixDay |-> r.fixDay, stamp |-> r.stamp, notified |-> r.notified,
             restored |-> r.restored]
      /\ r.spend \in Int /\ r.reqs \in SUBSET Requests /\ r.unpriced \in Int
      /\ r.last \in 0..MaxDay /\ r.marked \in BOOLEAN /\ r.regions \in [Regions -> Int]
      /\ r.fixes = {} /\ r.fix = Nil /\ r.fixDay = 0 /\ r.stamp = 0 /\ r.notified \in Nat
      /\ r.restored \in BOOLEAN
  BY <1>1
<1>3. 0 \in 0..MaxDay
  BY TableAssumption
<1>4. r \in Row
  BY <1>2, <1>3 DEF Row
<1>. QED BY <1>2, <1>4 DEF r

(* The rows of before the ledger are rows of the table. *)
LEMMA OldItems == DOMAIN OldRows \subseteq Items
<1>. DEFINE A == UNION {ItemsOf(q) : q \in Requests}
            B == DOMAIN OldRows
<1>1. Items = A \union B
  BY DEF Items
<1>. HIDE DEF A
<1>. QED BY <1>1

(* A request is metered in finitely many rows, its primary one among them. *)
LEMMA RequestItems ==
  ASSUME NEW q \in Requests
  PROVE  /\ IsFiniteSet(ItemsOf(q)) /\ ItemsOf(q) \subseteq Items
         /\ Primary(q) \in ItemsOf(q)
<1>. DEFINE r == Req[q]
            Item(k) == <<k[1], k[2], Period(k, r.day)>>
            a == <<r.p, r.model>>
            b == <<r.p, r.profile>>
            c == <<r.lens, r.model>>
            three == (({} \union {Item(a)}) \union {Item(b)}) \union {Item(c)}
<1>1. KeysOf(q) \subseteq {a, b, c} /\ a \in KeysOf(q)
  BY DEF KeysOf
<1>2. ItemsOf(q) = {Item(k) : k \in KeysOf(q)}
  BY DEF ItemsOf
<1>. HIDE DEF Item, a, b, c
<1>3. ItemsOf(q) \subseteq three
  BY <1>1, <1>2
<1>4. IsFiniteSet(three)
  BY FS_EmptySet, FS_AddElement
<1>5. IsFiniteSet(ItemsOf(q))
  BY <1>3, <1>4, FS_Subset
<1>6. Primary(q) = Item(a)
  BY DEF Primary, Item, a
<1>. QED BY <1>1, <1>2, <1>5, <1>6 DEF Items

(* The parts of a planned correction. *)
LEMMA Correction ==
  ASSUME NEW n \in DOMAIN Plan
  PROVE  /\ Plan[n].req \in Requests /\ Plan[n].id \in Ids /\ Plan[n].id # Nil
         /\ IsFiniteSet(ToFix(Plan[n])) /\ ToFix(Plan[n]) \subseteq Items
         /\ Usd(Plan[n]) \in Int
BY PlanAssumption, RequestsAssumption, RequestItems DEF ToFix, Usd, Ids

(***************************************************************************)
(* What a write of rows does to the table and its stream.                  *)
(***************************************************************************)
Writable(new) == DOMAIN new \subseteq Items /\ IsFiniteSet(DOMAIN new) /\ \A i \in DOMAIN new : new[i] \in Row

(* A write changes the rows it names and no others. *)
LEMMA WriteTable ==
  ASSUME TypeOK, NEW new, Writable(new), Write(new)
  PROVE  /\ rows' \in [Items -> Row]
         /\ \A i \in Items : rows'[i] = IF i \in DOMAIN new THEN new[i] ELSE rows[i]
<1>1. \A i \in DOMAIN new : new[i] \in Row
  BY DEF Writable
<1>2. rows' = [i \in Items |-> IF i \in DOMAIN new THEN new[i] ELSE rows[i]]
  BY DEF Write
<1>. QED BY <1>1, <1>2 DEF TypeOK, RowsOK

(* A write appends one record to the stream for each row it names, with its old and
   its new image. *)
LEMMA WriteStream ==
  ASSUME TypeOK, NEW new, Writable(new), Write(new)
  PROVE  /\ stream' \in Seq(Image)
         /\ Len(stream) \in Nat /\ Len(stream') \in Nat /\ Len(stream) <= Len(stream')
         /\ \A n \in 1..Len(stream) : stream'[n] = stream[n]
         /\ \A n \in (Len(stream) + 1)..Len(stream') :
              /\ stream'[n].item \in DOMAIN new
              /\ stream'[n].old = rows[stream'[n].item]
              /\ stream'[n].new = new[stream'[n].item]
         /\ \A i \in DOMAIN new : \E n \in (Len(stream) + 1)..Len(stream') : stream'[n].item = i
         /\ \A m, n \in (Len(stream) + 1)..Len(stream') :
              stream'[m].item = stream'[n].item => m = n
<1>. DEFINE order == SetToSeq(DOMAIN new)
            K == Cardinality(DOMAIN new)
            R == Records(new)
<1>1. /\ order \in [1..K -> DOMAIN new] /\ K \in Nat
      /\ \A x \in DOMAIN new : \E n \in 1..K : order[n] = x
      /\ \A m, n \in 1..K : order[m] = order[n] => m = n
  BY SeqOfSet DEF Writable
<1>2. R = [n \in 1..K |-> [item |-> order[n], old |-> rows[order[n]], new |-> new[order[n]]]]
  BY <1>1 DEF Records
<1>. HIDE DEF order, K
<1>3. \A n \in 1..K : /\ R[n].item = order[n] /\ R[n].old = rows[order[n]] /\ R[n].new = new[order[n]]
                      /\ R[n] \in Image
  BY <1>1, <1>2 DEF Writable, Image, TypeOK, RowsOK
<1>4. R \in Seq(Image) /\ Len(R) = K
  <2>1. R \in [1..K -> Image]
    BY <1>1, <1>2, <1>3
  <2>. HIDE DEF R
  <2>. QED BY <1>1, <2>1
<1>5. stream' = stream \o R /\ stream \in Seq(Image)
  BY DEF Write, TypeOK, RowsOK
<1>. HIDE DEF R
<1>6. /\ stream' \in Seq(Image) /\ Len(stream) \in Nat /\ Len(stream') = Len(stream) + K
      /\ \A n \in 1..Len(stream) : stream'[n] = stream[n]
      /\ \A n \in 1..K : stream'[Len(stream) + n] = R[n]
  BY <1>1, <1>4, <1>5
<1>7. \A n \in (Len(stream) + 1)..Len(stream') : n - Len(stream) \in 1..K
                                                 /\ stream'[n] = R[n - Len(stream)]
  BY <1>1, <1>6
<1>8. \A n \in (Len(stream) + 1)..Len(stream') :
         /\ stream'[n].item = order[n - Len(stream)] /\ stream'[n].item \in DOMAIN new
         /\ stream'[n].old = rows[stream'[n].item]
         /\ stream'[n].new = new[stream'[n].item]
  BY <1>1, <1>3, <1>7
<1>9. ASSUME NEW i \in DOMAIN new
      PROVE  \E n \in (Len(stream) + 1)..Len(stream') : stream'[n].item = i
  <2>1. PICK n \in 1..K : order[n] = i
    BY <1>1
  <2>2. Len(stream) + n \in (Len(stream) + 1)..Len(stream')
    BY <1>1, <1>6
  <2>3. stream'[Len(stream) + n].item = i
    BY <1>3, <1>6, <2>1
  <2>. QED BY <2>2, <2>3
<1>10. ASSUME NEW m \in (Len(stream) + 1)..Len(stream'), NEW n \in (Len(stream) + 1)..Len(stream'),
              stream'[m].item = stream'[n].item
       PROVE  m = n
  <2>1. m - Len(stream) = n - Len(stream)
    BY <1>1, <1>7, <1>8, <1>10
  <2>. QED BY <1>6, <2>1
<1>11. Len(stream') \in Nat /\ Len(stream) <= Len(stream')
  BY <1>1, <1>6
<1>. QED BY <1>6, <1>8, <1>9, <1>10, <1>11

(***************************************************************************)
(* The ways a row changes: by the meter, by enforcement, by a correction,  *)
(* to nothing, and back from nothing.                                      *)
(***************************************************************************)
Metered1(q, i, r) ==
  [r EXCEPT !.reqs = @ \union {q}, !.last = Req[q].day, !.marked = @ \/ i[1] = Req[q].lens,
     !.spend = @ + (IF q \in NoPrice THEN 0 ELSE Req[q].usd),
     !.regions[Req[q].region] = @ + (IF q \in NoPrice THEN 0 ELSE Req[q].usd),
     !.unpriced = @ + IF q \in NoPrice THEN 1 ELSE 0]
MeterChange(i, r, s) ==
  \E q \in Requests : i \in ItemsOf(q) /\ q \notin r.reqs /\ s = Metered1(q, i, r)
StampChange(r, s) == \E n \in Nat : s = [r EXCEPT !.stamp = n]
FixChange(i, r, s) ==
  \E n \in DOMAIN Plan : i \in ToFix(Plan[n]) /\ Fixable(r, Plan[n]) /\ s = Fixed(r, Plan[n])
GoneChange(i, gone, r, s) ==
  s = NoRow /\ (i \in gone \/ (i \in DOMAIN OldRows /\ r = OldRows[i]))
BackChange(i, r, s) == r = NoRow /\ s = Rebuilt(i)
Change(i, gone, r, s) ==
  \/ MeterChange(i, r, s) \/ StampChange(r, s) \/ FixChange(i, r, s)
  \/ GoneChange(i, gone, r, s) \/ BackChange(i, r, s)

(* What the meter makes of a row.                                          *)
LEMMA MeterFields ==
  ASSUME NEW i \in Items, NEW r \in Row, NEW q \in Requests
  PROVE  LET s == Metered1(q, i, r) IN
         /\ s \in Row
         /\ s.reqs = r.reqs \union {q} /\ s.last = Req[q].day
         /\ s.marked = (r.marked \/ i[1] = Req[q].lens)
         /\ s.spend = r.spend + (IF q \in NoPrice THEN 0 ELSE Req[q].usd)
         /\ s.unpriced = r.unpriced + (IF q \in NoPrice THEN 1 ELSE 0)
         /\ s.fixes = r.fixes /\ s.fix = r.fix
<1>. DEFINE usd == IF q \in NoPrice THEN 0 ELSE Req[q].usd
            one == IF q \in NoPrice THEN 1 ELSE 0
            g == [r.regions EXCEPT ![Req[q].region] = @ + usd]
            day == Req[q].day
            marked == r.marked \/ i[1] = Req[q].lens
            s == [r EXCEPT !.reqs = @ \union {q}, !.last = day,
                    !.marked = marked, !.spend = @ + usd,
                    !.regions = g, !.unpriced = @ + one]
<1>1. usd \in Int /\ one \in Int /\ day \in 0..MaxDay /\ Req[q].region \in Regions
      /\ marked \in BOOLEAN
  BY RequestsAssumption, TableAssumption DEF Row
<1>2. Metered1(q, i, r) = s
  BY DEF Metered1, Row
<1>. HIDE DEF usd, one
<1>3. g \in [Regions -> Int]
  BY <1>1 DEF Row
<1>. HIDE DEF g, marked, day
<1>4. day \in 0..MaxDay /\ marked \in BOOLEAN
  BY <1>1 DEF day, marked
<1>5. s \in Row
  <2>1. r.spend + usd \in Int /\ r.unpriced + one \in Int /\ r.reqs \union {q} \in SUBSET Requests
    BY <1>1 DEF Row
  <2>. QED BY <1>1, <1>3, <1>4, <2>1 DEF Row
<1>6. /\ s.reqs = r.reqs \union {q} /\ s.last = day /\ s.marked = marked
      /\ s.spend = r.spend + usd /\ s.unpriced = r.unpriced + one
      /\ s.fixes = r.fixes /\ s.fix = r.fix
  BY DEF Row
<1>. QED BY <1>2, <1>5, <1>6 DEF usd, one, day, marked

(* A stamp leaves everything else of a row. *)
LEMMA StampFields ==
  ASSUME NEW r \in Row, NEW n \in Nat
  PROVE  LET s == [r EXCEPT !.stamp = n] IN
         /\ s \in Row
         /\ s.reqs = r.reqs /\ s.last = r.last /\ s.marked = r.marked /\ s.spend = r.spend
         /\ s.unpriced = r.unpriced /\ s.fixes = r.fixes /\ s.fix = r.fix
BY DEF Row

(* What a correction makes of a row. *)
LEMMA FixFields ==
  ASSUME NEW r \in Row, NEW n \in DOMAIN Plan
  PROVE  LET c == Plan[n]
             s == Fixed(r, c)
         IN
         /\ s \in Row
         /\ s.reqs = IF c.known THEN r.reqs ELSE r.reqs \union {c.req}
         /\ s.marked = r.marked
         /\ s.spend = r.spend + Usd(c)
         /\ s.unpriced = r.unpriced - (IF c.known THEN 1 ELSE 0)
         /\ s.fixes = r.fixes \union {c.id} /\ s.fix = c.id
<1>. DEFINE c == Plan[n]
            usd == Usd(c)
            day == Req[c.req].day
            one == IF c.known THEN 1 ELSE 0
            g == [r.regions EXCEPT ![Req[c.req].region] = @ + usd]
            s == [r EXCEPT !.spend = @ + usd, !.fixes = @ \union {c.id}, !.regions = g,
                    !.fix = c.id, !.fixDay = day, !.last = IF @ = 0 THEN day ELSE @,
                    !.unpriced = @ - one,
                    !.reqs = IF c.known THEN @ ELSE @ \union {c.req}]
<1>1. usd \in Int /\ one \in Int /\ c.id \in Ids /\ c.req \in Requests
  BY Correction
<1>2. Fixed(r, c) = s
  BY DEF Fixed, Row
<1>3. day \in 0..MaxDay /\ Req[c.req].region \in Regions
  BY <1>1, RequestsAssumption, TableAssumption
<1>. HIDE DEF usd, one, day
<1>4. g \in [Regions -> Int]
  BY <1>1, <1>3 DEF Row
<1>. HIDE DEF g, c
<1>5. s \in Row
  <2>1. (IF r.last = 0 THEN day ELSE r.last) \in 0..MaxDay
    BY <1>3 DEF Row
  <2>2. (IF c.known THEN r.reqs ELSE r.reqs \union {c.req}) \in SUBSET Requests
    BY <1>1 DEF Row
  <2>3. r.spend + usd \in Int /\ r.unpriced - one \in Int /\ r.fixes \union {c.id} \in SUBSET Ids
    BY <1>1 DEF Row
  <2>. QED BY <1>1, <1>3, <1>4, <2>1, <2>2, <2>3 DEF Row
<1>6. /\ s.reqs = (IF c.known THEN r.reqs ELSE r.reqs \union {c.req})
      /\ s.marked = r.marked /\ s.spend = r.spend + usd /\ s.unpriced = r.unpriced - one
      /\ s.fixes = r.fixes \union {c.id} /\ s.fix = c.id
  BY DEF Row
<1>. QED BY <1>2, <1>5, <1>6 DEF usd, one, c

(* The row that the backfill puts has no request, no mark and no correction. *)
LEMMA BackFields ==
  ASSUME TypeOK, NEW i \in Items
  PROVE  LET s == Rebuilt(i) IN
         /\ s \in Row /\ s.reqs = {} /\ s.marked = FALSE /\ s.spend = 0 /\ s.unpriced = 0
         /\ s.fixes = {} /\ s.fix = Nil
<1>1. ledger[i].newest \in 0..MaxDay
  BY DEF TypeOK, LedgerOK
<1>2. NoRow \in Row /\ NoRow.reqs = {} /\ NoRow.marked = FALSE /\ NoRow.unpriced = 0
      /\ NoRow.fixes = {} /\ NoRow.fix = Nil
  BY NoRowTyped DEF NoRow
<1>3. Rebuilt(i) = [NoRow EXCEPT !.spend = 0, !.last = ledger[i].newest, !.restored = TRUE]
  BY DEF Rebuilt, FlatDollars
<1>. QED BY <1>1, <1>2, <1>3 DEF Row

(* A change of a row makes a row. *)
LEMMA ChangeTyped ==
  ASSUME TypeOK, NEW gone, NEW i \in Items, NEW s, Change(i, gone, rows[i], s)
  PROVE  s \in Row
<1>1. rows[i] \in Row
  BY DEF TypeOK, RowsOK
<1>2. CASE MeterChange(i, rows[i], s)
  <2>1. PICK q \in Requests : s = Metered1(q, i, rows[i])
    BY <1>2 DEF MeterChange
  <2>. QED BY <1>1, <2>1, MeterFields
<1>3. CASE StampChange(rows[i], s)
  BY <1>1, <1>3, StampFields DEF StampChange
<1>4. CASE FixChange(i, rows[i], s)
  BY <1>1, <1>4, FixFields DEF FixChange
<1>5. CASE GoneChange(i, gone, rows[i], s)
  BY <1>5, NoRowTyped DEF GoneChange
<1>6. CASE BackChange(i, rows[i], s)
  BY <1>6, BackFields DEF BackChange
<1>. QED BY <1>2, <1>3, <1>4, <1>5, <1>6 DEF Change

(***************************************************************************)
(* The forms of a step: the rows and the stream stay, the ledger writer    *)
(* takes a record off the stream, or rows are written, each in one of the  *)
(* ways above.                                                             *)
(***************************************************************************)
Still ==
  /\ rows' = rows /\ stream' = stream
  /\ LedgerAgain \/ (ledger' = ledger /\ spoiled' = spoiled)
Consumed ==
  /\ rows' = rows /\ stream # <<>> /\ stream' = Tail(stream)
  /\ LedgerBatch \/ LedgerGivesUp
Writes(new) ==
  /\ Writable(new) /\ Write(new)
  /\ ledger' = ledger /\ spoiled' = spoiled
  /\ \A i \in DOMAIN new : Change(i, lost', rows[i], new[i])
SomeWrite == \E new : Writes(new)

(* A change of one row that leaves the ledger alone is a write. *)
LEMMA OneWrite ==
  ASSUME TypeOK, NEW i \in Items, NEW s, WriteOne(i, s), Change(i, lost', rows[i], s),
         ledger' = ledger, spoiled' = spoiled
  PROVE  SomeWrite
<1>. DEFINE new == [j \in {i} |-> s]
<1>1. DOMAIN new = {i} /\ new[i] = s /\ IsFiniteSet({i})
  BY FS_Singleton
<1>2. s \in Row
  BY ChangeTyped
<1>3. Write(new)
  BY DEF WriteOne
<1>. HIDE DEF new
<1>4. Writes(new)
  BY <1>1, <1>2, <1>3 DEF Writes, Writable
<1>. QED BY <1>4 DEF SomeWrite

(* A charge of the meter is a write. *)
LEMMA MeterStep ==
  ASSUME TypeOK, NEW q \in Requests, NEW i \in ItemsOf(q), MeterWrites(q, i),
         UNCHANGED ledgerVars
  PROVE  SomeWrite
<1>. DEFINE s == Metered1(q, i, rows[i])
<1>1. i \in Items /\ ledger' = ledger /\ spoiled' = spoiled
  BY RequestItems DEF ledgerVars
<1>2. WriteOne(i, s) /\ q \notin rows[i].reqs
  BY DEF MeterWrites, Metered1
<1>. HIDE DEF s
<1>3. Change(i, lost', rows[i], s)
  BY <1>2 DEF Change, MeterChange, s
<1>. QED BY <1>1, <1>2, <1>3, OneWrite

(* A stamp, or its removal, is a write. *)
LEMMA StampStep ==
  ASSUME TypeOK, NEW i \in Items, EnforcementStamps(i) \/ StampCleared(i),
         UNCHANGED ledgerVars
  PROVE  SomeWrite
<1>1. stamps + 1 \in Nat /\ 0 \in Nat /\ ledger' = ledger /\ spoiled' = spoiled
  BY DEF TypeOK, RowsOK, ledgerVars
<1>2. PICK n \in Nat : WriteOne(i, [rows[i] EXCEPT !.stamp = n])
  BY <1>1 DEF EnforcementStamps, StampCleared
<1>. DEFINE s == [rows[i] EXCEPT !.stamp = n]
<1>3. Change(i, lost', rows[i], s)
  BY DEF Change, StampChange
<1>. HIDE DEF s
<1>. QED BY <1>1, <1>2, <1>3, OneWrite DEF s

(* The loss of a row is a write. *)
LEMMA GoneStep ==
  ASSUME TypeOK, NEW i \in Items, RowDisappears(i)
  PROVE  SomeWrite
<1>1. WriteOne(i, NoRow) /\ i \in lost' /\ ledger' = ledger /\ spoiled' = spoiled
  BY DEF RowDisappears
<1>2. Change(i, lost', rows[i], NoRow)
  BY <1>1 DEF Change, GoneChange
<1>. QED BY <1>1, <1>2, OneWrite

(* A put of the backfill writes a row that was gone, or nothing. *)
LEMMA BackStep ==
  ASSUME TypeOK, NEW i \in Items, BackfillPut(i)
  PROVE  Still \/ SomeWrite
<1>1. CASE rows[i] = NoRow
  <2>1. WriteOne(i, Rebuilt(i)) /\ ledger' = ledger /\ spoiled' = spoiled
    BY <1>1 DEF BackfillPut
  <2>2. Change(i, lost', rows[i], Rebuilt(i))
    BY <1>1 DEF Change, BackChange
  <2>. QED BY <2>1, <2>2, OneWrite
<1>2. CASE rows[i] # NoRow
  BY <1>2 DEF BackfillPut, Still
<1>. QED BY <1>1, <1>2

(* A call of the repair script writes the rows it has to correct, or nothing. *)
LEMMA RepairStep ==
  ASSUME TypeOK, NEW o \in Runs, RepairWrites(o), UNCHANGED ledgerVars
  PROVE  Still \/ SomeWrite
<1>. DEFINE c == Current(o)
            D == ToFix(c) \union ({c.source} \ {Nil})
            new == [i \in D |-> IF i \in ToFix(c) THEN Fixed(rows[i], c) ELSE NoRow]
            Done == (\A i \in ToFix(c) : Fixable(rows[i], c)) /\ SourceUntouched(c)
<1>1. run[o].n \in DOMAIN Plan /\ c = Plan[run[o].n]
  BY DEF RepairWrites, At, Current, TypeOK, RunsOK, RunOK
<1>2. IsFiniteSet(ToFix(c)) /\ ToFix(c) \subseteq Items
  BY <1>1, Correction
<1>3. CASE ~Done
  BY <1>3 DEF RepairWrites, ledgerVars, Still
<1>4. CASE Done
  <2>1. Write(new) /\ ledger' = ledger /\ spoiled' = spoiled
    BY <1>4 DEF RepairWrites, ledgerVars
  <2>2. c.source # Nil => c.source \in DOMAIN OldRows /\ rows[c.source] = OldRows[c.source]
    BY <1>4 DEF SourceUntouched
  <2>3. D \subseteq Items /\ IsFiniteSet(D)
    <3>. DEFINE S == {c.source} \ {Nil}
    <3>1. IsFiniteSet({c.source}) /\ S \in SUBSET {c.source}
      BY FS_Singleton
    <3>2. S \subseteq DOMAIN OldRows
      BY <2>2
    <3>. HIDE DEF S
    <3>3. IsFiniteSet(S)
      BY <3>1, FS_Subset
    <3>4. IsFiniteSet(ToFix(c) \union S)
      BY <1>2, <3>3, FS_Union
    <3>5. D = ToFix(c) \union S
      BY DEF S
    <3>6. DOMAIN OldRows \subseteq Items
      BY OldItems
    <3>. HIDE DEF c, D
    <3>. QED BY <1>2, <3>2, <3>4, <3>5, <3>6
  <2>4. ASSUME NEW i \in D PROVE Change(i, lost', rows[i], new[i])
    <3>1. CASE i \in ToFix(c)
      <4>1. new[i] = Fixed(rows[i], c) /\ Fixable(rows[i], c)
        BY <1>4, <3>1
      <4>. HIDE DEF new, Done
      <4>. QED BY <1>1, <3>1, <4>1 DEF Change, FixChange
    <3>2. CASE i \notin ToFix(c)
      <4>1. new[i] = NoRow /\ i \in DOMAIN OldRows /\ rows[i] = OldRows[i]
        BY <2>2, <3>2
      <4>. HIDE DEF new, Done
      <4>. QED BY <4>1 DEF Change, GoneChange
    <3>. QED BY <3>1, <3>2
  <2>5. DOMAIN new = D
    OBVIOUS
  <2>. HIDE DEF new, D, Done, c
  <2>6. \A i \in D : new[i] \in Row
    BY <2>3, <2>4, ChangeTyped
  <2>. QED BY <2>1, <2>3, <2>4, <2>5, <2>6 DEF SomeWrite, Writes, Writable
<1>. QED BY <1>3, <1>4

(* Every step leaves the table and its stream, is one of the ledger writer, or is a
   write. *)
LEMMA StepForm ==
  ASSUME TypeOK, [Next]_vars
  PROVE  Still \/ Consumed \/ SomeWrite
<1>1. CASE UNCHANGED vars
  BY <1>1 DEF vars, tableVars, ledgerVars, Still
<1>2. CASE TableNext /\ UNCHANGED <<ledgerVars, repairVars, rec>>
  <2>1. CASE NextDay
    BY <1>2, <2>1 DEF NextDay, ledgerVars, Still
  <2>2. ASSUME NEW q \in Requests, NEW i \in ItemsOf(q), MeterWrites(q, i) PROVE SomeWrite
    BY <1>2, <2>2, MeterStep
  <2>3. ASSUME NEW i \in Items, EnforcementStamps(i) \/ StampCleared(i) PROVE SomeWrite
    BY <1>2, <2>3, StampStep
  <2>. QED BY <1>2, <2>1, <2>2, <2>3 DEF TableNext
<1>3. CASE LedgerNext /\ UNCHANGED <<repairVars, rec>>
  <2>1. CASE LedgerBatch \/ LedgerGivesUp
    BY <2>1 DEF LedgerBatch, LedgerGivesUp, Consumed
  <2>2. CASE LedgerAgain \/ BackfillReads
    BY <2>2 DEF LedgerAgain, BackfillReads, tableVars, Still
  <2>3. ASSUME NEW i \in Items, RowDisappears(i) PROVE SomeWrite
    BY <2>3, GoneStep
  <2>4. ASSUME NEW i \in Items, BackfillPut(i) PROVE Still \/ SomeWrite
    BY <2>4, BackStep
  <2>. QED BY <1>3, <2>1, <2>2, <2>3, <2>4 DEF LedgerNext
<1>4. CASE RepairNext /\ UNCHANGED <<ledgerVars, rec>>
  <2>1. ASSUME NEW o \in Runs,
               RepairStarts(o) \/ RepairChecks(o) \/ RepairPuts(o) \/ RepairCompletes(o)
                 \/ RepairDies(o)
        PROVE  Still
    BY <1>4, <2>1 DEF RepairStarts, RepairChecks, RepairPuts, RepairCompletes, RepairDies,
                      tableVars, ledgerVars, Still
  <2>2. ASSUME NEW o \in Runs, RepairWrites(o) PROVE Still \/ SomeWrite
    BY <1>4, <2>2, RepairStep
  <2>. QED BY <1>4, <2>1, <2>2 DEF RepairNext
<1>5. CASE CurNext /\ UNCHANGED <<ledgerVars, repairVars>>
  BY <1>5 DEF CurNext, Reconcile, Report, tableVars, ledgerVars, Still
<1>. QED BY <1>1, <1>2, <1>3, <1>4, <1>5 DEF Next

(***************************************************************************)
(* The types are preserved.                                                *)
(***************************************************************************)
LEMMA RowsTyped ==
  ASSUME TypeOK, Still \/ Consumed \/ SomeWrite
  PROVE  rows' \in [Items -> Row] /\ stream' \in Seq(Image)
<1>1. rows \in [Items -> Row] /\ stream \in Seq(Image)
  BY DEF TypeOK, RowsOK
<1>2. CASE Still
  BY <1>1, <1>2 DEF Still
<1>3. CASE Consumed
  BY <1>1, <1>3 DEF Consumed
<1>4. CASE SomeWrite
  <2>1. PICK new : Writable(new) /\ Write(new)
    BY <1>4 DEF SomeWrite, Writes
  <2>. QED BY <2>1, WriteTable, WriteStream
<1>. QED BY <1>2, <1>3, <1>4

(* What an object of the first n records adds to the ledger. *)
LinesOf(n, i) == {m \in 1..n : stream[m].item = i /\ HasLine(stream[m])}
(* The usage line of a record has the difference of its images and the day of the
   new one. *)
LEMMA LineTyped ==
  ASSUME TypeOK, NEW m \in DOMAIN stream
  PROVE  /\ stream[m] \in Image
         /\ Line(stream[m]).usd \in Int /\ Line(stream[m]).day \in 0..MaxDay
         /\ Line(stream[m]).usd = stream[m].new.spend - stream[m].old.spend
         /\ Line(stream[m]).day = stream[m].new.last
<1>1. stream[m] \in Image
  BY DEF TypeOK, RowsOK
<1>. QED BY <1>1 DEF Image, Row, Line

(* The numbers up to a record's are finitely many. *)
LEMMA PrefixFinite ==
  ASSUME NEW n \in Nat
  PROVE  IsFiniteSet(1..n)
BY FS_Interval

(* An object that the ledger writer puts keeps the ledger typed. *)
LEMMA ObjectTyped ==
  ASSUME TypeOK, NEW n \in DOMAIN stream, Object(n)
  PROVE  ledger' \in [Items -> [usd : [Days -> Int], newest : 0..MaxDay]]
<1>. DEFINE usds == [m \in 1..n |-> Line(stream[m]).usd]
            on(i, d) == {m \in LinesOf(n, i) : Line(stream[m]).day = d}
            to(i) == [usd |-> [d \in 1..MaxDay |->
                                 ledger[i].usd[d] + SumFunctionOnSet(usds, on(i, d))],
                      newest |-> Line(stream[Max(LinesOf(n, i))]).day]
<1>1. n \in Nat /\ 1..n \subseteq DOMAIN stream /\ IsFiniteSet(1..n)
  <2>1. n \in 1..Len(stream) /\ Len(stream) \in Nat
    BY DEF TypeOK, RowsOK
  <2>2. DOMAIN stream = 1..Len(stream)
    BY DEF TypeOK, RowsOK
  <2>3. IsFiniteSet(1..n)
    BY <2>1, PrefixFinite
  <2>. QED BY <2>1, <2>2, <2>3
<1>2. ledger' = [i \in Items |-> IF LinesOf(n, i) = {} THEN ledger[i] ELSE to(i)]
  BY DEF Object, LinesOf
<1>3. ASSUME NEW i \in Items, LinesOf(n, i) # {}
      PROVE  to(i) \in [usd : [Days -> Int], newest : 0..MaxDay]
  <2>1. ASSUME NEW d \in Days PROVE SumFunctionOnSet(usds, on(i, d)) \in Int
    <3>1. on(i, d) \subseteq 1..n
      BY DEF LinesOf
    <3>2. Weighs(usds, on(i, d))
      BY <1>1, <3>1, LineTyped DEF Weighs
    <3>. HIDE DEF usds, on
    <3>. QED BY <1>1, <3>1, <3>2, SumType, FS_Subset
  <2>2. ledger[i].usd \in [Days -> Int]
    BY DEF TypeOK, LedgerOK
  <2>3. Max(LinesOf(n, i)) \in DOMAIN stream
    <3>1. LinesOf(n, i) \in SUBSET (0..n)
      BY <1>1 DEF LinesOf
    <3>2. Max(LinesOf(n, i)) \in LinesOf(n, i)
      BY <1>1, <1>3, <3>1, MaxOf
    <3>. QED BY <1>1, <3>2 DEF LinesOf
  <2>4. to(i).newest \in 0..MaxDay
    BY <2>3, LineTyped
  <2>. HIDE DEF usds, on
  <2>5. to(i).usd = [d \in Days |-> ledger[i].usd[d] + SumFunctionOnSet(usds, on(i, d))]
    BY DEF Days
  <2>6. \A d \in Days : ledger[i].usd[d] + SumFunctionOnSet(usds, on(i, d)) \in Int
    BY <2>1, <2>2
  <2>7. to(i).usd \in [Days -> Int]
    BY <2>5, <2>6
  <2>. QED BY <2>4, <2>7
<1>4. \A i \in Items : ledger[i] \in [usd : [Days -> Int], newest : 0..MaxDay]
  BY DEF TypeOK, LedgerOK
<1>. HIDE DEF to
<1>. QED BY <1>2, <1>3, <1>4

(* Every step keeps the ledger typed. *)
LEMMA LedgerTyped ==
  ASSUME TypeOK, [Next]_vars
  PROVE  LedgerOK'
<1>. USE DEF LedgerOK
<1>1. ledger \in [Items -> [usd : [Days -> Int], newest : 0..MaxDay]] /\ fold \subseteq Items
  BY DEF TypeOK
<1>2. CASE UNCHANGED ledgerVars
  BY <1>1, <1>2 DEF ledgerVars
<1>3. CASE LedgerNext
  <2>1. CASE LedgerBatch
    <3>1. 1 \in DOMAIN stream
      BY <2>1 DEF LedgerBatch, TypeOK, RowsOK
    <3>2. Object(1) /\ fold' = fold
      BY <2>1 DEF LedgerBatch
    <3>. QED BY <1>1, <3>1, <3>2, ObjectTyped
  <2>2. CASE LedgerAgain
    <3>1. PICK n \in DOMAIN stream : Object(n)
      BY <2>2 DEF LedgerAgain
    <3>2. fold' = fold
      BY <2>2 DEF LedgerAgain
    <3>. QED BY <1>1, <3>1, <3>2, ObjectTyped
  <2>3. CASE LedgerGivesUp \/ BackfillReads
    BY <1>1, <2>3 DEF LedgerGivesUp, BackfillReads
  <2>4. CASE \E i \in Items : RowDisappears(i) \/ BackfillPut(i)
    BY <1>1, <2>4 DEF RowDisappears, BackfillPut
  <2>. QED BY <1>3, <2>1, <2>2, <2>3, <2>4 DEF LedgerNext
<1>. QED BY <1>2, <1>3 DEF Next, vars

(* Every step keeps the runs of the repair script typed. *)
LEMMA RunsTyped ==
  ASSUME TypeOK, [Next]_vars
  PROVE  RunsOK'
<1>. USE DEF RunsOK
<1>1. run \in [Runs -> Position] /\ \A o \in Runs : RunOK(run[o])
  BY DEF TypeOK
<1>2. CASE run' = run
  BY <1>1, <1>2
<1>3. ASSUME NEW o \in Runs, NEW s, s \in Position, RunOK(s),
             run' = [run EXCEPT ![o] = s]
      PROVE  RunsOK'
  <2>1. run' \in [Runs -> Position]
    BY <1>1, <1>3
  <2>2. \A p \in Runs : run'[p] = IF p = o THEN s ELSE run[p]
    BY <1>1, <1>3
  <2>. QED BY <1>1, <1>3, <2>1, <2>2
<1>4. Len(Plan) \in Nat \ {0} /\ DOMAIN Plan = 1..Len(Plan)
  BY PlanAssumption
<1>5. ASSUME NEW o \in Runs, Ends(o) PROVE RunsOK'
  <2>1. NotRunning \in Position /\ RunOK(NotRunning)
    BY <1>4 DEF NotRunning, RunOK, Position
  <2>. QED BY <1>3, <1>5, <2>1 DEF Ends
<1>6. ASSUME NEW o \in Runs, NEW pc \in {"put", "write"}, Goto(o, pc), run[o].n \in DOMAIN Plan
      PROVE  RunsOK'
  <2>. DEFINE s == [pc |-> pc, n |-> run[o].n]
  <2>1. run' = [run EXCEPT ![o] = s]
    <3>1. run[o] \in Position
      BY <1>1
    <3>2. [run[o] EXCEPT !.pc = pc] = s
      BY <3>1 DEF Position
    <3>. QED BY <1>6, <3>2 DEF Goto
  <2>2. s \in Position /\ RunOK(s)
    BY <1>4, <1>6 DEF RunOK, Position
  <2>. HIDE DEF s
  <2>. QED BY <1>3, <2>1, <2>2
<1>7. ASSUME NEW o \in Runs, NextCorrection(o), run[o].n \in DOMAIN Plan PROVE RunsOK'
  <2>1. CASE run[o].n < Len(Plan)
    <3>. DEFINE s == [pc |-> "check", n |-> run[o].n + 1]
    <3>1. run' = [run EXCEPT ![o] = s]
      BY <1>7, <2>1 DEF NextCorrection
    <3>2. s \in Position /\ RunOK(s)
      BY <1>4, <1>7, <2>1 DEF RunOK, Position
    <3>. HIDE DEF s
    <3>. QED BY <1>3, <3>1, <3>2
  <2>2. CASE ~(run[o].n < Len(Plan))
    <3>. DEFINE s == [pc |-> "complete", n |-> run[o].n]
    <3>1. run' = [run EXCEPT ![o] = s]
      BY <1>1, <1>7, <2>2 DEF NextCorrection, Goto, Position
    <3>2. s \in Position /\ RunOK(s)
      BY <1>4, <1>7, <2>2 DEF RunOK, Position
    <3>. HIDE DEF s
    <3>. QED BY <1>3, <3>1, <3>2
  <2>. QED BY <2>1, <2>2
<1>8. CASE RepairNext
  <2>. SUFFICES ASSUME NEW o \in Runs,
                       \/ RepairStarts(o) \/ RepairChecks(o) \/ RepairWrites(o)
                       \/ RepairPuts(o) \/ RepairCompletes(o) \/ RepairDies(o)
                PROVE  RunsOK'
    BY <1>8 DEF RepairNext
  <2>0. At(o, "check") \/ At(o, "write") \/ At(o, "put") => run[o].n \in DOMAIN Plan
    BY <1>1 DEF At, RunOK
  <2>1. CASE RepairStarts(o)
    <3>. DEFINE s == [pc |-> "check", n |-> 1]
    <3>1. s \in Position /\ RunOK(s)
      BY <1>4 DEF RunOK, Position
    <3>2. run' = [run EXCEPT ![o] = s]
      BY <2>1 DEF RepairStarts
    <3>. HIDE DEF s
    <3>. QED BY <1>3, <3>1, <3>2
  <2>2. CASE RepairChecks(o)
    BY <1>5, <1>6, <2>0, <2>2 DEF RepairChecks
  <2>3. CASE RepairWrites(o)
    BY <1>5, <1>6, <2>0, <2>3 DEF RepairWrites
  <2>4. CASE RepairPuts(o)
    BY <1>7, <2>0, <2>4 DEF RepairPuts
  <2>5. CASE RepairCompletes(o) \/ RepairDies(o)
    BY <1>5, <2>5 DEF RepairCompletes, RepairDies
  <2>. QED BY <2>1, <2>2, <2>3, <2>4, <2>5
<1>. QED BY <1>2, <1>8 DEF Next, vars, repairVars

(* The types hold at first. *)
LEMMA InitTyped ==
  ASSUME Init
  PROVE  TypeOK
<1>1. RowsOK
  <2>1. \A i \in Items : rows[i] = IF i \in DOMAIN OldRows THEN OldRows[i] ELSE NoRow
    BY DEF Init, TableInit
  <2>2. rows = [i \in Items |-> rows[i]] /\ stream = <<>> /\ stamps = 0
    BY DEF Init, TableInit
  <2>. QED BY <2>1, <2>2, OldRowTyped, NoRowTyped DEF RowsOK
<1>2. LedgerOK
  <2>1. 0 \in 0..MaxDay
    BY TableAssumption
  <2>. QED BY <2>1 DEF Init, LedgerInit, LedgerOK, Days
<1>3. RunsOK
  BY PlanAssumption DEF Init, RepairInit, RunsOK, RunOK, NotRunning, Position
<1>. QED BY <1>1, <1>2, <1>3 DEF TypeOK

(* Every step keeps the types. *)
LEMMA StepTyped ==
  ASSUME TypeOK, [Next]_vars
  PROVE  TypeOK'
<1>1. rows' \in [Items -> Row] /\ stream' \in Seq(Image)
  BY StepForm, RowsTyped
<1>2. stamps' \in Nat
  <2>1. stamps' = stamps \/ stamps' = stamps + 1
    <3>1. CASE UNCHANGED vars
      BY <3>1 DEF vars, tableVars
    <3>2. CASE TableNext
      BY <3>2 DEF TableNext, NextDay, MeterWrites, EnforcementStamps, StampCleared
    <3>3. CASE LedgerNext
      BY <3>3 DEF LedgerNext, LedgerBatch, LedgerAgain, LedgerGivesUp, BackfillReads,
                  RowDisappears, BackfillPut, tableVars
    <3>4. CASE RepairNext
      BY <3>4 DEF RepairNext, RepairStarts, RepairChecks, RepairWrites, RepairPuts,
                  RepairCompletes, RepairDies, tableVars
    <3>5. CASE CurNext
      BY <3>5 DEF CurNext, Reconcile, Report, tableVars
    <3>. QED BY <3>1, <3>2, <3>3, <3>4, <3>5 DEF Next
  <2>. QED BY <2>1 DEF TypeOK, RowsOK
<1>. QED BY <1>1, <1>2, LedgerTyped, RunsTyped DEF TypeOK, RowsOK

(* The types of the spend table, its stream, its repairs and the ledger, for any
   requests, plan and bounds. *)
THEOREM TypeCorrect == Spec => []TypeOK
<1>1. Init => TypeOK
  BY InitTyped
<1>2. TypeOK /\ [Next]_vars => TypeOK'
  BY StepTyped
<1>. QED BY <1>1, <1>2, PTL DEF Spec

(***************************************************************************)
(* A backfill replaces nothing: only its Put takes an item off its list.   *)
(***************************************************************************)
THEOREM BackfillReplacesNothingHolds == Spec => BackfillReplacesNothing
<1>. DEFINE A == \A i \in fold : i \notin fold' /\ rows[i] # NoRow => rows'[i] = rows[i]
<1>1. ASSUME [Next]_vars PROVE A
  <2>1. CASE fold' = fold
    BY <2>1
  <2>2. CASE BackfillReads
    BY <2>2 DEF BackfillReads
  <2>3. ASSUME NEW j \in Items, BackfillPut(j) PROVE A
    BY <2>3 DEF BackfillPut
  <2>4. CASE LedgerNext
    BY <2>1, <2>2, <2>3, <2>4 DEF LedgerNext, LedgerBatch, LedgerAgain, LedgerGivesUp, RowDisappears
  <2>. HIDE DEF A
  <2>. QED BY <1>1, <2>1, <2>4 DEF Next, vars, ledgerVars
<1>. HIDE DEF A
<1>2. [][Next]_vars => [][A]_vars
  BY <1>1, PTL
<1>. QED BY <1>2 DEF Spec, BackfillReplacesNothing, A

(***************************************************************************)
(* What a row says of its requests: those that are paid make up its        *)
(* dollars, the others are counted as unpriced, and what was corrected is  *)
(* listed.                                                                 *)
(***************************************************************************)
FixedOn(r) == {Plan[n].req : n \in {m \in DOMAIN Plan : Plan[m].id \in r.fixes}}
PaidOn(r)  == {q \in r.reqs : q \notin NoPrice \/ q \in FixedOn(r)}
Charged(r) ==
  /\ r.spend = SumFunctionOnSet(UsdOf, PaidOn(r))
  /\ r.unpriced = Cardinality(r.reqs \ PaidOn(r))
  /\ \A n \in DOMAIN Plan : Plan[n].id \in r.fixes => Plan[n].req \in r.reqs

(* Sets of requests are finite and each request has a price. *)
LEMMA UsdWeighs ==
  ASSUME NEW S \in SUBSET Requests
  PROVE  IsFiniteSet(S) /\ Weighs(UsdOf, S)
<1>1. IsFiniteSet(S)
  BY TableAssumption, FS_Subset
<1>2. Weighs(UsdOf, S)
  BY RequestsAssumption DEF Weighs, UsdOf
<1>. QED BY <1>1, <1>2

(* A charge keeps the price of the row: what its requests cost, less what is
   unpriced, with what was corrected. *)
LEMMA ChargedMeter ==
  ASSUME NEW i \in Items, NEW r \in Row, NEW s, MeterChange(i, r, s), Charged(r)
  PROVE  Charged(s)
<1>1. PICK q \in Requests : q \notin r.reqs /\ s = Metered1(q, i, r)
  BY DEF MeterChange
<1>2. /\ s.reqs = r.reqs \union {q} /\ s.fixes = r.fixes
      /\ s.spend = r.spend + (IF q \in NoPrice THEN 0 ELSE Req[q].usd)
      /\ s.unpriced = r.unpriced + (IF q \in NoPrice THEN 1 ELSE 0)
  <2>. DEFINE t == Metered1(q, i, r)
  <2>1. /\ t.reqs = r.reqs \union {q} /\ t.fixes = r.fixes
        /\ t.spend = r.spend + (IF q \in NoPrice THEN 0 ELSE Req[q].usd)
        /\ t.unpriced = r.unpriced + (IF q \in NoPrice THEN 1 ELSE 0)
    BY MeterFields
  <2>. HIDE DEF t
  <2>2. s = t
    BY <1>1 DEF t
  <2>. QED BY <2>1, <2>2
<1>. DEFINE P == PaidOn(r)
            U == r.reqs \ P
<1>3. P \in SUBSET Requests /\ U \in SUBSET Requests /\ q \notin P /\ q \notin U
  BY <1>1 DEF PaidOn, Row
<1>4. FixedOn(s) = FixedOn(r) /\ q \notin FixedOn(r)
  BY <1>1, <1>2 DEF Charged, FixedOn
<1>5. \A n \in DOMAIN Plan : Plan[n].id \in s.fixes => Plan[n].req \in s.reqs
  BY <1>2 DEF Charged
<1>6. r.spend = SumFunctionOnSet(UsdOf, P) /\ r.unpriced = Cardinality(U)
  BY DEF Charged
<1>7. CASE q \in NoPrice
  <2>1. PaidOn(s) = P /\ s.reqs \ P = U \union {q}
    BY <1>2, <1>3, <1>4, <1>7 DEF PaidOn
  <2>. HIDE DEF P, U
  <2>2. Cardinality(U \union {q}) = Cardinality(U) + 1
    BY <1>3, FS_AddElement, UsdWeighs
  <2>3. s.spend = SumFunctionOnSet(UsdOf, P)
    BY <1>2, <1>6, <1>7 DEF Row
  <2>. QED BY <1>2, <1>5, <1>6, <1>7, <2>1, <2>2, <2>3 DEF Charged
<1>8. CASE q \notin NoPrice
  <2>1. PaidOn(s) = P \union {q} /\ s.reqs \ (P \union {q}) = U
    BY <1>2, <1>3, <1>4, <1>8 DEF PaidOn
  <2>. HIDE DEF P, U
  <2>2. P \union {q} \in SUBSET Requests /\ UsdOf[q] = Req[q].usd
    BY <1>3 DEF UsdOf
  <2>3. SumFunctionOnSet(UsdOf, P \union {q}) = SumFunctionOnSet(UsdOf, P) + Req[q].usd
    BY <1>3, <2>2, SumAdd, UsdWeighs
  <2>4. s.unpriced = Cardinality(U)
    BY <1>2, <1>6, <1>8 DEF Row
  <2>. QED BY <1>2, <1>5, <1>6, <1>8, <2>1, <2>3, <2>4 DEF Charged
<1>. QED BY <1>7, <1>8

(* A correction keeps it. *)
LEMMA ChargedFix ==
  ASSUME NEW i \in Items, NEW r \in Row, NEW s, FixChange(i, r, s), Charged(r)
  PROVE  Charged(s)
<1>1. PICK n \in DOMAIN Plan : Fixable(r, Plan[n]) /\ s = Fixed(r, Plan[n])
  BY DEF FixChange
<1>. DEFINE c == Plan[n]
            q == c.req
            P == PaidOn(r)
            U == r.reqs \ P
<1>2. /\ s.reqs = (IF c.known THEN r.reqs ELSE r.reqs \union {q})
      /\ s.fixes = r.fixes \union {c.id} /\ s.spend = r.spend + Usd(c)
      /\ s.unpriced = r.unpriced - (IF c.known THEN 1 ELSE 0)
  BY <1>1, FixFields
<1>3. c.id \notin r.fixes /\ (c.known <=> q \in r.reqs) /\ c.known \in BOOLEAN
  BY <1>1, PlanAssumption DEF Fixable
<1>4. q \in Requests /\ UsdOf[q] = Usd(c) /\ (c.known => q \in NoPrice)
  BY Correction, PlanAssumption DEF UsdOf, Usd
<1>5. \A m \in DOMAIN Plan : (Plan[m].id = c.id \/ Plan[m].req = q) => m = n
  BY PlanAssumption
<1>6. q \notin FixedOn(r) /\ FixedOn(s) = FixedOn(r) \union {q}
  BY <1>2, <1>3, <1>5 DEF FixedOn
<1>7. \A m \in DOMAIN Plan : Plan[m].id \in s.fixes => Plan[m].req \in s.reqs
  <2>. TAKE m \in DOMAIN Plan
  <2>1. CASE m = n
    BY <1>2, <1>3, <2>1
  <2>2. CASE m # n
    BY <1>2, <1>5, <2>2 DEF Charged
  <2>. QED BY <2>1, <2>2
<1>8. r.spend = SumFunctionOnSet(UsdOf, P) /\ r.unpriced = Cardinality(U)
  BY DEF Charged
<1>9. P \in SUBSET Requests /\ U \in SUBSET Requests /\ q \notin P /\ r.reqs \in SUBSET Requests
  BY <1>3, <1>4, <1>6 DEF PaidOn, Row
<1>10. PaidOn(s) = P \union {q}
  <2>1. \A x : x \in s.reqs <=> x \in r.reqs \/ x = q
    BY <1>2, <1>3
  <2>2. q \in FixedOn(s)
    BY <1>6
  <2>. QED BY <1>6, <2>1, <2>2 DEF PaidOn
<1>11. s.unpriced = Cardinality(s.reqs \ PaidOn(s))
  <2>1. CASE c.known
    <3>1. q \in U /\ s.reqs \ (P \union {q}) = U \ {q}
      BY <1>2, <1>3, <1>9, <2>1
    <3>2. s.unpriced = r.unpriced - 1
      BY <1>2, <2>1
    <3>. HIDE DEF U, P, q, c
    <3>3. Cardinality(U \ {q}) = Cardinality(U) - 1
      BY <1>9, <3>1, FS_RemoveElement, UsdWeighs
    <3>. QED BY <1>8, <1>10, <3>1, <3>2, <3>3
  <2>2. CASE ~c.known
    <3>1. s.reqs \ (P \union {q}) = U
      BY <1>2, <1>3, <1>9, <2>2
    <3>2. s.unpriced = r.unpriced
      BY <1>2, <2>2 DEF Row
    <3>. QED BY <1>8, <1>10, <3>1, <3>2
  <2>. QED BY <2>1, <2>2
<1>12. s.spend = SumFunctionOnSet(UsdOf, PaidOn(s))
  <2>. HIDE DEF P, q, c
  <2>1. P \union {q} \in SUBSET Requests
    BY <1>4, <1>9
  <2>2. SumFunctionOnSet(UsdOf, P \union {q}) = SumFunctionOnSet(UsdOf, P) + Usd(c)
    BY <1>4, <1>9, <2>1, SumAdd, UsdWeighs
  <2>. QED BY <1>2, <1>8, <1>10, <2>2
<1>. QED BY <1>7, <1>11, <1>12 DEF Charged

(* It holds of an empty row. *)
LEMMA ChargedEmpty ==
  ASSUME NEW r, r.reqs = {}, r.fixes = {}, r.spend = 0, r.unpriced = 0
  PROVE  Charged(r)
<1>1. PaidOn(r) = {} /\ r.reqs \ PaidOn(r) = {}
  BY DEF PaidOn
<1>2. Cardinality({}) = 0
  BY FS_EmptySet
<1>. QED BY <1>1, <1>2, SumEmpty DEF Charged

(* Every change of a row that was never lost keeps it. *)
LEMMA ChargedChange ==
  ASSUME TypeOK, NEW i \in Items \ DOMAIN OldRows, NEW gone, i \notin gone, NEW s,
         Change(i, gone, rows[i], s), Charged(rows[i])
  PROVE  Charged(s)
<1>1. rows[i] \in Row
  BY DEF TypeOK, RowsOK
<1>2. CASE StampChange(rows[i], s)
  <2>1. PICK n \in Nat : s = [rows[i] EXCEPT !.stamp = n]
    BY <1>2 DEF StampChange
  <2>2. s.reqs = rows[i].reqs /\ s.fixes = rows[i].fixes /\ s.spend = rows[i].spend
        /\ s.unpriced = rows[i].unpriced
    BY <1>1, <2>1, StampFields
  <2>3. FixedOn(s) = FixedOn(rows[i])
    BY <2>2 DEF FixedOn
  <2>4. PaidOn(s) = PaidOn(rows[i])
    BY <2>2, <2>3 DEF PaidOn
  <2>. QED BY <2>2, <2>4 DEF Charged
<1>3. CASE BackChange(i, rows[i], s)
  BY <1>3, BackFields, ChargedEmpty DEF BackChange
<1>. QED BY <1>1, <1>2, <1>3, ChargedMeter, ChargedFix DEF Change, GoneChange

ChargedInv == \A i \in Items \ DOMAIN OldRows : Intact(i) => Charged(rows[i])

(* A row that was lost counts as lost for good. *)
LEMMA LostGrows ==
  ASSUME [Next]_vars
  PROVE  lost \subseteq lost'
<1>1. CASE UNCHANGED ledgerVars
  BY <1>1 DEF ledgerVars
<1>2. CASE LedgerNext
  BY <1>2 DEF LedgerNext, LedgerBatch, LedgerAgain, LedgerGivesUp, BackfillReads, RowDisappears,
              BackfillPut
<1>. QED BY <1>1, <1>2 DEF Next, vars

(* A row that is neither lost nor the source of a move keeps or changes.   *)
LEMMA RowStep ==
  ASSUME TypeOK, [Next]_vars, NEW i \in Items
  PROVE  rows'[i] = rows[i] \/ Change(i, lost', rows[i], rows'[i])
<1>1. CASE Still \/ Consumed
  BY <1>1 DEF Still, Consumed
<1>2. CASE SomeWrite
  <2>1. PICK new : Writes(new)
    BY <1>2 DEF SomeWrite
  <2>2. rows'[i] = IF i \in DOMAIN new THEN new[i] ELSE rows[i]
    BY <2>1, WriteTable DEF Writes
  <2>3. i \in DOMAIN new => Change(i, lost', rows[i], new[i])
    BY <2>1 DEF Writes
  <2>. QED BY <2>2, <2>3
<1>. QED BY <1>1, <1>2, StepForm

(* A row that is not older than the ledger and was never lost has charged  *)
(* what it lists, whatever wrote it.                                       *)
LEMMA ChargedAlways == Spec => []ChargedInv
<1>1. ASSUME Init PROVE ChargedInv
  <2>1. \A i \in Items \ DOMAIN OldRows : rows[i] = NoRow
    BY <1>1 DEF Init, TableInit
  <2>2. NoRow.reqs = {} /\ NoRow.fixes = {} /\ NoRow.spend = 0 /\ NoRow.unpriced = 0
    BY DEF NoRow
  <2>. QED BY <2>1, <2>2, ChargedEmpty DEF ChargedInv
<1>2. ASSUME TypeOK, ChargedInv, [Next]_vars PROVE ChargedInv'
  <2>. SUFFICES ASSUME NEW i \in Items \ DOMAIN OldRows, i \notin lost'
                PROVE  Charged(rows'[i])
    BY DEF ChargedInv, Intact, Charged, PaidOn, FixedOn
  <2>1. Charged(rows[i])
    BY <1>2, LostGrows DEF ChargedInv, Intact
  <2>2. rows'[i] = rows[i] \/ Change(i, lost', rows[i], rows'[i])
    BY <1>2, RowStep
  <2>. QED BY <1>2, <2>1, <2>2, ChargedChange
<1>. QED BY <1>1, <1>2, TypeCorrect, PTL DEF Spec

(* ChargedOrOutstanding for any requests, prices and plan: a row has charged what
   its requests cost, or counts them as unpriced. *)
THEOREM ChargedOrOutstandingHolds == Spec => []ChargedOrOutstanding
<1>1. ChargedInv => ChargedOrOutstanding
  <2>1. \A i : Paid(i) = PaidOn(rows[i])
    BY DEF Paid, PaidOn, FixedIn, FixedOn
  <2>. QED BY <2>1 DEF ChargedInv, ChargedOrOutstanding, Charged
<1>. QED BY <1>1, ChargedAlways, PTL

(***************************************************************************)
(* A run that goes on has the corrections behind it done.                  *)
(***************************************************************************)
Marked(n) == \A i \in ToFix(Plan[n]) : Intact(i) => Plan[n].id \in rows[i].fixes
Behind(n) == Plan[n].id \in objects /\ Marked(n)
RunDone(o) ==
  /\ \A m \in DOMAIN Plan :
       /\ run[o].pc # "idle" /\ m < run[o].n => Behind(m)
       /\ run[o].pc = "complete" => Behind(m)
       /\ run[o].pc = "put" /\ m = run[o].n => Marked(m)
CompletedInv ==
  /\ \A o \in Runs : RunDone(o)
  /\ completed => \A m \in DOMAIN Plan : Behind(m)

(* A correction stays on a row that is there: a row is emptied only when   *)
(* it is lost, or is the source of a move and as it was at first.          *)
LEMMA FixesGrow ==
  ASSUME TypeOK, [Next]_vars, NEW i \in Items, i \notin lost'
  PROVE  rows[i].fixes \subseteq rows'[i].fixes
<1>. DEFINE r == rows[i]
            s == rows'[i]
<1>. SUFFICES r.fixes \subseteq s.fixes
  OBVIOUS
<1>1. r \in Row
  BY DEF TypeOK, RowsOK
<1>2. s = r \/ Change(i, lost', r, s)
  BY RowStep
<1>. HIDE DEF r, s
<1>3. CASE s = r
  BY <1>3
<1>4. CASE MeterChange(i, r, s)
  <2>1. PICK q \in Requests : s = Metered1(q, i, r)
    BY <1>4 DEF MeterChange
  <2>. QED BY <1>1, <2>1, MeterFields
<1>5. CASE StampChange(r, s)
  BY <1>1, <1>5, StampFields DEF StampChange
<1>6. CASE FixChange(i, r, s)
  <2>1. PICK n \in DOMAIN Plan : s = Fixed(r, Plan[n])
    BY <1>6 DEF FixChange
  <2>. QED BY <1>1, <2>1, FixFields
<1>7. CASE GoneChange(i, lost', r, s)
  BY <1>7, OldRowTyped DEF GoneChange
<1>8. CASE BackChange(i, r, s)
  BY <1>8 DEF BackChange, NoRow
<1>. QED BY <1>3, <1>4, <1>5, <1>6, <1>7, <1>8, <1>2 DEF Change

(* A correction that is on all the rows of its request stays there. *)
LEMMA MarkedStays ==
  ASSUME TypeOK, [Next]_vars, NEW n \in DOMAIN Plan, Marked(n)
  PROVE  Marked(n)'
<1>1. ASSUME NEW i \in ToFix(Plan[n]), i \notin lost'
      PROVE  Plan[n].id \in rows'[i].fixes
  <2>1. i \in Items /\ i \notin lost
    BY <1>1, Correction, LostGrows
  <2>2. Plan[n].id \in rows[i].fixes
    BY <1>1, <2>1 DEF Marked, Intact
  <2>. QED BY <1>1, <2>1, <2>2, FixesGrow
<1>. QED BY <1>1 DEF Marked, Intact

(* An object of the ledger is never deleted. *)
LEMMA ObjectsGrow ==
  ASSUME [Next]_vars
  PROVE  objects \subseteq objects'
<1>1. CASE UNCHANGED repairVars
  BY <1>1 DEF repairVars
<1>2. CASE RepairNext
  BY <1>2 DEF RepairNext, RepairStarts, RepairChecks, RepairWrites, RepairPuts, RepairCompletes,
              RepairDies
<1>. QED BY <1>1, <1>2 DEF Next, vars

(* A correction that is on all its rows and in the ledger stays so. *)
LEMMA BehindStays ==
  ASSUME TypeOK, [Next]_vars, NEW n \in DOMAIN Plan, Behind(n)
  PROVE  Behind(n)'
BY MarkedStays, ObjectsGrow DEF Behind

(* A correction that is written is on all its rows.                        *)
LEMMA WriteMarks ==
  ASSUME TypeOK, NEW o \in Runs, RepairWrites(o), run'[o].pc = "put", NEW n, n = run[o].n
  PROVE  Marked(n)'
<1>. DEFINE c == Current(o)
            D == ToFix(c) \union ({c.source} \ {Nil})
            new == [i \in D |-> IF i \in ToFix(c) THEN Fixed(rows[i], c) ELSE NoRow]
            Done == (\A i \in ToFix(c) : Fixable(rows[i], c)) /\ SourceUntouched(c)
<1>1. n \in DOMAIN Plan /\ c = Plan[n]
  BY DEF RepairWrites, At, Current, TypeOK, RunsOK, RunOK
<1>2. ToFix(c) \subseteq Items
  BY <1>1, Correction
<1>3. Done
  <2>1. ~Done => run' = [run EXCEPT ![o] = NotRunning]
    BY DEF RepairWrites, Ends
  <2>. HIDE DEF Done
  <2>2. ~Done => run'[o].pc = "idle"
    BY <2>1 DEF TypeOK, RunsOK, NotRunning
  <2>. QED BY <2>2
<1>4. Write(new)
  BY <1>3 DEF RepairWrites
<1>5. ASSUME NEW i \in ToFix(c) PROVE c.id \in rows'[i].fixes
  <2>1. rows'[i] = Fixed(rows[i], c)
    BY <1>2, <1>4, <1>5 DEF Write
  <2>2. rows[i] \in Row
    BY <1>2, <1>5 DEF TypeOK, RowsOK
  <2>. HIDE DEF c
  <2>3. Fixed(rows[i], c).fixes = rows[i].fixes \union {c.id}
    BY <1>1, <2>2, FixFields
  <2>. QED BY <2>1, <2>3
<1>. HIDE DEF c, new, Done
<1>6. \A i \in ToFix(Plan[n]) : Plan[n].id \in rows'[i].fixes
  BY <1>1, <1>5
<1>. QED BY <1>6 DEF Marked

(* A call of one run leaves every run with its obligations met. *)
LEMMA RunStep ==
  ASSUME TypeOK, [Next]_vars, CompletedInv,
         NEW o \in Runs, NEW p \in Runs,
         \/ RepairStarts(o) \/ RepairChecks(o) \/ RepairWrites(o)
         \/ RepairPuts(o) \/ RepairCompletes(o) \/ RepairDies(o),
         UNCHANGED ledgerVars
  PROVE  RunDone(p)'
<1>0. PICK n : n = run[p].n
  OBVIOUS
<1>1. RunDone(p) /\ run \in [Runs -> Position] /\ RunOK(run[o])
  BY DEF CompletedInv, TypeOK, RunsOK
<1>2. CASE run'[p] = run[p]
  BY <1>1, <1>2, BehindStays, MarkedStays DEF RunDone
<1>3. CASE run'[p].pc = "idle"
  BY <1>3 DEF RunDone
<1>4. p # o => run'[p] = run[p]
  BY <1>1 DEF RepairStarts, RepairChecks, RepairWrites, RepairPuts, RepairCompletes, RepairDies,
              NextCorrection, Goto, Ends
<1>5. Ends(o) /\ p = o => run'[p].pc = "idle"
  BY <1>1 DEF Ends, NotRunning
<1>6. ASSUME NEW pc \in {"put", "write", "complete"}, Goto(o, pc), p = o
      PROVE  run'[p].pc = pc /\ run'[p].n = run[p].n
  BY <1>1, <1>6 DEF Goto, Position
<1>7. Len(Plan) \in Nat \ {0} /\ DOMAIN Plan = 1..Len(Plan)
  BY PlanAssumption
<1>8. CASE RepairStarts(o) /\ p = o
  <2>1. run'[p].pc = "check" /\ run'[p].n = 1
    BY <1>1, <1>8 DEF RepairStarts
  <2>. QED BY <1>7, <2>1 DEF RunDone
<1>9. CASE RepairChecks(o) /\ p = o
  <2>1. run[p].pc = "check" /\ run[p].n \in DOMAIN Plan /\ rows' = rows /\ lost' = lost
    BY <1>1, <1>9 DEF RepairChecks, At, RunOK, tableVars, ledgerVars
  <2>2. CASE Goto(o, "put") /\ {i \in ToFix(Current(o)) : Current(o).id \in rows[i].fixes}
                                 = ToFix(Current(o))
    <3>1. Marked(n)'
      BY <1>0, <1>9, <2>1, <2>2 DEF Marked, Current, Intact
    <3>2. run'[p].pc = "put" /\ run'[p].n = run[p].n
      BY <1>6, <1>9, <2>2
    <3>. QED BY <1>0, <1>1, <2>1, <3>1, <3>2, BehindStays DEF RunDone
  <2>3. CASE Goto(o, "write")
    <3>1. run'[p].pc = "write" /\ run'[p].n = run[p].n
      BY <1>6, <1>9, <2>3
    <3>. QED BY <1>1, <2>1, <3>1, BehindStays DEF RunDone
  <2>. QED BY <1>3, <1>5, <1>9, <2>2, <2>3 DEF RepairChecks
<1>10. CASE RepairWrites(o) /\ p = o
  <2>1. run[p].pc = "write" /\ run[p].n \in DOMAIN Plan
    BY <1>1, <1>10 DEF RepairWrites, At, RunOK
  <2>2. CASE Goto(o, "put")
    <3>1. run'[p].pc = "put" /\ run'[p].n = run[p].n
      BY <1>6, <1>10, <2>2
    <3>2. Marked(n)'
      BY <1>0, <1>10, <3>1, WriteMarks
    <3>. QED BY <1>0, <1>1, <2>1, <3>1, <3>2, BehindStays DEF RunDone
  <2>. QED BY <1>3, <1>5, <1>10, <2>2 DEF RepairWrites
<1>11. CASE RepairPuts(o) /\ p = o
  <2>1. run[p].pc = "put" /\ n \in DOMAIN Plan /\ n \in Nat
    BY <1>0, <1>1, <1>11 DEF RepairPuts, At, RunOK, Position
  <2>2. Behind(n)'
    <3>1. Marked(n)'
      BY <1>0, <1>1, <2>1, MarkedStays DEF RunDone
    <3>2. Plan[n].id \in objects'
      BY <1>0, <1>11 DEF RepairPuts, Current
    <3>. QED BY <3>1, <3>2 DEF Behind
  <2>3. \A m \in DOMAIN Plan : m < n => Behind(m)'
    BY <1>0, <1>1, <2>1, BehindStays DEF RunDone
  <2>4. \A m \in DOMAIN Plan : m < n + 1 => Behind(m)'
    BY <1>7, <2>1, <2>2, <2>3
  <2>5. CASE n < Len(Plan)
    <3>1. run'[p].pc = "check" /\ run'[p].n = n + 1
      BY <1>0, <1>1, <1>11, <2>5 DEF RepairPuts, NextCorrection
    <3>. QED BY <2>4, <3>1 DEF RunDone
  <2>6. CASE ~(n < Len(Plan))
    <3>1. run'[p].pc = "complete" /\ run'[p].n = n
      BY <1>0, <1>6, <1>11, <2>6 DEF RepairPuts, NextCorrection
    <3>2. \A m \in DOMAIN Plan : m < n + 1
      BY <1>7, <2>1, <2>6
    <3>. QED BY <2>4, <3>1, <3>2 DEF RunDone
  <2>. QED BY <2>5, <2>6
<1>12. CASE (RepairCompletes(o) \/ RepairDies(o)) /\ p = o
  BY <1>3, <1>5, <1>12 DEF RepairCompletes, RepairDies
<1>. QED BY <1>2, <1>4, <1>8, <1>9, <1>10, <1>11, <1>12

(* Every run has done what is behind it, and so has a completed plan. *)
LEMMA CompletedAlways == Spec => []CompletedInv
<1>1. ASSUME Init PROVE CompletedInv
  BY <1>1 DEF Init, RepairInit, NotRunning, CompletedInv, RunDone
<1>2. ASSUME TypeOK, CompletedInv, [Next]_vars PROVE CompletedInv'
  <2>1. CASE UNCHANGED repairVars
    <3>1. \A p \in Runs : RunDone(p)'
      BY <1>2, <2>1, BehindStays, MarkedStays DEF CompletedInv, RunDone, repairVars
    <3>2. completed' => \A m \in DOMAIN Plan : Behind(m)'
      BY <1>2, <2>1, BehindStays DEF CompletedInv, repairVars
    <3>. QED BY <3>1, <3>2 DEF CompletedInv
  <2>2. CASE RepairNext /\ UNCHANGED ledgerVars
    <3>1. PICK o \in Runs : \/ RepairStarts(o) \/ RepairChecks(o) \/ RepairWrites(o)
                            \/ RepairPuts(o) \/ RepairCompletes(o) \/ RepairDies(o)
      BY <2>2 DEF RepairNext
    <3>2. \A p \in Runs : RunDone(p)'
      BY <1>2, <2>2, <3>1, RunStep
    <3>3. completed' => \A m \in DOMAIN Plan : Behind(m)
      <4>1. CASE RepairCompletes(o)
        BY <1>2, <4>1 DEF RepairCompletes, At, CompletedInv, RunDone
      <4>2. CASE completed' = completed
        BY <1>2, <4>2 DEF CompletedInv
      <4>. QED BY <3>1, <4>1, <4>2 DEF RepairStarts, RepairChecks, RepairWrites, RepairPuts,
                                       RepairDies
    <3>4. completed' => \A m \in DOMAIN Plan : Behind(m)'
      BY <1>2, <3>3, BehindStays
    <3>. QED BY <3>2, <3>4 DEF CompletedInv
  <2>. QED BY <1>2, <2>1, <2>2 DEF Next, vars
<1>. QED BY <1>1, <1>2, TypeCorrect, PTL DEF Spec

(* CompletedIsDone for any plan and number of runs: what a completed repair planned
   is on every row that was not lost, and in the ledger. *)
THEOREM CompletedIsDoneHolds == Spec => []CompletedIsDone
<1>1. CompletedInv => CompletedIsDone
  BY DEF CompletedInv, Behind, Marked, CompletedIsDone, PlanLines
<1>. QED BY <1>1, CompletedAlways, PTL

(* What has an object in the ledger is on the rows of its request: a run   *)
(* puts the object when the correction is on all of them.                  *)
ObjectsInv == \A n \in DOMAIN Plan : Plan[n].id \in objects => Marked(n)
(* No object is put before its correction is marked. *)
LEMMA ObjectsAlways == Spec => []ObjectsInv
<1>1. ASSUME Init PROVE ObjectsInv
  BY <1>1 DEF Init, RepairInit, ObjectsInv
<1>2. ASSUME TypeOK, CompletedInv, ObjectsInv, [Next]_vars PROVE ObjectsInv'
  <2>. SUFFICES ASSUME NEW n \in DOMAIN Plan, Plan[n].id \in objects'
                PROVE  Marked(n)'
    BY DEF ObjectsInv
  <2>1. CASE Plan[n].id \in objects
    BY <1>2, <2>1, MarkedStays DEF ObjectsInv
  <2>2. CASE Plan[n].id \notin objects
    <3>1. RepairNext
      BY <1>2, <2>2 DEF Next, vars, repairVars
    <3>2. PICK o \in Runs : RepairPuts(o)
      BY <2>2, <3>1 DEF RepairNext, RepairStarts, RepairChecks, RepairWrites, RepairPuts,
                        RepairCompletes, RepairDies
    <3>3. run[o].pc = "put" /\ run[o].n \in DOMAIN Plan /\ Plan[n].id = Plan[run[o].n].id
      BY <1>2, <2>2, <3>2 DEF RepairPuts, At, Current, TypeOK, RunsOK, RunOK
    <3>4. n = run[o].n
      BY <3>3, PlanAssumption
    <3>5. Marked(n)
      BY <1>2, <3>3, <3>4 DEF CompletedInv, RunDone
    <3>. QED BY <1>2, <3>5, MarkedStays
  <2>. QED BY <2>1, <2>2
<1>. QED BY <1>1, <1>2, TypeCorrect, CompletedAlways, PTL DEF Spec

(***************************************************************************)
(* What is true of every row that is not older than the ledger: it lists   *)
(* requests that have it among their rows, those of its corrections with   *)
(* them, its last correction is one of its corrections, and the rows of    *)
(* principals are not marked as lens rows.                                 *)
(***************************************************************************)
Kept(i, r) ==
  /\ \A q \in r.reqs : i \in ItemsOf(q)
  /\ \A n \in DOMAIN Plan : Plan[n].id \in r.fixes => Plan[n].req \in r.reqs
  /\ r.fix \in r.fixes \union {Nil}
  /\ ~IsLens(i) => r.marked = FALSE
KeptInv == \A i \in Items \ DOMAIN OldRows : Kept(i, rows[i])

(* The rows of a request that belong to no identity lens are not marked.   *)
LEMMA NotLens ==
  ASSUME NEW q \in Requests, NEW i \in ItemsOf(q), ~IsLens(i)
  PROVE  i[1] # Req[q].lens
<1>1. PICK k \in KeysOf(q) : i = <<k[1], k[2], Period(k, Req[q].day)>>
  BY DEF ItemsOf
<1>2. k[1] = Req[q].p \/ (k[1] = Req[q].lens /\ Req[q].lens # Nil)
  BY DEF KeysOf
<1>3. i[1] = k[1]
  BY <1>1
<1>4. Req[q].lens # Nil => Req[q].lens \in Lenses
  BY DEF Lenses
<1>. QED BY <1>2, <1>3, <1>4, RequestsAssumption DEF IsLens

(* An empty row has nothing to list. *)
LEMMA KeptEmpty ==
  ASSUME NEW i, NEW r, r.reqs = {}, r.fixes = {}, r.fix = Nil, r.marked = FALSE
  PROVE  Kept(i, r)
BY DEF Kept

(* Every change of a row keeps that. *)
LEMMA KeptChange ==
  ASSUME TypeOK, NEW i \in Items, NEW gone, NEW s, Change(i, gone, rows[i], s),
         Kept(i, rows[i])
  PROVE  Kept(i, s)
<1>. DEFINE r == rows[i]
<1>1. r \in Row
  BY DEF TypeOK, RowsOK
<1>2. CASE MeterChange(i, r, s)
  <2>1. PICK q \in Requests : i \in ItemsOf(q) /\ s = Metered1(q, i, r)
    BY <1>2 DEF MeterChange
  <2>. HIDE DEF r
  <2>2. s.reqs = r.reqs \union {q} /\ s.fixes = r.fixes /\ s.fix = r.fix
        /\ s.marked = (r.marked \/ i[1] = Req[q].lens)
    BY <1>1, <2>1, MeterFields
  <2>3. Kept(i, r)
    BY DEF r
  <2>4. ~IsLens(i) => i[1] # Req[q].lens
    BY <2>1, NotLens
  <2>. QED BY <2>1, <2>2, <2>3, <2>4 DEF Kept
<1>3. CASE FixChange(i, r, s)
  <2>1. PICK n \in DOMAIN Plan : i \in ToFix(Plan[n]) /\ Fixable(r, Plan[n])
                                 /\ s = Fixed(r, Plan[n])
    BY <1>3 DEF FixChange
  <2>. DEFINE c == Plan[n]
  <2>. HIDE DEF r
  <2>2. s.reqs = (IF c.known THEN r.reqs ELSE r.reqs \union {c.req})
        /\ s.fixes = r.fixes \union {c.id} /\ s.fix = c.id /\ s.marked = r.marked
    BY <1>1, <2>1, FixFields
  <2>3. Kept(i, r)
    BY DEF r
  <2>4. i \in ItemsOf(c.req) /\ (c.known <=> c.req \in r.reqs) /\ c.known \in BOOLEAN
    BY <2>1, PlanAssumption DEF ToFix, Fixable
  <2>5. s.reqs = r.reqs \union {c.req}
    BY <2>2, <2>4
  <2>6. \A m \in DOMAIN Plan : Plan[m].id = c.id => m = n
    BY PlanAssumption
  <2>. QED BY <2>2, <2>3, <2>4, <2>5, <2>6 DEF Kept
<1>4. CASE StampChange(r, s)
  <2>1. PICK n \in Nat : s = [r EXCEPT !.stamp = n]
    BY <1>4 DEF StampChange
  <2>. HIDE DEF r
  <2>2. s.reqs = r.reqs /\ s.fixes = r.fixes /\ s.fix = r.fix /\ s.marked = r.marked
    BY <1>1, <2>1, StampFields
  <2>. QED BY <2>2 DEF Kept, r
<1>5. CASE GoneChange(i, gone, r, s)
  <2>1. s.reqs = {} /\ s.fixes = {} /\ s.fix = Nil /\ s.marked = FALSE
    BY <1>5 DEF GoneChange, NoRow
  <2>. QED BY <2>1, KeptEmpty
<1>6. CASE BackChange(i, r, s)
  <2>1. s.reqs = {} /\ s.fixes = {} /\ s.fix = Nil /\ s.marked = FALSE
    BY <1>6, BackFields DEF BackChange
  <2>. QED BY <2>1, KeptEmpty
<1>. QED BY <1>2, <1>3, <1>4, <1>5, <1>6 DEF Change

(* It holds of the rows at all times. *)
LEMMA KeptAlways == Spec => []KeptInv
<1>1. ASSUME Init PROVE KeptInv
  <2>1. \A i \in Items \ DOMAIN OldRows : rows[i] = NoRow
    BY <1>1 DEF Init, TableInit
  <2>2. NoRow.reqs = {} /\ NoRow.fixes = {} /\ NoRow.fix = Nil /\ NoRow.marked = FALSE
    BY DEF NoRow
  <2>. QED BY <2>1, <2>2, KeptEmpty DEF KeptInv
<1>2. ASSUME TypeOK, KeptInv, [Next]_vars PROVE KeptInv'
  <2>. SUFFICES ASSUME NEW i \in Items \ DOMAIN OldRows PROVE Kept(i, rows'[i])
    BY DEF KeptInv, Kept
  <2>1. Kept(i, rows[i])
    BY <1>2 DEF KeptInv
  <2>2. rows'[i] = rows[i] \/ Change(i, lost', rows[i], rows'[i])
    BY <1>2, RowStep
  <2>. QED BY <1>2, <2>1, <2>2, KeptChange
<1>. QED BY <1>1, <1>2, TypeCorrect, PTL DEF Spec

(***************************************************************************)
(* The ledger and the records that are still to reach it.  Net is what the *)
(* ledger writer has to account for: what the meter charged of the days D, *)
(* without what a correction did.  A balance starts from the dollars in    *)
(* the ledger and goes through the stream record by record.                *)
(***************************************************************************)
PlanUsd  == [n \in DOMAIN Plan |-> Usd(Plan[n])]
PlanOn(r) == {n \in DOMAIN Plan : Plan[n].id \in r.fixes}
MeteredOn(D, r) ==
  {q \in r.reqs : q \notin NoPrice /\ q \notin FixedOn(r) /\ Req[q].day \in D}
Net(D, r) == SumFunctionOnSet(UsdOf, MeteredOn(D, r))
LedgerOn(D, i) == SumFunctionOnSet(ledger[i].usd, D)
Amount(D, i, r) ==
  IF r.item = i /\ HasLine(r) /\ Line(r).day \in D THEN Line(r).usd ELSE 0
Balance(b, D, i, st) ==
  /\ b \in [0..Len(st) -> Int]
  /\ \A n \in 1..Len(st) : b[n] = b[n - 1] + Amount(D, i, st[n])
Balanced(D, i) ==
  \E b : Balance(b, D, i, stream) /\ b[0] = LedgerOn(D, i) /\ b[Len(stream)] = Net(D, rows[i])
Tracked(i) == i \in Items \ DOMAIN OldRows /\ ~IsLens(i) /\ i \notin lost /\ i \notin spoiled
LedgerInv == \A i \in Items, D \in SUBSET Days : Tracked(i) => Balanced(D, i)

(* The corrections of a set of the plan are finitely many, each with its amount. *)
LEMMA PlanSum ==
  ASSUME NEW S \in SUBSET DOMAIN Plan
  PROVE  IsFiniteSet(S) /\ Weighs(PlanUsd, S) /\ SumFunctionOnSet(PlanUsd, S) \in Int
<1>1. IsFiniteSet(DOMAIN Plan)
  BY PlanAssumption, FS_Interval
<1>2. IsFiniteSet(S)
  BY <1>1, FS_Subset
<1>3. Weighs(PlanUsd, S)
  BY Correction DEF Weighs, PlanUsd
<1>. QED BY <1>2, <1>3, SumType

(* What the meter put on a row is an integer. *)
LEMMA NetTyped ==
  ASSUME NEW r \in Row, NEW D
  PROVE  MeteredOn(D, r) \in SUBSET Requests /\ Net(D, r) \in Int
<1>1. MeteredOn(D, r) \in SUBSET Requests
  BY DEF MeteredOn, Row
<1>. QED BY <1>1, UsdWeighs, SumType DEF Net

(* What a change adds to the net dollars is what its record makes a line   *)
(* of.                                                                     *)
RecordGood(D, i, r, s, rc) == Amount(D, i, rc) = Net(D, s) - Net(D, r)

(* The record of a charge carries exactly what the charge added. *)
LEMMA RecordMeter ==
  ASSUME NEW D, NEW i \in Items, NEW r \in Row, NEW s, MeterChange(i, r, s), ~IsLens(i), Kept(i, r),
         NEW rc, rc.item = i, rc.old = r, rc.new = s
  PROVE  RecordGood(D, i, r, s, rc)
<1>1. PICK q \in Requests : i \in ItemsOf(q) /\ q \notin r.reqs /\ s = Metered1(q, i, r)
  BY DEF MeterChange
<1>. DEFINE usd == IF q \in NoPrice THEN 0 ELSE Req[q].usd
            P == MeteredOn(D, r)
<1>2. usd \in Int /\ UsdOf[q] = Req[q].usd /\ Req[q].usd \in Int
  BY RequestsAssumption DEF UsdOf
<1>3. /\ s \in Row /\ s.reqs = r.reqs \union {q} /\ s.last = Req[q].day
      /\ s.spend = r.spend + usd /\ s.fixes = r.fixes /\ s.fix = r.fix
  BY <1>1, MeterFields
<1>4. s.marked = (r.marked \/ i[1] = Req[q].lens)
  BY <1>1, MeterFields
<1>5. s.marked = FALSE
  BY <1>1, <1>4, NotLens DEF Kept
<1>6. s # NoRow /\ s.reqs # r.reqs
  BY <1>1, <1>3 DEF NoRow
<1>7. HasLine(rc)
  BY <1>3, <1>5, <1>6 DEF HasLine, Skipped
<1>. HIDE DEF usd
<1>8. Amount(D, i, rc) = IF Req[q].day \in D THEN usd ELSE 0
  BY <1>2, <1>3, <1>7 DEF Amount, Line, Row
<1>9. FixedOn(s) = FixedOn(r) /\ q \notin FixedOn(r) /\ q \notin P
  BY <1>1, <1>3 DEF FixedOn, Kept, MeteredOn
<1>10. P \in SUBSET Requests /\ Net(D, r) = SumFunctionOnSet(UsdOf, P) /\ Net(D, r) \in Int
  BY NetTyped DEF Net
<1>11. CASE q \notin NoPrice /\ Req[q].day \in D
  <2>1. MeteredOn(D, s) = P \union {q}
    BY <1>3, <1>9, <1>11 DEF MeteredOn
  <2>. HIDE DEF P
  <2>2. P \union {q} \in SUBSET Requests
    BY <1>10
  <2>3. SumFunctionOnSet(UsdOf, P \union {q}) = SumFunctionOnSet(UsdOf, P) + Req[q].usd
    <3>1. IsFiniteSet(P) /\ Weighs(UsdOf, P \union {q}) /\ q \notin P
      BY <1>9, <1>10, <2>2, UsdWeighs
    <3>2. SumFunctionOnSet(UsdOf, P \union {q}) = SumFunctionOnSet(UsdOf, P) + UsdOf[q]
      BY <3>1, SumAdd
    <3>. QED BY <1>2, <3>2
  <2>4. Net(D, s) = Net(D, r) + Req[q].usd
    BY <1>10, <2>1, <2>3 DEF Net
  <2>5. Amount(D, i, rc) = Req[q].usd
    BY <1>8, <1>11 DEF usd
  <2>. QED BY <1>2, <1>10, <2>4, <2>5 DEF RecordGood
<1>12. CASE q \in NoPrice \/ Req[q].day \notin D
  <2>1. MeteredOn(D, s) = P
    BY <1>3, <1>9, <1>12 DEF MeteredOn
  <2>2. Net(D, s) = Net(D, r)
    BY <2>1 DEF Net
  <2>3. Amount(D, i, rc) = 0
    BY <1>8, <1>12 DEF usd
  <2>. QED BY <1>10, <2>2, <2>3 DEF RecordGood
<1>. QED BY <1>11, <1>12

(* The record of a correction is known by its id, and the ledger passes over it. *)
LEMMA FixSkipped ==
  ASSUME NEW i \in Items, NEW r \in Row, NEW s, FixChange(i, r, s), Kept(i, r),
         NEW rc, rc.item = i, rc.old = r, rc.new = s
  PROVE  ~HasLine(rc)
<1>1. PICK n \in DOMAIN Plan : Fixable(r, Plan[n]) /\ s = Fixed(r, Plan[n])
  BY DEF FixChange
<1>. DEFINE c == Plan[n]
<1>2. s.fix = c.id
  <2>. DEFINE t == Fixed(r, c)
  <2>1. t.fix = c.id
    BY FixFields
  <2>. QED BY <1>1, <2>1
<1>3. Plan[n].id \notin r.fixes /\ Plan[n].id # Nil
  BY <1>1, Correction DEF Fixable
<1>. QED BY <1>2, <1>3 DEF HasLine, Skipped, Kept

(* A correction adds nothing to what the meter charged. *)
LEMMA RecordFix ==
  ASSUME NEW D, NEW i \in Items, NEW r \in Row, NEW s, FixChange(i, r, s), Kept(i, r),
         NEW rc, rc.item = i, rc.old = r, rc.new = s
  PROVE  RecordGood(D, i, r, s, rc)
<1>1. PICK n \in DOMAIN Plan : Fixable(r, Plan[n]) /\ s = Fixed(r, Plan[n])
  BY DEF FixChange
<1>. DEFINE c == Plan[n]
            q == c.req
<1>2. s.reqs = (IF c.known THEN r.reqs ELSE r.reqs \union {q})
      /\ s.fixes = r.fixes \union {c.id}
  <2>. DEFINE t == Fixed(r, c)
  <2>1. t.reqs = (IF c.known THEN r.reqs ELSE r.reqs \union {q}) /\ t.fixes = r.fixes \union {c.id}
    BY FixFields
  <2>2. s = t
    BY <1>1
  <2>. HIDE DEF t, c
  <2>. QED BY <2>1, <2>2
<1>3. (c.known <=> q \in r.reqs) /\ c.known \in BOOLEAN /\ (c.known => q \in NoPrice)
  BY <1>1, PlanAssumption DEF Fixable
<1>4. FixedOn(s) = FixedOn(r) \union {q}
  <2>1. \A m \in DOMAIN Plan : Plan[m].id = c.id => m = n
    BY PlanAssumption
  <2>. QED BY <1>2, <2>1 DEF FixedOn
<1>5. MeteredOn(D, s) = MeteredOn(D, r)
  BY <1>2, <1>3, <1>4 DEF MeteredOn
<1>6. ~HasLine(rc)
  BY FixSkipped
<1>. HIDE DEF c
<1>7. Net(D, s) = Net(D, r) /\ Amount(D, i, rc) = 0
  BY <1>5, <1>6 DEF Net, Amount
<1>. QED BY <1>7, NetTyped DEF RecordGood

(* The record of a change that leaves the spend carries nothing. *)
LEMMA RecordSame ==
  ASSUME NEW D, NEW i \in Items, NEW r \in Row, NEW s \in Row,
         s.spend = r.spend, s.reqs = r.reqs, s.fixes = r.fixes,
         NEW rc, rc.item = i, rc.old = r, rc.new = s
  PROVE  RecordGood(D, i, r, s, rc) /\ ~HasLine(rc)
<1>1. ~HasLine(rc)
  BY DEF HasLine, Line, Row
<1>2. FixedOn(s) = FixedOn(r)
  BY DEF FixedOn
<1>3. MeteredOn(D, s) = MeteredOn(D, r)
  BY <1>2 DEF MeteredOn
<1>4. Net(D, s) = Net(D, r) /\ Amount(D, i, rc) = 0
  BY <1>1, <1>3 DEF Net, Amount
<1>. QED BY <1>1, <1>4, NetTyped DEF RecordGood

(* A stamp, and a row that is put back, make no line. *)
LEMMA RecordQuiet ==
  ASSUME TypeOK, NEW D, NEW i \in Items, NEW s,
         StampChange(rows[i], s) \/ BackChange(i, rows[i], s),
         NEW rc, rc.item = i, rc.old = rows[i], rc.new = s
  PROVE  RecordGood(D, i, rows[i], s, rc) /\ ~HasLine(rc)
<1>. DEFINE r == rows[i]
<1>1. r \in Row
  BY DEF TypeOK, RowsOK
<1>2. CASE StampChange(r, s)
  <2>1. PICK n \in Nat : s = [r EXCEPT !.stamp = n]
    BY <1>2 DEF StampChange
  <2>. HIDE DEF r
  <2>2. s \in Row /\ s.spend = r.spend /\ s.reqs = r.reqs /\ s.fixes = r.fixes
    BY <1>1, <2>1, StampFields
  <2>3. rc.old = r
    BY DEF r
  <2>4. RecordGood(D, i, r, s, rc) /\ ~HasLine(rc)
    BY <1>1, <2>2, <2>3, RecordSame
  <2>. QED BY <2>4 DEF r
<1>3. CASE BackChange(i, r, s)
  <2>1. s = Rebuilt(i) /\ r = NoRow
    BY <1>3 DEF BackChange
  <2>2. r.spend = 0 /\ r.reqs = {} /\ r.fixes = {}
    BY <2>1 DEF NoRow
  <2>3. s \in Row /\ s.spend = 0 /\ s.reqs = {} /\ s.fixes = {}
    BY <2>1, BackFields
  <2>. QED BY <1>1, <2>2, <2>3, RecordSame
<1>. QED BY <1>2, <1>3

(* The record of every change of a tracked row carries what it added beside the
   corrections. *)
LEMMA RecordChange ==
  ASSUME TypeOK, NEW D, NEW i \in Items \ DOMAIN OldRows, ~IsLens(i),
         NEW gone, i \notin gone, NEW s,
         Change(i, gone, rows[i], s), Kept(i, rows[i]),
         NEW rc, rc.item = i, rc.old = rows[i], rc.new = s
  PROVE  RecordGood(D, i, rows[i], s, rc)
<1>1. rows[i] \in Row
  BY DEF TypeOK, RowsOK
<1>. QED BY <1>1, RecordMeter, RecordFix, RecordQuiet DEF Change, GoneChange

(* A record taken off the stream moves its amount to the start.            *)
LEMMA BalanceTail ==
  ASSUME NEW D, NEW i, NEW st \in Seq(Image), st # <<>>, NEW b, Balance(b, D, i, st)
  PROVE  \E c : /\ Balance(c, D, i, Tail(st)) /\ c[0] = b[0] + Amount(D, i, st[1])
                /\ c[Len(Tail(st))] = b[Len(st)]
<1>. DEFINE L == Len(st)
            c == [n \in 0..(L - 1) |-> b[n + 1]]
<1>1. L \in Nat /\ L >= 1 /\ Len(Tail(st)) = L - 1 /\ \A n \in 1..(L - 1) : Tail(st)[n] = st[n + 1]
  OBVIOUS
<1>2. \A n \in 0..L : b[n] \in Int
  BY DEF Balance
<1>3. \A n \in 1..L : b[n] = b[n - 1] + Amount(D, i, st[n])
  BY DEF Balance
<1>. HIDE DEF L
<1>4. c \in [0..(L - 1) -> Int]
  BY <1>1, <1>2
<1>5. ASSUME NEW n \in 1..(L - 1)
      PROVE  c[n] = c[n - 1] + Amount(D, i, Tail(st)[n])
  <2>1. n + 1 \in 1..L /\ (n + 1) - 1 = n /\ n \in 0..(L - 1) /\ n - 1 \in 0..(L - 1)
        /\ (n - 1) + 1 = n
    BY <1>1
  <2>2. b[n + 1] = b[n] + Amount(D, i, st[n + 1])
    BY <1>3, <2>1
  <2>. QED BY <1>1, <2>1, <2>2
<1>6. c[0] = b[0] + Amount(D, i, st[1])
  <2>1. 1 \in 1..L /\ 1 - 1 = 0 /\ 0 \in 0..(L - 1)
    BY <1>1
  <2>. QED BY <1>3, <2>1
<1>7. c[L - 1] = b[L]
  BY <1>1
<1>. HIDE DEF c
<1>8. Balance(c, D, i, Tail(st))
  BY <1>1, <1>4, <1>5 DEF Balance
<1>. QED BY <1>1, <1>6, <1>7, <1>8 DEF L

(* Records of other rows leave the balance, the one of this row moves it:  *)
(* it is record k and worth d, or there is none and d is 0.                *)
Extends(D, i, st, tt, k, d) ==
  /\ Len(st) \in Nat /\ Len(tt) \in Nat /\ Len(st) <= Len(tt)
  /\ \A n \in 1..Len(st) : tt[n] = st[n]
  /\ \A n \in (Len(st) + 1)..Len(tt) : Amount(D, i, tt[n]) = IF n = k THEN d ELSE 0
  /\ k <= Len(tt) /\ (Len(st) < k \/ d = 0)
(* A running balance of a stream extends over the records that are appended to it. *)
LEMMA BalanceGrows ==
  ASSUME NEW D, NEW i, NEW st, NEW tt, NEW b, Balance(b, D, i, st), NEW k \in Nat, NEW d \in Int,
         Extends(D, i, st, tt, k, d)
  PROVE  \E c : /\ Balance(c, D, i, tt) /\ c[0] = b[0] /\ c[Len(tt)] = b[Len(st)] + d
<1>. DEFINE L == Len(st)
            M == Len(tt)
            c == [n \in 0..M |-> IF n <= L THEN b[n] ELSE IF n < k THEN b[L] ELSE b[L] + d]
<1>1. \A n \in 0..L : b[n] \in Int
  BY DEF Balance
<1>2. \A n \in 1..L : b[n] = b[n - 1] + Amount(D, i, st[n])
  BY DEF Balance
<1>. HIDE DEF L, M
<1>3. L \in Nat /\ M \in Nat /\ L <= M /\ k <= M /\ (L < k \/ d = 0)
  BY DEF L, M, Extends
<1>4. c \in [0..M -> Int]
  BY <1>1, <1>3
<1>5. ASSUME NEW n \in 1..M
      PROVE  c[n] = c[n - 1] + Amount(D, i, tt[n])
  <2>1. n \in 0..M /\ n - 1 \in 0..M
    BY <1>3
  <2>2. CASE n <= L
    <3>1. n \in 1..L /\ n - 1 <= L
      BY <1>3, <2>2
    <3>2. tt[n] = st[n]
      BY <3>1 DEF L, Extends
    <3>3. c[n] = b[n] /\ c[n - 1] = b[n - 1]
      BY <2>1, <2>2, <3>1
    <3>. HIDE DEF c
    <3>. QED BY <1>2, <3>1, <3>2, <3>3
  <2>3. CASE ~(n <= L)
    <3>1. n \in (L + 1)..M
      BY <1>3, <2>3
    <3>2. Amount(D, i, tt[n]) = IF n = k THEN d ELSE 0
      BY <3>1 DEF L, M, Extends
    <3>3. b[L] \in Int
      BY <1>1, <1>3
    <3>4. n - 1 <= L => n - 1 = L
      BY <1>3, <3>1
    <3>. QED BY <1>3, <2>1, <2>3, <3>1, <3>2, <3>3, <3>4
  <2>. QED BY <2>2, <2>3
<1>6. c[0] = b[0]
  BY <1>3
<1>7. c[M] = b[L] + d
  <2>1. b[L] \in Int
    BY <1>1, <1>3
  <2>2. M <= L => M = L /\ d = 0
    BY <1>3
  <2>. QED BY <1>3, <2>1, <2>2
<1>. HIDE DEF c
<1>8. Balance(c, D, i, tt)
  BY <1>4, <1>5 DEF Balance, M
<1>. QED BY <1>6, <1>7, <1>8 DEF L, M

(* The days of the calendar are finitely many, and an amount of money is   *)
(* on each.                                                                *)
LEMMA LedgerWeighs ==
  ASSUME TypeOK, NEW i \in Items, NEW D \in SUBSET Days
  PROVE  IsFiniteSet(D) /\ Weighs(ledger[i].usd, D) /\ LedgerOn(D, i) \in Int
<1>1. IsFiniteSet(D)
  <2>1. IsFiniteSet(Days)
    BY TableAssumption, FS_Interval DEF Days
  <2>. QED BY <2>1, FS_Subset
<1>2. ledger[i].usd \in [Days -> Int]
  BY DEF TypeOK, LedgerOK
<1>3. Weighs(ledger[i].usd, D)
  BY <1>2 DEF Weighs
<1>. QED BY <1>1, <1>3, SumType DEF LedgerOn

(* What a batch of one record does to a day of a row in the ledger.        *)
LEMMA ObjectDay ==
  ASSUME TypeOK, NEW i \in Items, stream # <<>>, Object(1), NEW d \in Days
  PROVE  ledger'[i].usd[d] = ledger[i].usd[d] + Amount({d}, i, stream[1])
<1>. DEFINE rc == stream[1]
            usds == [m \in 1..1 |-> Line(stream[m]).usd]
            on == {m \in LinesOf(1, i) : Line(stream[m]).day = d}
<1>1. 1 \in DOMAIN stream
  BY DEF TypeOK, RowsOK
<1>2. Line(rc).usd \in Int /\ ledger[i].usd[d] \in Int
  BY <1>1, LineTyped DEF TypeOK, LedgerOK
<1>3. \A m : m \in 1..1 <=> m = 1
  OBVIOUS
<1>4. CASE rc.item = i /\ HasLine(rc)
  <2>1. LinesOf(1, i) = {1}
    BY <1>3, <1>4 DEF LinesOf
  <2>2. ledger'[i].usd[d] = ledger[i].usd[d] + SumFunctionOnSet(usds, on)
    BY <2>1 DEF Object, LinesOf, Days
  <2>3. CASE Line(rc).day = d
    <3>1. on = {1} /\ usds[1] = Line(rc).usd
      BY <2>1, <2>3
    <3>. HIDE DEF usds, on
    <3>2. SumFunctionOnSet(usds, on) = Line(rc).usd
      BY <1>2, <3>1, SumOne
    <3>3. Amount({d}, i, rc) = Line(rc).usd
      BY <1>4, <2>3 DEF Amount
    <3>. QED BY <2>2, <3>2, <3>3
  <2>4. CASE Line(rc).day # d
    <3>1. on = {}
      BY <2>1, <2>4
    <3>. HIDE DEF usds, on
    <3>2. SumFunctionOnSet(usds, on) = 0
      BY <3>1, SumEmpty
    <3>3. Amount({d}, i, rc) = 0
      BY <2>4 DEF Amount
    <3>. QED BY <2>2, <3>2, <3>3
  <2>. QED BY <2>3, <2>4
<1>5. CASE ~(rc.item = i /\ HasLine(rc))
  <2>1. LinesOf(1, i) = {}
    BY <1>3, <1>5 DEF LinesOf
  <2>2. ledger'[i] = ledger[i]
    BY <2>1 DEF Object, LinesOf
  <2>3. Amount({d}, i, rc) = 0
    BY <1>5 DEF Amount
  <2>. QED BY <1>2, <2>2, <2>3
<1>. QED BY <1>4, <1>5

(* The dollars of a line reach the ledger.                                 *)
LEMMA LedgerGains ==
  ASSUME TypeOK, NEW D \in SUBSET Days, NEW i \in Items, stream # <<>>, Object(1)
  PROVE  LedgerOn(D, i)' = LedgerOn(D, i) + Amount(D, i, stream[1])
<1>. DEFINE rc == stream[1]
            v == ledger'[i].usd
            w == ledger[i].usd
            x == Line(rc).day
            e == Line(rc).usd
            gains == rc.item = i /\ HasLine(rc)
<1>1. IsFiniteSet(D) /\ Weighs(w, D) /\ LedgerOn(D, i) \in Int
  BY LedgerWeighs
<1>2. e \in Int
  BY LineTyped DEF TypeOK, RowsOK
<1>3. \A d \in D : v[d] = w[d] + (IF gains /\ x = d THEN e ELSE 0) /\ w[d] \in Int
  BY <1>1, ObjectDay DEF Amount, Weighs
<1>4. Amount(D, i, rc) = IF gains /\ x \in D THEN e ELSE 0
  BY DEF Amount
<1>5. LedgerOn(D, i) = SumFunctionOnSet(w, D) /\ LedgerOn(D, i)' = SumFunctionOnSet(v, D)
  BY DEF LedgerOn
<1>. HIDE DEF v, w, x, e, gains, rc
<1>6. CASE gains /\ x \in D
  <2>1. \A d \in D : v[d] = IF d = x THEN w[d] + e ELSE w[d]
    BY <1>3, <1>6
  <2>2. SumFunctionOnSet(v, D) = SumFunctionOnSet(w, D) + e
    BY <1>1, <1>2, <1>6, <2>1, SumGrows
  <2>3. Amount(D, i, rc) = e
    BY <1>4, <1>6
  <2>. QED BY <1>5, <2>2, <2>3 DEF rc
<1>7. CASE ~(gains /\ x \in D)
  <2>1. \A d \in D : v[d] = w[d]
    BY <1>3, <1>7
  <2>2. SumFunctionOnSet(v, D) = SumFunctionOnSet(w, D)
    BY <1>1, <2>1, SumSame
  <2>3. Amount(D, i, rc) = 0
    BY <1>4, <1>7
  <2>4. LedgerOn(D, i)' = LedgerOn(D, i) + 0
    BY <1>1, <1>5, <2>2
  <2>. QED BY <2>3, <2>4 DEF rc
<1>. QED BY <1>6, <1>7

(* A row that is tracked after a step was tracked before it. *)
LEMMA TrackedStays ==
  ASSUME [Next]_vars, NEW i, Tracked(i)'
  PROVE  Tracked(i)
<1>1. spoiled \subseteq spoiled'
  <2>1. CASE UNCHANGED ledgerVars
    BY <2>1 DEF ledgerVars
  <2>2. CASE LedgerNext
    BY <2>2 DEF LedgerNext, LedgerBatch, LedgerAgain, LedgerGivesUp, BackfillReads, RowDisappears,
                BackfillPut
  <2>. QED BY <2>1, <2>2 DEF Next, vars
<1>. QED BY <1>1, LostGrows DEF Tracked

(* A batch that is delivered again has the items of its records spoiled.   *)
LEMMA AgainStep ==
  ASSUME TypeOK, LedgerAgain, NEW i \in Items, i \notin spoiled'
  PROVE  ledger'[i] = ledger[i]
<1>1. PICK n \in DOMAIN stream :
        Object(n) /\ spoiled' = spoiled \union {stream[m].item : m \in 1..n}
  BY DEF LedgerAgain
<1>2. LinesOf(n, i) = {}
  BY <1>1 DEF LinesOf
<1>. QED BY <1>1, <1>2 DEF Object, LinesOf

(* A batch of the ledger writer moves the balance from the stream to the ledger. *)
LEMMA ConsumeStep ==
  ASSUME TypeOK, Consumed, NEW D \in SUBSET Days, NEW i \in Items, i \notin spoiled',
         Balanced(D, i)
  PROVE  Balanced(D, i)'
<1>. DEFINE rc == stream[1]
<1>1. stream \in Seq(Image) /\ stream # <<>> /\ stream' = Tail(stream) /\ rows' = rows
  BY DEF TypeOK, RowsOK, Consumed
<1>3. LedgerOn(D, i)' = LedgerOn(D, i) + Amount(D, i, rc)
  <2>1. CASE LedgerBatch
    BY <1>1, <2>1, LedgerGains DEF LedgerBatch
  <2>2. CASE LedgerGivesUp
    <3>1. rc.item # i
      BY <1>1, <2>2 DEF LedgerGivesUp
    <3>2. LedgerOn(D, i)' = LedgerOn(D, i)
      BY <2>2 DEF LedgerGivesUp, LedgerOn
    <3>. QED BY <3>1, <3>2, LedgerWeighs DEF Amount
  <2>. QED BY <2>1, <2>2 DEF Consumed
<1>4. PICK b : Balance(b, D, i, stream) /\ b[0] = LedgerOn(D, i) /\ b[Len(stream)] = Net(D, rows[i])
  BY DEF Balanced
<1>5. PICK c : /\ Balance(c, D, i, Tail(stream)) /\ c[0] = b[0] + Amount(D, i, rc)
               /\ c[Len(Tail(stream))] = b[Len(stream)]
  BY <1>1, <1>4, BalanceTail
<1>6. Balance(c, D, i, stream') /\ c[0] = LedgerOn(D, i)' /\ c[Len(stream')] = Net(D, rows'[i])
  BY <1>1, <1>3, <1>4, <1>5
<1>. QED BY <1>6 DEF Balanced

(* A write moves the balance from the rows to the stream. *)
LEMMA WriteStep ==
  ASSUME TypeOK, SomeWrite, NEW D \in SUBSET Days, NEW i \in Items, Tracked(i), i \notin lost',
         Balanced(D, i), Kept(i, rows[i])
  PROVE  Balanced(D, i)'
<1>1. PICK new : Writes(new)
  BY DEF SomeWrite
<1>. DEFINE r == rows[i]
            s == rows'[i]
            L == Len(stream)
            M == Len(stream')
            d == Net(D, s) - Net(D, r)
<1>2. /\ L \in Nat /\ M \in Nat /\ L <= M /\ stream' \in Seq(Image)
      /\ \A n \in 1..L : stream'[n] = stream[n]
      /\ \A n \in (L + 1)..M : /\ stream'[n].item \in DOMAIN new
                               /\ stream'[n].old = rows[stream'[n].item]
                               /\ stream'[n].new = new[stream'[n].item]
      /\ \A j \in DOMAIN new : \E n \in (L + 1)..M : stream'[n].item = j
      /\ \A m, n \in (L + 1)..M : stream'[m].item = stream'[n].item => m = n
  BY <1>1, WriteStream DEF Writes
<1>3. r \in Row /\ s \in Row /\ s = IF i \in DOMAIN new THEN new[i] ELSE r
  BY <1>1, WriteTable DEF Writes, TypeOK, RowsOK
<1>4. Net(D, r) \in Int /\ Net(D, s) \in Int /\ d \in Int
  BY <1>3, NetTyped
<1>5. LedgerOn(D, i)' = LedgerOn(D, i)
  BY <1>1 DEF Writes, LedgerOn
<1>6. i \in DOMAIN new => Change(i, lost', r, s)
  BY <1>1, <1>3 DEF Writes
<1>. HIDE DEF r, s, L, M
<1>7. PICK k \in Nat : /\ k <= M /\ (L < k \/ d = 0)
                       /\ \A n \in (L + 1)..M : Amount(D, i, stream'[n]) = IF n = k THEN d ELSE 0
  <2>1. CASE i \in DOMAIN new
    <3>1. PICK k \in (L + 1)..M : stream'[k].item = i
      BY <1>2, <2>1
    <3>2. stream'[k].old = r /\ stream'[k].new = s
      BY <1>2, <1>3, <2>1, <3>1 DEF r
    <3>3. RecordGood(D, i, r, s, stream'[k])
      <4>1. i \in Items \ DOMAIN OldRows /\ ~IsLens(i)
        BY DEF Tracked
      <4>2. Kept(i, r) /\ r = rows[i]
        BY DEF r
      <4>. QED BY <1>6, <2>1, <3>1, <3>2, <4>1, <4>2, RecordChange
    <3>4. \A n \in (L + 1)..M : n # k => stream'[n].item # i
      BY <1>2, <3>1
    <3>5. \A n \in (L + 1)..M : Amount(D, i, stream'[n]) = IF n = k THEN d ELSE 0
      <4>1. Amount(D, i, stream'[k]) = d
        BY <3>3 DEF RecordGood
      <4>. HIDE DEF d
      <4>. QED BY <3>4, <4>1 DEF Amount
    <3>6. k \in Nat /\ k <= M /\ L < k
      BY <1>2, <3>1
    <3>. HIDE DEF d
    <3>. QED BY <3>5, <3>6
  <2>2. CASE i \notin DOMAIN new
    <3>1. s = r /\ d = 0
      BY <1>3, <1>4, <2>2
    <3>2. \A n \in (L + 1)..M : stream'[n].item # i
      BY <1>2, <2>2
    <3>3. \A n \in (L + 1)..M : Amount(D, i, stream'[n]) = 0
      BY <3>2 DEF Amount
    <3>4. 0 \in Nat /\ 0 <= M
      BY <1>2
    <3>5. \A n \in (L + 1)..M : n # 0
      BY <1>2
    <3>. HIDE DEF d
    <3>. QED BY <3>1, <3>3, <3>4, <3>5
  <2>. QED BY <2>1, <2>2
<1>8. PICK b : Balance(b, D, i, stream) /\ b[0] = LedgerOn(D, i) /\ b[L] = Net(D, r)
  BY DEF Balanced, L, r
<1>9. PICK c : Balance(c, D, i, stream') /\ c[0] = b[0] /\ c[M] = b[L] + d
  <2>. HIDE DEF d
  <2>1. Extends(D, i, stream, stream', k, d)
    BY <1>2, <1>7 DEF Extends, L, M
  <2>2. Balance(b, D, i, stream) /\ d \in Int
    BY <1>4, <1>8
  <2>3. \E c : /\ Balance(c, D, i, stream') /\ c[0] = b[0]
               /\ c[Len(stream')] = b[Len(stream)] + d
    BY ONLY <2>1, <2>2, k \in Nat, BalanceGrows
  <2>. QED BY <2>3 DEF L, M
<1>10. Balance(c, D, i, stream') /\ c[0] = LedgerOn(D, i)' /\ c[Len(stream')] = Net(D, rows'[i])
  BY <1>4, <1>5, <1>8, <1>9 DEF M, s
<1>. QED BY <1>10 DEF Balanced

(* Every step keeps the balance of rows, stream and ledger. *)
LEMMA LedgerStep ==
  ASSUME TypeOK, KeptInv, LedgerInv, [Next]_vars
  PROVE  LedgerInv'
<1>. SUFFICES ASSUME NEW i \in Items, NEW D \in SUBSET Days, Tracked(i)'
              PROVE  Balanced(D, i)'
  BY DEF LedgerInv
<1>1. Tracked(i) /\ i \notin lost' /\ i \notin spoiled'
  BY TrackedStays DEF Tracked
<1>2. Balanced(D, i) /\ Kept(i, rows[i])
  BY <1>1 DEF LedgerInv, KeptInv, Tracked
<1>3. CASE Still
  <2>1. ledger'[i] = ledger[i]
    BY <1>1, <1>3, AgainStep DEF Still
  <2>2. LedgerOn(D, i)' = LedgerOn(D, i)
    BY <2>1 DEF LedgerOn
  <2>. QED BY <1>2, <1>3, <2>2 DEF Balanced, Still
<1>4. CASE Consumed
  BY <1>1, <1>2, <1>4, ConsumeStep
<1>5. CASE SomeWrite
  BY <1>1, <1>2, <1>5, WriteStep
<1>. QED BY <1>3, <1>4, <1>5, StepForm

(* The balance holds at first. *)
LEMMA LedgerStarts ==
  ASSUME Init
  PROVE  LedgerInv
<1>. SUFFICES ASSUME NEW i \in Items, NEW D \in SUBSET Days, Tracked(i)
              PROVE  Balanced(D, i)
  BY DEF LedgerInv
<1>1. rows[i] = NoRow /\ stream = <<>>
  BY DEF Init, TableInit, Tracked
<1>2. Net(D, NoRow) = 0
  <2>1. MeteredOn(D, NoRow) = {}
    BY DEF MeteredOn, NoRow
  <2>. QED BY <2>1, SumEmpty DEF Net
<1>3. LedgerOn(D, i) = 0
  <2>. DEFINE w == ledger[i].usd
  <2>1. \A d \in D : w[d] = 0
    BY DEF Init, LedgerInit, Days
  <2>. HIDE DEF w
  <2>2. IsFiniteSet(D)
    BY InitTyped, LedgerWeighs
  <2>3. SumFunctionOnSet(w, D) = 0
    BY <2>1, <2>2, SumZero
  <2>. QED BY <2>3 DEF LedgerOn, w
<1>. DEFINE b == [n \in 0..0 |-> 0]
<1>4. Balance(b, D, i, stream)
  BY <1>1 DEF Balance
<1>5. b[0] = LedgerOn(D, i) /\ b[Len(stream)] = Net(D, rows[i])
  BY <1>1, <1>2, <1>3
<1>. QED BY <1>4, <1>5 DEF Balanced

(* It holds at all times. *)
LEMMA LedgerAlways == Spec => []LedgerInv
<1>1. Init => LedgerInv
  BY LedgerStarts
<1>2. TypeOK /\ KeptInv /\ LedgerInv /\ [Next]_vars => LedgerInv'
  BY LedgerStep
<1>. QED BY <1>1, <1>2, TypeCorrect, KeptAlways, PTL DEF Spec

(* The corrections of a set, each of a request of its own, sum to what     *)
(* those requests cost.                                                    *)
LEMMA PlanCosts ==
  ASSUME NEW S \in SUBSET DOMAIN Plan
  PROVE  SumFunctionOnSet(UsdOf, {Plan[n].req : n \in S}) = SumFunctionOnSet(PlanUsd, S)
<1>. DEFINE f == [n \in S |-> Plan[n].req]
<1>1. \A m, n \in S : f[m] = f[n] => m = n
  BY PlanAssumption
<1>2. \A n \in S : PlanUsd[n] = UsdOf[f[n]]
  BY PlanAssumption DEF PlanUsd, UsdOf, Usd
<1>3. {Plan[n].req : n \in S} = {f[n] : n \in S}
  OBVIOUS
<1>. HIDE DEF f
<1>4. SumFunctionOnSet(UsdOf, {f[n] : n \in S}) = SumFunctionOnSet(PlanUsd, S)
  BY <1>1, <1>2, PlanSum, SumImage
<1>. QED BY <1>3, <1>4

(* What a row charged is what the meter charged and its corrections.       *)
LEMMA SpendParts ==
  ASSUME NEW i, NEW r \in Row, Charged(r), Kept(i, r)
  PROVE  r.spend = Net(Days, r) + SumFunctionOnSet(PlanUsd, PlanOn(r))
<1>. DEFINE A == MeteredOn(Days, r)
            B == FixedOn(r)
<1>1. PlanOn(r) \in SUBSET DOMAIN Plan /\ B = {Plan[n].req : n \in PlanOn(r)}
  BY DEF PlanOn, FixedOn
<1>2. B \subseteq r.reqs /\ r.reqs \in SUBSET Requests
  BY DEF Kept, FixedOn, Row
<1>3. \A q \in Requests : Req[q].day \in Days
  BY RequestsAssumption DEF Days
<1>4. PaidOn(r) = A \union B /\ A \intersect B = {} /\ A \union B \in SUBSET Requests
      /\ A \in SUBSET Requests /\ B \in SUBSET Requests
  BY <1>2, <1>3 DEF PaidOn, MeteredOn
<1>5. Net(Days, r) = SumFunctionOnSet(UsdOf, A) /\ r.spend = SumFunctionOnSet(UsdOf, PaidOn(r))
  BY DEF Net, Charged
<1>. HIDE DEF A, B
<1>6. SumFunctionOnSet(UsdOf, A \union B) = SumFunctionOnSet(UsdOf, A) + SumFunctionOnSet(UsdOf, B)
  BY <1>4, UsdWeighs, SumUnion
<1>7. SumFunctionOnSet(UsdOf, B) = SumFunctionOnSet(PlanUsd, PlanOn(r))
  BY <1>1, PlanCosts
<1>. QED BY <1>4, <1>5, <1>6, <1>7

(* LedgerAgrees for any stream and batches: once the stream is drained, the ledger
   of a tracked row is what its meter charged. *)
THEOREM LedgerAgreesHolds == Spec => []LedgerAgrees
<1>1. ASSUME TypeOK, ChargedInv, KeptInv, LedgerInv PROVE LedgerAgrees
  <2>. SUFFICES ASSUME NEW i \in Items \ DOMAIN OldRows,
                       ~IsLens(i), Intact(i), stream = <<>>, i \notin spoiled,
                       \A n \in DOMAIN Plan : Plan[n].id \in rows[i].fixes => n \in PlanLines
                PROVE  rows[i].spend = LedgerUsd(i) + SumFunctionOnSet(PlanUsd, PutFor(i))
    BY DEF LedgerAgrees, PlanUsd
  <2>1. Balanced(Days, i)
    BY <1>1 DEF LedgerInv, Tracked, Intact
  <2>2. LedgerOn(Days, i) = Net(Days, rows[i]) /\ LedgerOn(Days, i) = LedgerUsd(i)
    BY <2>1 DEF Balanced, LedgerOn, LedgerUsd, Days
  <2>3. PutFor(i) = PlanOn(rows[i])
    BY DEF PutFor, PlanOn, PlanLines
  <2>4. rows[i] \in Row /\ Charged(rows[i]) /\ Kept(i, rows[i])
    BY <1>1 DEF TypeOK, RowsOK, ChargedInv, KeptInv
  <2>. QED BY <2>2, <2>3, <2>4, SpendParts
<1>. QED BY <1>1, ChargedAlways, KeptAlways, LedgerAlways, TypeCorrect, PTL

(***************************************************************************)
(* No dollars come to the ledger but from requests: a line is of a request *)
(* that has the row among its rows, and of that request's day.             *)
(***************************************************************************)
MadeBy(i, d) ==
  \E q \in Requests : i \in ItemsOf(q) /\ Req[q].day = d /\ i[1] # Req[q].lens
LineMade(rc) ==
  rc.item \notin DOMAIN OldRows /\ HasLine(rc) /\ Line(rc).usd # 0
    => MadeBy(rc.item, Line(rc).day)
SourcedInv ==
  /\ \A n \in 1..Len(stream) : LineMade(stream[n])
  /\ \A i \in Items \ DOMAIN OldRows, d \in Days : ledger[i].usd[d] # 0 => MadeBy(i, d)

(* The record of a change is of a charge, or makes no line. *)
LEMMA ChangeMade ==
  ASSUME TypeOK, NEW i \in Items, NEW gone, NEW s, Change(i, gone, rows[i], s),
         Kept(i, rows[i]), NEW rc, rc.item = i, rc.old = rows[i], rc.new = s
  PROVE  LineMade(rc)
<1>1. rows[i] \in Row
  BY DEF TypeOK, RowsOK
<1>2. CASE MeterChange(i, rows[i], s)
  <2>1. PICK q \in Requests : i \in ItemsOf(q) /\ s = Metered1(q, i, rows[i])
    BY <1>2 DEF MeterChange
  <2>2. s.last = Req[q].day /\ s.marked = (rows[i].marked \/ i[1] = Req[q].lens)
    BY <1>1, <2>1, MeterFields
  <2>3. HasLine(rc) => i[1] # Req[q].lens
    BY <2>2 DEF HasLine, Skipped
  <2>. QED BY <2>1, <2>2, <2>3 DEF LineMade, MadeBy, Line
<1>3. CASE FixChange(i, rows[i], s)
  BY <1>1, <1>3, FixSkipped DEF LineMade
<1>4. CASE StampChange(rows[i], s) \/ BackChange(i, rows[i], s)
  BY <1>4, RecordQuiet DEF LineMade
<1>5. CASE GoneChange(i, gone, rows[i], s)
  BY <1>5 DEF GoneChange, LineMade, HasLine, Skipped
<1>. QED BY <1>2, <1>3, <1>4, <1>5 DEF Change

(* An object adds to a day of a row what its lines of that day say. *)
LEMMA ObjectMade ==
  ASSUME TypeOK, SourcedInv, NEW n \in DOMAIN stream, Object(n),
         NEW i \in Items \ DOMAIN OldRows, NEW d \in Days, ledger'[i].usd[d] # 0
  PROVE  MadeBy(i, d)
<1>. SUFFICES ASSUME ~MadeBy(i, d) PROVE FALSE
  OBVIOUS
<1>. DEFINE usds == [m \in 1..n |-> Line(stream[m]).usd]
            on == {m \in LinesOf(n, i) : Line(stream[m]).day = d}
<1>1. n \in Nat /\ 1..n \subseteq 1..Len(stream) /\ IsFiniteSet(1..n)
  <2>1. n \in 1..Len(stream) /\ Len(stream) \in Nat
    BY DEF TypeOK, RowsOK
  <2>2. n \in Nat /\ 1..n \subseteq 1..Len(stream)
    BY <2>1
  <2>3. IsFiniteSet(1..n)
    BY <2>2, PrefixFinite
  <2>. QED BY <2>2, <2>3
<1>2. ledger[i].usd[d] = 0
  BY DEF SourcedInv
<1>3. LinesOf(n, i) # {}
  <2>1. LinesOf(n, i) = {} => ledger'[i] = ledger[i]
    BY DEF Object, LinesOf
  <2>. QED BY <1>2, <2>1
<1>4. ledger'[i].usd[d] = ledger[i].usd[d] + SumFunctionOnSet(usds, on)
  BY <1>3 DEF Object, LinesOf, Days
<1>5. on \subseteq 1..n /\ \A m \in on : usds[m] = 0
  BY <1>1 DEF LinesOf, SourcedInv, LineMade
<1>. HIDE DEF usds, on
<1>6. SumFunctionOnSet(usds, on) = 0
  BY <1>1, <1>5, FS_Subset, SumZero
<1>. QED BY <1>2, <1>4, <1>6

(* It holds at all times. *)
LEMMA SourcedAlways == Spec => []SourcedInv
<1>1. ASSUME Init PROVE SourcedInv
  <2>1. stream = <<>>
    BY <1>1 DEF Init, TableInit
  <2>2. \A i \in Items, d \in Days : ledger[i].usd[d] = 0
    BY <1>1 DEF Init, LedgerInit, Days
  <2>. QED BY <2>1, <2>2 DEF SourcedInv
<1>2. ASSUME TypeOK, KeptInv, SourcedInv, [Next]_vars PROVE SourcedInv'
  <2>1. CASE Still
    <3>1. CASE LedgerAgain
      <4>1. PICK n \in DOMAIN stream : Object(n)
        BY <3>1 DEF LedgerAgain
      <4>2. \A i \in Items \ DOMAIN OldRows, d \in Days : ledger'[i].usd[d] # 0 => MadeBy(i, d)
        BY <1>2, <4>1, ObjectMade
      <4>. QED BY <1>2, <2>1, <4>2 DEF Still, SourcedInv
    <3>. QED BY <1>2, <2>1, <3>1 DEF Still, SourcedInv
  <2>2. CASE Consumed
    <3>1. stream \in Seq(Image) /\ stream # <<>> /\ stream' = Tail(stream)
      BY <1>2, <2>2 DEF Consumed, TypeOK, RowsOK
    <3>2. \A n \in 1..Len(Tail(stream)) : n + 1 \in 1..Len(stream)
                                            /\ Tail(stream)[n] = stream[n + 1]
      BY <3>1
    <3>3. \A n \in 1..Len(stream') : LineMade(stream'[n])
      BY <1>2, <3>1, <3>2 DEF SourcedInv
    <3>4. \A i \in Items \ DOMAIN OldRows, d \in Days : ledger'[i].usd[d] # 0 => MadeBy(i, d)
      <4>1. CASE LedgerBatch
        <5>1. Object(1) /\ 1 \in DOMAIN stream
          BY <3>1, <4>1 DEF LedgerBatch
        <5>. QED BY <1>2, <5>1, ObjectMade
      <4>2. CASE LedgerGivesUp
        BY <1>2, <4>2 DEF LedgerGivesUp, SourcedInv
      <4>. QED BY <2>2, <4>1, <4>2 DEF Consumed
    <3>. QED BY <3>3, <3>4 DEF SourcedInv
  <2>3. CASE SomeWrite
    <3>1. PICK new : Writes(new)
      BY <2>3 DEF SomeWrite
    <3>2. /\ Len(stream) \in Nat /\ Len(stream') \in Nat
          /\ \A n \in 1..Len(stream) : stream'[n] = stream[n]
          /\ \A n \in (Len(stream) + 1)..Len(stream') :
               /\ stream'[n].item \in DOMAIN new
               /\ stream'[n].old = rows[stream'[n].item]
               /\ stream'[n].new = new[stream'[n].item]
      BY <1>2, <3>1, WriteStream DEF Writes
    <3>3. ASSUME NEW n \in (Len(stream) + 1)..Len(stream') PROVE LineMade(stream'[n])
      <4>. DEFINE rc == stream'[n]
                  i == rc.item
      <4>1. i \in Items /\ Change(i, lost', rows[i], new[i])
        BY <3>1, <3>2 DEF Writes, Writable
      <4>2. rc.old = rows[i] /\ rc.new = new[i]
        BY <3>2
      <4>3. CASE i \in DOMAIN OldRows
        BY <4>3 DEF LineMade
      <4>4. CASE i \notin DOMAIN OldRows
        <5>1. Kept(i, rows[i])
          BY <1>2, <4>1, <4>4 DEF KeptInv
        <5>. HIDE DEF rc
        <5>2. LineMade(rc)
          BY <1>2, <4>1, <4>2, <5>1, ChangeMade
        <5>. QED BY <5>2 DEF rc
      <4>. QED BY <4>3, <4>4
    <3>4. ASSUME NEW n \in 1..Len(stream') PROVE LineMade(stream'[n])
      <4>1. CASE n <= Len(stream)
        <5>1. n \in 1..Len(stream) /\ stream'[n] = stream[n]
          BY <3>2, <4>1
        <5>2. LineMade(stream[n])
          BY <1>2, <5>1 DEF SourcedInv
        <5>. QED BY <5>1, <5>2
      <4>2. CASE ~(n <= Len(stream))
        <5>1. n \in (Len(stream) + 1)..Len(stream')
          BY <3>2, <4>2
        <5>. QED BY <3>3, <5>1
      <4>. QED BY <4>1, <4>2
    <3>5. ledger' = ledger
      BY <3>1 DEF Writes
    <3>. QED BY <1>2, <3>4, <3>5 DEF SourcedInv
  <2>. QED BY <1>2, <2>1, <2>2, <2>3, StepForm
<1>. QED BY <1>1, <1>2, TypeCorrect, KeptAlways, PTL DEF Spec

(***************************************************************************)
(* The reconciliation.  What it compares is of the current month when it   *)
(* starts, and a bill that had landed is the requests of the month up to   *)
(* the watermark.                                                          *)
(***************************************************************************)
RecInv ==
  /\ today \in Nat /\ rec.month \in Int /\ rec.mark \in Int
  /\ rec.on /\ rec.landed => rec.bill = Due /\ Due \intersect Unresolved = {}

(* Days of the calendar are of a month, later ones of no earlier month. *)
LEMMA Months ==
  ASSUME NEW c \in Int, NEW d \in Int, c <= d
  PROVE  Month(c) \in Int /\ Month(c) <= Month(d)
BY TableAssumption DEF Month

(* A reconciliation of the current month has a bill of that month.         *)
LEMMA BillOfMonth ==
  ASSUME Comparable, RecInv, NEW m, NEW d \in Int, NEW anon, Reconcile(m, d, anon)
  PROVE  RecInv'
<1>. DEFINE mark == today - Watermark
            cur == {q \in Requests : Req[q].day <= d}
            landed == InMonth(m, mark) \subseteq cur \ Unresolved
<1>1. m = Month(today) /\ m \in Int /\ mark \in Int /\ mark <= today /\ today \in Nat
  BY Months, ReconcilerAssumption DEF Comparable, Reconcile, RecInv
<1>2. /\ today' = today /\ rec'.month = m /\ rec'.mark = mark
      /\ rec'.bill = Billed(cur, m, mark) /\ rec'.landed = landed
  BY DEF Reconcile
<1>3. ASSUME NEW q \in Requests, Month(Req[q].day) >= m, Req[q].day < mark
      PROVE  Month(Req[q].day) = m
  <2>1. Req[q].day \in Int
    BY RequestsAssumption
  <2>2. Req[q].day <= today
    BY <1>1, <1>3, <2>1
  <2>3. Month(Req[q].day) <= Month(today) /\ Month(Req[q].day) \in Int
    BY <1>1, <2>1, <2>2, Months
  <2>. QED BY <1>1, <1>3, <2>3
<1>4. Billed(cur, m, mark) \subseteq InMonth(m, mark)
  BY <1>3 DEF Billed, InMonth
<1>5. ASSUME landed PROVE Billed(cur, m, mark) = InMonth(m, mark)
  <2>1. \A q \in InMonth(m, mark) : q \in Billed(cur, m, mark)
    BY <1>1, <1>5 DEF Billed, InMonth
  <2>. QED BY <1>4, <2>1
<1>6. landed => InMonth(m, mark) \intersect Unresolved = {}
  OBVIOUS
<1>. HIDE DEF mark, cur, landed
<1>7. Due' = InMonth(m, mark)
  BY <1>2 DEF Due
<1>. QED BY <1>1, <1>2, <1>5, <1>6, <1>7 DEF RecInv

(* It holds at all times. *)
LEMMA RecAlways ==
  ASSUME Comparable
  PROVE  Spec => []RecInv
<1>1. Init => RecInv
  BY DEF Init, TableInit, CurInit, NoRun, RecInv
<1>2. ASSUME RecInv, [Next]_vars PROVE RecInv'
  <2>1. CASE UNCHANGED <<today, rec>>
    BY <1>2, <2>1 DEF RecInv, Due
  <2>2. ASSUME NEW m, NEW d \in 0..today, NEW anon, Reconcile(m, d, anon) PROVE RecInv'
    BY <1>2, <2>2, BillOfMonth
  <2>3. CASE Report
    BY <1>2, <2>3 DEF RecInv, Report, NoRun, tableVars
  <2>4. CASE TableNext /\ UNCHANGED rec
    <3>1. today' = today \/ today' = today + 1
      BY <2>4 DEF TableNext, NextDay, MeterWrites, EnforcementStamps, StampCleared
    <3>2. today' \in Nat
      BY <1>2, <3>1 DEF RecInv
    <3>. QED BY <1>2, <2>4, <3>2 DEF RecInv, Due
  <2>5. CASE LedgerNext /\ UNCHANGED rec
    <3>1. today' = today
      BY <2>5 DEF LedgerNext, LedgerBatch, LedgerAgain, LedgerGivesUp, BackfillReads,
                  RowDisappears, BackfillPut, tableVars
    <3>. QED BY <2>1, <2>5, <3>1
  <2>6. CASE RepairNext /\ UNCHANGED rec
    <3>1. today' = today
      BY <2>6 DEF RepairNext, RepairStarts, RepairChecks, RepairWrites, RepairPuts,
                  RepairCompletes, RepairDies, tableVars
    <3>. QED BY <2>1, <2>6, <3>1
  <2>7. CASE CurNext
    BY <2>2, <2>3, <2>7 DEF CurNext
  <2>. QED BY <1>2, <2>1, <2>4, <2>5, <2>6, <2>7 DEF Next, vars, tableVars
<1>. QED BY <1>1, <1>2, PTL DEF Spec

(***************************************************************************)
(* The model rows of the reconciled month.                                 *)
(***************************************************************************)
Pair(q) == <<Req[q].p, Req[q].model>>
Dues(k) == {q \in Due : Pair(q) = k}
RowOf(k) == <<k[1], k[2], <<"monthly", rec.month>>>>

(* A row of a request that is of a model and not of its lens is its        *)
(* primary one, of the month of the request.                               *)
LEMMA ModelItem ==
  ASSUME RowsApart, NEW q \in Requests, NEW i \in ItemsOf(q), IsModel(i), i[1] # Req[q].lens
  PROVE  i = Primary(q)
<1>1. PICK k \in KeysOf(q) : i = <<k[1], k[2], Period(k, Req[q].day)>>
  BY DEF ItemsOf
<1>2. k = Pair(q)
  <2>1. i[1] = k[1] /\ i[2] = k[2]
    BY <1>1
  <2>2. CASE k = <<Req[q].p, Req[q].profile>> /\ Req[q].profile # Nil
    BY <2>1, <2>2 DEF RowsApart, IsModel
  <2>3. CASE k = <<Req[q].lens, Req[q].model>>
    BY <2>1, <2>3
  <2>. QED BY <1>1, <2>2, <2>3 DEF KeysOf, Pair
<1>. QED BY <1>1, <1>2 DEF Primary, Pair

(* The primary row of a request is one of the model it used, by the month, *)
(* and no older than the ledger.                                           *)
LEMMA PrimaryRow ==
  ASSUME RowsApart, NEW q \in Requests
  PROVE  /\ Primary(q) = <<Req[q].p, Req[q].model, <<"monthly", Month(Req[q].day)>>>>
         /\ Primary(q) \in ItemsOf(q) /\ Primary(q) \in Items \ DOMAIN OldRows
         /\ IsModel(Primary(q)) /\ ~IsLens(Primary(q))
         /\ Counted(Primary(q)) <=> Month(Req[q].day) = rec.month
<1>1. WindowOf(<<Req[q].p, Req[q].model>>) = "monthly" /\ Req[q].p \notin Lenses
  BY DEF RowsApart
<1>2. Primary(q) = <<Req[q].p, Req[q].model, <<"monthly", Month(Req[q].day)>>>>
  BY <1>1 DEF Primary, Period
<1>3. Primary(q) \in ItemsOf(q) /\ Primary(q) \in Items
  BY RequestItems
<1>4. IsModel(Primary(q)) /\ ~IsLens(Primary(q))
  BY <1>1, <1>2 DEF IsModel, IsLens, Models
<1>5. Primary(q) \notin DOMAIN OldRows
  BY <1>4 DEF RowsApart
<1>6. Counted(Primary(q)) <=> Month(Req[q].day) = rec.month
  BY <1>2, <1>4 DEF Counted
<1>. QED BY <1>2, <1>3, <1>4, <1>5, <1>6

(* A pair that is metered has one row that counts. *)
LEMMA MeteredRow ==
  ASSUME Comparable, NEW k \in Metered
  PROVE  /\ RowOf(k) \in Items \ DOMAIN OldRows /\ IsModel(RowOf(k))
         /\ {i \in Items : i[1] = k[1] /\ i[2] = k[2] /\ Counted(i)} = {RowOf(k)}
         /\ k = <<k[1], k[2]>>
<1>1. ASSUME NEW i \in Items, Counted(i)
      PROVE  /\ i \notin DOMAIN OldRows /\ i = <<i[1], i[2], <<"monthly", rec.month>>>>
             /\ \E q \in Requests : i \in ItemsOf(q)
  <2>1. i \notin DOMAIN OldRows
    BY <1>1 DEF Comparable, RowsApart, Counted
  <2>2. PICK q \in Requests : i \in ItemsOf(q)
    BY <2>1 DEF Items
  <2>3. PICK y \in KeysOf(q) : i = <<y[1], y[2], Period(y, Req[q].day)>>
    BY <2>2 DEF ItemsOf
  <2>4. i[3] = <<"monthly", rec.month>>
    BY <1>1 DEF Counted
  <2>. QED BY <2>1, <2>2, <2>3, <2>4
<1>2. PICK j \in Items : Counted(j) /\ k = <<j[1], j[2]>>
  BY DEF Metered
<1>3. j = RowOf(k) /\ k = <<k[1], k[2]>>
  <2>1. j = <<j[1], j[2], <<"monthly", rec.month>>>>
    BY <1>1, <1>2
  <2>2. k[1] = j[1] /\ k[2] = j[2]
    BY <1>2
  <2>. QED BY <1>2, <2>1, <2>2 DEF RowOf
<1>4. ASSUME NEW i \in Items, i[1] = k[1], i[2] = k[2], Counted(i) PROVE i = RowOf(k)
  BY <1>1, <1>4 DEF RowOf
<1>5. RowOf(k)[1] = k[1] /\ RowOf(k)[2] = k[2]
  BY DEF RowOf
<1>6. Counted(RowOf(k)) /\ RowOf(k) \in Items /\ RowOf(k) \notin DOMAIN OldRows
  BY <1>1, <1>2, <1>3
<1>7. IsModel(RowOf(k))
  BY <1>6 DEF Counted
<1>8. {i \in Items : i[1] = k[1] /\ i[2] = k[2] /\ Counted(i)} = {RowOf(k)}
  BY <1>4, <1>5, <1>6
<1>. QED BY <1>3, <1>6, <1>7, <1>8

(* There are finitely many of them, and the pair of a request that is due  *)
(* is one.                                                                 *)
LEMMA MeteredPairs ==
  ASSUME Comparable
  PROVE  IsFiniteSet(Metered) /\ \A q \in Due : Pair(q) \in Metered
<1>. DEFINE f == [q \in Requests |-> Pair(q)]
            g == [q \in Requests |-> <<Req[q].lens, Req[q].model>>]
            A == {Pair(q) : q \in Requests}
            B == {<<Req[q].lens, Req[q].model>> : q \in Requests}
<1>1. IsFiniteSet(A) /\ IsFiniteSet(B)
  <2>1. f \in Surjection(Requests, A) /\ g \in Surjection(Requests, B)
    BY DEF Surjection
  <2>. HIDE DEF f, g, A, B
  <2>. QED BY <2>1, TableAssumption, FS_Surjection
<1>2. ASSUME NEW i \in Items, Counted(i) PROVE <<i[1], i[2]>> \in A \union B
  <2>1. i \notin DOMAIN OldRows /\ IsModel(i)
    BY <1>2 DEF Comparable, RowsApart, Counted
  <2>2. PICK q \in Requests : i \in ItemsOf(q)
    BY <2>1 DEF Items
  <2>3. CASE i[1] # Req[q].lens
    <3>1. i = Primary(q)
      BY <2>1, <2>2, <2>3, ModelItem DEF Comparable
    <3>2. <<i[1], i[2]>> = Pair(q)
      BY <3>1 DEF Primary, Pair
    <3>. QED BY <3>2
  <2>4. CASE i[1] = Req[q].lens
    <3>1. PICK k \in KeysOf(q) : i = <<k[1], k[2], Period(k, Req[q].day)>>
      BY <2>2 DEF ItemsOf
    <3>2. i[2] = Req[q].model
      <4>1. i[2] = k[2]
        BY <3>1
      <4>2. \/ k = <<Req[q].p, Req[q].model>> \/ k = <<Req[q].lens, Req[q].model>>
            \/ k = <<Req[q].p, Req[q].profile>> /\ Req[q].profile # Nil
        BY DEF KeysOf
      <4>3. CASE k = <<Req[q].p, Req[q].profile>> /\ Req[q].profile # Nil
        BY <2>1, <4>1, <4>3 DEF Comparable, RowsApart, IsModel
      <4>. QED BY <4>1, <4>2, <4>3
    <3>. QED BY <2>4, <3>2
  <2>. QED BY <2>3, <2>4
<1>3. Metered \subseteq A \union B
  <2>. HIDE DEF A, B
  <2>. QED BY <1>2 DEF Metered
<1>4. IsFiniteSet(Metered)
  <2>. HIDE DEF A, B
  <2>. QED BY <1>1, <1>3, FS_Union, FS_Subset
<1>5. ASSUME NEW q \in Due PROVE Pair(q) \in Metered
  <2>1. q \in Requests /\ Month(Req[q].day) = rec.month
    BY DEF Due, InMonth
  <2>2. Primary(q) \in Items /\ Counted(Primary(q))
    BY <2>1, PrimaryRow DEF Comparable
  <2>3. <<Primary(q)[1], Primary(q)[2]>> = Pair(q)
    BY DEF Primary, Pair
  <2>. QED BY <2>2, <2>3 DEF Metered
<1>. QED BY <1>4, <1>5

(* The days that are compared. *)
Inner == {d \in Days : Inside(d)}

(* A row with requests that are due has in the ledger what the meter       *)
(* charged of them.                                                        *)
LEMMA DueRow ==
  ASSUME Comparable, TypeOK, KeptInv, LedgerInv, LedgerWhole,
         NEW k, NEW q0 \in Dues(k)
  PROVE  /\ RowOf(k) = Primary(q0)
         /\ LedgerOn(Inner, RowOf(k)) = SumFunctionOnSet(UsdOf, MeteredOn(Inner, rows[RowOf(k)]))
         /\ MeteredOn(Inner, rows[RowOf(k)]) \subseteq Dues(k)
<1>. DEFINE i == RowOf(k)
            r == rows[i]
            D == Inner
<1>1. q0 \in Due /\ q0 \in Requests /\ Month(Req[q0].day) = rec.month /\ Pair(q0) = k
  BY DEF Dues, Due, InMonth
<1>2. i = Primary(q0)
  BY <1>1, PrimaryRow DEF RowOf, Pair, Comparable
<1>3. i \in Items \ DOMAIN OldRows /\ IsModel(i) /\ ~IsLens(i) /\ i \in ItemsOf(q0)
  BY <1>1, <1>2, PrimaryRow DEF Comparable
<1>4. stream = <<>> /\ i \notin spoiled \union lost
  BY <1>1, <1>3 DEF LedgerWhole
<1>5. Tracked(i) /\ D \in SUBSET Days
  BY <1>3, <1>4 DEF Tracked, Inner
<1>6. LedgerOn(D, i) = Net(D, r)
  <2>1. Balanced(D, i)
    BY <1>3, <1>5 DEF LedgerInv
  <2>. QED BY <1>4, <2>1 DEF Balanced
<1>7. ASSUME NEW q \in MeteredOn(D, r) PROVE q \in Dues(k)
  <2>1. q \in r.reqs /\ Inside(Req[q].day)
    BY DEF MeteredOn, Inner
  <2>2. q \in Requests /\ i \in ItemsOf(q)
    BY <1>3, <2>1 DEF KeptInv, Kept, TypeOK, RowsOK, Row
  <2>3. i[1] # Req[q].lens
    BY <1>3, <2>2, NotLens
  <2>4. i = Primary(q)
    BY <1>3, <2>2, <2>3, ModelItem DEF Comparable
  <2>5. Pair(q) = k /\ Month(Req[q].day) = rec.month
    <3>1. <<Req[q].p, Req[q].model, <<"monthly", Month(Req[q].day)>>>>
            = <<Req[q0].p, Req[q0].model, <<"monthly", Month(Req[q0].day)>>>>
      BY <1>1, <1>2, <2>2, <2>4, PrimaryRow DEF Comparable
    <3>. QED BY <1>1, <3>1 DEF Pair
  <2>. QED BY <2>1, <2>2, <2>5 DEF Dues, Due, InMonth, Inside
<1>. HIDE DEF i
<1>8. MeteredOn(D, r) \subseteq Dues(k)
  BY <1>7
<1>. QED BY <1>2, <1>6, <1>8 DEF Net, i

(* The corrections that count for a pair.                                  *)
LinesFor(k) ==
  {n \in PlanLines : LET q == Plan[n].req IN
     /\ Counted(Primary(q)) /\ Inside(Req[q].day)
     /\ Req[q].p = k[1] /\ Req[q].model = k[2]}
Corrected(k) == {Plan[n].req : n \in LinesFor(k)}

(* They are of requests that are due, a correction each. *)
LEMMA LinesDue ==
  ASSUME Comparable, NEW k, k = <<k[1], k[2]>>
  PROVE  LinesFor(k) \in SUBSET DOMAIN Plan /\ Corrected(k) \subseteq Dues(k)
<1>1. LinesFor(k) \in SUBSET DOMAIN Plan
  BY DEF LinesFor, PlanLines
<1>2. ASSUME NEW n \in LinesFor(k) PROVE Plan[n].req \in Dues(k)
  <2>. DEFINE q == Plan[n].req
  <2>1. q \in Requests
    BY <1>1, PlanAssumption
  <2>2. Counted(Primary(q)) /\ Inside(Req[q].day) /\ Req[q].p = k[1] /\ Req[q].model = k[2]
    BY DEF LinesFor
  <2>. HIDE DEF q
  <2>3. Month(Req[q].day) = rec.month
    BY <2>1, <2>2, PrimaryRow DEF Comparable
  <2>4. Pair(q) = k
    BY <2>2 DEF Pair
  <2>5. q \in Dues(k)
    BY <2>1, <2>2, <2>3, <2>4 DEF Dues, Due, InMonth, Inside
  <2>. QED BY <2>5 DEF q
<1>. QED BY <1>1, <1>2 DEF Corrected

(* A request that is due was charged by the meter or by a correction, and  *)
(* by one of them only.                                                    *)
LEMMA DueParts ==
  ASSUME Comparable, TypeOK, KeptInv, LedgerInv, ObjectsInv, LedgerWhole,
         NEW k, k = <<k[1], k[2]>>, NEW q0 \in Dues(k)
  PROVE  /\ Dues(k) = MeteredOn(Inner, rows[RowOf(k)]) \union Corrected(k)
         /\ MeteredOn(Inner, rows[RowOf(k)]) \intersect Corrected(k) = {}
<1>. DEFINE i == RowOf(k)
            r == rows[i]
            A == MeteredOn(Inner, r)
<1>1. A \subseteq Dues(k) /\ Corrected(k) \subseteq Dues(k)
  BY DueRow, LinesDue
<1>2. \A q \in Dues(k) : i = Primary(q)
  BY DueRow
<1>3. ASSUME NEW q \in Dues(k), q \notin A PROVE q \in Corrected(k)
  <2>1. q \in Due /\ q \in Requests /\ Month(Req[q].day) = rec.month /\ Inside(Req[q].day)
        /\ Pair(q) = k
    BY DEF Dues, Due, InMonth, Inside
  <2>2. i \in ItemsOf(q) /\ Counted(Primary(q))
    BY <1>2, <2>1, PrimaryRow DEF Comparable
  <2>3. q \in r.reqs
    BY <2>1, <2>2 DEF LedgerWhole
  <2>4. Req[q].day \in Inner
    BY <2>1, RequestsAssumption DEF Inner, Days
  <2>5. q \in NoPrice \/ q \in FixedOn(r)
    BY <1>3, <2>3, <2>4 DEF MeteredOn
  <2>6. \E n \in PlanLines : Plan[n].req = q
    <3>1. CASE q \in NoPrice
      BY <2>1, <3>1 DEF LedgerWhole
    <3>2. CASE q \in FixedOn(r)
      <4>1. PICK n \in DOMAIN Plan : Plan[n].id \in r.fixes /\ Plan[n].req = q
        BY <3>2 DEF FixedOn
      <4>2. i \in Items
        BY <2>1, <2>2, RequestItems
      <4>. QED BY <4>1, <4>2 DEF LedgerWhole
    <3>. QED BY <2>5, <3>1, <3>2
  <2>7. PICK n \in PlanLines : Plan[n].req = q
    BY <2>6
  <2>8. Req[q].p = k[1] /\ Req[q].model = k[2]
    BY <2>1 DEF Pair
  <2>9. n \in LinesFor(k)
    BY <2>1, <2>2, <2>7, <2>8 DEF LinesFor
  <2>. QED BY <2>7, <2>9 DEF Corrected
<1>4. ASSUME NEW q \in A, q \in Corrected(k) PROVE FALSE
  <2>1. PICK n \in LinesFor(k) : Plan[n].req = q
    BY <1>4 DEF Corrected
  <2>2. n \in DOMAIN Plan /\ Plan[n].id \in objects
    BY <2>1 DEF LinesFor, PlanLines
  <2>3. q \in Due /\ q \in Requests /\ i \in ItemsOf(q)
    BY <1>1, <1>2, PrimaryRow DEF Dues, Due, InMonth, Comparable
  <2>4. i \notin lost
    BY <2>3 DEF LedgerWhole
  <2>5. Plan[n].id \in r.fixes
    BY <2>1, <2>2, <2>3, <2>4 DEF ObjectsInv, Marked, ToFix, Intact
  <2>6. q \in FixedOn(r)
    BY <2>1, <2>2, <2>5 DEF FixedOn
  <2>. QED BY <2>6 DEF MeteredOn
<1>. HIDE DEF A
<1>5. Dues(k) = A \union Corrected(k) /\ A \intersect Corrected(k) = {}
  BY <1>1, <1>3, <1>4
<1>. QED BY <1>5 DEF A

(* A row without requests that are due has no dollars of the days that are *)
(* compared.                                                               *)
LEMMA NoneDue ==
  ASSUME Comparable, TypeOK, SourcedInv, NEW k \in Metered, Dues(k) = {}
  PROVE  LedgerOn(Inner, RowOf(k)) = 0
<1>. DEFINE i == RowOf(k)
            w == ledger[i].usd
<1>1. i \in Items \ DOMAIN OldRows /\ IsModel(i) /\ k = <<k[1], k[2]>>
  BY MeteredRow
<1>2. ASSUME NEW d \in Inner PROVE w[d] = 0
  <2>. SUFFICES ASSUME w[d] # 0 PROVE FALSE
    OBVIOUS
  <2>1. d \in Days /\ Inside(d)
    BY DEF Inner
  <2>2. PICK q \in Requests : i \in ItemsOf(q) /\ Req[q].day = d /\ i[1] # Req[q].lens
    BY <1>1, <2>1 DEF SourcedInv, MadeBy
  <2>3. i = Primary(q)
    BY <1>1, <2>2, ModelItem DEF Comparable
  <2>4. <<k[1], k[2], <<"monthly", rec.month>>>>
          = <<Req[q].p, Req[q].model, <<"monthly", Month(Req[q].day)>>>>
    BY <2>2, <2>3, PrimaryRow DEF RowOf, Comparable
  <2>5. q \in Dues(k)
    BY <1>1, <2>1, <2>2, <2>4 DEF Dues, Due, InMonth, Inside, Pair
  <2>. QED BY <2>5
<1>3. IsFiniteSet(Inner)
  BY <1>1, LedgerWeighs DEF Inner
<1>. HIDE DEF w, i
<1>4. SumFunctionOnSet(w, Inner) = 0
  BY <1>2, <1>3, SumZero
<1>. QED BY <1>4 DEF LedgerOn, w, i

(* What the ledger says of a pair is what its due requests cost.           *)
LEMMA LedgerTotalIs ==
  ASSUME Comparable, TypeOK, KeptInv, LedgerInv, SourcedInv, ObjectsInv, LedgerWhole,
         NEW k \in Metered
  PROVE  LedgerTotal(k[1], k[2]) = SumFunctionOnSet(UsdOf, Dues(k))
<1>. DEFINE i == RowOf(k)
            u == [j \in Items |-> UsageTotal(j)]
            rowsFor == {j \in Items : j[1] = k[1] /\ j[2] = k[2] /\ Counted(j)}
            A == MeteredOn(Inner, rows[i])
            C == Corrected(k)
<1>1. i \in Items /\ rowsFor = {i} /\ k = <<k[1], k[2]>>
  BY MeteredRow
<1>2. UsageTotal(i) = LedgerOn(Inner, i) /\ UsageTotal(i) \in Int
  <2>1. UsageTotal(i) = LedgerOn(Inner, i)
    BY DEF UsageTotal, LedgerOn, Inner, Days
  <2>2. Inner \in SUBSET Days
    BY DEF Inner
  <2>. QED BY <1>1, <2>1, <2>2, LedgerWeighs
<1>3. LedgerTotal(k[1], k[2])
        = SumFunctionOnSet(u, rowsFor) + SumFunctionOnSet(PlanUsd, LinesFor(k))
  BY DEF LedgerTotal, LinesFor, PlanUsd
<1>4. u[i] = UsageTotal(i)
  BY <1>1
<1>. HIDE DEF u, rowsFor, i
<1>5. SumFunctionOnSet(u, rowsFor) = LedgerOn(Inner, i)
  BY <1>1, <1>2, <1>4, SumOne
<1>6. SumFunctionOnSet(UsdOf, C) = SumFunctionOnSet(PlanUsd, LinesFor(k)) /\ C \subseteq Dues(k)
      /\ SumFunctionOnSet(PlanUsd, LinesFor(k)) \in Int
  BY <1>1, LinesDue, PlanCosts, PlanSum DEF Corrected
<1>7. Dues(k) \in SUBSET Requests
  BY DEF Dues, Due, InMonth
<1>8. CASE Dues(k) = {}
  <2>1. LedgerOn(Inner, i) = 0
    BY <1>8, NoneDue DEF i
  <2>2. C = {}
    BY <1>6, <1>8
  <2>. HIDE DEF C
  <2>3. SumFunctionOnSet(UsdOf, C) = 0 /\ SumFunctionOnSet(UsdOf, Dues(k)) = 0
    BY <1>8, <2>2, SumEmpty
  <2>. QED BY <1>3, <1>5, <1>6, <2>1, <2>3
<1>9. CASE Dues(k) # {}
  <2>1. PICK q \in Dues(k) : TRUE
    BY <1>9
  <2>2. Dues(k) = A \union C /\ A \intersect C = {}
    BY <1>1, <2>1, DueParts DEF i
  <2>3. LedgerOn(Inner, i) = SumFunctionOnSet(UsdOf, A)
    BY <2>1, DueRow DEF i
  <2>. HIDE DEF A, C
  <2>4. A \in SUBSET Requests /\ C \in SUBSET Requests
    BY <1>7, <2>2
  <2>5. SumFunctionOnSet(UsdOf, A \union C)
          = SumFunctionOnSet(UsdOf, A) + SumFunctionOnSet(UsdOf, C)
    BY <1>7, <2>2, <2>4, UsdWeighs, SumUnion
  <2>. QED BY <1>3, <1>5, <1>6, <2>2, <2>3, <2>5
<1>. QED BY <1>8, <1>9

(* A line of the bill has the key of the pair it is metered under, unless  *)
(* the bill has another name or account for its caller.                    *)
LEMMA SameKey ==
  ASSUME rec.bill = Due, Due \intersect Unresolved = {}, NEW q \in Due, ~Misread(q)
  PROVE  BillKey(q) = LedgerKey(q)
<1>. DEFINE line == <<BillAccount(q), Req[q].model>>
<1>1. q \notin Unresolved /\ (q \in rec.anon => line \in Pooled)
  BY DEF Pooled
<1>2. LedgerKey(q) = IF line \in Pooled THEN <<"model", line>> ELSE <<"principal", Req[q].p>>
  BY DEF LedgerKey, MeterKey, Misread
<1>3. BillKey(q) = IF line \in Pooled THEN <<"model", line>>
                   ELSE IF q \in rec.anon THEN <<"unattributed", BillAccount(q)>>
                   ELSE <<"principal", Req[q].p>>
  BY <1>1 DEF BillKey, Misread
<1>. QED BY <1>1, <1>2, <1>3

(* The total of a line of the report is the same on both sides, where the  *)
(* same requests are of it on both.                                        *)
LEMMA TotalsAgree ==
  ASSUME Comparable, TypeOK, KeptInv, LedgerInv, SourcedInv, ObjectsInv, LedgerWhole,
         rec.bill = Due, NEW key,
         \A q \in Due : BillKey(q) = key <=> LedgerKey(q) = key
  PROVE  BillTotal(key) = MeterTotal(key)
<1>. DEFINE K == {k \in Metered : MeterKey(k) = key}
            v == [k \in Metered |-> LedgerTotal(k[1], k[2])]
            pair == [q \in Due |-> Pair(q)]
<1>1. IsFiniteSet(K) /\ Due \in SUBSET Requests
  <2>1. K \subseteq Metered
    OBVIOUS
  <2>. HIDE DEF K
  <2>. QED BY <2>1, MeteredPairs, FS_Subset DEF Due, InMonth
<1>2. IsFiniteSet(Due) /\ Weighs(UsdOf, Due)
  BY <1>1, UsdWeighs
<1>3. ASSUME NEW k \in K PROVE v[k] = SumFunctionOnSet(UsdOf, Keyed(Due, pair, {k}))
  <2>1. v[k] = SumFunctionOnSet(UsdOf, Dues(k))
    BY LedgerTotalIs
  <2>2. Dues(k) = Keyed(Due, pair, {k})
    BY DEF Dues, Keyed
  <2>. QED BY <2>1, <2>2
<1>4. Keyed(Due, pair, K) = {q \in rec.bill : BillKey(q) = key}
  <2>1. \A q \in Due : pair[q] \in K <=> MeterKey(Pair(q)) = key
    BY MeteredPairs
  <2>2. \A q \in Due : BillKey(q) = key <=> MeterKey(Pair(q)) = key
    BY DEF LedgerKey, Pair
  <2>. HIDE DEF K, pair
  <2>. QED BY <2>1, <2>2 DEF Keyed
<1>5. MeterTotal(key) = SumFunctionOnSet(v, K)
  BY DEF MeterTotal
<1>. HIDE DEF K, v, pair
<1>6. SumFunctionOnSet(v, K) = SumFunctionOnSet(UsdOf, Keyed(Due, pair, K))
  <2>1. KeySums(v, UsdOf, Due, pair, K)
    BY <1>3 DEF KeySums
  <2>2. IsFiniteSet(K) /\ IsFiniteSet(Due) /\ Weighs(UsdOf, Due)
    BY <1>1, <1>2
  <2>. QED BY ONLY <2>1, <2>2, SumByKey
<1>. QED BY <1>4, <1>5, <1>6 DEF BillTotal

(* NoPhantomDrift for any requests, prices, plan, names and accounts of    *)
(* callers, windows of profiles and watermark: the lines of a report on a  *)
(* bill that had landed and a ledger that was whole are all of callers the *)
(* two sides know differently, wherever they can be of the same usage.     *)
THEOREM NoPhantomDriftHolds ==
  ASSUME Comparable
  PROVE  Spec => []NoPhantomDrift
<1>1. ASSUME TypeOK, KeptInv, LedgerInv, SourcedInv, ObjectsInv, RecInv
      PROVE  NoPhantomDrift
  <2>. SUFFICES ASSUME rec.on, rec.landed, LedgerWhole, NEW key \in Drift
                PROVE  \E q \in Due : /\ Misread(q) /\ BillKey(q) # LedgerKey(q)
                                      /\ key \in {BillKey(q), LedgerKey(q)}
    BY DEF NoPhantomDrift
  <2>1. rec.bill = Due /\ Due \intersect Unresolved = {}
    BY <1>1 DEF RecInv
  <2>2. BillTotal(key) # MeterTotal(key)
    BY DEF Drift
  <2>3. PICK q \in Due : ~(BillKey(q) = key <=> LedgerKey(q) = key)
    BY <1>1, <2>1, <2>2, TotalsAgree
  <2>4. BillKey(q) # LedgerKey(q) /\ key \in {BillKey(q), LedgerKey(q)}
    BY <2>3
  <2>. QED BY <2>1, <2>4, SameKey
<1>. QED BY <1>1, TypeCorrect, KeptAlways, LedgerAlways, SourcedAlways, ObjectsAlways, RecAlways,
            PTL

(***************************************************************************)
(* The pages' sums: a row's dollars by region are those of the requests it *)
(* was charged for, the row of an identity lens that has requests is       *)
(* marked, and no request is of a later day.                               *)
(***************************************************************************)
From(g, Q)  == {q \in Q : Req[q].region = g}
Regional(r) == \A g \in Regions : r.regions[g] = Spent(From(g, PaidOn(r)))
RegionInv   == \A i \in Items \ DOMAIN OldRows : Intact(i) => Regional(rows[i])
ByLens(i, r) == \A q \in r.reqs : i[1] = Req[q].lens => r.marked
LensInv     == \A i \in Items \ DOMAIN OldRows : ByLens(i, rows[i])
PastInv     ==
  /\ today \in Nat \ {0}
  /\ (\E o \in Runs : run[o].pc # "idle") => Historical
  /\ \A i \in Items \ DOMAIN OldRows : \A q \in rows[i].reqs : Req[q].day <= today

(* A request that is paid as well adds its price to the dollars of its     *)
(* region, and to no others.                                               *)
LEMMA RegionAdd ==
  ASSUME NEW P \in SUBSET Requests, NEW q \in Requests, q \notin P, NEW g \in Regions
  PROVE  /\ Spent(From(g, P)) \in Int
         /\ Spent(From(g, P \union {q}))
              = Spent(From(g, P)) + (IF Req[q].region = g THEN Req[q].usd ELSE 0)
<1>. DEFINE A == From(g, P)
<1>1. A \in SUBSET Requests /\ A \union {q} \in SUBSET Requests /\ q \notin A
  BY DEF From
<1>2. UsdOf[q] = Req[q].usd
  BY DEF UsdOf
<1>3. From(g, P \union {q}) = IF Req[q].region = g THEN A \union {q} ELSE A
  BY DEF From
<1>. HIDE DEF A
<1>4. IsFiniteSet(A) /\ Weighs(UsdOf, A) /\ Weighs(UsdOf, A \union {q})
  BY <1>1, UsdWeighs
<1>5. SumFunctionOnSet(UsdOf, A) \in Int
  BY <1>4, SumType
<1>6. SumFunctionOnSet(UsdOf, A \union {q}) = SumFunctionOnSet(UsdOf, A) + UsdOf[q]
  BY <1>1, <1>4, SumAdd
<1>7. CASE Req[q].region = g
  BY <1>2, <1>3, <1>5, <1>6, <1>7 DEF Spent, A
<1>8. CASE Req[q].region # g
  BY <1>3, <1>5, <1>8 DEF Spent, A
<1>. QED BY <1>7, <1>8

(* Regional dollars that grow with what is paid. *)
LEMMA RegionGrows ==
  ASSUME NEW r \in Row, Regional(r), NEW s, NEW q \in Requests, q \notin PaidOn(r),
         PaidOn(s) = PaidOn(r) \union {q},
         s.regions = [r.regions EXCEPT ![Req[q].region] = @ + Req[q].usd]
  PROVE  Regional(s)
<1>. DEFINE P == PaidOn(r)
<1>1. P \in SUBSET Requests
  BY DEF PaidOn, Row
<1>2. r.regions \in [Regions -> Int] /\ Req[q].usd \in Int
  BY RequestsAssumption DEF Row
<1>3. SUFFICES ASSUME NEW g \in Regions PROVE s.regions[g] = Spent(From(g, PaidOn(s)))
  BY DEF Regional
<1>4. r.regions[g] = Spent(From(g, P))
  BY DEF Regional
<1>. HIDE DEF P
<1>5. Spent(From(g, P)) \in Int
      /\ Spent(From(g, P \union {q}))
           = Spent(From(g, P)) + (IF Req[q].region = g THEN Req[q].usd ELSE 0)
  BY <1>1, RegionAdd DEF P
<1>6. s.regions[g] = r.regions[g] + (IF Req[q].region = g THEN Req[q].usd ELSE 0)
  BY <1>2, <1>4, <1>5
<1>. QED BY <1>4, <1>5, <1>6 DEF P

(* A charge keeps the dollars of the regions. *)
LEMMA RegionMeter ==
  ASSUME NEW i \in Items, NEW r \in Row, NEW s, MeterChange(i, r, s), Charged(r), Regional(r)
  PROVE  Regional(s)
<1>1. PICK q \in Requests : q \notin r.reqs /\ s = Metered1(q, i, r)
  BY DEF MeterChange
<1>. DEFINE usd == IF q \in NoPrice THEN 0 ELSE Req[q].usd
<1>2. /\ s.reqs = r.reqs \union {q} /\ s.fixes = r.fixes
      /\ s.regions = [r.regions EXCEPT ![Req[q].region] = @ + usd]
  <2>. DEFINE t == Metered1(q, i, r)
  <2>1. t.reqs = r.reqs \union {q} /\ t.fixes = r.fixes
    BY MeterFields
  <2>2. t.regions = [r.regions EXCEPT ![Req[q].region] = @ + usd]
    BY DEF Metered1, Row
  <2>. HIDE DEF t, usd
  <2>3. s = t
    BY <1>1 DEF t
  <2>. QED BY <2>1, <2>2, <2>3
<1>3. FixedOn(s) = FixedOn(r) /\ q \notin FixedOn(r)
  BY <1>1, <1>2 DEF Charged, FixedOn
<1>4. CASE q \in NoPrice
  <2>1. PaidOn(s) = PaidOn(r)
    BY <1>2, <1>3, <1>4 DEF PaidOn
  <2>2. \A g \in Regions : s.regions[g] = r.regions[g]
    BY <1>2, <1>4 DEF Row
  <2>. QED BY <2>1, <2>2 DEF Regional
<1>5. CASE q \notin NoPrice
  <2>1. PaidOn(s) = PaidOn(r) \union {q} /\ q \notin PaidOn(r)
    BY <1>1, <1>2, <1>3, <1>5 DEF PaidOn
  <2>2. s.regions = [r.regions EXCEPT ![Req[q].region] = @ + Req[q].usd]
    BY <1>2, <1>5
  <2>. QED BY <2>1, <2>2, RegionGrows
<1>. QED BY <1>4, <1>5

(* A correction keeps them. *)
LEMMA RegionFix ==
  ASSUME NEW i \in Items, NEW r \in Row, NEW s, FixChange(i, r, s), Charged(r), Regional(r)
  PROVE  Regional(s)
<1>1. PICK n \in DOMAIN Plan : Fixable(r, Plan[n]) /\ s = Fixed(r, Plan[n])
  BY DEF FixChange
<1>. DEFINE c == Plan[n]
            q == c.req
<1>2. /\ s.reqs = (IF c.known THEN r.reqs ELSE r.reqs \union {q})
      /\ s.fixes = r.fixes \union {c.id}
  BY <1>1, FixFields
<1>3. s.regions = [r.regions EXCEPT ![Req[q].region] = @ + Req[q].usd]
  BY <1>1 DEF Fixed, Usd, Row
<1>4. c.id \notin r.fixes /\ (c.known <=> q \in r.reqs) /\ c.known \in BOOLEAN
      /\ q \in Requests /\ (c.known => q \in NoPrice)
  BY <1>1, PlanAssumption DEF Fixable
<1>5. \A m \in DOMAIN Plan : (Plan[m].id = c.id \/ Plan[m].req = q) => m = n
  BY PlanAssumption
<1>6. q \notin FixedOn(r) /\ FixedOn(s) = FixedOn(r) \union {q}
  BY <1>2, <1>4, <1>5 DEF FixedOn
<1>7. q \notin PaidOn(r)
  BY <1>4, <1>6 DEF PaidOn
<1>8. PaidOn(s) = PaidOn(r) \union {q}
  <2>1. \A x : x \in s.reqs <=> x \in r.reqs \/ x = q
    BY <1>2, <1>4
  <2>2. q \in FixedOn(s)
    BY <1>6
  <2>. QED BY <1>6, <2>1, <2>2 DEF PaidOn
<1>. HIDE DEF c, q
<1>. QED BY <1>3, <1>4, <1>7, <1>8, RegionGrows

(* A row without requests has no dollars of any region. *)
LEMMA RegionEmpty ==
  ASSUME NEW r, r.reqs = {}, \A g \in Regions : r.regions[g] = 0
  PROVE  Regional(r)
<1>1. \A g \in Regions : From(g, PaidOn(r)) = {}
  BY DEF From, PaidOn
<1>2. Spent({}) = 0
  BY SumEmpty DEF Spent
<1>. QED BY <1>1, <1>2 DEF Regional

(* Every change of a row that was never lost keeps the dollars of the      *)
(* regions, and what they say of lenses.                                   *)
LEMMA RegionChange ==
  ASSUME TypeOK, NEW i \in Items \ DOMAIN OldRows, NEW gone, i \notin gone, NEW s,
         Change(i, gone, rows[i], s), Charged(rows[i]), Regional(rows[i])
  PROVE  Regional(s)
<1>1. rows[i] \in Row
  BY DEF TypeOK, RowsOK
<1>2. CASE StampChange(rows[i], s)
  <2>1. PICK n \in Nat : s = [rows[i] EXCEPT !.stamp = n]
    BY <1>2 DEF StampChange
  <2>2. s.reqs = rows[i].reqs /\ s.fixes = rows[i].fixes /\ s.regions = rows[i].regions
    BY <1>1, <2>1 DEF Row
  <2>3. FixedOn(s) = FixedOn(rows[i])
    BY <2>2 DEF FixedOn
  <2>4. PaidOn(s) = PaidOn(rows[i])
    BY <2>2, <2>3 DEF PaidOn
  <2>. QED BY <2>2, <2>4 DEF Regional
<1>3. CASE BackChange(i, rows[i], s)
  <2>1. s.reqs = {}
    BY <1>3, BackFields DEF BackChange
  <2>2. \A g \in Regions : s.regions[g] = 0
    BY <1>3 DEF BackChange, Rebuilt, NoRow
  <2>. QED BY <2>1, <2>2, RegionEmpty
<1>. QED BY <1>1, <1>2, <1>3, RegionMeter, RegionFix DEF Change, GoneChange

(* The dollars by region of every row that was never lost. *)
LEMMA RegionAlways == Spec => []RegionInv
<1>1. ASSUME Init PROVE RegionInv
  <2>1. \A i \in Items \ DOMAIN OldRows : rows[i] = NoRow
    BY <1>1 DEF Init, TableInit
  <2>2. NoRow.reqs = {} /\ \A g \in Regions : NoRow.regions[g] = 0
    BY DEF NoRow
  <2>. QED BY <2>1, <2>2, RegionEmpty DEF RegionInv
<1>2. ASSUME TypeOK, ChargedInv, RegionInv, [Next]_vars PROVE RegionInv'
  <2>. SUFFICES ASSUME NEW i \in Items \ DOMAIN OldRows, i \notin lost'
                PROVE  Regional(rows'[i])
    BY DEF RegionInv, Intact, Regional, From, Spent, PaidOn, FixedOn
  <2>1. Charged(rows[i]) /\ Regional(rows[i])
    BY <1>2, LostGrows DEF ChargedInv, RegionInv, Intact
  <2>2. rows'[i] = rows[i] \/ Change(i, lost', rows[i], rows'[i])
    BY <1>2, RowStep
  <2>. QED BY <1>2, <2>1, <2>2, RegionChange
<1>. QED BY <1>1, <1>2, TypeCorrect, ChargedAlways, PTL DEF Spec

(* A row of an identity lens that lists a request of the lens is marked:   *)
(* the meter marks it, and no correction adds a request to it.             *)
LEMMA LensChange ==
  ASSUME LensesMetered, TypeOK, NEW i \in Items, NEW gone, NEW s,
         Change(i, gone, rows[i], s), ByLens(i, rows[i])
  PROVE  ByLens(i, s)
<1>. DEFINE r == rows[i]
<1>1. r \in Row
  BY DEF TypeOK, RowsOK
<1>2. CASE MeterChange(i, r, s)
  <2>1. PICK q \in Requests : i \in ItemsOf(q) /\ s = Metered1(q, i, r)
    BY <1>2 DEF MeterChange
  <2>. HIDE DEF r
  <2>2. s.reqs = r.reqs \union {q} /\ s.marked = (r.marked \/ i[1] = Req[q].lens)
    BY <1>1, <2>1, MeterFields
  <2>. QED BY <2>2 DEF ByLens, r
<1>3. CASE FixChange(i, r, s)
  <2>1. PICK n \in DOMAIN Plan : i \in ToFix(Plan[n]) /\ s = Fixed(r, Plan[n])
    BY <1>3 DEF FixChange
  <2>. DEFINE c == Plan[n]
  <2>. HIDE DEF r
  <2>2. s.reqs = (IF c.known THEN r.reqs ELSE r.reqs \union {c.req}) /\ s.marked = r.marked
    BY <1>1, <2>1, FixFields
  <2>3. ASSUME ~c.known PROVE i[1] # Req[c.req].lens
    <3>1. Req[c.req].lens = Nil
      BY <2>3 DEF LensesMetered
    <3>2. PICK k \in KeysOf(c.req) : i = <<k[1], k[2], Period(k, Req[c.req].day)>>
      BY <2>1 DEF ToFix, ItemsOf
    <3>3. k[1] = Req[c.req].p
      BY <3>1, <3>2 DEF KeysOf
    <3>. QED BY <3>1, <3>2, <3>3, PlanAssumption, RequestsAssumption
  <2>. QED BY <2>2, <2>3 DEF ByLens, r
<1>4. CASE StampChange(r, s)
  <2>1. PICK n \in Nat : s = [r EXCEPT !.stamp = n]
    BY <1>4 DEF StampChange
  <2>. HIDE DEF r
  <2>2. s.reqs = r.reqs /\ s.marked = r.marked
    BY <1>1, <2>1, StampFields
  <2>. QED BY <2>2 DEF ByLens, r
<1>5. CASE GoneChange(i, gone, r, s)
  BY <1>5 DEF GoneChange, NoRow, ByLens
<1>6. CASE BackChange(i, r, s)
  BY <1>6, BackFields DEF BackChange, ByLens
<1>. QED BY <1>2, <1>3, <1>4, <1>5, <1>6 DEF Change

(* It holds at all times. *)
LEMMA LensAlways == ASSUME LensesMetered PROVE Spec => []LensInv
<1>1. ASSUME Init PROVE LensInv
  BY <1>1 DEF Init, TableInit, NoRow, LensInv, ByLens
<1>2. ASSUME TypeOK, LensInv, [Next]_vars PROVE LensInv'
  <2>. SUFFICES ASSUME NEW i \in Items \ DOMAIN OldRows PROVE ByLens(i, rows'[i])
    BY DEF LensInv, ByLens
  <2>1. ByLens(i, rows[i])
    BY <1>2 DEF LensInv
  <2>2. rows'[i] = rows[i] \/ Change(i, lost', rows[i], rows'[i])
    BY <1>2, RowStep
  <2>. QED BY <1>2, <2>1, <2>2, LensChange
<1>. QED BY <1>1, <1>2, TypeCorrect, PTL DEF Spec

(* What a correction makes a row list is past usage. *)
LEMMA PastRepair ==
  ASSUME TypeOK, PastInv, RepairNext, NEW i \in Items, NEW q \in rows'[i].reqs,
         q \notin rows[i].reqs
  PROVE  Req[q].day <= today
<1>1. PICK o \in Runs : \/ RepairStarts(o) \/ RepairChecks(o) \/ RepairWrites(o)
                        \/ RepairPuts(o) \/ RepairCompletes(o) \/ RepairDies(o)
  BY DEF RepairNext
<1>2. CASE RepairWrites(o)
  <2>. DEFINE c == Current(o)
  <2>1. run[o].pc = "write"
    BY <1>2 DEF RepairWrites, At
  <2>2. run[o].n \in DOMAIN Plan /\ c = Plan[run[o].n] /\ Historical
    BY <2>1 DEF Current, TypeOK, RunsOK, RunOK, PastInv
  <2>3. rows'[i] = rows[i] \/ rows'[i] = Fixed(rows[i], c) \/ rows'[i] = NoRow
    BY <1>2 DEF RepairWrites, Write
  <2>4. Fixed(rows[i], c).reqs = IF c.known THEN rows[i].reqs ELSE rows[i].reqs \union {c.req}
    <3>1. rows[i] \in Row
      BY DEF TypeOK, RowsOK
    <3>. HIDE DEF c
    <3>. QED BY <2>2, <3>1, FixFields
  <2>5. NoRow.reqs = {}
    BY DEF NoRow
  <2>. HIDE DEF c
  <2>6. q = c.req
    BY <2>3, <2>4, <2>5
  <2>. QED BY <2>2, <2>6 DEF Historical
<1>3. CASE ~RepairWrites(o)
  <2>1. rows' = rows
    BY <1>1, <1>3 DEF RepairStarts, RepairChecks, RepairPuts, RepairCompletes, RepairDies, tableVars
  <2>. QED BY <2>1
<1>. QED BY <1>2, <1>3

(* A row comes to list no request of a later day. *)
LEMMA PastRow ==
  ASSUME TypeOK, PastInv, [Next]_vars, NEW i \in Items \ DOMAIN OldRows, NEW q \in rows'[i].reqs
  PROVE  Req[q].day <= today
<1>0. CASE q \in rows[i].reqs
  BY <1>0 DEF PastInv
<1>. SUFFICES ASSUME q \notin rows[i].reqs PROVE Req[q].day <= today
  BY <1>0
<1>1. rows[i] \in Row /\ rows = [j \in Items |-> rows[j]]
  BY DEF TypeOK, RowsOK
<1>2. CASE TableNext
  <2>1. CASE NextDay
    BY <2>1 DEF NextDay
  <2>2. ASSUME NEW p \in Requests, NEW j \in ItemsOf(p), MeterWrites(p, j) PROVE Req[q].day <= today
    <3>. DEFINE s == Metered1(p, j, rows[j])
    <3>1. WriteOne(j, s) /\ Req[p].day <= today
      BY <2>2 DEF MeterWrites, Metered1
    <3>2. rows'[i] = IF i = j THEN s ELSE rows[i]
      <4>. HIDE DEF s
      <4>. QED BY <3>1 DEF WriteOne, Write
    <3>3. s.reqs = rows[j].reqs \union {p}
      <4>1. j \in Items /\ rows[j] \in Row
        BY RequestItems DEF TypeOK, RowsOK
      <4>. QED BY <4>1, MeterFields
    <3>. HIDE DEF s
    <3>. QED BY <3>1, <3>2, <3>3
  <2>3. ASSUME NEW j \in Items, EnforcementStamps(j) \/ StampCleared(j) PROVE Req[q].day <= today
    <3>1. PICK n : WriteOne(j, [rows[j] EXCEPT !.stamp = n])
      BY <2>3 DEF EnforcementStamps, StampCleared
    <3>. DEFINE s == [rows[j] EXCEPT !.stamp = n]
    <3>2. rows[j] \in Row
      BY DEF TypeOK, RowsOK
    <3>3. s.reqs = rows[j].reqs
      BY <3>2 DEF Row
    <3>. HIDE DEF s
    <3>4. rows'[i] = IF i = j THEN s ELSE rows[i]
      BY <3>1 DEF WriteOne, Write, s
    <3>. QED BY <3>3, <3>4
  <2>. QED BY <1>2, <2>1, <2>2, <2>3 DEF TableNext
<1>3. CASE LedgerNext
  <2>1. CASE LedgerBatch \/ LedgerAgain \/ LedgerGivesUp \/ BackfillReads
    BY <2>1 DEF LedgerBatch, LedgerAgain, LedgerGivesUp, BackfillReads, tableVars
  <2>2. ASSUME NEW j \in Items, RowDisappears(j) \/ BackfillPut(j) PROVE FALSE
    <3>1. \/ WriteOne(j, NoRow) \/ WriteOne(j, Rebuilt(j)) \/ rows' = rows
      BY <2>2 DEF RowDisappears, BackfillPut
    <3>2. NoRow.reqs = {} /\ Rebuilt(j).reqs = {}
      BY BackFields DEF NoRow
    <3>3. rows'[i] = NoRow \/ rows'[i] = Rebuilt(j) \/ rows'[i] = rows[i]
      BY <3>1 DEF WriteOne, Write
    <3>. QED BY <3>2, <3>3
  <2>. QED BY <1>3, <2>1, <2>2 DEF LedgerNext
<1>4. CASE RepairNext
  BY <1>4, PastRepair
<1>5. CASE CurNext
  BY <1>5 DEF CurNext, Reconcile, Report, tableVars
<1>6. CASE UNCHANGED vars
  BY <1>6 DEF vars, tableVars
<1>. QED BY <1>2, <1>3, <1>4, <1>5, <1>6 DEF Next

(* Neither a row nor a plan that runs is of a later day than today's.      *)
LEMMA PastAlways == Spec => []PastInv
<1>1. ASSUME Init PROVE PastInv
  BY <1>1 DEF Init, TableInit, RepairInit, NotRunning, NoRow, PastInv
<1>2. ASSUME TypeOK, PastInv, [Next]_vars PROVE PastInv'
  <2>1. today \in Nat \ {0} /\ today' \in Nat \ {0} /\ today <= today'
    <3>1. today' = today \/ today' = today + 1
      <4>1. CASE UNCHANGED vars
        BY <4>1 DEF vars, tableVars
      <4>2. CASE TableNext
        BY <4>2 DEF TableNext, NextDay, MeterWrites, EnforcementStamps, StampCleared
      <4>3. CASE LedgerNext
        BY <4>3 DEF LedgerNext, LedgerBatch, LedgerAgain, LedgerGivesUp, BackfillReads,
                    RowDisappears, BackfillPut, tableVars
      <4>4. CASE RepairNext
        BY <4>4 DEF RepairNext, RepairStarts, RepairChecks, RepairWrites, RepairPuts,
                    RepairCompletes, RepairDies, tableVars
      <4>5. CASE CurNext
        BY <4>5 DEF CurNext, Reconcile, Report, tableVars
      <4>. QED BY <1>2, <4>1, <4>2, <4>3, <4>4, <4>5 DEF Next
    <3>. QED BY <1>2, <3>1 DEF PastInv
  <2>2. \A q \in Requests : Req[q].day \in Nat
    BY RequestsAssumption, TableAssumption
  <2>3. ASSUME \E o \in Runs : run'[o].pc # "idle" PROVE Historical'
    <3>1. Historical
      <4>1. CASE \E o \in Runs : run[o].pc # "idle"
        BY <1>2, <4>1 DEF PastInv
      <4>2. CASE \A o \in Runs : run[o].pc = "idle"
        <5>1. PICK o \in Runs : run'[o].pc # "idle"
          BY <2>3
        <5>2. ~UNCHANGED repairVars
          BY <4>2, <5>1 DEF repairVars
        <5>3. PICK p \in Runs : \/ RepairStarts(p) \/ RepairChecks(p) \/ RepairWrites(p)
                                \/ RepairPuts(p) \/ RepairCompletes(p) \/ RepairDies(p)
          BY <1>2, <5>2 DEF Next, vars, RepairNext
        <5>4. RepairStarts(p)
          BY <4>2, <5>3 DEF RepairChecks, RepairWrites, RepairPuts, RepairCompletes, RepairDies, At
        <5>. QED BY <5>4 DEF RepairStarts
      <4>. QED BY <4>1, <4>2
    <3>. QED BY <2>1, <2>2, <3>1, PlanAssumption DEF Historical
  <2>4. ASSUME NEW i \in Items \ DOMAIN OldRows, NEW q \in rows'[i].reqs
        PROVE  Req[q].day <= today'
    <3>1. Req[q].day <= today
      BY <1>2, PastRow
    <3>2. q \in Requests
      <4>1. rows'[i] \in Row
        BY <1>2, StepForm, RowsTyped
      <4>. QED BY <4>1 DEF Row
    <3>. QED BY <2>1, <2>2, <3>1, <3>2
  <2>. QED BY <2>1, <2>3, <2>4 DEF PastInv
<1>. QED BY <1>1, <1>2, TypeCorrect, PTL DEF Spec

(* The image of a finite set is finite. *)
LEMMA ImageFinite ==
  ASSUME NEW S, IsFiniteSet(S), NEW f
  PROVE  IsFiniteSet({f[x] : x \in S})
<1>. DEFINE g == [x \in S |-> f[x]]
            T == {f[x] : x \in S}
<1>1. g \in Surjection(S, T)
  BY DEF Surjection
<1>. HIDE DEF g
<1>. QED BY <1>1, FS_Surjection

ModelRows == {i \in Items : IsModel(i)}
(* The rows a sum of the pages is of: of models, and not marked.           *)
Plain(C) == C \subseteq {i \in ModelRows : ~rows[i].marked}
PrimaryOf == [q \in Requests |-> Primary(q)]
(* The requests that have been paid on one of some rows.                   *)
PaidIn(C) == {q \in OnModelRow(Items) : Primary(q) \in C}
(* What is known of the rows while none of them has been lost.             *)
Sound ==
  /\ lost = {}
  /\ TypeOK /\ KeptInv /\ ChargedInv /\ RegionInv /\ LensInv /\ PastInv

(* The rows of models are finitely many, and none is older than the ledger. *)
LEMMA ModelRowsFinite ==
  ASSUME RowsApart
  PROVE  IsFiniteSet(ModelRows) /\ ModelRows \subseteq Items \ DOMAIN OldRows
<1>. DEFINE f == [q \in Requests |-> ItemsOf(q)]
            A == {f[q] : q \in Requests}
<1>1. IsFiniteSet(A)
  <2>. HIDE DEF f
  <2>. QED BY TableAssumption, ImageFinite
<1>2. \A T \in A : IsFiniteSet(T)
  BY RequestItems
<1>3. IsFiniteSet(UNION A)
  <2>. HIDE DEF A
  <2>. QED BY <1>1, <1>2, FS_UNION
<1>4. ModelRows \subseteq Items \ DOMAIN OldRows
  BY DEF RowsApart, ModelRows
<1>5. ModelRows \subseteq UNION A
  BY <1>4 DEF Items
<1>. QED BY <1>3, <1>4, <1>5, FS_Subset

(* A request is paid on one row that is of a model and of no lens, which   *)
(* is its primary one.                                                     *)
LEMMA PaidPrimary ==
  ASSUME RowsApart, Sound, NEW i \in ModelRows, ~IsLens(i), NEW q \in Paid(i)
  PROVE  q \in OnModelRow(Items) /\ i = Primary(q)
<1>1. i \in Items \ DOMAIN OldRows /\ IsModel(i)
  BY ModelRowsFinite DEF ModelRows
<1>2. q \in rows[i].reqs /\ rows[i] \in Row
  BY DEF Paid, Sound, TypeOK, RowsOK, ModelRows
<1>3. q \in Requests /\ i \in ItemsOf(q)
  BY <1>1, <1>2 DEF Sound, KeptInv, Kept, Row
<1>4. i = Primary(q)
  BY <1>1, <1>3, NotLens, ModelItem
<1>5. i[1] = Req[q].p
  BY <1>3, <1>4, PrimaryRow
<1>. QED BY <1>1, <1>3, <1>4, <1>5 DEF OnModelRow

(* A request of a model's row is paid on its primary one. *)
LEMMA OnModelRowIs ==
  ASSUME RowsApart, Sound, NEW q \in OnModelRow(Items)
  PROVE  /\ q \in Requests /\ q \in Paid(Primary(q)) /\ q \in rows[Primary(q)].reqs
         /\ Primary(q) \in ModelRows /\ ~IsLens(Primary(q)) /\ ~rows[Primary(q)].marked
         /\ rows[Primary(q)] # NoRow
<1>1. q \in Requests
  BY DEF OnModelRow
<1>2. PICK i \in Items : i[1] = Req[q].p /\ IsModel(i) /\ q \in Paid(i)
  BY DEF OnModelRow
<1>3. i \in ModelRows /\ ~IsLens(i)
  BY <1>1, <1>2 DEF ModelRows, IsLens, RowsApart
<1>4. i = Primary(q)
  BY <1>2, <1>3, PaidPrimary
<1>5. ~rows[i].marked
  BY <1>3, ModelRowsFinite DEF Sound, KeptInv, Kept
<1>6. q \in rows[i].reqs /\ rows[i] # NoRow
  BY <1>2 DEF Paid, NoRow
<1>. QED BY <1>1, <1>2, <1>3, <1>4, <1>5, <1>6

(* What a row that is summed has been paid for: the requests whose primary *)
(* row it is, and so none if it is of a lens.                              *)
LEMMA PaidOnRow ==
  ASSUME RowsApart, Sound, NEW i \in ModelRows, ~rows[i].marked
  PROVE  /\ Paid(i) = PaidIn({i}) /\ Paid(i) = PaidOn(rows[i])
         /\ Paid(i) \in SUBSET Requests
         /\ rows[i].spend = Spent(Paid(i))
         /\ \A g \in Regions : rows[i].regions[g] = Spent(From(g, Paid(i)))
<1>1. i \in Items \ DOMAIN OldRows /\ IsModel(i) /\ Intact(i) /\ rows[i] \in Row
  BY ModelRowsFinite DEF ModelRows, Sound, Intact, TypeOK, RowsOK
<1>2. Paid(i) = PaidOn(rows[i])
  BY DEF Paid, PaidOn, FixedIn, FixedOn
<1>3. rows[i].spend = Spent(Paid(i)) /\ \A g \in Regions : rows[i].regions[g] = Spent(From(g, Paid(i)))
  BY <1>1, <1>2 DEF Sound, ChargedInv, Charged, RegionInv, Regional, Spent
<1>4. Paid(i) \in SUBSET Requests
  BY <1>1 DEF Paid, Row
<1>5. PaidIn({i}) \subseteq Paid(i)
  BY OnModelRowIs DEF PaidIn
<1>6. ASSUME NEW q \in Paid(i) PROVE q \in PaidIn({i})
  <2>1. CASE IsLens(i)
    <3>1. q \in rows[i].reqs /\ q \in Requests /\ i \in ItemsOf(q)
      BY <1>1, <1>4 DEF Paid, Sound, KeptInv, Kept
    <3>2. i[1] # Req[q].lens
      BY <1>1, <3>1 DEF Sound, LensInv, ByLens
    <3>3. i = Primary(q)
      BY <1>1, <3>1, <3>2, ModelItem
    <3>. QED BY <2>1, <3>1, <3>3, PrimaryRow
  <2>2. CASE ~IsLens(i)
    BY <2>2, PaidPrimary DEF PaidIn
  <2>. QED BY <2>1, <2>2
<1>. QED BY <1>2, <1>3, <1>4, <1>5, <1>6

(* The dollars of rows that a page sums are those of the requests paid on  *)
(* them, each once.                                                        *)
LEMMA DollarsOf ==
  ASSUME RowsApart, Sound, NEW C, Plain(C)
  PROVE  /\ Dollars(C) = Spent(PaidIn(C)) /\ IsFiniteSet(C)
         /\ \A i \in C : rows[i].spend \in Int
<1>. DEFINE v == [i \in C |-> rows[i].spend]
            S == OnModelRow(Items)
<1>1. C \subseteq ModelRows /\ \A i \in C : ~rows[i].marked
  BY DEF Plain
<1>2. IsFiniteSet(C)
  BY <1>1, ModelRowsFinite, FS_Subset
<1>3. S \in SUBSET Requests /\ IsFiniteSet(S) /\ Weighs(UsdOf, S)
  <2>1. S \in SUBSET Requests
    BY DEF OnModelRow
  <2>. QED BY <2>1, UsdWeighs
<1>4. ASSUME NEW T PROVE Keyed(S, PrimaryOf, T) = PaidIn(T)
  BY <1>3 DEF Keyed, PaidIn, PrimaryOf
<1>5. KeySums(v, UsdOf, S, PrimaryOf, C)
  <2>1. ASSUME NEW i \in C PROVE v[i] = SumFunctionOnSet(UsdOf, Keyed(S, PrimaryOf, {i}))
    <3>1. rows[i].spend = Spent(Paid(i)) /\ Paid(i) = PaidIn({i})
      BY <1>1, PaidOnRow
    <3>. HIDE DEF S
    <3>. QED BY <1>4, <3>1 DEF Spent
  <2>. HIDE DEF v, S
  <2>. QED BY <2>1 DEF KeySums
<1>6. SumFunctionOnSet(v, C) = SumFunctionOnSet(UsdOf, Keyed(S, PrimaryOf, C))
  <2>. HIDE DEF v, S
  <2>. QED BY <1>2, <1>3, <1>5, SumByKey
<1>7. \A i \in C : rows[i].spend \in Int
  BY <1>1 DEF ModelRows, Sound, TypeOK, RowsOK, Row
<1>. QED BY <1>2, <1>4, <1>6, <1>7 DEF Dollars, Spent

(* A split of rows that a page sums, by a key that its rows have of their  *)
(* requests, is right.                                                     *)
LEMMA SplitIs ==
  ASSUME RowsApart, Sound, NEW C, Plain(C), NEW key, DOMAIN key = C, NEW of,
         \A q \in PaidIn(C) : of[q] = key[Primary(q)]
  PROVE  Is(Split(key), of, PaidIn(C))
<1>. DEFINE Half(k) == {i \in C : key[i] = k}
<1>1. ASSUME NEW k PROVE Dollars(Half(k)) = Spent({q \in PaidIn(C) : of[q] = k})
  <2>1. Plain(Half(k))
    BY DEF Plain
  <2>2. PaidIn(Half(k)) = {q \in PaidIn(C) : of[q] = k}
    BY DEF PaidIn
  <2>. HIDE DEF Half
  <2>. QED BY <2>1, <2>2, DollarsOf
<1>. QED BY <1>1 DEF Is, Split

(* So is the split by region, with what no region has.                     *)
LEMMA ByRegionIs ==
  ASSUME RowsApart, Sound, NEW C, Plain(C), NEW of,
         \A q \in PaidIn(C) : of[q] = Req[q].region
  PROVE  Is(ByRegion(C), of, PaidIn(C))
<1>. DEFINE S == PaidIn(C)
<1>0. C \subseteq ModelRows /\ (\A i \in C : ~rows[i].marked) /\ IsFiniteSet(C)
  BY DollarsOf DEF Plain
<1>1. S \in SUBSET Requests
  BY DEF PaidIn, OnModelRow
<1>2. ASSUME NEW g \in Regions
      PROVE  SumFunctionOnSet([i \in C |-> rows[i].regions[g]], C) = Spent({q \in S : of[q] = g})
  <2>. DEFINE v == [i \in C |-> rows[i].regions[g]]
              G == From(g, S)
  <2>1. G \in SUBSET Requests /\ IsFiniteSet(G) /\ Weighs(UsdOf, G)
    <3>1. G \in SUBSET Requests
      BY <1>1 DEF From
    <3>. QED BY <3>1, UsdWeighs
  <2>2. KeySums(v, UsdOf, G, PrimaryOf, C)
    <3>1. ASSUME NEW i \in C PROVE v[i] = SumFunctionOnSet(UsdOf, Keyed(G, PrimaryOf, {i}))
      <4>1. rows[i].regions[g] = Spent(From(g, Paid(i))) /\ Paid(i) = PaidIn({i})
        BY <1>0, PaidOnRow
      <4>2. From(g, Paid(i)) = Keyed(G, PrimaryOf, {i})
        BY <1>1, <4>1 DEF From, Keyed, PaidIn, PrimaryOf
      <4>. HIDE DEF G
      <4>. QED BY <4>1, <4>2 DEF Spent
    <3>. HIDE DEF v, G
    <3>. QED BY <3>1 DEF KeySums
  <2>3. SumFunctionOnSet(v, C) = SumFunctionOnSet(UsdOf, Keyed(G, PrimaryOf, C))
    <3>. HIDE DEF v, G, S
    <3>. QED BY <1>0, <2>1, <2>2, SumByKey
  <2>4. Keyed(G, PrimaryOf, C) = {q \in S : of[q] = g}
    BY <1>1 DEF From, Keyed, PaidIn, PrimaryOf
  <2>. QED BY <2>3, <2>4 DEF Spent
<1>3. Dollars({i \in C : Attributed(i) = 0}) = Spent({q \in S : of[q] = Unknown})
  <2>1. {q \in S : of[q] = Unknown} = {}
    BY <1>1, ViewAssumption, RequestsAssumption
  <2>2. ASSUME NEW i \in C PROVE rows[i].spend = Attributed(i)
    <3>. DEFINE P == Paid(i)
                key == [q \in Requests |-> Req[q].region]
    <3>1. P \in SUBSET Requests /\ rows[i].spend = Spent(P)
          /\ \A g \in Regions : rows[i].regions[g] = Spent(From(g, P))
      BY <1>0, PaidOnRow
    <3>. HIDE DEF P
    <3>2. \A T : Keyed(P, key, T) = {q \in P : Req[q].region \in T}
      BY <3>1 DEF Keyed
    <3>3. KeySums(rows[i].regions, UsdOf, P, key, Regions)
      BY <3>1, <3>2 DEF KeySums, Spent, From
    <3>4. Keyed(P, key, Regions) = P
      BY <3>1, <3>2, RequestsAssumption
    <3>. HIDE DEF key
    <3>5. IsFiniteSet(P) /\ Weighs(UsdOf, P)
      BY <3>1, UsdWeighs
    <3>6. SumFunctionOnSet(rows[i].regions, Regions)
            = SumFunctionOnSet(UsdOf, Keyed(P, key, Regions))
      BY <3>3, <3>5, TableAssumption, SumByKey
    <3>. QED BY <3>1, <3>4, <3>6 DEF Attributed, Spent
  <2>. DEFINE Z == {i \in C : Attributed(i) = 0}
              v == [i \in Z |-> rows[i].spend]
  <2>3. IsFiniteSet(Z) /\ \A i \in Z : v[i] = 0
    BY <1>0, <2>2, FS_Subset
  <2>. HIDE DEF Z
  <2>4. SumFunctionOnSet(v, Z) = 0
    <3>. HIDE DEF v
    <3>. QED BY <2>3, SumZero
  <2>5. Spent({}) = 0
    BY SumEmpty DEF Spent
  <2>. QED BY <2>1, <2>4, <2>5 DEF Dollars, Z
<1>. HIDE DEF S
<1>. QED BY <1>2, <1>3, ViewAssumption DEF Is, ByRegion, S

(* The greater of two numbers, and the least of some naturals.             *)
LEMMA MaxTwo ==
  ASSUME NEW a \in Int, NEW b \in Int
  PROVE  Max({a, b}) \in Int /\ Max({a, b}) >= b /\ Max({a, b}) >= a
<1>1. \E x \in {a, b} : \A y \in {a, b} : x >= y
  OBVIOUS
<1>2. Max({a, b}) \in {a, b} /\ \A y \in {a, b} : Max({a, b}) >= y
  BY <1>1 DEF Max
<1>. QED BY <1>2

(* A set of naturals that is not empty has a least one. *)
LEMMA MinOf ==
  ASSUME NEW S \in SUBSET Nat, S # {}
  PROVE  Min(S) \in S /\ \A y \in S : Min(S) <= y
<1>. DEFINE R == OpToRel(<, Nat)
<1>1. IsWellFoundedOn(R, Nat)
  BY NatLessThanWellFounded
<1>2. PICK x \in S : \A y \in S : ~ (<<y, x>> \in R)
  <2>. HIDE DEF R
  <2>. QED BY <1>1, WFMin
<1>3. \A y \in S : ~ (y < x)
  BY <1>2 DEF OpToRel
<1>4. \A y \in S : x <= y
  BY <1>3
<1>5. \E z \in S : \A y \in S : z <= y
  BY <1>4
<1>. QED BY <1>5 DEF Min

(* A month that has a row of no later day can be selected. *)
LEMMA MonthSelectable ==
  ASSUME today \in Nat \ {0}, NEW recorded \in SUBSET (Nat \ {0}), NEW m \in recorded,
         m <= Month(today)
  PROVE  m \in Selectable(recorded)
<1>. DEFINE t == Month(today)
            x == t - Min(recorded) + 1
            back == Max({MinMonths} \union {Month(today) - Min(recorded) + 1 : n \in recorded})
<1>1. t \in Int
  BY TableAssumption DEF Month
<1>2. Min(recorded) \in Nat /\ Min(recorded) <= m
  <2>1. recorded \in SUBSET Nat /\ recorded # {}
    OBVIOUS
  <2>. QED BY <2>1, MinOf
<1>3. {MinMonths} \union {Month(today) - Min(recorded) + 1 : n \in recorded} = {MinMonths, x}
  OBVIOUS
<1>4. back = Max({MinMonths, x})
  BY <1>3
<1>5. x \in Int /\ MinMonths \in Int
  <2>. HIDE DEF t
  <2>. QED BY <1>1, <1>2, ViewAssumption
<1>. HIDE DEF x
<1>6. back \in Int /\ back >= x
  <2>. HIDE DEF back
  <2>. QED BY <1>4, <1>5, MaxTwo
<1>. HIDE DEF back
<1>7. m \in Nat /\ m >= 1 /\ x = t - Min(recorded) + 1
  BY DEF x
<1>. HIDE DEF t
<1>8. m \in 1..t /\ m > t - back
  <2>1. m <= t
    BY DEF t
  <2>. QED BY <1>1, <1>2, <1>6, <1>7, <2>1
<1>. QED BY <1>8 DEF Selectable, t, back

(* A page is of the rows it is to be of. *)
LEMMA PageOf ==
  ASSUME NEW found, NEW page \in Pages(found)
  PROVE  page \subseteq found
BY DEF Pages

(* The requests on a page's rows of models are those paid on its rows.     *)
LEMMA OnPage ==
  ASSUME RowsApart, Sound, NEW read \in SUBSET Items
  PROVE  OnModelRow(read) = PaidIn(read)
<1>1. ASSUME NEW q \in OnModelRow(read) PROVE q \in PaidIn(read)
  <2>1. PICK i \in read : i[1] = Req[q].p /\ IsModel(i) /\ q \in Paid(i)
    BY DEF OnModelRow
  <2>2. q \in Requests /\ i \in ModelRows /\ ~IsLens(i)
    BY <2>1 DEF OnModelRow, ModelRows, IsLens, RowsApart
  <2>3. q \in OnModelRow(Items) /\ i = Primary(q)
    BY <2>1, <2>2, PaidPrimary
  <2>. QED BY <2>3 DEF PaidIn
<1>2. ASSUME NEW q \in PaidIn(read) PROVE q \in OnModelRow(read)
  <2>1. q \in OnModelRow(Items) /\ Primary(q) \in read
    BY DEF PaidIn
  <2>2. q \in Requests /\ q \in Paid(Primary(q)) /\ IsModel(Primary(q))
    BY <2>1, OnModelRowIs DEF ModelRows
  <2>3. Primary(q)[1] = Req[q].p
    BY <2>2, PrimaryRow
  <2>. QED BY <2>1, <2>2, <2>3 DEF OnModelRow
<1>. QED BY <1>1, <1>2

(* The rows of the dashboard and of the trend are rows that are summed;    *)
(* the requests paid on them are theirs.                                   *)
LEMMA SummedPlain ==
  ASSUME RowsApart, Sound, NEW m, NEW read \in SUBSET InPeriod(m), NEW scope, NEW selected
  PROVE  /\ Plain(Summed(read, scope, selected))
         /\ PaidIn(Summed(read, scope, selected)) = Theirs(OnModelRow(read), m, scope, selected)
<1>. DEFINE C == Summed(read, scope, selected)
<1>1. Plain(C)
  BY DEF Summed, Shown, AdminRows, InPeriod, Written, Plain, ModelRows
<1>0. read \subseteq Items /\ OnModelRow(read) = PaidIn(read)
  <2>1. read \subseteq Items
    BY DEF InPeriod, Written
  <2>. QED BY <2>1, OnPage
<1>2. ASSUME NEW q \in OnModelRow(Items)
      PROVE  Primary(q) \in C <=> q \in Theirs(OnModelRow(read), m, scope, selected)
  <2>. DEFINE i == Primary(q)
  <2>1. /\ q \in Requests /\ i \in ModelRows /\ ~rows[i].marked /\ rows[i] # NoRow
    BY OnModelRowIs
  <2>2. i = <<Req[q].p, Req[q].model, <<"monthly", Month(Req[q].day)>>>>
    BY <2>1, PrimaryRow
  <2>3. i[1] = Req[q].p /\ (i \in read => Month(Req[q].day) = m)
    BY <2>2 DEF InPeriod
  <2>5. q \in OnModelRow(read) <=> i \in read
    BY <1>0 DEF PaidIn
  <2>. HIDE DEF i
  <2>4. i \in C <=> /\ i \in read /\ MayAdminister(scope, Req[q].p)
                    /\ selected = Anywhere \/ AccountOf(Req[q].p) = selected
    BY <2>1, <2>3 DEF Summed, Shown, AdminRows, ModelRows
  <2>. QED BY <2>3, <2>4, <2>5 DEF Theirs, i
<1>. HIDE DEF C
<1>3. PaidIn(C) = Theirs(OnModelRow(read), m, scope, selected)
  BY <1>0, <1>2 DEF PaidIn, Theirs
<1>. QED BY <1>1, <1>3 DEF C

Of(read, scope, a) == {i \in TrendRows(read, scope) : AccountOf(i[1]) = a}

(* What is drawn for an account in a month is the dollars of its rows.     *)
LEMMA PartIs ==
  ASSUME NEW read, NEW scope, NEW a
  PROVE  /\ Part(TrendByAccount(read, scope), a) = Dollars(Of(read, scope, a))
         /\ DOMAIN TrendByAccount(read, scope) = {AccountOf(i[1]) : i \in TrendRows(read, scope)}
<1>. DEFINE T == TrendRows(read, scope)
            key == [i \in T |-> AccountOf(i[1])]
<1>1. TrendByAccount(read, scope)
        = [k \in Range(key) |-> Dollars({i \in T : key[i] = k})]
  BY DEF TrendByAccount, Split
<1>2. Range(key) = {AccountOf(i[1]) : i \in T}
  BY DEF Range
<1>3. ASSUME NEW k PROVE {i \in T : key[i] = k} = Of(read, scope, k)
  BY DEF Of
<1>. DEFINE by == TrendByAccount(read, scope)
<1>4. DOMAIN by = Range(key)
  <2>. HIDE DEF key
  <2>. QED BY <1>1
<1>5. ASSUME NEW k \in Range(key) PROVE by[k] = Dollars(Of(read, scope, k))
  <2>1. by[k] = Dollars({i \in T : key[i] = k})
    BY <1>1
  <2>. QED BY <1>3, <2>1
<1>6. CASE a \in Range(key)
  <2>. HIDE DEF key, by
  <2>. QED BY <1>2, <1>4, <1>5, <1>6 DEF Part, by
<1>7. CASE a \notin Range(key)
  <2>1. Of(read, scope, a) = {}
    BY <1>2, <1>7 DEF Of
  <2>2. Dollars({}) = 0
    BY SumEmpty DEF Dollars
  <2>. HIDE DEF key, by
  <2>. QED BY <1>2, <1>4, <1>7, <2>1, <2>2 DEF Part, by
<1>. QED BY <1>6, <1>7

(* The lines that are drawn add up, in every month, to the dollars of the  *)
(* month's rows.                                                           *)
LEMMA DrawnIs ==
  ASSUME RowsApart, Sound, NEW reads, NEW m \in DOMAIN reads, NEW scope, NEW selected,
         \A n \in DOMAIN reads : reads[n] \subseteq InPeriod(n)
  PROVE  Drawn(Lines(reads, scope, selected), m)
           = Spent(Theirs(OnModelRow(reads[m]), m, scope, selected))
<1>. DEFINE months == DOMAIN reads
            T == TrendRows(reads[m], scope)
            seen == UNION {DOMAIN TrendByAccount(reads[n], scope) : n \in months}
            lines == Lines(reads, scope, selected)
<1>1. T = Summed(reads[m], scope, Anywhere)
  BY DEF TrendRows, Summed, Shown
<1>2. Plain(T) /\ PaidIn(T) = Theirs(OnModelRow(reads[m]), m, scope, Anywhere)
  BY <1>1, SummedPlain
<1>3. Dollars(T) = Spent(Theirs(OnModelRow(reads[m]), m, scope, Anywhere)) /\ Dollars(T) \in Int
  <2>. HIDE DEF T
  <2>1. Dollars(T) = Spent(PaidIn(T))
    BY <1>2, DollarsOf
  <2>2. PaidIn(T) \in SUBSET Requests
    BY DEF PaidIn, OnModelRow
  <2>3. Spent(PaidIn(T)) \in Int
    BY <2>2, UsdWeighs, SumType DEF Spent
  <2>. QED BY <1>2, <2>1, <2>3
<1>4. CASE selected # Anywhere
  <2>1. lines = [a \in {selected} |-> [n \in months |-> Part(TrendByAccount(reads[n], scope), a)]]
    BY <1>4 DEF Lines
  <2>2. Of(reads[m], scope, selected) = Summed(reads[m], scope, selected)
    BY <1>4 DEF Of, TrendRows, Summed, Shown
  <2>3. Dollars(Summed(reads[m], scope, selected)) = Spent(Theirs(OnModelRow(reads[m]), m, scope, selected))
    BY SummedPlain, DollarsOf
  <2>4. lines[selected][m] = Spent(Theirs(OnModelRow(reads[m]), m, scope, selected))
    <3>1. lines[selected][m] = Part(TrendByAccount(reads[m], scope), selected)
      BY <2>1
    <3>2. Part(TrendByAccount(reads[m], scope), selected) = Dollars(Of(reads[m], scope, selected))
      BY PartIs
    <3>. HIDE DEF lines
    <3>. QED BY <2>2, <2>3, <3>1, <3>2
  <2>5. lines[selected][m] \in Int
    <3>1. Theirs(OnModelRow(reads[m]), m, scope, selected) \in SUBSET Requests
      BY DEF Theirs, OnModelRow
    <3>2. Spent(Theirs(OnModelRow(reads[m]), m, scope, selected)) \in Int
      BY <3>1, UsdWeighs, SumType DEF Spent
    <3>. QED BY <2>4, <3>2
  <2>6. DOMAIN lines = {selected}
    BY <2>1
  <2>. HIDE DEF lines
  <2>. DEFINE w == [a \in DOMAIN lines |-> lines[a][m]]
  <2>7. w[selected] = lines[selected][m]
    BY <2>6
  <2>. HIDE DEF w
  <2>8. SumFunctionOnSet(w, {selected}) = w[selected]
    BY <2>5, <2>7, SumOne
  <2>. QED BY <2>4, <2>6, <2>7, <2>8 DEF Drawn, w, lines
<1>5. CASE selected = Anywhere /\ Cardinality(seen) <= 1
  <2>1. lines = [a \in {Anywhere} |-> [n \in months |-> Trend(reads[n], scope)]]
    BY <1>5 DEF Lines
  <2>2. DOMAIN lines = {Anywhere} /\ lines[Anywhere][m] = Dollars(T)
    BY <2>1 DEF Trend
  <2>. HIDE DEF lines, T
  <2>. DEFINE w == [a \in DOMAIN lines |-> lines[a][m]]
  <2>3. w[Anywhere] = Dollars(T)
    BY <2>2
  <2>. HIDE DEF w
  <2>4. SumFunctionOnSet(w, {Anywhere}) = w[Anywhere]
    BY <1>3, <2>3, SumOne
  <2>. QED BY <1>3, <1>5, <2>2, <2>3, <2>4 DEF Drawn, w, lines
<1>6. CASE selected = Anywhere /\ ~(Cardinality(seen) <= 1)
  <2>1. lines = [a \in seen |-> [n \in months |-> Part(TrendByAccount(reads[n], scope), a)]]
    BY <1>6 DEF Lines
  <2>. DEFINE w == [a \in DOMAIN lines |-> lines[a][m]]
              key == [i \in T |-> AccountOf(i[1])]
              v == [i \in T |-> rows[i].spend]
  <2>2. DOMAIN lines = seen /\ \A a \in seen : w[a] = Dollars(Of(reads[m], scope, a))
    BY <2>1, PartIs
  <2>3. IsFiniteSet(T) /\ Weighs(v, T)
    <3>. HIDE DEF T
    <3>. QED BY <1>2, DollarsOf DEF Weighs
  <2>4. IsFiniteSet(seen)
    <3>. DEFINE account == [i \in ModelRows |-> AccountOf(i[1])]
                A == {account[i] : i \in ModelRows}
    <3>1. IsFiniteSet(A)
      <4>. HIDE DEF account
      <4>. QED BY ModelRowsFinite, ImageFinite
    <3>2. seen \subseteq A
      <4>1. \A n \in months : TrendRows(reads[n], scope) \subseteq ModelRows
        BY DEF TrendRows, AdminRows, InPeriod, Written, ModelRows
      <4>2. ASSUME NEW n \in months PROVE DOMAIN TrendByAccount(reads[n], scope) \subseteq A
        <5>1. \A i \in TrendRows(reads[n], scope) : AccountOf(i[1]) = account[i] /\ i \in ModelRows
          BY <4>1
        <5>2. \A i \in TrendRows(reads[n], scope) : AccountOf(i[1]) \in A
          <6>. HIDE DEF account
          <6>. QED BY <5>1
        <5>3. DOMAIN TrendByAccount(reads[n], scope) = {AccountOf(i[1]) : i \in TrendRows(reads[n], scope)}
          BY PartIs
        <5>. HIDE DEF A
        <5>. QED BY ONLY <5>2, <5>3
      <4>. HIDE DEF A
      <4>. QED BY <4>2
    <3>. HIDE DEF A, seen
    <3>. QED BY <3>1, <3>2, FS_Subset
  <2>5. \A K : Keyed(T, key, K) = {i \in T : AccountOf(i[1]) \in K}
    BY DEF Keyed
  <2>6. ASSUME NEW a \in seen PROVE w[a] = SumFunctionOnSet(v, Keyed(T, key, {a}))
    <3>1. Keyed(T, key, {a}) = Of(reads[m], scope, a)
      BY <2>5 DEF Of
    <3>. DEFINE O == Of(reads[m], scope, a)
                u == [i \in O |-> rows[i].spend]
    <3>2. O \subseteq T
      BY DEF Of
    <3>3. IsFiniteSet(O) /\ Weighs(v, O) /\ \A i \in O : u[i] = v[i]
      BY <2>3, <3>2, FS_Subset DEF Weighs
    <3>4. Dollars(O) = SumFunctionOnSet(u, O)
      BY DEF Dollars
    <3>. HIDE DEF O, u, v, T
    <3>5. SumFunctionOnSet(u, O) = SumFunctionOnSet(v, O)
      BY <3>3, SumSame
    <3>. QED BY <2>2, <3>1, <3>4, <3>5 DEF O
  <2>7. KeySums(w, v, T, key, seen)
    <3>. HIDE DEF w, v, T, key, seen
    <3>. QED BY <2>6 DEF KeySums
  <2>8. Keyed(T, key, seen) = T
    <3>1. \A i \in T : AccountOf(i[1]) \in seen
      <4>1. DOMAIN TrendByAccount(reads[m], scope) = {AccountOf(i[1]) : i \in T}
        BY PartIs
      <4>2. DOMAIN TrendByAccount(reads[m], scope) \subseteq seen
        OBVIOUS
      <4>. HIDE DEF seen, T
      <4>. QED BY <4>1, <4>2
    <3>. QED BY <2>5, <3>1
  <2>9. SumFunctionOnSet(w, seen) = SumFunctionOnSet(v, Keyed(T, key, seen))
    <3>. HIDE DEF w, v, T, key, seen
    <3>. QED BY <2>3, <2>4, <2>7, SumByKey
  <2>10. SumFunctionOnSet(v, T) = Dollars(T)
    BY DEF Dollars
  <2>11. Drawn(lines, m) = SumFunctionOnSet(w, seen)
    BY <2>2 DEF Drawn
  <2>. HIDE DEF w, v, T, key, seen, lines
  <2>. QED BY <1>3, <1>6, <2>8, <2>9, <2>10, <2>11 DEF lines
<1>. QED BY <1>4, <1>5, <1>6

(* What an administrator is shown of a month. *)
LEMMA CountsOnceHolds ==
  ASSUME RowsApart, Sound, NEW m, NEW read \in SUBSET InPeriod(m), NEW scope, NEW selected
  PROVE  CountsOnce(Theirs(OnModelRow(read), m, scope, selected), Summed(read, scope, selected))
<1>. DEFINE C == Summed(read, scope, selected)
            its == Theirs(OnModelRow(read), m, scope, selected)
<1>1. Plain(C) /\ PaidIn(C) = its
  BY SummedPlain
<1>2. its \in SUBSET Requests
  BY DEF Theirs, OnModelRow
<1>3. \A q \in its : Primary(q) \in C
  BY <1>1 DEF PaidIn
<1>4. \A q \in its : Primary(q)[1] = Req[q].p /\ Primary(q)[2] = Req[q].model
  BY <1>2, PrimaryRow
<1>. HIDE DEF C, its
<1>5. Dollars(C) = Spent(its)
  BY <1>1, DollarsOf
<1>6. Is(ByModel(C), [q \in its |-> Req[q].model], its)
  <2>. DEFINE key == [i \in C |-> i[2]]
              of == [q \in its |-> Req[q].model]
  <2>1. DOMAIN key = C /\ \A q \in PaidIn(C) : of[q] = key[Primary(q)]
    BY <1>1, <1>3, <1>4
  <2>. HIDE DEF key, of
  <2>2. Is(Split(key), of, PaidIn(C))
    BY <1>1, <2>1, SplitIs
  <2>. QED BY <1>1, <2>2 DEF ByModel, key, of
<1>7. Is(ByPrincipal(C), [q \in its |-> Req[q].p], its)
  <2>. DEFINE key == [i \in C |-> i[1]]
              of == [q \in its |-> Req[q].p]
  <2>1. DOMAIN key = C /\ \A q \in PaidIn(C) : of[q] = key[Primary(q)]
    BY <1>1, <1>3, <1>4
  <2>. HIDE DEF key, of
  <2>2. Is(Split(key), of, PaidIn(C))
    BY <1>1, <2>1, SplitIs
  <2>. QED BY <1>1, <2>2 DEF ByPrincipal, key, of
<1>8. Is(ByAccount(C), [q \in its |-> AccountOf(Req[q].p)], its)
  <2>. DEFINE key == [i \in C |-> AccountOf(i[1])]
              of == [q \in its |-> AccountOf(Req[q].p)]
  <2>1. DOMAIN key = C /\ \A q \in PaidIn(C) : of[q] = key[Primary(q)]
    BY <1>1, <1>3, <1>4
  <2>. HIDE DEF key, of
  <2>2. Is(Split(key), of, PaidIn(C))
    BY <1>1, <2>1, SplitIs
  <2>. QED BY <1>1, <2>2 DEF ByAccount, key, of
<1>9. Is(ByRegion(C), [q \in its |-> Req[q].region], its)
  <2>. DEFINE of == [q \in its |-> Req[q].region]
  <2>1. \A q \in PaidIn(C) : of[q] = Req[q].region
    BY <1>1
  <2>. HIDE DEF of
  <2>2. Is(ByRegion(C), of, PaidIn(C))
    BY <1>1, <2>1, ByRegionIs
  <2>. QED BY <1>1, <2>2 DEF of
<1>. QED BY <1>5, <1>6, <1>7, <1>8, <1>9 DEF CountsOnce, C, its

(* A month of which some request is shown can be selected. *)
LEMMA ShownSelectable ==
  ASSUME RowsApart, Sound, NEW m \in 1..Month(MaxDay), NEW read \in SUBSET InPeriod(m),
         NEW scope, NEW selected, NEW q \in Theirs(OnModelRow(read), m, scope, selected)
  PROVE  m \in Selectable(Recorded([n \in 1..Month(MaxDay) |-> AdminRows(InPeriod(n), scope)]))
<1>. DEFINE recorded == Recorded([n \in 1..Month(MaxDay) |-> AdminRows(InPeriod(n), scope)])
<1>1. q \in Requests /\ q \in OnModelRow(Items) /\ Primary(q) \in Summed(read, scope, selected)
  <2>1. q \in PaidIn(Summed(read, scope, selected))
    BY SummedPlain
  <2>2. q \in OnModelRow(Items) /\ Primary(q) \in Summed(read, scope, selected)
    BY <2>1 DEF PaidIn
  <2>. QED BY <2>2 DEF OnModelRow
<1>2. Primary(q) \in AdminRows(InPeriod(m), scope)
  BY <1>1 DEF Summed, Shown, AdminRows
<1>3. recorded \in SUBSET (Nat \ {0}) /\ m \in recorded
  BY <1>2 DEF Recorded
<1>4. today \in Nat \ {0}
  BY DEF Sound, PastInv
<1>5. Req[q].day <= today
  <2>1. q \in rows[Primary(q)].reqs /\ Primary(q) \in Items \ DOMAIN OldRows
    BY <1>1, OnModelRowIs, ModelRowsFinite
  <2>. QED BY <2>1 DEF Sound, PastInv
<1>6. m = Month(Req[q].day)
  BY DEF Theirs
<1>7. Req[q].day \in Int /\ today \in Int
  BY <1>1, <1>4, RequestsAssumption, TableAssumption
<1>8. m <= Month(today)
  BY <1>5, <1>6, <1>7, Months
<1>. HIDE DEF recorded
<1>. QED BY <1>3, <1>4, <1>8, MonthSelectable DEF recorded

(* What a user is shown of a month. *)
LEMMA MyTrendIs ==
  ASSUME RowsApart, Sound, NEW u \in Requests, NEW m,
         NEW read \in SUBSET Written
  PROVE  MyTrend(Req[u].p, m, read)
           = Spent({q \in OnModelRow(read) : Req[q].p = Req[u].p /\ Month(Req[q].day) = m})
<1>. DEFINE p == Req[u].p
            C == MySummed(p, m, read)
<1>1. C \subseteq ModelRows /\ \A i \in C : i[1] = p /\ rows[i] # NoRow /\ i[3] = <<"monthly", m>>
  BY DEF MySummed, MyRows, Written, ModelRows
<1>2. \A i \in C : ~IsLens(i)
  BY <1>1 DEF IsLens, RowsApart
<1>3. \A i \in C : ~rows[i].marked
  BY <1>1, <1>2, ModelRowsFinite DEF Sound, KeptInv, Kept
<1>4. Plain(C)
  BY <1>1, <1>3 DEF Plain
<1>0. read \subseteq Items /\ OnModelRow(read) = PaidIn(read)
  <2>1. read \subseteq Items
    BY DEF Written
  <2>. QED BY <2>1, OnPage
<1>5. ASSUME NEW q \in OnModelRow(Items)
      PROVE  Primary(q) \in C <=> q \in OnModelRow(read) /\ Req[q].p = p /\ Month(Req[q].day) = m
  <2>. DEFINE i == Primary(q)
  <2>1. q \in Requests /\ i \in ModelRows /\ rows[i] # NoRow
    BY OnModelRowIs
  <2>2. i = <<Req[q].p, Req[q].model, <<"monthly", Month(Req[q].day)>>>>
    BY <2>1, PrimaryRow
  <2>3. i[1] = Req[q].p /\ (i[3] = <<"monthly", m>> <=> Month(Req[q].day) = m)
    BY <2>2
  <2>5. q \in OnModelRow(read) <=> i \in read
    BY <1>0 DEF PaidIn
  <2>. HIDE DEF i, p
  <2>4. i \in C <=> i \in read /\ Req[q].p = p /\ Month(Req[q].day) = m
    BY <2>1, <2>3 DEF MySummed, MyRows, Written, ModelRows
  <2>. QED BY <2>4, <2>5 DEF i
<1>. HIDE DEF C, p
<1>6. PaidIn(C) = {q \in OnModelRow(read) : Req[q].p = p /\ Month(Req[q].day) = m}
  BY <1>0, <1>5 DEF PaidIn
<1>7. Dollars(C) = Spent(PaidIn(C))
  BY <1>4, DollarsOf
<1>. QED BY <1>6, <1>7 DEF MyTrend, C, p

(* TrendCountsOnce for any requests, plan, accounts and calendar, where no *)
(* correction adds a request to the row of an identity lens: an invocation *)
(* is in each sum of a page once, and its month can be selected.           *)
THEOREM TrendCountsOnceHolds ==
  ASSUME RowsApart, LensesMetered
  PROVE  Spec => []TrendCountsOnce
<1>1. ASSUME TypeOK, KeptInv, ChargedInv, RegionInv, LensInv, PastInv PROVE TrendCountsOnce
  <2>. DEFINE all == 1..Month(MaxDay)
              offered(scope) ==
                Selectable(Recorded([m \in all |-> AdminRows(InPeriod(m), scope)]))
              its(reads, m, scope, selected) == Theirs(OnModelRow(reads[m]), m, scope, selected)
  <2>. SUFFICES ASSUME lost = {} PROVE
      /\ \A scope \in Scopes : \A reads \in Readings(all), selected \in {Anywhere} \union Accounts :
           \A m \in all :
             /\ Drawn(Lines(reads, scope, selected), m) = Spent(its(reads, m, scope, selected))
             /\ CountsOnce(its(reads, m, scope, selected), Summed(reads[m], scope, selected))
             /\ its(reads, m, scope, selected) # {} => m \in offered(scope)
      /\ \A read \in Pages(Written), p \in {Req[q].p : q \in Requests}, m \in all :
           MyTrend(p, m, read)
             = Spent({q \in OnModelRow(read) : Req[q].p = p /\ Month(Req[q].day) = m})
    BY DEF TrendCountsOnce
  <2>1. Sound
    BY <1>1 DEF Sound
  <2>2. ASSUME NEW scope, NEW reads \in Readings(all), NEW selected, NEW m \in all
        PROVE  /\ Drawn(Lines(reads, scope, selected), m) = Spent(its(reads, m, scope, selected))
               /\ CountsOnce(its(reads, m, scope, selected), Summed(reads[m], scope, selected))
               /\ its(reads, m, scope, selected) # {} => m \in offered(scope)
    <3>1. DOMAIN reads = all /\ \A n \in all : reads[n] \subseteq InPeriod(n)
      <4>. HIDE DEF all
      <4>1. DOMAIN reads = all /\ \A n \in all : reads[n] \in Pages(InPeriod(n))
        BY DEF Readings
      <4>. QED BY <4>1, PageOf
    <3>2. Drawn(Lines(reads, scope, selected), m) = Spent(its(reads, m, scope, selected))
      <4>. HIDE DEF all
      <4>. QED BY <2>1, <3>1, DrawnIs
    <3>3. CountsOnce(its(reads, m, scope, selected), Summed(reads[m], scope, selected))
      <4>. HIDE DEF all
      <4>. QED BY <2>1, <3>1, CountsOnceHolds
    <3>4. its(reads, m, scope, selected) # {} => m \in offered(scope)
      BY <2>1, <3>1, ShownSelectable
    <3>. QED BY <3>2, <3>3, <3>4
  <2>3. ASSUME NEW read \in Pages(Written), NEW u \in Requests, NEW m \in all
        PROVE  MyTrend(Req[u].p, m, read)
                 = Spent({q \in OnModelRow(read) : Req[q].p = Req[u].p /\ Month(Req[q].day) = m})
    BY <2>1, PageOf, MyTrendIs
  <2>. HIDE DEF all, offered, its
  <2>. QED BY <2>2, <2>3
<1>. QED BY <1>1, TypeCorrect, KeptAlways, ChargedAlways, RegionAlways, LensAlways, PastAlways, PTL

================================================================================
