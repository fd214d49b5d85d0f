----------------------------- MODULE SumTheorems -----------------------------
(***************************************************************************)
(* Sums of natural numbers over finite sets, for the proofs: what          *)
(* SumFunctionOnSet of the community modules is, although it is defined by *)
(* recursion and picks the elements in an order of its own; and lists that *)
(* a loop over 1..N appends to.                                            *)
(***************************************************************************)
EXTENDS Integers, Sequences, Functions, Folds, FiniteSets, FiniteSetTheorems,
        SequenceTheorems, WellFoundedInduction, TLAPS

(* Every nonempty set of natural numbers has a least element. *)
LEMMA LeastNumber ==
    ASSUME NEW T \in SUBSET Nat, NEW n \in T
    PROVE  \E m \in T : \A k \in T : m <= k
<1>1. PICK m \in T : \A k \in T : ~(<<k, m>> \in OpToRel(<, Nat))
  BY NatLessThanWellFounded, WFMin
<1>2. \A k \in T : ~(k < m)
  BY <1>1, Zenon DEF OpToRel
<1> QED
  BY <1>2

(* A nonempty family of finite sets has a smallest member. *)
LEMMA SmallestMember ==
    ASSUME NEW F, \A s \in F : IsFiniteSet(s), NEW t \in F
    PROVE  \E s \in F : \A r \in F : Cardinality(s) <= Cardinality(r)
<1> DEFINE T == {Cardinality(s) : s \in F}
<1>1. T \in SUBSET Nat /\ Cardinality(t) \in T
  BY FS_CardinalityType
<1>2. PICK m \in T : \A k \in T : m <= k
  BY <1>1, LeastNumber
<1> QED
  BY <1>2

(* The sums of f over every subset of S. *)
PickOne(s) == CHOOSE x \in s : TRUE
SumsOf(f, S, sums) ==
    sums = [s \in SUBSET S |-> IF s = {} THEN 0 ELSE f[PickOne(s)] + sums[s \ {PickOne(s)}]]

LEMMA SumIsChosen ==
    ASSUME NEW f, NEW S
    PROVE  SumFunctionOnSet(f, S) = (CHOOSE sums : SumsOf(f, S, sums))[S]
  BY DEF SumFunctionOnSet, FoldFunctionOnSet, MapThenFoldSet, SumsOf, PickOne

Smaller(s) == s \ {PickOne(s)}

LEMMA SmallerSet ==
    ASSUME NEW s, IsFiniteSet(s), s # {}
    PROVE  /\ PickOne(s) \in s /\ Smaller(s) \subseteq s /\ IsFiniteSet(Smaller(s))
           /\ Cardinality(Smaller(s)) \in Nat /\ Cardinality(s) = Cardinality(Smaller(s)) + 1
<1>1. PickOne(s) \in s
  BY DEF PickOne
<1>2. Smaller(s) \subseteq s /\ IsFiniteSet(Smaller(s))
  BY FS_Subset DEF Smaller
<1>3. Cardinality(s) \in Nat /\ Cardinality(Smaller(s)) = Cardinality(s) - 1
  BY <1>1, FS_RemoveElement, FS_CardinalityType DEF Smaller
<1> QED
  BY <1>1, <1>2, <1>3, FS_CardinalityType

(* The sums of f over the subsets of S with at most n elements. *)
Level(S, n) == {s \in SUBSET S : Cardinality(s) <= n}
SumsUpTo(f, S, n) ==
    {g \in [Level(S, n) -> Nat] :
        \A s \in Level(S, n) : g[s] = IF s = {} THEN 0 ELSE f[PickOne(s)] + g[Smaller(s)]}

LEMMA SumsUpToExist ==
    ASSUME NEW S, IsFiniteSet(S), NEW f, \A x \in S : f[x] \in Nat, NEW n \in Nat
    PROVE  SumsUpTo(f, S, n) # {}
<1> DEFINE T == {k \in Nat : SumsUpTo(f, S, k) = {}}
<1>1. SUFFICES ASSUME n \in T PROVE FALSE
  OBVIOUS
<1>2. \A s \in SUBSET S : IsFiniteSet(s) /\ Cardinality(s) \in Nat
  BY FS_Subset, FS_CardinalityType
<1>3. PICK m \in T : \A k \in T : m <= k
  <2>1. T \in SUBSET Nat
    OBVIOUS
  <2> HIDE DEF T
  <2> QED
    BY <1>1, <2>1, LeastNumber
<1>4. CASE m = 0
  <2>1. \A s \in Level(S, 0) : s = {}
    BY <1>2, FS_EmptySet DEF Level
  <2>2. [s \in Level(S, 0) |-> 0] \in SumsUpTo(f, S, 0)
    BY <2>1 DEF SumsUpTo
  <2> QED
    BY <1>4, <2>2
<1>5. CASE m # 0
  <2>1. m \in Nat /\ m - 1 \in Nat /\ m - 1 \notin T
    BY <1>3, <1>5
  <2>2. PICK g : g \in SumsUpTo(f, S, m - 1)
    BY <2>1
  <2>3. /\ g \in [Level(S, m - 1) -> Nat]
        /\ \A s \in Level(S, m - 1) : g[s] = IF s = {} THEN 0 ELSE f[PickOne(s)] + g[Smaller(s)]
    BY <2>2 DEF SumsUpTo
  <2> DEFINE h == [s \in Level(S, m) |-> IF s = {} THEN 0 ELSE f[PickOne(s)] + g[Smaller(s)]]
  <2>4. ASSUME NEW s \in Level(S, m), s # {}
        PROVE  /\ Smaller(s) \in Level(S, m - 1) /\ Smaller(s) \in Level(S, m)
               /\ f[PickOne(s)] \in Nat
    <3>1. s \subseteq S /\ IsFiniteSet(s) /\ Cardinality(s) <= m
      BY <1>2 DEF Level
    <3>2. PickOne(s) \in S /\ Smaller(s) \in SUBSET S /\ Cardinality(Smaller(s)) <= m - 1
          /\ Cardinality(Smaller(s)) <= m
      BY <2>1, <2>4, <3>1, SmallerSet
    <3> QED
      BY <3>2 DEF Level
  <2>5. \A s \in Level(S, m - 1) : s \in Level(S, m)
    BY <1>2, <2>1 DEF Level
  <2>6. h \in [Level(S, m) -> Nat]
    BY <2>3, <2>4
  <2>7. \A s \in Level(S, m - 1) : h[s] = g[s]
    BY <2>3, <2>5
  <2>8. \A s \in Level(S, m) : h[s] = IF s = {} THEN 0 ELSE f[PickOne(s)] + h[Smaller(s)]
    BY <2>4, <2>7
  <2>9. h \in SumsUpTo(f, S, m)
    BY <2>6, <2>8 DEF SumsUpTo
  <2> QED
    BY <2>9
<1> QED
  BY <1>4, <1>5

(* The sums that SumFunctionOnSet picks are sums indeed. *)
LEMMA SumsAreSums ==
    ASSUME NEW S, IsFiniteSet(S), NEW f, \A x \in S : f[x] \in Nat
    PROVE  \E sums : /\ SumFunctionOnSet(f, S) = sums[S]
                     /\ sums[{}] = 0
                     /\ \A s \in SUBSET S : s # {} => sums[s] = f[PickOne(s)] + sums[Smaller(s)]
<1> DEFINE sums == CHOOSE sums : SumsOf(f, S, sums)
<1>1. \A s \in SUBSET S : IsFiniteSet(s) /\ Cardinality(s) \in Nat /\ Cardinality(s) <= Cardinality(S)
  BY FS_Subset, FS_CardinalityType
<1>2. Level(S, Cardinality(S)) = SUBSET S
  BY <1>1 DEF Level
<1>3. PICK g : g \in SumsUpTo(f, S, Cardinality(S))
  BY SumsUpToExist, FS_CardinalityType
<1>4. /\ g \in [SUBSET S -> Nat]
      /\ \A s \in SUBSET S : g[s] = IF s = {} THEN 0 ELSE f[PickOne(s)] + g[Smaller(s)]
  BY <1>2, <1>3 DEF SumsUpTo
<1>5. SumsOf(f, S, g)
  BY <1>4 DEF SumsOf, Smaller
<1>6. SumsOf(f, S, sums)
  BY <1>5
<1> HIDE DEF sums
<1>7. /\ sums[{}] = 0
      /\ \A s \in SUBSET S : s # {} => sums[s] = f[PickOne(s)] + sums[Smaller(s)]
  BY <1>6 DEF SumsOf, Smaller
<1>8. SumFunctionOnSet(f, S) = sums[S]
  BY SumIsChosen DEF sums
<1> QED
  BY <1>7, <1>8

LEMMA SumsAgree ==
    ASSUME NEW S, IsFiniteSet(S), NEW f, NEW R, IsFiniteSet(R), NEW g, NEW a, NEW b,
           a[{}] = 0, \A s \in SUBSET S : s # {} => a[s] = f[PickOne(s)] + a[Smaller(s)],
           b[{}] = 0, \A s \in SUBSET R : s # {} => b[s] = g[PickOne(s)] + b[Smaller(s)],
           NEW t, t \subseteq S, t \subseteq R, \A x \in t : f[x] = g[x]
    PROVE  a[t] = b[t]
<1> DEFINE F == {s \in SUBSET t : a[s] # b[s]}
<1>1. SUFFICES ASSUME t \in F PROVE FALSE
  OBVIOUS
<1>2. \A s \in F : IsFiniteSet(s)
  BY FS_Subset
<1>3. PICK s \in F : \A r \in F : Cardinality(s) <= Cardinality(r)
  <2> HIDE DEF F
  <2> QED
    BY <1>1, <1>2, SmallestMember
<1>4. s # {}
  OBVIOUS
<1>5. /\ PickOne(s) \in s /\ Smaller(s) \subseteq s
      /\ Cardinality(Smaller(s)) \in Nat /\ Cardinality(s) = Cardinality(Smaller(s)) + 1
  BY <1>2, <1>4, SmallerSet
<1>6. Smaller(s) \notin F
  BY <1>3, <1>5
<1>7. a[Smaller(s)] = b[Smaller(s)]
  BY <1>5, <1>6
<1>8. a[s] = f[PickOne(s)] + a[Smaller(s)] /\ b[s] = g[PickOne(s)] + b[Smaller(s)]
  BY <1>4
<1>9. f[PickOne(s)] = g[PickOne(s)]
  BY <1>5
<1> QED
  BY <1>7, <1>8, <1>9

-----------------------------------------------------------------------------
(* What the sum is, for the modules that use it. *)

LEMMA SumEmpty == ASSUME NEW f PROVE SumFunctionOnSet(f, {}) = 0
  BY SumsAreSums, FS_EmptySet

(* The sum depends on the values over the set only. *)
LEMMA SumSame ==
    ASSUME NEW S, IsFiniteSet(S), NEW f, NEW g, \A x \in S : f[x] \in Nat,
           \A x \in S : g[x] = f[x]
    PROVE  SumFunctionOnSet(g, S) = SumFunctionOnSet(f, S)
<1>1. PICK a : /\ SumFunctionOnSet(f, S) = a[S] /\ a[{}] = 0
               /\ \A s \in SUBSET S : s # {} => a[s] = f[PickOne(s)] + a[Smaller(s)]
  BY SumsAreSums
<1>2. PICK b : /\ SumFunctionOnSet(g, S) = b[S] /\ b[{}] = 0
               /\ \A s \in SUBSET S : s # {} => b[s] = g[PickOne(s)] + b[Smaller(s)]
  BY SumsAreSums
<1> QED
  BY <1>1, <1>2, SumsAgree

LEMMA SumOfPick ==
    ASSUME NEW S, IsFiniteSet(S), S # {}, NEW f, \A x \in S : f[x] \in Nat
    PROVE  SumFunctionOnSet(f, S) = f[PickOne(S)] + SumFunctionOnSet(f, Smaller(S))
<1> DEFINE R == Smaller(S)
<1>1. R \subseteq S /\ IsFiniteSet(R)
  BY SmallerSet
<1> HIDE DEF R
<1>2. PICK a : /\ SumFunctionOnSet(f, S) = a[S] /\ a[{}] = 0
               /\ \A s \in SUBSET S : s # {} => a[s] = f[PickOne(s)] + a[Smaller(s)]
  BY SumsAreSums
<1>3. PICK b : /\ SumFunctionOnSet(f, R) = b[R] /\ b[{}] = 0
               /\ \A s \in SUBSET R : s # {} => b[s] = f[PickOne(s)] + b[Smaller(s)]
  BY <1>1, SumsAreSums
<1>4. a[R] = b[R]
  BY <1>1, <1>2, <1>3, SumsAgree
<1>5. a[S] = f[PickOne(S)] + a[Smaller(S)]
  BY <1>2
<1> QED
  BY <1>2, <1>3, <1>4, <1>5 DEF R

LEMMA SumNat ==
    ASSUME NEW S, IsFiniteSet(S), NEW f, \A x \in S : f[x] \in Nat
    PROVE  SumFunctionOnSet(f, S) \in Nat
<1> DEFINE F == {s \in SUBSET S : SumFunctionOnSet(f, s) \notin Nat}
<1>1. SUFFICES ASSUME S \in F PROVE FALSE
  OBVIOUS
<1>2. \A s \in F : IsFiniteSet(s)
  BY FS_Subset
<1>3. PICK s \in F : \A r \in F : Cardinality(s) <= Cardinality(r)
  <2> HIDE DEF F
  <2> QED
    BY <1>1, <1>2, SmallestMember
<1>4. s # {}
  BY SumEmpty
<1>5. /\ PickOne(s) \in s /\ Smaller(s) \subseteq s
      /\ Cardinality(Smaller(s)) \in Nat /\ Cardinality(s) = Cardinality(Smaller(s)) + 1
  BY <1>2, <1>4, SmallerSet
<1>6. Smaller(s) \notin F
  BY <1>3, <1>5
<1>7. SumFunctionOnSet(f, Smaller(s)) \in Nat
  BY <1>5, <1>6
<1>8. SumFunctionOnSet(f, s) = f[PickOne(s)] + SumFunctionOnSet(f, Smaller(s))
  BY <1>2, <1>4, SumOfPick
<1> QED
  BY <1>5, <1>7, <1>8

(* Any one element can be taken out first. *)
LEMMA SumTake ==
    ASSUME NEW S, IsFiniteSet(S), NEW f, \A x \in S : f[x] \in Nat, NEW y \in S
    PROVE  SumFunctionOnSet(f, S) = f[y] + SumFunctionOnSet(f, S \ {y})
<1> DEFINE Sum(s) == SumFunctionOnSet(f, s)
           F == {s \in SUBSET S : \E x \in s : Sum(s) # f[x] + Sum(s \ {x})}
<1>1. SUFFICES ASSUME S \in F PROVE FALSE
  OBVIOUS
<1>2. \A s \in SUBSET S : IsFiniteSet(s)
  BY FS_Subset
<1>3. PICK s \in F : \A r \in F : Cardinality(s) <= Cardinality(r)
  <2>1. \A s \in F : IsFiniteSet(s)
    BY <1>2
  <2> HIDE DEF F
  <2> QED
    BY <1>1, <2>1, SmallestMember
<1>4. PICK x \in s : Sum(s) # f[x] + Sum(s \ {x})
  OBVIOUS
<1> DEFINE p == PickOne(s)
<1>5. /\ p \in s /\ Smaller(s) = s \ {p}
      /\ Cardinality(s \ {p}) \in Nat /\ Cardinality(s) = Cardinality(s \ {p}) + 1
  BY <1>2, SmallerSet DEF Smaller
<1>6. Sum(s) = f[p] + Sum(s \ {p})
  BY <1>2, <1>5, SumOfPick
<1>7. p # x
  BY <1>4, <1>6
<1>8. s \ {p} \notin F /\ s \ {p} \in SUBSET S /\ x \in s \ {p}
  <2>1. s \in SUBSET S
    OBVIOUS
  <2> HIDE DEF F, p
  <2> QED
    BY <1>3, <1>5, <1>7, <2>1
<1>9. Sum(s \ {p}) = f[x] + Sum((s \ {p}) \ {x})
  BY <1>8
<1>10. Cardinality(s \ {x}) = Cardinality(s) - 1
  BY <1>2, FS_RemoveElement
<1>11. s \ {x} \notin F /\ s \ {x} \in SUBSET S /\ p \in s \ {x}
  <2>1. s \in SUBSET S
    OBVIOUS
  <2> HIDE DEF F, p
  <2> QED
    BY <1>3, <1>5, <1>7, <1>10, <2>1
<1>12. Sum(s \ {x}) = f[p] + Sum((s \ {x}) \ {p})
  BY <1>11
<1>13. (s \ {x}) \ {p} = (s \ {p}) \ {x}
  OBVIOUS
<1>14. Sum((s \ {p}) \ {x}) \in Nat
  BY <1>2, SumNat
<1>15. f[p] \in Nat /\ f[x] \in Nat
  BY <1>5
<1> HIDE DEF Sum, p
<1> QED
  BY <1>4, <1>6, <1>9, <1>12, <1>13, <1>14, <1>15

(* One value changes. *)
LEMMA SumChanges ==
    ASSUME NEW S, IsFiniteSet(S), NEW f, \A x \in S : f[x] \in Nat, NEW y \in S,
           NEW g, g[y] \in Nat, \A x \in S : x # y => g[x] = f[x]
    PROVE  /\ SumFunctionOnSet(g, S) + f[y] = SumFunctionOnSet(f, S) + g[y]
           /\ SumFunctionOnSet(f, S) \in Nat /\ SumFunctionOnSet(g, S) \in Nat
<1> DEFINE R == S \ {y}
<1>1. IsFiniteSet(R) /\ R \subseteq S /\ \A x \in R : f[x] \in Nat /\ g[x] = f[x]
  BY FS_Subset
<1>2. \A x \in S : g[x] \in Nat
  OBVIOUS
<1>3. SumFunctionOnSet(f, S) = f[y] + SumFunctionOnSet(f, R)
  BY SumTake
<1>4. SumFunctionOnSet(g, S) = g[y] + SumFunctionOnSet(g, R)
  BY <1>2, SumTake
<1> HIDE DEF R
<1>5. SumFunctionOnSet(g, R) = SumFunctionOnSet(f, R)
  BY <1>1, SumSame
<1>6. SumFunctionOnSet(f, R) \in Nat
  BY <1>1, SumNat
<1>7. f[y] \in Nat
  OBVIOUS
<1> QED
  BY <1>3, <1>4, <1>5, <1>6, <1>7

(* One more element. *)
LEMMA SumGrows ==
    ASSUME NEW n \in Nat, NEW f, \A k \in 1..n : f[k] \in Nat, NEW g, g[n + 1] \in Nat,
           \A k \in 1..n : g[k] = f[k]
    PROVE  /\ SumFunctionOnSet(g, 1..(n + 1)) = SumFunctionOnSet(f, 1..n) + g[n + 1]
           /\ SumFunctionOnSet(f, 1..n) \in Nat
<1>1. IsFiniteSet(1..n) /\ IsFiniteSet(1..(n + 1))
  BY FS_Interval
<1>2. \A k \in 1..(n + 1) : g[k] \in Nat
  <2> TAKE k \in 1..(n + 1)
  <2>1. k \in 1..n \/ k = n + 1
    OBVIOUS
  <2> QED
    BY <2>1
<1>3. (1..(n + 1)) \ {n + 1} = 1..n /\ n + 1 \in 1..(n + 1)
  OBVIOUS
<1>4. SumFunctionOnSet(g, 1..(n + 1)) = g[n + 1] + SumFunctionOnSet(g, (1..(n + 1)) \ {n + 1})
  BY <1>1, <1>2, <1>3, SumTake
<1>5. SumFunctionOnSet(g, 1..n) = SumFunctionOnSet(f, 1..n) /\ SumFunctionOnSet(f, 1..n) \in Nat
  BY <1>1, SumSame, SumNat
<1>6. SumFunctionOnSet(g, 1..(n + 1)) = g[n + 1] + SumFunctionOnSet(g, 1..n)
  BY <1>3, <1>4
<1> DEFINE sum == SumFunctionOnSet(f, 1..n)
           all == SumFunctionOnSet(g, 1..(n + 1))
<1>7. all = g[n + 1] + sum /\ sum \in Nat
  BY <1>5, <1>6
<1> HIDE DEF sum, all
<1>8. all = sum + g[n + 1] /\ sum \in Nat
  BY <1>7
<1> QED
  BY <1>8 DEF sum, all

(* Zeros sum to zero. *)
LEMMA SumZero ==
    ASSUME NEW S, IsFiniteSet(S), NEW f, \A x \in S : f[x] = 0
    PROVE  SumFunctionOnSet(f, S) = 0
<1> DEFINE Bad == {s \in SUBSET S : SumFunctionOnSet(f, s) # 0}
<1>1. \A s \in SUBSET S : IsFiniteSet(s)
  BY FS_Subset
<1>2. SUFFICES ASSUME S \in Bad PROVE FALSE
  OBVIOUS
<1>3. PICK s \in Bad : \A r \in Bad : Cardinality(s) <= Cardinality(r)
  <2>1. \A s \in Bad : IsFiniteSet(s)
    BY <1>1
  <2> HIDE DEF Bad
  <2> QED
    BY <1>2, <2>1, SmallestMember
<1>4. s # {}
  BY SumEmpty
<1>5. /\ PickOne(s) \in s /\ Smaller(s) \in SUBSET S
      /\ Cardinality(Smaller(s)) \in Nat /\ Cardinality(s) = Cardinality(Smaller(s)) + 1
  BY <1>1, <1>4, SmallerSet
<1>6. Smaller(s) \notin Bad
  <2> HIDE DEF Bad
  <2> QED
    BY <1>3, <1>5
<1>7. SumFunctionOnSet(f, s) = f[PickOne(s)] + SumFunctionOnSet(f, Smaller(s))
  <2>1. \A x \in s : f[x] \in Nat
    OBVIOUS
  <2> QED
    BY <1>1, <1>4, <2>1, SumOfPick
<1> QED
  BY <1>5, <1>6, <1>7

-----------------------------------------------------------------------------
(* A loop walks 1..N and appends e[n] for every n of C: f[n] is the list   *)
(* after n rounds.                                                         *)
Walked(f, N, C, e) ==
    [n \in 0..N |-> IF n = 0 THEN <<>>
                    ELSE IF n \in C THEN Append(f[n - 1], e[n]) ELSE f[n - 1]]

Walks(N, C, e, S) == {f \in [0..N -> Seq(S)] : f = Walked(f, N, C, e)}

LEMMA WalkExists ==
    ASSUME NEW N \in Nat, NEW C, NEW e, NEW S, \A n \in 1..N : n \in C => e[n] \in S
    PROVE  Walks(N, C, e, S) # {}
<1> DEFINE T == {k \in 0..N : Walks(k, C, e, S) = {}}
<1>1. SUFFICES ASSUME N \in T PROVE FALSE
  OBVIOUS
<1>2. T \in SUBSET Nat
  OBVIOUS
<1>3. PICK m \in T : \A j \in T : m <= j
  <2> HIDE DEF T
  <2> QED
    BY <1>1, <1>2, LeastNumber
<1>4. m \in 0..N /\ m \in Nat /\ Walks(m, C, e, S) = {}
  OBVIOUS
<1>5. CASE m = 0
  <2> DEFINE f == [n \in 0..0 |-> <<>>]
  <2>1. f \in [0..0 -> Seq(S)] /\ f[0] = <<>>
    OBVIOUS
  <2>2. \A n \in 0..0 : n = 0
    OBVIOUS
  <2>3. f = Walked(f, 0, C, e)
    BY <2>2 DEF Walked
  <2> QED
    BY <1>4, <1>5, <2>1, <2>3 DEF Walks
<1>6. CASE m # 0
  <2>1. m - 1 \in 0..N /\ m - 1 \in Nat /\ m \in 1..N
    BY <1>4, <1>6
  <2>2. m - 1 \notin T
    <3> HIDE DEF T
    <3> QED
      BY <1>2, <1>3, <2>1
  <2>3. PICK f : f \in Walks(m - 1, C, e, S)
    BY <2>1, <2>2
  <2>4. f \in [0..(m - 1) -> Seq(S)] /\ f = Walked(f, m - 1, C, e)
    BY <2>3 DEF Walks
  <2> DEFINE last == IF m \in C THEN Append(f[m - 1], e[m]) ELSE f[m - 1]
             h == [n \in 0..m |-> IF n = m THEN last ELSE f[n]]
  <2>5. last \in Seq(S)
    <3>1. f[m - 1] \in Seq(S)
      BY <2>1, <2>4
    <3> QED
      BY <2>1, <3>1, AppendProperties
  <2>6. h \in [0..m -> Seq(S)] /\ h[m] = last
    <3> HIDE DEF last
    <3> QED
      BY <1>4, <1>6, <2>1, <2>4, <2>5
  <2>7. \A n \in 0..(m - 1) : h[n] = f[n]
    <3> HIDE DEF last
    <3> QED
      BY <1>4, <2>1
  <2>8. h[m] = IF m \in C THEN Append(h[m - 1], e[m]) ELSE h[m - 1]
    BY <2>1, <2>6, <2>7
  <2> HIDE DEF h
  <2>9. ASSUME NEW n \in 0..m PROVE h[n] = Walked(h, m, C, e)[n]
    <3>1. CASE n = m
      BY <1>4, <1>6, <2>8, <3>1 DEF Walked
    <3>2. CASE n = 0
      <4>1. n \in 0..(m - 1)
        BY <2>1, <3>2
      <4>2. h[n] = <<>>
        BY <2>4, <2>7, <3>2, <4>1 DEF Walked
      <4> QED
        BY <1>4, <3>2, <4>2 DEF Walked
    <3>3. CASE n # m /\ n # 0
      <4>1. n \in 0..(m - 1) /\ n - 1 \in 0..(m - 1) /\ h[n - 1] = f[n - 1] /\ h[n] = f[n]
        BY <1>4, <2>7, <3>3
      <4>2. f[n] = IF n \in C THEN Append(f[n - 1], e[n]) ELSE f[n - 1]
        BY <2>4, <3>3, <4>1 DEF Walked
      <4> QED
        BY <3>3, <4>1, <4>2 DEF Walked
    <3> QED
      BY <3>1, <3>2, <3>3
  <2>10. h = Walked(h, m, C, e)
    <3>1. Walked(h, m, C, e) = [n \in 0..m |-> Walked(h, m, C, e)[n]]
      BY DEF Walked
    <3> QED
      BY <2>6, <2>9, <3>1
  <2>11. h \in Walks(m, C, e, S)
    BY <2>6, <2>10 DEF Walks
  <2> QED
    BY <1>4, <2>11
<1> QED
  BY <1>5, <1>6
=============================================================================
