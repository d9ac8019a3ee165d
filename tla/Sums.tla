-------------------------------- MODULE Sums --------------------------------
(***************************************************************************)
(* What the proofs about money and volume need of a sum: the community     *)
(* modules' SumFunctionOnSet(f, S), the sum of f[x] for x in S, does not   *)
(* depend on the order in which the elements are taken.                    *)
(*                                                                         *)
(* SumFunctionOnSet is a recursive function over the subsets of S, so this *)
(* is an induction over data.  It is done by minimal counterexamples: the  *)
(* library states that strict inclusion of finite sets, and < on Nat, are  *)
(* well founded, and a well-founded relation has minimal elements.         *)
(***************************************************************************)
EXTENDS Integers, Functions, FiniteSetTheorems, TLAPS

-----------------------------------------------------------------------------
(* Minimal elements *)

\* A set of natural numbers that is not empty has a least element.
LEMMA LeastNumber ==
  ASSUME NEW T, T \subseteq Nat, T # {}
  PROVE  \E n \in T : \A m \in T : n <= m
<1> DEFINE Below == {ss \in Nat \X Nat : ss[1] < ss[2]}
<1>1. OpToRel(<, Nat) = Below
  BY DEF OpToRel
<1>2. IsWellFoundedOn(Below, Nat)
  BY <1>1, NatLessThanWellFounded
<1>3. PICK n \in T : \A m \in T : <<m, n>> \notin Below
  <2> HIDE DEF Below
  <2> QED BY <1>2, WFMin
<1>4. ASSUME NEW m \in T PROVE n <= m
  <2>1. <<m, n>> \in Nat \X Nat /\ m \in Nat /\ n \in Nat
    OBVIOUS
  <2>2. ~(m < n)
    BY <1>3, <2>1
  <2>3. QED BY <2>1, <2>2
<1>5. QED BY <1>4

\* A set of subsets of a finite set that is not empty has a minimal element.
LEMMA LeastSubset ==
  ASSUME NEW S, IsFiniteSet(S), NEW T, T \subseteq SUBSET S, T # {}
  PROVE  \E R \in T : \A Q \in T : Q \subseteq R => Q = R
<1>1. IsWellFoundedOn(StrictSubsetOrdering(S), SUBSET S)
  BY FS_StrictSubsetOrderingWellFounded, FS_FiniteSubsetsOfFinite
<1>2. PICK R \in T : \A Q \in T : <<Q, R>> \notin StrictSubsetOrdering(S)
  BY <1>1, WFMin
<1>3. ASSUME NEW Q \in T, Q \subseteq R PROVE Q = R
  BY <1>2, <1>3 DEF StrictSubsetOrdering
<1>4. QED BY <1>3

-----------------------------------------------------------------------------
(* The recursion behind SumFunctionOnSet *)

\* The element the recursion takes next.
Pick(s) == CHOOSE x \in s : TRUE

\* g maps the subsets of S in Domain to the sum of f over them.
SumsUpTo(g, f, Domain) ==
  g = [s \in Domain |-> IF s = {} THEN 0 ELSE f[Pick(s)] + g[s \ {Pick(s)}]]

\* The subsets of S with at most n elements.
Small(S, n) == {s \in SUBSET S : Cardinality(s) <= n}

\* The element the recursion takes is one of the set.
LEMMA PickIn == ASSUME NEW s, s # {} PROVE Pick(s) \in s
  BY DEF Pick

\* The definition of the community modules, unfolded.
LEMMA SumIsRecursive ==
  ASSUME NEW f, NEW S
  PROVE  SumFunctionOnSet(f, S) = (CHOOSE g : SumsUpTo(g, f, SUBSET S))[S]
  BY DEF SumFunctionOnSet, FoldFunctionOnSet, MapThenFoldSet, SumsUpTo, Pick

\* The recursion defines a function, level by level.
LEMMA SumsExist ==
  ASSUME NEW f, NEW S, IsFiniteSet(S)
  PROVE  \E g : SumsUpTo(g, f, SUBSET S)
<1> DEFINE Without == {n \in Nat : ~\E g : SumsUpTo(g, f, Small(S, n))}
<1>0. \A s \in SUBSET S : /\ IsFiniteSet(s) /\ Cardinality(s) \in Nat
                          /\ Cardinality(s) <= Cardinality(S)
                          /\ Cardinality(s) = 0 <=> s = {}
  BY FS_Subset, FS_CardinalityType, FS_EmptySet
<1>1. Without = {}
  <2> SUFFICES ASSUME Without # {} PROVE FALSE
    OBVIOUS
  <2>1. PICK n \in Without : \A m \in Without : n <= m
    BY LeastNumber
  <2>2. CASE n = 0
    <3>1. \A s \in Small(S, 0) : s = {}
      BY <1>0 DEF Small
    <3>2. SumsUpTo([s \in Small(S, 0) |-> 0], f, Small(S, 0))
      BY <3>1 DEF SumsUpTo
    <3>3. QED BY <2>1, <2>2, <3>2
  <2>3. CASE n # 0
    <3>1. n - 1 \in Nat /\ n - 1 \notin Without
      BY <2>1, <2>3
    <3>2. PICK g : SumsUpTo(g, f, Small(S, n - 1))
      BY <3>1
    <3> DEFINE next(s) == s \ {Pick(s)}
               value(s) == IF s = {} THEN 0 ELSE f[Pick(s)] + g[next(s)]
               h == [s \in Small(S, n) |-> value(s)]
    <3>3. ASSUME NEW s \in Small(S, n), s # {}
          PROVE  next(s) \in Small(S, n - 1) /\ next(s) \in Small(S, n)
      <4>1. s \in SUBSET S /\ Pick(s) \in s
        BY <3>3, PickIn DEF Small
      <4>2. Cardinality(next(s)) = Cardinality(s) - 1 /\ next(s) \in SUBSET S
        BY <1>0, <4>1, FS_RemoveElement
      <4>3. Cardinality(s) \in Nat /\ Cardinality(s) <= n
        BY <1>0, <4>1 DEF Small
      <4>4. QED BY <4>2, <4>3 DEF Small
    <3>4. ASSUME NEW s \in Small(S, n), s # {}
          PROVE  h[next(s)] = g[next(s)]
      <4>1. g[next(s)] = value(next(s))
        BY <3>2, <3>3, <3>4 DEF SumsUpTo
      <4>2. h[next(s)] = value(next(s))
        BY <3>3, <3>4
      <4>3. QED BY <4>1, <4>2
    <3>5. SumsUpTo(h, f, Small(S, n))
      BY <3>4 DEF SumsUpTo
    <3>6. QED BY <2>1, <3>5
  <2>4. QED BY <2>2, <2>3
<1>2. SUBSET S = Small(S, Cardinality(S)) /\ Cardinality(S) \in Nat
  BY <1>0 DEF Small
<1>3. PICK g : SumsUpTo(g, f, Small(S, Cardinality(S)))
  BY <1>1, <1>2
<1>4. SumsUpTo(g, f, SUBSET S)
  BY <1>2, <1>3
<1>5. QED BY <1>4

\* Two sets agree on the sums over their common subsets.
LEMMA SumsAgree ==
  ASSUME NEW S, IsFiniteSet(S), NEW R \in SUBSET S,
         NEW f, NEW g, SumsUpTo(g, f, SUBSET S),
         NEW h, NEW k, SumsUpTo(k, h, SUBSET R),
         \A x \in R : f[x] = h[x]
  PROVE  g[R] = k[R]
<1> DEFINE Different == {s \in SUBSET R : g[s] # k[s]}
<1>1. IsFiniteSet(R)
  BY FS_Subset
<1>2. Different = {}
  <2> SUFFICES ASSUME Different # {} PROVE FALSE
    OBVIOUS
  <2>1. PICK s \in Different : \A q \in Different : q \subseteq s => q = s
    <3>1. Different \subseteq SUBSET R
      OBVIOUS
    <3> HIDE DEF Different
    <3>2. QED BY <1>1, <3>1, LeastSubset
  <2>2. s \in SUBSET R /\ s \in SUBSET S
    OBVIOUS
  <2>3. CASE s = {}
    BY <2>1, <2>2, <2>3 DEF SumsUpTo
  <2>4. CASE s # {}
    <3>1. Pick(s) \in s
      BY <2>4, PickIn
    <3>2. s \ {Pick(s)} \notin Different
      BY <2>1, <3>1
    <3>3. g[s \ {Pick(s)}] = k[s \ {Pick(s)}]
      BY <2>2, <3>2
    <3>4. /\ g[s] = f[Pick(s)] + g[s \ {Pick(s)}]
          /\ k[s] = h[Pick(s)] + k[s \ {Pick(s)}]
      BY <2>2, <2>4 DEF SumsUpTo
    <3>5. QED BY <2>1, <2>2, <3>1, <3>3, <3>4
  <2>5. QED BY <2>3, <2>4
<1>3. QED BY <1>2

-----------------------------------------------------------------------------
(* The sum *)

\* The sum is the value of a function that satisfies the recursion.
LEMMA SumIsDefined ==
  ASSUME NEW f, NEW S, IsFiniteSet(S)
  PROVE  \E g : SumsUpTo(g, f, SUBSET S) /\ SumFunctionOnSet(f, S) = g[S]
<1>1. SumsUpTo(CHOOSE g : SumsUpTo(g, f, SUBSET S), f, SUBSET S)
  BY SumsExist
<1>2. QED BY <1>1, SumIsRecursive

\* Functions that agree on a set have the same sum over it.
LEMMA SumSame ==
  ASSUME NEW S, IsFiniteSet(S), NEW f, NEW h, \A x \in S : f[x] = h[x]
  PROVE  SumFunctionOnSet(f, S) = SumFunctionOnSet(h, S)
<1>1. PICK g : SumsUpTo(g, f, SUBSET S) /\ SumFunctionOnSet(f, S) = g[S]
  BY SumIsDefined
<1>2. PICK k : SumsUpTo(k, h, SUBSET S) /\ SumFunctionOnSet(h, S) = k[S]
  BY SumIsDefined
<1>3. g[S] = k[S]
  <2>1. S \in SUBSET S
    OBVIOUS
  <2>2. SumsUpTo(g, f, SUBSET S) /\ SumsUpTo(k, h, SUBSET S)
    BY <1>1, <1>2
  <2>3. \A x \in S : f[x] = h[x]
    OBVIOUS
  <2>4. QED BY ONLY IsFiniteSet(S), <2>1, <2>2, <2>3, SumsAgree
<1>4. QED BY <1>1, <1>2, <1>3

\* The sum over nothing.
LEMMA SumEmpty == ASSUME NEW f PROVE SumFunctionOnSet(f, {}) = 0
<1>1. PICK g : SumsUpTo(g, f, SUBSET {}) /\ SumFunctionOnSet(f, {}) = g[{}]
  BY SumIsDefined, FS_EmptySet
<1>2. QED BY <1>1 DEF SumsUpTo

\* The sum over the rest, once the recursion has taken its element.
LEMMA SumPick ==
  ASSUME NEW f, NEW S, IsFiniteSet(S), S # {}
  PROVE  SumFunctionOnSet(f, S) = f[Pick(S)] + SumFunctionOnSet(f, S \ {Pick(S)})
<1> DEFINE R == S \ {Pick(S)}
<1>1. PICK g : SumsUpTo(g, f, SUBSET S) /\ SumFunctionOnSet(f, S) = g[S]
  BY SumIsDefined
<1>2. IsFiniteSet(R) /\ R \in SUBSET S
  BY FS_RemoveElement
<1>3. PICK k : SumsUpTo(k, f, SUBSET R) /\ SumFunctionOnSet(f, R) = k[R]
  BY <1>2, SumIsDefined
<1>4. g[R] = k[R]
  <2>1. SumsUpTo(g, f, SUBSET S) /\ SumsUpTo(k, f, SUBSET R) /\ \A x \in R : f[x] = f[x]
    BY <1>1, <1>3
  <2> HIDE DEF R
  <2>2. QED BY ONLY IsFiniteSet(S), <1>2, <2>1, SumsAgree
<1>5. g[S] = f[Pick(S)] + g[R]
  BY <1>1 DEF SumsUpTo
<1>6. QED BY <1>1, <1>3, <1>4, <1>5

\* The sum of integers is an integer.
LEMMA SumInt ==
  ASSUME NEW S, IsFiniteSet(S), NEW f, \A x \in S : f[x] \in Int
  PROVE  SumFunctionOnSet(f, S) \in Int
<1> DEFINE Others == {s \in SUBSET S : SumFunctionOnSet(f, s) \notin Int}
<1>1. Others = {}
  <2> SUFFICES ASSUME Others # {} PROVE FALSE
    OBVIOUS
  <2>1. PICK s \in Others : \A q \in Others : q \subseteq s => q = s
    <3>1. Others \subseteq SUBSET S
      OBVIOUS
    <3> HIDE DEF Others
    <3>2. QED BY <3>1, LeastSubset
  <2>2. IsFiniteSet(s) /\ s \in SUBSET S
    BY FS_Subset
  <2>3. s # {}
    <3>1. SUFFICES ASSUME s = {} PROVE SumFunctionOnSet(f, s) \in Int
      BY <2>1
    <3>2. QED BY <3>1, SumEmpty
  <2>4. Pick(s) \in s
    BY <2>3, PickIn
  <2>5. SumFunctionOnSet(f, s \ {Pick(s)}) \in Int
    BY <2>1, <2>2, <2>4
  <2>6. f[Pick(s)] \in Int
    BY <2>2, <2>4
  <2>7. QED BY <2>1, <2>2, <2>3, <2>5, <2>6, SumPick
<1>2. QED BY <1>1

\* Any element can be taken out first.
LEMMA SumRemove ==
  ASSUME NEW S, IsFiniteSet(S), NEW f, \A x \in S : f[x] \in Int, NEW x \in S
  PROVE  SumFunctionOnSet(f, S) = SumFunctionOnSet(f, S \ {x}) + f[x]
<1> DEFINE Others ==
             {s \in SUBSET S : \E y \in s :
                SumFunctionOnSet(f, s) # SumFunctionOnSet(f, s \ {y}) + f[y]}
<1>1. Others = {}
  <2> SUFFICES ASSUME Others # {} PROVE FALSE
    OBVIOUS
  <2>1. PICK s \in Others : \A q \in Others : q \subseteq s => q = s
    <3>1. Others \subseteq SUBSET S
      OBVIOUS
    <3> HIDE DEF Others
    <3>2. QED BY <3>1, LeastSubset
  <2>2. PICK y \in s : SumFunctionOnSet(f, s) # SumFunctionOnSet(f, s \ {y}) + f[y]
    BY <2>1
  <2> DEFINE p == Pick(s)
             r == (s \ {p}) \ {y}
  <2>3. p \in s /\ s \in SUBSET S
    BY <2>2, PickIn
  <2>4. /\ IsFiniteSet(s) /\ IsFiniteSet(s \ {p}) /\ IsFiniteSet(s \ {y}) /\ IsFiniteSet(r)
        /\ r = (s \ {y}) \ {p} /\ r \in SUBSET S
    BY <2>3, FS_Subset
  <2>5. f[p] \in Int /\ f[y] \in Int /\ SumFunctionOnSet(f, r) \in Int
    <3>1. SumFunctionOnSet(f, r) \in Int
      BY <2>4, SumInt
    <3>2. QED BY <2>2, <2>3, <3>1
  <2>6. SumFunctionOnSet(f, s) = f[p] + SumFunctionOnSet(f, s \ {p})
    BY <2>2, <2>4, SumPick
  <2>7. CASE y = p
    <3>1. SumFunctionOnSet(f, s \ {p}) \in Int
      BY <2>3, <2>4, SumInt
    <3>2. QED BY <2>2, <2>5, <2>6, <2>7, <3>1
  <2>8. CASE y # p
    <3>1. s \ {p} \in (SUBSET S) \ Others /\ s \ {y} \in (SUBSET S) \ Others
      BY <2>1, <2>2, <2>3
    <3>2. SumFunctionOnSet(f, s \ {p}) = SumFunctionOnSet(f, r) + f[y]
      BY <2>2, <2>8, <3>1
    <3>3. SumFunctionOnSet(f, s \ {y}) = SumFunctionOnSet(f, r) + f[p]
      BY <2>3, <2>4, <2>8, <3>1
    <3>4. QED BY <2>2, <2>5, <2>6, <3>2, <3>3
  <2>9. QED BY <2>7, <2>8
<1>2. QED BY <1>1

\* A new element is added to the sum.
LEMMA SumAdd ==
  ASSUME NEW S, IsFiniteSet(S), NEW x, x \notin S,
         NEW f, f[x] \in Int, \A y \in S : f[y] \in Int
  PROVE  SumFunctionOnSet(f, S \cup {x}) = SumFunctionOnSet(f, S) + f[x]
<1>1. IsFiniteSet(S \cup {x}) /\ (S \cup {x}) \ {x} = S
  BY FS_AddElement
<1>2. \A y \in S \cup {x} : f[y] \in Int
  OBVIOUS
<1>3. QED BY <1>1, <1>2, SumRemove

-----------------------------------------------------------------------------
(* The order of the elements, and their names, do not matter *)

\* A bijection between the index sets of two functions that agree along it
\* leaves the sum what it is.
LEMMA SumRenamed ==
  ASSUME NEW S, IsFiniteSet(S), NEW T, NEW b \in Bijection(S, T),
         NEW f, NEW g, \A x \in S : f[x] \in Int /\ g[b[x]] = f[x]
  PROVE  SumFunctionOnSet(f, S) = SumFunctionOnSet(g, T)
<1> DEFINE Image(s) == {b[x] : x \in s}
           Others == {s \in SUBSET S :
                        SumFunctionOnSet(f, s) # SumFunctionOnSet(g, Image(s))}
<1>0. /\ b \in [S -> T]
      /\ \A x, y \in S : b[x] = b[y] => x = y
      /\ \A t \in T : \E x \in S : b[x] = t
  BY DEF Bijection, Injection, Surjection, IsInjective
<1>1. Others = {}
  <2> SUFFICES ASSUME Others # {} PROVE FALSE
    OBVIOUS
  <2>1. PICK s \in Others : \A q \in Others : q \subseteq s => q = s
    <3>1. Others \subseteq SUBSET S
      OBVIOUS
    <3> HIDE DEF Others
    <3>2. QED BY <3>1, LeastSubset
  <2>2. IsFiniteSet(s) /\ s \in SUBSET S
    BY FS_Subset
  <2>3. s # {}
    <3>1. SUFFICES ASSUME s = {} PROVE SumFunctionOnSet(f, s) = SumFunctionOnSet(g, Image(s))
      BY <2>1
    <3>2. Image(s) = {}
      BY <3>1
    <3>3. QED BY <3>1, <3>2, SumEmpty
  <2> DEFINE x == Pick(s)
             r == s \ {x}
  <2>4. x \in s
    BY <2>3, PickIn
  <2>5. IsFiniteSet(r) /\ r \in SUBSET S /\ r \notin Others
    BY <2>1, <2>2, <2>4, FS_Subset
  <2>6. SumFunctionOnSet(f, r) = SumFunctionOnSet(g, Image(r))
    BY <2>5
  <2>7. SumFunctionOnSet(f, s) = SumFunctionOnSet(f, r) + f[x]
    BY <2>2, <2>4, SumRemove
  <2>8. Image(r) = Image(s) \ {b[x]} /\ b[x] \in Image(s)
    BY <1>0, <2>2, <2>4
  <2>9. SumFunctionOnSet(g, Image(s)) = SumFunctionOnSet(g, Image(r)) + g[b[x]]
    <3>1. IsFiniteSet(Image(s))
      <4>1. [y \in s |-> b[y]] \in Surjection(s, Image(s))
        BY DEF Surjection
      <4>2. QED BY ONLY <2>2, <4>1, FS_Surjection
    <3>2. \A y \in Image(s) : g[y] \in Int
      BY <2>2
    <3> HIDE DEF Image, r, x
    <3>3. QED BY <2>8, <3>1, <3>2, SumRemove
  <2>10. g[b[x]] = f[x]
    BY <2>2, <2>4
  <2>11. SumFunctionOnSet(f, s) = SumFunctionOnSet(g, Image(s))
    BY <2>6, <2>7, <2>9, <2>10
  <2>12. QED BY <2>1, <2>11
<1>2. Image(S) = T
  BY <1>0
<1>3. S \notin Others
  BY <1>1
<1>4. QED BY <1>2, <1>3

\* The sum over two sets without a common element.
LEMMA SumUnion ==
  ASSUME NEW S, IsFiniteSet(S), NEW T, IsFiniteSet(T), S \cap T = {},
         NEW f, \A x \in S \cup T : f[x] \in Int
  PROVE  SumFunctionOnSet(f, S \cup T) = SumFunctionOnSet(f, S) + SumFunctionOnSet(f, T)
<1> DEFINE Others == {t \in SUBSET T : SumFunctionOnSet(f, S \cup t)
                             # SumFunctionOnSet(f, S) + SumFunctionOnSet(f, t)}
<1>0. SumFunctionOnSet(f, S) \in Int
  BY SumInt
<1>1. Others = {}
  <2> SUFFICES ASSUME Others # {} PROVE FALSE
    OBVIOUS
  <2>1. PICK t \in Others : \A q \in Others : q \subseteq t => q = t
    <3>1. Others \subseteq SUBSET T
      OBVIOUS
    <3> HIDE DEF Others
    <3>2. QED BY <3>1, LeastSubset
  <2>2. IsFiniteSet(t) /\ t \in SUBSET T /\ IsFiniteSet(S \cup t)
    BY FS_Subset, FS_Union
  <2>3. t # {}
    <3>1. SUFFICES ASSUME t = {}
                   PROVE  SumFunctionOnSet(f, S \cup t)
                             = SumFunctionOnSet(f, S) + SumFunctionOnSet(f, t)
      BY <2>1
    <3>2. S \cup t = S
      BY <3>1
    <3>3. SumFunctionOnSet(f, S \cup t) = SumFunctionOnSet(f, S)
      BY <3>2
    <3>4. SumFunctionOnSet(f, t) = 0
      BY <3>1, SumEmpty
    <3>5. QED BY <1>0, <3>3, <3>4
  <2> DEFINE x == Pick(t)
             r == t \ {x}
  <2>4. x \in t
    BY <2>3, PickIn
  <2>5. IsFiniteSet(r) /\ r \in SUBSET T /\ r \notin Others
    BY <2>1, <2>2, <2>4, FS_Subset
  <2>6. SumFunctionOnSet(f, t) = SumFunctionOnSet(f, r) + f[x]
    BY <2>2, <2>4, SumRemove
  <2>7. (S \cup t) \ {x} = S \cup r
    BY <2>2, <2>4
  <2>8. SumFunctionOnSet(f, S \cup t) = SumFunctionOnSet(f, S \cup r) + f[x]
    BY <2>2, <2>4, <2>7, SumRemove
  <2>9. SumFunctionOnSet(f, r) \in Int /\ f[x] \in Int
    BY <2>2, <2>4, <2>5, SumInt
  <2>10. SumFunctionOnSet(f, S \cup t) = SumFunctionOnSet(f, S) + SumFunctionOnSet(f, t)
    <3>1. SumFunctionOnSet(f, S \cup r)
             = SumFunctionOnSet(f, S) + SumFunctionOnSet(f, r)
      BY <2>5
    <3> HIDE DEF r, x, Others
    <3>2. QED BY <1>0, <2>6, <2>8, <2>9, <3>1
  <2>11. QED BY <2>1, <2>10
<1>2. T \notin Others
  BY <1>1
<1>3. QED BY <1>2

-----------------------------------------------------------------------------
(* Sorting by counting *)

\* The elements of S that R puts before s.
Preceding(R, S, s) == {r \in S : <<r, s>> \in R}

\* The i-th element of the sequence has i - 1 predecessors, if any element has.
Sorts(seq, R, S) ==
  /\ seq = [i \in 1..Cardinality(S) |-> seq[i]]
  /\ \A i \in 1..Cardinality(S) :
        (\E s \in S : Cardinality(Preceding(R, S, s)) = i - 1)
           => seq[i] \in S /\ Cardinality(Preceding(R, S, seq[i])) = i - 1

\* R orders S strictly and totally.
StrictlyOrders(R, S) ==
  /\ \A r, s \in S : r = s \/ <<r, s>> \in R \/ <<s, r>> \in R
  /\ \A r \in S : <<r, r>> \notin R
  /\ \A r, s, t \in S : <<r, s>> \in R /\ <<s, t>> \in R => <<r, t>> \in R

\* Counting the predecessors sorts a finite set: every element has one place.
LEMMA SortedOnce ==
  ASSUME NEW S, IsFiniteSet(S), NEW R, StrictlyOrders(R, S), NEW seq, Sorts(seq, R, S)
  PROVE  /\ seq \in Bijection(1..Cardinality(S), S)
         /\ \A i \in 1..Cardinality(S) :
               seq[i] \in S /\ Cardinality(Preceding(R, S, seq[i])) = i - 1
<1> DEFINE n == Cardinality(S)
           Rank == [s \in S |-> Cardinality(Preceding(R, S, s))]
<1>0. n \in Nat
  BY FS_CardinalityType
<1>1. ASSUME NEW s \in S
      PROVE  /\ IsFiniteSet(Preceding(R, S, s))
             /\ Rank[s] \in 0..(n - 1)
  <2>1. s \notin Preceding(R, S, s) /\ Preceding(R, S, s) \in SUBSET (S \ {s})
    BY DEF StrictlyOrders, Preceding
  <2>2. IsFiniteSet(S \ {s}) /\ Cardinality(S \ {s}) = n - 1
    BY FS_RemoveElement
  <2>3. IsFiniteSet(Preceding(R, S, s)) /\ Cardinality(Preceding(R, S, s)) <= n - 1
    BY <2>1, <2>2, FS_Subset
  <2>4. QED BY <1>0, <2>3, FS_CardinalityType
<1>2. ASSUME NEW r \in S, NEW s \in S, <<r, s>> \in R PROVE Rank[r] < Rank[s]
  <2>1. r \notin Preceding(R, S, r)
    BY DEF StrictlyOrders, Preceding
  <2>2. Preceding(R, S, r) \cup {r} \in SUBSET Preceding(R, S, s)
    BY <1>2 DEF StrictlyOrders, Preceding
  <2>3. Cardinality(Preceding(R, S, r) \cup {r}) = Cardinality(Preceding(R, S, r)) + 1
    BY <1>1, <2>1, FS_AddElement
  <2>4. Cardinality(Preceding(R, S, r) \cup {r}) <= Cardinality(Preceding(R, S, s))
    BY <1>1, <2>2, FS_Subset
  <2>5. Rank[r] \in Int /\ Rank[s] \in Int
    BY <1>0, <1>1
  <2>6. QED BY <2>3, <2>4, <2>5
<1>3. ASSUME NEW r \in S, NEW s \in S, Rank[r] = Rank[s] PROVE r = s
  <2>1. Rank[r] \in Int /\ ~(Rank[r] < Rank[s]) /\ ~(Rank[s] < Rank[r])
    <3>1. Rank[r] \in Int
      BY <1>0, <1>1
    <3>2. QED BY <1>3, <3>1
  <2>2. QED BY <1>2, <2>1 DEF StrictlyOrders
<1>4. Rank \in Injection(S, 0..(n - 1))
  BY <1>1, <1>3 DEF Injection, IsInjective
<1>5. Rank \in Surjection(S, 0..(n - 1))
  <2>1. IsFiniteSet(0..(n - 1)) /\ Cardinality(0..(n - 1)) = n
    BY <1>0, FS_Interval
  <2> HIDE DEF Rank
  <2>2. QED BY <1>4, <2>1, FS_Injection
<1>6. ASSUME NEW i \in 1..n
      PROVE  seq[i] \in S /\ Rank[seq[i]] = i - 1
  <2>1. i - 1 \in 0..(n - 1)
    BY <1>0
  <2>2. \E s \in S : Rank[s] = i - 1
    BY <1>5, <2>1 DEF Surjection
  <2>3. \E s \in S : Cardinality(Preceding(R, S, s)) = i - 1
    BY <2>2
  <2>4. seq[i] \in S /\ Cardinality(Preceding(R, S, seq[i])) = i - 1
    BY <2>3 DEF Sorts
  <2>5. QED BY <2>4
<1>7. seq = [i \in 1..n |-> seq[i]]
  BY DEF Sorts
<1>8. seq \in [1..n -> S]
  BY <1>6, <1>7
<1>9. ASSUME NEW i \in 1..n, NEW j \in 1..n, seq[i] = seq[j]
      PROVE  i = j
  <2>1. i - 1 = j - 1
    BY <1>6, <1>9
  <2>2. QED BY <1>0, <2>1
<1>10. \A s \in S : \E i \in 1..n : seq[i] = s
  <2> TAKE s \in S
  <2>1. Rank[s] + 1 \in 1..n
    BY <1>0, <1>1
  <2>2. seq[Rank[s] + 1] \in S
        /\ Rank[seq[Rank[s] + 1]] = (Rank[s] + 1) - 1
    BY <1>6, <2>1
  <2>3. (Rank[s] + 1) - 1 = Rank[s]
    BY <1>0, <1>1
  <2>4. seq[Rank[s] + 1] = s
    BY <1>3, <2>2, <2>3
  <2>5. QED BY <2>1, <2>4
<1>11. seq \in Bijection(1..n, S)
  BY <1>8, <1>9, <1>10 DEF Bijection, Injection, Surjection, IsInjective
<1>12. QED BY <1>6, <1>11

-----------------------------------------------------------------------------
(* Sums over a sequence of integers *)

\* A value appended to the sequence is added.
LEMMA SumAppended ==
  ASSUME NEW n \in Nat, NEW v, DOMAIN v = 1..n, \A i \in 1..n : v[i] \in Int,
         NEW w, DOMAIN w = 1..(n + 1), \A i \in 1..n : w[i] = v[i],
         w[n + 1] \in Int
  PROVE  SumFunction(w) = SumFunction(v) + w[n + 1]
<1>1. DOMAIN v = 1..n /\ DOMAIN w = (1..n) \cup {n + 1} /\ n + 1 \notin 1..n
  OBVIOUS
<1>2. IsFiniteSet(1..n)
  BY FS_Interval
<1>3. SumFunctionOnSet(w, (1..n) \cup {n + 1}) = SumFunctionOnSet(w, 1..n) + w[n + 1]
  BY <1>1, <1>2, SumAdd
<1>4. SumFunctionOnSet(w, 1..n) = SumFunctionOnSet(v, 1..n)
  BY <1>2, SumSame
<1>5. QED BY <1>1, <1>3, <1>4 DEF SumFunction

\* A value taken out of the sequence is taken off.
LEMMA SumShortened ==
  ASSUME NEW n \in Nat, NEW v, DOMAIN v = 1..n, \A i \in 1..n : v[i] \in Int,
         NEW k \in 1..n, NEW w, DOMAIN w = 1..(n - 1),
         \A i \in 1..(n - 1) : w[i] = IF i < k THEN v[i] ELSE v[i + 1]
  PROVE  SumFunction(w) = SumFunction(v) - v[k]
<1> DEFINE b == [i \in 1..(n - 1) |-> IF i < k THEN i ELSE i + 1]
<1>1. DOMAIN v = 1..n /\ DOMAIN w = 1..(n - 1)
  OBVIOUS
<1>2. IsFiniteSet(1..n) /\ IsFiniteSet(1..(n - 1)) /\ IsFiniteSet((1..n) \ {k})
  <2>1. IsFiniteSet(1..n)
    BY FS_Interval
  <2>2. 1..(n - 1) \in SUBSET (1..n) /\ (1..n) \ {k} \in SUBSET (1..n)
    OBVIOUS
  <2>3. QED BY <2>1, <2>2, FS_Subset
<1>3. b \in Bijection(1..(n - 1), (1..n) \ {k})
  <2>1. b \in [1..(n - 1) -> (1..n) \ {k}]
    OBVIOUS
  <2>2. \A i, j \in 1..(n - 1) : b[i] = b[j] => i = j
    OBVIOUS
  <2>3. ASSUME NEW j \in (1..n) \ {k} PROVE \E i \in 1..(n - 1) : b[i] = j
    <3>1. CASE j < k
      <4>1. j \in 1..(n - 1) /\ b[j] = j
        BY <3>1
      <4>2. QED BY <4>1
    <3>2. CASE j > k
      <4>1. j - 1 \in 1..(n - 1) /\ b[j - 1] = j
        BY <3>2
      <4>2. QED BY <4>1
    <3>3. QED BY <3>1, <3>2
  <2>4. QED BY <2>1, <2>2, <2>3 DEF Bijection, Injection, Surjection, IsInjective
<1>4. \A i \in 1..(n - 1) : w[i] \in Int /\ v[b[i]] = w[i]
  OBVIOUS
<1>5. SumFunctionOnSet(w, 1..(n - 1)) = SumFunctionOnSet(v, (1..n) \ {k})
  <2> HIDE DEF b
  <2>1. QED BY ONLY <1>2, <1>3, <1>4, SumRenamed
<1>6. SumFunctionOnSet(v, 1..n) = SumFunctionOnSet(v, (1..n) \ {k}) + v[k]
  BY <1>2, SumRemove
<1>7. SumFunctionOnSet(v, (1..n) \ {k}) \in Int /\ v[k] \in Int
  BY <1>2, SumInt
<1>8. QED BY <1>1, <1>5, <1>6, <1>7 DEF SumFunction

\* The last value may as well be the first.
LEMMA SumMovedToFront ==
  ASSUME NEW n \in Nat, NEW v, DOMAIN v = 1..(n + 1), \A i \in 1..(n + 1) : v[i] \in Int,
         NEW w, DOMAIN w = 1..(n + 1), w[1] = v[n + 1], \A i \in 1..n : w[i + 1] = v[i]
  PROVE  SumFunction(w) = SumFunction(v)
<1> DEFINE b == [i \in 1..(n + 1) |-> IF i = n + 1 THEN 1 ELSE i + 1]
<1>1. b \in Bijection(1..(n + 1), 1..(n + 1))
  <2>1. b \in [1..(n + 1) -> 1..(n + 1)]
    OBVIOUS
  <2>2. \A i, j \in 1..(n + 1) : b[i] = b[j] => i = j
    OBVIOUS
  <2>3. \A k \in 1..(n + 1) : \E i \in 1..(n + 1) : b[i] = k
    <3> TAKE k \in 1..(n + 1)
    <3>1. CASE k = 1
      <4>1. n + 1 \in 1..(n + 1) /\ b[n + 1] = 1
        OBVIOUS
      <4>2. QED BY <3>1, <4>1
    <3>2. CASE k # 1
      <4>1. k - 1 \in 1..n /\ b[k - 1] = k
        BY <3>2
      <4>2. QED BY <4>1
    <3>3. QED BY <3>1, <3>2
  <2>4. QED BY <2>1, <2>2, <2>3 DEF Bijection, Injection, Surjection, IsInjective
<1>2. \A i \in 1..(n + 1) : v[i] \in Int /\ w[b[i]] = v[i]
  OBVIOUS
<1>3. IsFiniteSet(1..(n + 1))
  BY FS_Interval
<1> HIDE DEF b
<1>4. SumFunctionOnSet(v, 1..(n + 1)) = SumFunctionOnSet(w, 1..(n + 1))
  BY <1>1, <1>2, <1>3, SumRenamed
<1>5. DOMAIN v = 1..(n + 1) /\ DOMAIN w = 1..(n + 1)
  OBVIOUS
<1>6. QED BY <1>4, <1>5 DEF SumFunction

=============================================================================
