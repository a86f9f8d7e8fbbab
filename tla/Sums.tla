-------------------------------- MODULE Sums --------------------------------
(***************************************************************************)
(* Lemmas about finite sums, which the proofs about balances, totals and   *)
(* counts rest on.  The sum of a function is the fold of the community     *)
(* modules, a CHOOSE of a function on subsets that meets a recursive       *)
(* equation.  Nothing here is an induction schema: that such a function    *)
(* exists, and that the order of summation does not matter, is shown by    *)
(* picking a smallest counterexample among sets.                           *)
(***************************************************************************)
EXTENDS Integers, FiniteSets, Functions, FiniteSetTheorems, WellFoundedInduction, TLAPS

IntegerSum(f) == FoldFunction(+, 0, f)

(* The element a fold takes out of a set first.                            *)
Chosen(s) == CHOOSE x \in s : TRUE

(* it[s] is the sum over s, for every set s of arguments of f.             *)
Unfolds(it, f) ==
  it = [s \in SUBSET DOMAIN f |-> IF s = {} THEN 0 ELSE f[Chosen(s)] + it[s \ {Chosen(s)}]]

(* One round of computing it from its own values on smaller sets.          *)
Refilled(f, it) ==
  [s \in SUBSET DOMAIN f |-> IF s = {} THEN 0 ELSE f[Chosen(s)] + it[s \ {Chosen(s)}]]

(* After n rounds a function is right on the sets of at most n elements.   *)
RightUpTo(it, f, n) ==
  /\ it = [s \in SUBSET DOMAIN f |-> it[s]]
  /\ \A s \in SUBSET DOMAIN f : Cardinality(s) <= n => it[s] = Refilled(f, it)[s]

-----------------------------------------------------------------------------
(* A nonempty family of finite subsets of S has a member that contains no  *)
(* other one.                                                              *)
LEMMA SmallestSubset ==
  ASSUME NEW S, NEW T, T \subseteq FiniteSubsetsOf(S), T # {}
  PROVE  \E s \in T : \A t \in T : t \subseteq s => t = s
<1>1. \E s \in T : \A t \in T : <<t, s>> \notin StrictSubsetOrdering(S)
  BY FS_StrictSubsetOrderingWellFounded, WFMin
<1>2. T \subseteq SUBSET S
  BY DEF FiniteSubsetsOf
<1> QED
  BY <1>1, <1>2 DEF StrictSubsetOrdering

(* Every nonempty set of naturals has a least element.                     *)
LEMMA LeastNatural ==
  ASSUME NEW T \in SUBSET Nat, T # {}
  PROVE  \E n \in T : \A m \in T : n <= m
<1> DEFINE F == {0 .. n : n \in T}
<1>1. F # {} /\ F \subseteq FiniteSubsetsOf(Nat)
  <2>1. ASSUME NEW n \in T PROVE 0 .. n \in SUBSET Nat /\ IsFiniteSet(0 .. n)
    <3>1. n \in Int /\ 0 \in Int
      OBVIOUS
    <3>2. IsFiniteSet(0 .. n)
      BY <3>1, FS_Interval, Zenon
    <3> QED
      BY <3>2
  <2> QED
    BY <2>1 DEF FiniteSubsetsOf
<1> HIDE DEF F
<1>2. PICK s \in F : \A t \in F : t \subseteq s => t = s
  BY <1>1, SmallestSubset
<1> USE DEF F
<1>3. PICK n \in T : s = 0 .. n
  BY <1>2
<1>4. ASSUME NEW m \in T, m < n PROVE FALSE
  <2>1. 0 .. m \in F
    OBVIOUS
  <2>2. 0 .. m \subseteq 0 .. n /\ n \in 0 .. n /\ n \notin 0 .. m
    BY <1>4
  <2>3. 0 .. m = 0 .. n
    BY <2>1, <2>2, <1>2, <1>3, Zenon
  <2> QED
    BY <2>2, <2>3
<1> QED
  BY <1>4

(* The fold is the value of such a function, if there is one.              *)
LEMMA SumUnfolds ==
  ASSUME NEW f, \E it : Unfolds(it, f)
  PROVE \E it : Unfolds(it, f) /\ IntegerSum(f) = it[DOMAIN f]
<1> DEFINE it == CHOOSE it : Unfolds(it, f)
<1>1. Unfolds(it, f) BY Zenon
<1>2. IntegerSum(f) = it[DOMAIN f]
  BY DEF IntegerSum, FoldFunction, FoldFunctionOnSet, MapThenFoldSet, Unfolds, Chosen
<1> QED BY <1>1, <1>2

(* Taking the chosen element out leaves a set with one element less.       *)
LEMMA ChosenRemoved ==
  ASSUME NEW s, IsFiniteSet(s), s # {}
  PROVE  /\ Chosen(s) \in s /\ IsFiniteSet(s \ {Chosen(s)})
         /\ Cardinality(s \ {Chosen(s)}) = Cardinality(s) - 1
         /\ Cardinality(s) \in Nat
<1>1. Chosen(s) \in s
  BY DEF Chosen
<1> QED
  BY <1>1, FS_RemoveElement, FS_CardinalityType

(* On a finite domain there is one: as many rounds as there are elements.  *)
LEMMA Recursion ==
  ASSUME NEW f, IsFiniteSet(DOMAIN f)
  PROVE  \E it : Unfolds(it, f)
<1> DEFINE S == DOMAIN f
           Bad == {n \in Nat : ~ \E it : RightUpTo(it, f, n)}
<1>0. \A s \in SUBSET S : IsFiniteSet(s) /\ Cardinality(s) \in Nat /\ Cardinality(s) <= Cardinality(S)
  BY FS_Subset, FS_CardinalityType
<1>1. Bad = {}
  <2>1. SUFFICES ASSUME Bad # {} PROVE FALSE
    OBVIOUS
  <2>2. PICK n \in Bad : \A m \in Bad : n <= m
    BY <2>1, LeastNatural
  <2>3. CASE n = 0
    <3>1. RightUpTo([s \in SUBSET S |-> 0], f, 0)
      <4>1. \A s \in SUBSET S : Cardinality(s) <= 0 => s = {}
        BY <1>0, FS_EmptySet
      <4> QED
        BY <4>1 DEF RightUpTo, Refilled
    <3> QED
      BY <3>1, <2>3
  <2>4. CASE n # 0
    <3>1. n - 1 \in Nat /\ n - 1 \notin Bad
      BY <2>2, <2>4
    <3>2. PICK it : RightUpTo(it, f, n - 1)
      BY <3>1
    <3>3. ASSUME NEW s \in SUBSET S, Cardinality(s) <= n
          PROVE  Refilled(f, it)[s] = Refilled(f, Refilled(f, it))[s]
      <4>1. CASE s = {}
        BY <4>1 DEF Refilled
      <4>2. CASE s # {}
        <5> DEFINE t == s \ {Chosen(s)}
        <5>1. t \in SUBSET S /\ Cardinality(t) <= n - 1
          BY <4>2, <3>3, <1>0, ChosenRemoved
        <5>2. it[t] = Refilled(f, it)[t]
          BY <5>1, <3>2 DEF RightUpTo
        <5> QED
          BY <5>1, <5>2, <4>2 DEF Refilled
      <4> QED
        BY <4>1, <4>2
    <3>4. Refilled(f, it) = [s \in SUBSET S |-> Refilled(f, it)[s]]
      BY DEF Refilled
    <3>5. RightUpTo(Refilled(f, it), f, n)
      BY <3>3, <3>4 DEF RightUpTo
    <3> QED
      BY <3>5
  <2> QED
    BY <2>3, <2>4
<1>2. PICK it : RightUpTo(it, f, Cardinality(S))
  BY <1>0, <1>1
<1>3. \A s \in SUBSET S : it[s] = Refilled(f, it)[s]
  BY <1>0, <1>2 DEF RightUpTo
<1>4. it = Refilled(f, it)
  BY <1>2, <1>3 DEF RightUpTo, Refilled
<1> QED
  BY <1>4 DEF Unfolds, Refilled

(* A sum can be taken from any element first.                              *)
LEMMA AnyFirst ==
  ASSUME NEW f, IsFiniteSet(DOMAIN f), \A x \in DOMAIN f : f[x] \in Int,
         NEW it, Unfolds(it, f)
  PROVE  \A s \in SUBSET DOMAIN f :
           it[s] \in Int /\ \A x \in s : it[s] = f[x] + it[s \ {x}]
<1> DEFINE S == DOMAIN f
           Good(s) == it[s] \in Int /\ \A x \in s : it[s] = f[x] + it[s \ {x}]
           Bad == {s \in SUBSET S : ~Good(s)}
<1>0. it[{}] = 0 /\ \A s \in SUBSET S : s # {} => it[s] = f[Chosen(s)] + it[s \ {Chosen(s)}]
  BY DEF Unfolds
<1>1. \A s \in SUBSET S : s # {} => Chosen(s) \in s
  BY DEF Chosen
<1>2. Bad = {}
  <2>1. SUFFICES ASSUME Bad # {} PROVE FALSE
    OBVIOUS
  <2>2. Bad \subseteq FiniteSubsetsOf(S)
    BY FS_Subset DEF FiniteSubsetsOf
  <2>3. PICK s \in Bad : \A t \in Bad : t \subseteq s => t = s
    <3> HIDE DEF Bad
    <3> QED
      BY <2>1, <2>2, SmallestSubset
  <2>4. \A t \in SUBSET s : t # s => Good(t)
    BY <2>3
  <2>5. s # {}
    <3>1. ~Good(s)
      BY <2>3
    <3>2. Good({})
      BY <1>0
    <3> HIDE DEF Good
    <3> QED
      BY <3>1, <3>2
  <2> DEFINE c == Chosen(s)
  <2>6. c \in s /\ s \ {c} \in SUBSET S /\ it[s] = f[c] + it[s \ {c}] /\ it[s \ {c}] \in Int /\ f[c] \in Int
    BY <1>0, <1>1, <2>4, <2>5
  <2>7. ASSUME NEW x \in s PROVE it[s] = f[x] + it[s \ {x}]
    <3>1. CASE x = c
      BY <2>6, <3>1
    <3>2. CASE x # c
      <4> DEFINE r == s \ {c, x}
      <4>1. /\ s \ {c} \in SUBSET s /\ s \ {c} # s /\ x \in s \ {c} /\ (s \ {c}) \ {x} = r
            /\ s \ {x} \in SUBSET s /\ s \ {x} # s /\ c \in s \ {x} /\ (s \ {x}) \ {c} = r
            /\ r \in SUBSET s /\ r # s
        BY <2>6, <3>2
      <4>2. it[s \ {c}] = f[x] + it[r]
        <5>1. Good(s \ {c})
          BY <2>4, <4>1
        <5>2. it[s \ {c}] = f[x] + it[(s \ {c}) \ {x}]
          BY <4>1, <5>1
        <5> QED
          BY <4>1, <5>2
      <4>4. it[s \ {x}] = f[c] + it[r]
        <5>1. Good(s \ {x})
          BY <2>4, <4>1
        <5>2. it[s \ {x}] = f[c] + it[(s \ {x}) \ {c}]
          BY <4>1, <5>1
        <5> QED
          BY <4>1, <5>2
      <4>5. it[r] \in Int
        BY <2>4, <4>1
      <4>3. f[x] \in Int
        OBVIOUS
      <4> HIDE DEF r, c
      <4> QED
        BY <2>6, <4>2, <4>3, <4>4, <4>5
    <3> QED
      BY <3>1, <3>2
  <2>8. it[s] \in Int
    <3> HIDE DEF c
    <3> QED BY <2>6
  <2> QED
    BY <2>3, <2>7, <2>8
<1> QED
  BY <1>2

(* Functions that agree on a set have the same sum over it.                *)
LEMMA SameSums ==
  ASSUME NEW f, NEW g, IsFiniteSet(DOMAIN f), NEW it, Unfolds(it, f), NEW jt, Unfolds(jt, g)
  PROVE  \A s \in SUBSET (DOMAIN f \cap DOMAIN g) : (\A x \in s : f[x] = g[x]) => it[s] = jt[s]
<1> DEFINE D == DOMAIN f \cap DOMAIN g
           Bad == {s \in SUBSET D : (\A x \in s : f[x] = g[x]) /\ it[s] # jt[s]}
<1>1. SUFFICES ASSUME Bad # {} PROVE FALSE
  OBVIOUS
<1>2. Bad \subseteq FiniteSubsetsOf(DOMAIN f)
  BY FS_Subset DEF FiniteSubsetsOf
<1>3. PICK s \in Bad : \A t \in Bad : t \subseteq s => t = s
  <2> HIDE DEF Bad
  <2> QED
    BY <1>1, <1>2, SmallestSubset
<1>4. CASE s = {}
  BY <1>4, <1>3 DEF Unfolds
<1>5. CASE s # {}
  <2>1. Chosen(s) \in s
    BY <1>5 DEF Chosen
  <2> DEFINE t == s \ {Chosen(s)}
  <2>2. it[s] = f[Chosen(s)] + it[t] /\ jt[s] = g[Chosen(s)] + jt[t]
    BY <1>3, <1>5 DEF Unfolds
  <2>3. it[t] = jt[t]
    BY <1>3, <2>1
  <2> QED
    BY <2>1, <2>2, <2>3, <1>3
<1> QED
  BY <1>4, <1>5

-----------------------------------------------------------------------------
(* What the sum of a function with integer values over a finite domain is. *)

(* It is an integer.                                                       *)
THEOREM SumType ==
  ASSUME NEW f, IsFiniteSet(DOMAIN f), \A x \in DOMAIN f : f[x] \in Int
  PROVE  IntegerSum(f) \in Int
BY Recursion, SumUnfolds, AnyFirst

(* Whatever meets the recursive equation ends in the sum.                  *)
LEMMA FoldEndsInSum ==
  ASSUME NEW f, IsFiniteSet(DOMAIN f), NEW it, Unfolds(it, f)
  PROVE  it[DOMAIN f] = IntegerSum(f)
<1>1. PICK jt : Unfolds(jt, f) /\ IntegerSum(f) = jt[DOMAIN f]
  BY Recursion, SumUnfolds
<1> QED
  BY <1>1, SameSums

(* It is zero over the empty set.                                          *)
THEOREM SumEmpty ==
  ASSUME NEW f, DOMAIN f = {}
  PROVE  IntegerSum(f) = 0
<1>1. IsFiniteSet(DOMAIN f)
  BY FS_EmptySet
<1> QED
  <2>1. PICK it : Unfolds(it, f) /\ IntegerSum(f) = it[DOMAIN f]
    BY <1>1, Recursion, SumUnfolds
  <2> QED
    BY <2>1 DEF Unfolds

(* It is one value more than the sum without that argument.                *)
THEOREM SumWithout ==
  ASSUME NEW f, IsFiniteSet(DOMAIN f), \A x \in DOMAIN f : f[x] \in Int,
         NEW x \in DOMAIN f, NEW g, DOMAIN g = DOMAIN f \ {x},
         \A y \in DOMAIN g : g[y] = f[y]
  PROVE  IntegerSum(f) = f[x] + IntegerSum(g)
<1>0. IsFiniteSet(DOMAIN g)
  BY FS_Subset
<1>1. PICK it : Unfolds(it, f) /\ IntegerSum(f) = it[DOMAIN f]
  BY Recursion, SumUnfolds
<1>2. PICK jt : Unfolds(jt, g) /\ IntegerSum(g) = jt[DOMAIN g]
  BY <1>0, Recursion, SumUnfolds
<1>3. it[DOMAIN f] = f[x] + it[DOMAIN g]
  <2>1. DOMAIN f \in SUBSET DOMAIN f
    OBVIOUS
  <2>2. \A s \in SUBSET DOMAIN f : it[s] \in Int /\ \A y \in s : it[s] = f[y] + it[s \ {y}]
    <3>1. Unfolds(it, f)
      BY <1>1
    <3>2. \A y \in DOMAIN f : f[y] \in Int
      OBVIOUS
    <3> QED
      BY <3>1, <3>2, AnyFirst
  <2> QED
    BY <2>2
<1>4. it[DOMAIN g] = jt[DOMAIN g]
  <2>1. DOMAIN g \in SUBSET (DOMAIN f \cap DOMAIN g) /\ \A y \in DOMAIN g : f[y] = g[y]
    OBVIOUS
  <2> QED
    BY <1>1, <1>2, <2>1, SameSums
<1> QED
  BY <1>1, <1>2, <1>3, <1>4

(* Changing one value changes the sum by as much.                          *)
THEOREM SumChange ==
  ASSUME NEW f, NEW g, IsFiniteSet(DOMAIN f), DOMAIN g = DOMAIN f,
         \A x \in DOMAIN f : f[x] \in Int,
         NEW x \in DOMAIN f, g[x] \in Int, \A y \in DOMAIN f : y # x => g[y] = f[y]
  PROVE  IntegerSum(g) = IntegerSum(f) - f[x] + g[x]
<1> DEFINE h == [y \in DOMAIN f \ {x} |-> f[y]]
<1>0. \A y \in DOMAIN g : g[y] \in Int
  OBVIOUS
<1>1. IntegerSum(f) = f[x] + IntegerSum(h)
  BY SumWithout
<1>2. IntegerSum(g) = g[x] + IntegerSum(h)
  BY <1>0, SumWithout
<1>3. IntegerSum(h) \in Int
  BY FS_Subset, SumType
<1> HIDE DEF h
<1> QED
  BY <1>1, <1>2, <1>3

(* It depends on nothing but the values.                                   *)
THEOREM SumSame ==
  ASSUME NEW f, NEW g, IsFiniteSet(DOMAIN f), DOMAIN g = DOMAIN f,
         \A x \in DOMAIN f : g[x] = f[x]
  PROVE  IntegerSum(g) = IntegerSum(f)
<1>1. PICK it : Unfolds(it, f) /\ IntegerSum(f) = it[DOMAIN f]
  BY Recursion, SumUnfolds
<1>2. PICK jt : Unfolds(jt, g) /\ IntegerSum(g) = jt[DOMAIN g]
  BY Recursion, SumUnfolds
<1>3. DOMAIN f \in SUBSET (DOMAIN f \cap DOMAIN g) /\ \A y \in DOMAIN f : f[y] = g[y]
  OBVIOUS
<1>4. it[DOMAIN f] = jt[DOMAIN f]
  BY <1>1, <1>2, <1>3, SameSums
<1> QED
  BY <1>1, <1>2, <1>4

(* It is zero when every value is, and at least each value when no value   *)
(* is negative.                                                            *)
THEOREM SumOfNaturals ==
  ASSUME NEW f, IsFiniteSet(DOMAIN f), \A x \in DOMAIN f : f[x] \in Nat
  PROVE  /\ IntegerSum(f) \in Nat
         /\ \A x \in DOMAIN f : f[x] <= IntegerSum(f)
         /\ IntegerSum(f) = 0 <=> \A x \in DOMAIN f : f[x] = 0
<1>1. PICK it : Unfolds(it, f) /\ IntegerSum(f) = it[DOMAIN f]
  BY Recursion, SumUnfolds
<1> DEFINE Good(s) == it[s] \in Nat /\ ((\A x \in s : f[x] = 0) => it[s] = 0)
           Bad == {s \in SUBSET DOMAIN f : ~Good(s)}
<1>2. \A s \in SUBSET DOMAIN f : it[s] \in Int /\ \A x \in s : it[s] = f[x] + it[s \ {x}]
  <2>1. \A x \in DOMAIN f : f[x] \in Int
    OBVIOUS
  <2> QED
    BY <1>1, <2>1, AnyFirst
<1>3. Bad = {}
  <2>1. SUFFICES ASSUME Bad # {} PROVE FALSE
    OBVIOUS
  <2>2. Bad \subseteq FiniteSubsetsOf(DOMAIN f)
    BY FS_Subset DEF FiniteSubsetsOf
  <2>3. PICK s \in Bad : \A t \in Bad : t \subseteq s => t = s
    <3> HIDE DEF Bad
    <3> QED
      BY <2>1, <2>2, SmallestSubset
  <2>4. s # {}
    <3>1. Good({})
      BY <1>1 DEF Unfolds
    <3>2. ~Good(s)
      BY <2>3
    <3> HIDE DEF Good
    <3> QED
      BY <3>1, <3>2
  <2>5. PICK x \in s : TRUE
    BY <2>4
  <2>6. Good(s \ {x})
    BY <2>3, <2>5
  <2>7. it[s] = f[x] + it[s \ {x}] /\ f[x] \in Nat
    BY <1>2, <2>3, <2>5
  <2>8. Good(s)
    <3>1. it[s \ {x}] \in Nat /\ ((\A y \in s : f[y] = 0) => it[s \ {x}] = 0 /\ f[x] = 0)
      BY <2>5, <2>6
    <3> QED
      BY <2>7, <3>1
  <2> QED
    BY <2>3, <2>8
<1>4. \A s \in SUBSET DOMAIN f : Good(s)
  BY <1>3
<1>5. ASSUME NEW x \in DOMAIN f PROVE f[x] <= it[DOMAIN f]
  <2>1. it[DOMAIN f \ {x}] \in Nat
    BY <1>4
  <2>2. it[DOMAIN f] = f[x] + it[DOMAIN f \ {x}]
    BY <1>2
  <2> QED
    BY <2>1, <2>2
<1>6. it[DOMAIN f] \in Nat /\ ((\A x \in DOMAIN f : f[x] = 0) => it[DOMAIN f] = 0)
  BY <1>4
<1>7. it[DOMAIN f] = 0 => \A x \in DOMAIN f : f[x] = 0
  BY <1>5
<1> HIDE DEF Good, Bad
<1> QED
  BY <1>1, <1>5, <1>6, <1>7

(* The fold at work: its values are integers, and any element may be taken *)
(* first.                                                                  *)
LEMMA Folding ==
  ASSUME NEW f, IsFiniteSet(DOMAIN f), \A x \in DOMAIN f : f[x] \in Int
  PROVE  \E it : /\ IntegerSum(f) = it[DOMAIN f] /\ Unfolds(it, f)
                 /\ \A s \in SUBSET DOMAIN f :
                      it[s] \in Int /\ \A y \in s : it[s] = f[y] + it[s \ {y}]
<1>1. PICK it : Unfolds(it, f) /\ IntegerSum(f) = it[DOMAIN f]
  BY Recursion, SumUnfolds
<1>2. \A s \in SUBSET DOMAIN f : it[s] \in Int /\ \A y \in s : it[s] = f[y] + it[s \ {y}]
  BY <1>1, AnyFirst
<1> QED
  BY <1>1, <1>2

(* What is left out of a sum and is not negative makes it no greater, and  *)
(* zeros make no difference.                                               *)
THEOREM SumPart ==
  ASSUME NEW f, IsFiniteSet(DOMAIN f), \A x \in DOMAIN f : f[x] \in Int,
         NEW g, DOMAIN g \subseteq DOMAIN f, \A x \in DOMAIN g : g[x] = f[x],
         \A x \in DOMAIN f \ DOMAIN g : f[x] >= 0
  PROVE  /\ IntegerSum(g) <= IntegerSum(f)
         /\ (\A x \in DOMAIN f \ DOMAIN g : f[x] = 0) => IntegerSum(g) = IntegerSum(f)
<1> DEFINE D == DOMAIN g
           Zeros(s) == \A x \in s \ D : f[x] = 0
<1>0. IsFiniteSet(D)
  BY FS_Subset
<1>1. PICK it : /\ IntegerSum(f) = it[DOMAIN f] /\ Unfolds(it, f)
                /\ \A s \in SUBSET DOMAIN f :
                     it[s] \in Int /\ \A y \in s : it[s] = f[y] + it[s \ {y}]
  BY Folding
<1>2. PICK jt : Unfolds(jt, g) /\ IntegerSum(g) = jt[D]
  BY <1>0, Recursion, SumUnfolds
<1>3. it[D] = jt[D]
  <2>1. D \in SUBSET (DOMAIN f \cap DOMAIN g) /\ \A y \in D : f[y] = g[y]
    OBVIOUS
  <2> QED
    BY <1>1, <1>2, <2>1, SameSums
<1>4. \A s \in SUBSET DOMAIN f : it[s] \in Int /\ \A y \in s : it[s] = f[y] + it[s \ {y}]
  BY <1>1
<1> DEFINE Good(s) == it[D] <= it[s] /\ (Zeros(s) => it[D] = it[s])
           Bad == {s \in SUBSET DOMAIN f : D \subseteq s /\ ~Good(s)}
<1>5. Bad = {}
  <2>1. SUFFICES ASSUME Bad # {} PROVE FALSE
    OBVIOUS
  <2>2. Bad \subseteq FiniteSubsetsOf(DOMAIN f)
    BY FS_Subset DEF FiniteSubsetsOf
  <2>3. PICK s \in Bad : \A t \in Bad : t \subseteq s => t = s
    <3> HIDE DEF Bad
    <3> QED
      BY <2>1, <2>2, SmallestSubset
  <2>4. s # D
    <3>1. Good(D)
      BY <1>4
    <3> HIDE DEF Good
    <3> QED
      BY <2>3, <3>1
  <2>5. PICK x \in s \ D : TRUE
    BY <2>3, <2>4
  <2>6. Good(s \ {x})
    <3> HIDE DEF Good
    <3> QED
      BY <2>3, <2>5
  <2>7. /\ it[s] = f[x] + it[s \ {x}] /\ f[x] \in Int /\ f[x] >= 0
        /\ it[s] \in Int /\ it[s \ {x}] \in Int /\ it[D] \in Int
    BY <1>4, <2>3, <2>5
  <2>8. Zeros(s) => Zeros(s \ {x}) /\ f[x] = 0
    BY <2>5
  <2>9. Good(s)
    <3> HIDE DEF Zeros
    <3> QED
      BY <2>6, <2>7, <2>8
  <2> QED
    BY <2>3, <2>9
<1>6. Good(DOMAIN f)
  BY <1>5
<1> QED
  BY <1>1, <1>2, <1>3, <1>6

(* Smaller values have a smaller sum.                                      *)
THEOREM SumMonotone ==
  ASSUME NEW f, NEW g, IsFiniteSet(DOMAIN f), DOMAIN g = DOMAIN f,
         \A x \in DOMAIN f : f[x] \in Int /\ g[x] \in Int /\ g[x] <= f[x]
  PROVE  IntegerSum(g) <= IntegerSum(f)
<1>0. /\ \A x \in DOMAIN f : f[x] \in Int
      /\ \A x \in DOMAIN g : g[x] \in Int
  OBVIOUS
<1>1. PICK it : /\ IntegerSum(f) = it[DOMAIN f] /\ Unfolds(it, f)
                /\ \A s \in SUBSET DOMAIN f :
                     it[s] \in Int /\ \A y \in s : it[s] = f[y] + it[s \ {y}]
  BY <1>0, Folding
<1>2. PICK jt : /\ IntegerSum(g) = jt[DOMAIN g] /\ Unfolds(jt, g)
                /\ \A s \in SUBSET DOMAIN g :
                     jt[s] \in Int /\ \A y \in s : jt[s] = g[y] + jt[s \ {y}]
  BY <1>0, Folding
<1>3. \A s \in SUBSET DOMAIN f : it[s] \in Int /\ \A y \in s : it[s] = f[y] + it[s \ {y}]
  BY <1>1
<1>4. \A s \in SUBSET DOMAIN f : jt[s] \in Int /\ \A y \in s : jt[s] = g[y] + jt[s \ {y}]
  BY <1>2
<1> DEFINE Bad == {s \in SUBSET DOMAIN f : ~(jt[s] <= it[s])}
<1>5. Bad = {}
  <2>1. SUFFICES ASSUME Bad # {} PROVE FALSE
    OBVIOUS
  <2>2. Bad \subseteq FiniteSubsetsOf(DOMAIN f)
    BY FS_Subset DEF FiniteSubsetsOf
  <2>3. PICK s \in Bad : \A t \in Bad : t \subseteq s => t = s
    <3> HIDE DEF Bad
    <3> QED
      BY <2>1, <2>2, SmallestSubset
  <2>4. s # {}
    BY <1>1, <1>2, <2>3 DEF Unfolds
  <2>5. PICK x \in s : TRUE
    BY <2>4
  <2>6. jt[s \ {x}] <= it[s \ {x}]
    BY <2>3, <2>5
  <2>7. /\ it[s] = f[x] + it[s \ {x}] /\ jt[s] = g[x] + jt[s \ {x}]
        /\ f[x] \in Int /\ g[x] \in Int /\ g[x] <= f[x]
        /\ it[s \ {x}] \in Int /\ jt[s \ {x}] \in Int
    BY <1>3, <1>4, <2>3, <2>5
  <2>8. jt[s] <= it[s]
    BY <2>6, <2>7
  <2> QED
    BY <2>3, <2>8
<1> QED
  BY <1>1, <1>2, <1>5

(* The sum of the sums is the sum of the sums of the values.               *)
THEOREM SumPlus ==
  ASSUME NEW f, NEW g, NEW h, IsFiniteSet(DOMAIN f), DOMAIN g = DOMAIN f, DOMAIN h = DOMAIN f,
         \A x \in DOMAIN f : f[x] \in Int /\ g[x] \in Int /\ h[x] = f[x] + g[x]
  PROVE  IntegerSum(h) = IntegerSum(f) + IntegerSum(g)
<1>0. /\ \A x \in DOMAIN f : f[x] \in Int
      /\ \A x \in DOMAIN g : g[x] \in Int
      /\ \A x \in DOMAIN h : h[x] \in Int
  OBVIOUS
<1>1. PICK it : /\ IntegerSum(f) = it[DOMAIN f] /\ Unfolds(it, f)
                /\ \A s \in SUBSET DOMAIN f :
                     it[s] \in Int /\ \A y \in s : it[s] = f[y] + it[s \ {y}]
  BY <1>0, Folding
<1>2. PICK jt : /\ IntegerSum(g) = jt[DOMAIN g] /\ Unfolds(jt, g)
                /\ \A s \in SUBSET DOMAIN g :
                     jt[s] \in Int /\ \A y \in s : jt[s] = g[y] + jt[s \ {y}]
  BY <1>0, Folding
<1>3. PICK kt : /\ IntegerSum(h) = kt[DOMAIN h] /\ Unfolds(kt, h)
                /\ \A s \in SUBSET DOMAIN h :
                     kt[s] \in Int /\ \A y \in s : kt[s] = h[y] + kt[s \ {y}]
  BY <1>0, Folding
<1>4. \A s \in SUBSET DOMAIN f : it[s] \in Int /\ \A y \in s : it[s] = f[y] + it[s \ {y}]
  BY <1>1
<1>5. \A s \in SUBSET DOMAIN f : jt[s] \in Int /\ \A y \in s : jt[s] = g[y] + jt[s \ {y}]
  BY <1>2
<1>6. \A s \in SUBSET DOMAIN f : kt[s] \in Int /\ \A y \in s : kt[s] = h[y] + kt[s \ {y}]
  BY <1>3
<1> DEFINE Bad == {s \in SUBSET DOMAIN f : kt[s] # it[s] + jt[s]}
<1>7. Bad = {}
  <2>1. SUFFICES ASSUME Bad # {} PROVE FALSE
    OBVIOUS
  <2>2. Bad \subseteq FiniteSubsetsOf(DOMAIN f)
    BY FS_Subset DEF FiniteSubsetsOf
  <2>3. PICK s \in Bad : \A t \in Bad : t \subseteq s => t = s
    <3> HIDE DEF Bad
    <3> QED
      BY <2>1, <2>2, SmallestSubset
  <2>4. s # {}
    BY <1>1, <1>2, <1>3, <2>3 DEF Unfolds
  <2>5. PICK x \in s : TRUE
    BY <2>4
  <2>6. kt[s \ {x}] = it[s \ {x}] + jt[s \ {x}]
    BY <2>3, <2>5
  <2>7. /\ it[s] = f[x] + it[s \ {x}] /\ jt[s] = g[x] + jt[s \ {x}] /\ kt[s] = h[x] + kt[s \ {x}]
        /\ f[x] \in Int /\ g[x] \in Int /\ h[x] = f[x] + g[x]
        /\ it[s \ {x}] \in Int /\ jt[s \ {x}] \in Int
    BY <1>4, <1>5, <1>6, <2>3, <2>5
  <2>8. kt[s] = it[s] + jt[s]
    BY <2>6, <2>7
  <2> QED
    BY <2>3, <2>8
<1> QED
  BY <1>1, <1>2, <1>3, <1>7

-----------------------------------------------------------------------------
(* Multiples sum to the multiple of the sum.                               *)
THEOREM SumScaled ==
  ASSUME NEW f, NEW g, IsFiniteSet(DOMAIN f), DOMAIN g = DOMAIN f, NEW k \in Int,
         \A x \in DOMAIN f : f[x] \in Int /\ g[x] = k * f[x]
  PROVE  IntegerSum(g) = k * IntegerSum(f)
<1>0. /\ \A x \in DOMAIN f : f[x] \in Int
      /\ \A x \in DOMAIN g : g[x] \in Int
  OBVIOUS
<1>1. PICK it : /\ IntegerSum(f) = it[DOMAIN f] /\ Unfolds(it, f)
                /\ \A s \in SUBSET DOMAIN f :
                     it[s] \in Int /\ \A y \in s : it[s] = f[y] + it[s \ {y}]
  BY <1>0, Folding
<1>2. PICK jt : /\ IntegerSum(g) = jt[DOMAIN g] /\ Unfolds(jt, g)
                /\ \A s \in SUBSET DOMAIN g :
                     jt[s] \in Int /\ \A y \in s : jt[s] = g[y] + jt[s \ {y}]
  BY <1>0, Folding
<1>3. \A s \in SUBSET DOMAIN f : it[s] \in Int /\ \A y \in s : it[s] = f[y] + it[s \ {y}]
  BY <1>1
<1>4. \A s \in SUBSET DOMAIN f : jt[s] \in Int /\ \A y \in s : jt[s] = g[y] + jt[s \ {y}]
  BY <1>2
<1> DEFINE Bad == {s \in SUBSET DOMAIN f : jt[s] # k * it[s]}
<1>5. Bad = {}
  <2>1. SUFFICES ASSUME Bad # {} PROVE FALSE
    OBVIOUS
  <2>2. Bad \subseteq FiniteSubsetsOf(DOMAIN f)
    BY FS_Subset DEF FiniteSubsetsOf
  <2>3. PICK s \in Bad : \A t \in Bad : t \subseteq s => t = s
    <3> HIDE DEF Bad
    <3> QED
      BY <2>1, <2>2, SmallestSubset
  <2>4. s # {}
    <3>1. it[{}] = 0 /\ jt[{}] = 0 /\ k * 0 = 0
      BY <1>1, <1>2 DEF Unfolds
    <3> QED
      BY <2>3, <3>1
  <2>5. PICK x \in s : TRUE
    BY <2>4
  <2>6. jt[s \ {x}] = k * it[s \ {x}]
    BY <2>3, <2>5
  <2>7. /\ it[s] = f[x] + it[s \ {x}] /\ jt[s] = g[x] + jt[s \ {x}]
        /\ f[x] \in Int /\ g[x] = k * f[x] /\ it[s \ {x}] \in Int
    BY <1>3, <1>4, <2>3, <2>5
  <2>8. \A a, b \in Int : k * (a + b) = k * a + k * b
    OBVIOUS
  <2>9. jt[s] = k * it[s]
    BY <2>6, <2>7, <2>8
  <2> QED
    BY <2>3, <2>9
<1> QED
  BY <1>1, <1>2, <1>5

(* The sum of ones is the number of them, and a constant that many times.  *)
THEOREM SumConstant ==
  ASSUME NEW S, IsFiniteSet(S), NEW c \in Int
  PROVE  IntegerSum([x \in S |-> c]) = c * Cardinality(S)
<1> DEFINE ones == [x \in S |-> 1]
           f == [x \in S |-> c]
<1>1. PICK it : /\ IntegerSum(ones) = it[DOMAIN ones] /\ Unfolds(it, ones)
                /\ \A s \in SUBSET DOMAIN ones :
                     it[s] \in Int /\ \A y \in s : it[s] = ones[y] + it[s \ {y}]
  <2>1. IsFiniteSet(DOMAIN ones) /\ \A x \in DOMAIN ones : ones[x] \in Int
    OBVIOUS
  <2> HIDE DEF ones
  <2> QED
    BY <2>1, Folding
<1>2. \A s \in SUBSET S : it[s] \in Int /\ \A y \in s : it[s] = 1 + it[s \ {y}]
  BY <1>1
<1>3. it[{}] = 0
  BY <1>1 DEF Unfolds
<1> DEFINE Bad == {s \in SUBSET S : it[s] # Cardinality(s)}
<1>4. Bad = {}
  <2>1. SUFFICES ASSUME Bad # {} PROVE FALSE
    OBVIOUS
  <2>2. Bad \subseteq FiniteSubsetsOf(S)
    BY FS_Subset DEF FiniteSubsetsOf
  <2>3. PICK s \in Bad : \A t \in Bad : t \subseteq s => t = s
    <3> HIDE DEF Bad
    <3> QED
      BY <2>1, <2>2, SmallestSubset
  <2>4. s # {}
    BY <1>3, <2>3, FS_EmptySet
  <2>5. PICK x \in s : TRUE
    BY <2>4
  <2>6. it[s \ {x}] = Cardinality(s \ {x})
    BY <2>3, <2>5
  <2>7. Cardinality(s \ {x}) = Cardinality(s) - 1 /\ Cardinality(s) \in Nat
    BY <2>3, <2>5, FS_Subset, FS_RemoveElement, FS_CardinalityType
  <2>8. it[s] = 1 + it[s \ {x}]
    BY <1>2, <2>3, <2>5
  <2> QED
    BY <2>3, <2>6, <2>7, <2>8
<1>5. IntegerSum(ones) = Cardinality(S)
  BY <1>1, <1>4
<1>6. IntegerSum(f) = c * IntegerSum(ones)
  <2>1. DOMAIN ones = S /\ DOMAIN f = S /\ \A x \in S : ones[x] \in Int /\ f[x] = c * ones[x]
    OBVIOUS
  <2> HIDE DEF ones, f
  <2> QED
    BY <2>1, SumScaled
<1> QED
  BY <1>5, <1>6

-----------------------------------------------------------------------------
(* Folds of other operations: step leads from values in X to values in X,  *)
(* first says which element of a set is taken out of it first, and it[s]   *)
(* is the fold over s.                                                     *)
StaysIn(S, X, first, step) ==
  /\ \A s \in SUBSET S : s # {} => first[s] \in s
  /\ \A i \in S : \A x \in X : step[<<i, x>>] \in X
FoldsTo(it, S, X, base, first, step) ==
  /\ it \in [SUBSET S -> X]
  /\ \A s \in SUBSET S :
       it[s] = IF s = {} THEN base ELSE step[<<first[s], it[s \ {first[s]}]>>]

(* The recursive equation of such a fold has a solution.                   *)
LEMMA FoldExists ==
  ASSUME NEW S, IsFiniteSet(S), NEW X, NEW base \in X,
         NEW first, NEW step, StaysIn(S, X, first, step)
  PROVE  \E it : FoldsTo(it, S, X, base, first, step)
<1> USE DEF StaysIn, FoldsTo
<1> DEFINE Round(it) ==
             [s \in SUBSET S |-> IF s = {} THEN base ELSE step[<<first[s], it[s \ {first[s]}]>>]]
           Right(it, n) ==
             /\ it \in [SUBSET S -> X]
             /\ \A s \in SUBSET S : Cardinality(s) <= n => it[s] = Round(it)[s]
           Bad == {n \in Nat : ~ \E it : Right(it, n)}
<1>0. \A s \in SUBSET S : IsFiniteSet(s) /\ Cardinality(s) \in Nat /\ Cardinality(s) <= Cardinality(S)
  BY FS_Subset, FS_CardinalityType
<1>1. ASSUME NEW it \in [SUBSET S -> X] PROVE Round(it) \in [SUBSET S -> X]
  <2>1. ASSUME NEW s \in SUBSET S, s # {} PROVE step[<<first[s], it[s \ {first[s]}]>>] \in X
    <3>1. first[s] \in S /\ s \ {first[s]} \in SUBSET S
      BY <2>1
    <3>2. it[s \ {first[s]}] \in X
      BY <3>1
    <3> QED
      BY <3>1, <3>2
  <2> QED
    BY <2>1
<1>2. Bad = {}
  <2>1. SUFFICES ASSUME Bad # {} PROVE FALSE
    OBVIOUS
  <2>2. PICK n \in Bad : \A m \in Bad : n <= m
    <3>1. Bad \in SUBSET Nat
      OBVIOUS
    <3> HIDE DEF Bad
    <3> QED
      BY <2>1, <3>1, LeastNatural
  <2>3. CASE n = 0
    <3>1. Right([s \in SUBSET S |-> base], 0)
      <4>1. \A s \in SUBSET S : Cardinality(s) <= 0 => s = {}
        BY <1>0, FS_EmptySet
      <4> QED
        BY <4>1
    <3> HIDE DEF Right
    <3> QED
      BY <3>1, <2>2, <2>3
  <2>4. CASE n # 0
    <3>1. n - 1 \in Nat /\ n - 1 \notin Bad
      <4> HIDE DEF Right
      <4> QED
        BY <2>2, <2>4
    <3>2. PICK it : Right(it, n - 1)
      <4> HIDE DEF Right
      <4> QED
        BY <3>1
    <3> DEFINE jt == Round(it)
    <3>3. ASSUME NEW s \in SUBSET S, Cardinality(s) <= n
          PROVE  jt[s] = Round(jt)[s]
      <4>1. CASE s = {}
        BY <4>1
      <4>2. CASE s # {}
        <5> DEFINE t == s \ {first[s]}
        <5>1. first[s] \in s /\ t \in SUBSET S
          BY <4>2
        <5>2. Cardinality(t) <= n - 1
          <6>1. Cardinality(t) = Cardinality(s) - 1 /\ Cardinality(s) \in Nat
            BY <5>1, <1>0, FS_RemoveElement
          <6> HIDE DEF t
          <6> QED
            BY <6>1, <3>3
        <5>3. it[t] = jt[t]
          BY <5>1, <5>2, <3>2
        <5> QED
          BY <5>1, <5>3, <4>2
      <4> QED
        BY <4>1, <4>2
    <3>4. jt \in [SUBSET S -> X]
      BY <3>2, <1>1
    <3>5. Right(jt, n)
      BY <3>3, <3>4
    <3> HIDE DEF Right
    <3> QED
      BY <3>5, <2>2
  <2> QED
    BY <2>3, <2>4
<1>3. PICK it : Right(it, Cardinality(S))
  <2>1. Cardinality(S) \in Nat /\ Cardinality(S) \notin Bad
    BY <1>2, FS_CardinalityType
  <2> HIDE DEF Right
  <2> QED
    BY <2>1
<1>4. \A s \in SUBSET S : it[s] = Round(it)[s]
  BY <1>3, <1>0
<1> QED
  BY <1>3, <1>4

(* What the fold of a sequence has at its first element, and keeps at each *)
(* one, it has at the end.                                                 *)
LEMMA FoldKeeps ==
  ASSUME NEW n \in Nat, NEW it, NEW good, it[{}] \in good[0],
         \A i \in 1..n : it[1..(i - 1)] \in good[i - 1] => it[1..i] \in good[i]
  PROVE  it[1..n] \in good[n]
<1> DEFINE Bad == {i \in 0..n : it[1..i] \notin good[i]}
<1>1. SUFFICES Bad = {}
  OBVIOUS
<1>2. SUFFICES ASSUME Bad # {} PROVE FALSE
  OBVIOUS
<1>3. PICK i \in Bad : \A j \in Bad : i <= j
  <2>1. Bad \in SUBSET Nat
    OBVIOUS
  <2> HIDE DEF Bad
  <2> QED
    BY <1>2, <2>1, LeastNatural
<1>4. i # 0
  <2>1. 1..0 = {}
    OBVIOUS
  <2> QED
    BY <1>3, <2>1
<1>5. i \in 1..n /\ i - 1 \in 0..n /\ i - 1 \notin Bad
  BY <1>3, <1>4
<1>6. it[1..(i - 1)] \in good[i - 1]
  BY <1>5
<1> QED
  BY <1>3, <1>5, <1>6
=============================================================================
