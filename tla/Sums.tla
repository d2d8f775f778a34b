-------------------------------- MODULE Sums --------------------------------
(***************************************************************************)
(* Lemmas about SumFunction of the community modules: the sum of the       *)
(* values of a function with a finite domain.  Quantities and money are    *)
(* sums over orders and symbols, and a step of the models changes one      *)
(* value of such a sum or adds one (SumChange).                            *)
(*                                                                         *)
(* SumFunction adds the values one after another, in an order CHOOSE       *)
(* picks.  What the recursion computes is found without an induction rule: *)
(* among the finite sets for which a statement fails there is a smallest   *)
(* one (SmallestSubset).                                                   *)
(***************************************************************************)
EXTENDS Integers, Functions, FiniteSetTheorems, WellFoundedInduction, TLAPS

(* The element the sum takes next.                                         *)
First(s) == CHOOSE x \in s : TRUE

(* h is the function of partial sums of f.                                 *)
Adds(f, h) ==
  h = [s \in SUBSET DOMAIN f |->
         IF s = {} THEN 0 ELSE f[First(s)] + h[s \ {First(s)}]]

(* The sum is the last of the partial sums.                                *)
LEMMA SumByParts == \A f : SumFunction(f) = (CHOOSE h : Adds(f, h))[DOMAIN f]
BY Zenon DEF SumFunction, SumFunctionOnSet, FoldFunctionOnSet, MapThenFoldSet, Adds, First

(* A set of subsets of a finite set has a smallest element.                *)
LEMMA SmallestSubset ==
  ASSUME NEW S, IsFiniteSet(S), NEW C, C \subseteq SUBSET S, C # {}
  PROVE  \E T \in C : \A U \in C : U \subseteq T => U = T
<1>1. IsWellFoundedOn(StrictSubsetOrdering(S), SUBSET S)
  BY FS_FiniteSubsetsOfFinite, FS_StrictSubsetOrderingWellFounded, Zenon
<1>2. \E T \in C : \A U \in C : <<U, T>> \notin StrictSubsetOrdering(S)
  BY <1>1, WFMin, Zenon
<1>3. \A T, U \in C : U \subseteq T /\ U # T => <<U, T>> \in StrictSubsetOrdering(S)
  BY DEF StrictSubsetOrdering
<1> QED
  BY <1>2, <1>3

(* And a set of numbers has a smallest one.                                *)
LEMMA SmallestNumber ==
  ASSUME NEW S \in SUBSET Nat, S # {}
  PROVE  \E n \in S : \A m \in S : n <= m
<1>1. \E n \in S : \A m \in S : <<m, n>> \notin OpToRel(<, Nat)
  BY NatLessThanWellFounded, WFMin, Zenon
<1>2. \A m, n \in Nat : m < n => <<m, n>> \in OpToRel(<, Nat)
  BY Zenon DEF OpToRel
<1>3. \A m, n \in Nat : ~(m < n) => n <= m
  OBVIOUS
<1> QED
  BY <1>1, <1>2, <1>3

(* Likewise the first one of a range with some property.                   *)
LEMMA FirstNumber ==
  ASSUME NEW H \in Nat, NEW S \in SUBSET (0..H), S # {}
  PROVE  \E m \in S : \A j \in 0..H : j < m => j \notin S
<1>1. S \in SUBSET Nat
  OBVIOUS
<1>2. PICK m \in S : \A j \in S : m <= j
  BY <1>1, SmallestNumber
<1>3. m \in Nat /\ \A j \in 0..H : j \in Nat
  BY <1>1
<1> QED
  BY <1>2, <1>3

(* The partial sums of a function are unique ...                           *)
LEMMA OneAdds ==
  ASSUME NEW f, IsFiniteSet(DOMAIN f), NEW g, NEW h, Adds(f, g), Adds(f, h)
  PROVE  g = h
<1> DEFINE C == {s \in SUBSET DOMAIN f : g[s] # h[s]}
<1>1. SUFFICES ASSUME C # {} PROVE FALSE
  BY DEF Adds
<1>2. PICK T \in C : \A U \in C : U \subseteq T => U = T
  <2>1. C \subseteq SUBSET DOMAIN f
    OBVIOUS
  <2> HIDE DEF C
  <2> QED
    BY <1>1, <2>1, SmallestSubset
<1>3. T # {}
  BY <1>2 DEF Adds
<1>4. First(T) \in T
  BY <1>3 DEF First
<1>5. g[T \ {First(T)}] = h[T \ {First(T)}]
  BY <1>2, <1>4
<1> QED
  BY <1>2, <1>3, <1>5 DEF Adds

(* ... they are those of the function on a smaller domain ...              *)
On(f, S) == [x \in S |-> f[x]]

LEMMA SmallerAdds ==
  ASSUME NEW f, NEW h, Adds(f, h), NEW S \in SUBSET DOMAIN f
  PROVE  Adds(On(f, S), On(h, SUBSET S))
<1> DEFINE g == On(h, SUBSET S)
           k == On(f, S)
<1>1. DOMAIN k = S
  BY DEF On
<1>2. ASSUME NEW s \in SUBSET S
      PROVE  g[s] = IF s = {} THEN 0 ELSE k[First(s)] + g[s \ {First(s)}]
  <2>1. g[s] = h[s] /\ g[s \ {First(s)}] = h[s \ {First(s)}]
    BY DEF On
  <2>2. s # {} => k[First(s)] = f[First(s)]
    BY DEF On, First
  <2>3. h[s] = IF s = {} THEN 0 ELSE f[First(s)] + h[s \ {First(s)}]
    BY DEF Adds
  <2> QED
    BY <2>1, <2>2, <2>3
<1>3. g = [s \in SUBSET S |-> g[s]]
  BY DEF On
<1> QED
  BY <1>1, <1>2, <1>3 DEF Adds

(* ... and they exist when the domain is finite.                           *)
LEMMA SomeAdds ==
  ASSUME NEW f, IsFiniteSet(DOMAIN f)
  PROVE  \E h : Adds(f, h)
<1> DEFINE D == DOMAIN f
           C == {S \in SUBSET D : ~ \E h : Adds(On(f, S), h)}
<1>2. SUFFICES ASSUME C # {} PROVE FALSE
  <2>1. \E h : Adds(On(f, D), h)
    BY <1>2
  <2>2. \A h : Adds(On(f, D), h) => Adds(f, h)
    <3>1. ASSUME NEW s \in SUBSET D, s # {}
          PROVE  On(f, D)[First(s)] = f[First(s)]
      BY <3>1 DEF On, First
    <3>2. DOMAIN On(f, D) = D
      BY DEF On
    <3> QED
      BY <3>1, <3>2 DEF Adds
  <2> QED
    BY <2>1, <2>2
<1>3. PICK T \in C : \A U \in C : U \subseteq T => U = T
  <2>1. C \subseteq SUBSET D
    OBVIOUS
  <2> HIDE DEF C
  <2> QED
    BY <1>2, <2>1, SmallestSubset
<1> DEFINE V(S) == (CHOOSE h : Adds(On(f, S), h))[S]
           h == [s \in SUBSET T |->
                   IF s = {} THEN 0 ELSE f[First(s)] + V(s \ {First(s)})]
<1>4. ASSUME NEW S \in SUBSET T, S # T
      PROVE  Adds(On(f, S), CHOOSE g : Adds(On(f, S), g))
  BY <1>3, <1>4
<1>5. ASSUME NEW S \in SUBSET T, S # T, S # {}
      PROVE  V(S) = f[First(S)] + V(S \ {First(S)})
  <2> DEFINE g == CHOOSE x : Adds(On(f, S), x)
             U == S \ {First(S)}
             k == CHOOSE x : Adds(On(f, U), x)
  <2>1. First(S) \in S
    BY <1>5 DEF First
  <2>2. Adds(On(f, S), g)
    BY <1>4, <1>5
  <2>3. Adds(On(f, U), k)
    BY <1>4, <1>5, <2>1
  <2>4. On(On(f, S), U) = On(f, U)
    BY DEF On
  <2>5. Adds(On(f, U), On(g, SUBSET U))
    <3>1. U \in SUBSET DOMAIN On(f, S)
      BY DEF On
    <3> HIDE DEF g, U
    <3> QED
      BY <2>2, <2>4, <3>1, SmallerAdds
  <2>6. k = On(g, SUBSET U)
    <3>1. IsFiniteSet(DOMAIN On(f, U))
      <4>1. DOMAIN On(f, U) = U
        BY DEF On
      <4>2. U \in SUBSET DOMAIN f
        OBVIOUS
      <4> QED
        BY <4>1, <4>2, FS_Subset
    <3> HIDE DEF g, U, k
    <3> QED
      BY <2>3, <2>5, <3>1, OneAdds
  <2>7. k[U] = g[U]
    BY <2>6 DEF On
  <2>8. g[S] = f[First(S)] + g[U]
    <3>1. S \in SUBSET DOMAIN On(f, S) /\ On(f, S)[First(S)] = f[First(S)]
      BY <2>1 DEF On
    <3> HIDE DEF g
    <3> QED
      BY <1>5, <2>2, <3>1 DEF Adds
  <2> QED
    BY <2>7, <2>8
<1>6. V({}) = 0
  <2> DEFINE g == CHOOSE x : Adds(On(f, {}), x)
  <2>1. {} # T
    <3>1. Adds(On(f, {}), [s \in {{}} |-> 0])
      BY DEF Adds, On
    <3> QED
      BY <1>3, <3>1
  <2>2. Adds(On(f, {}), g)
    BY <1>4, <2>1
  <2>3. DOMAIN On(f, {}) = {}
    BY DEF On
  <2> HIDE DEF g
  <2>4. g[{}] = 0
    BY <2>2, <2>3 DEF Adds
  <2> QED
    BY <2>4 DEF g
<1>7. ASSUME NEW s \in SUBSET T, s # T PROVE h[s] = V(s)
  <2> HIDE DEF V
  <2>1. CASE s = {}
    BY <1>6, <2>1
  <2>2. CASE s # {}
    BY <1>5, <1>7, <2>2
  <2> QED
    BY <2>1, <2>2
<1>8. Adds(On(f, T), h)
  <2>1. DOMAIN On(f, T) = T
    BY DEF On
  <2>2. ASSUME NEW s \in SUBSET T, s # {}
        PROVE  /\ First(s) \in s
               /\ On(f, T)[First(s)] = f[First(s)]
    BY <2>2 DEF On, First
  <2> HIDE DEF V
  <2>3. ASSUME NEW s \in SUBSET T
        PROVE  h[s] = IF s = {} THEN 0 ELSE On(f, T)[First(s)] + h[s \ {First(s)}]
    <3>1. s # {} => s \ {First(s)} \in SUBSET T /\ s \ {First(s)} # T
      BY <2>2
    <3>2. s # {} => h[s \ {First(s)}] = V(s \ {First(s)})
      BY <1>7, <3>1
    <3>3. h[s] = IF s = {} THEN 0 ELSE f[First(s)] + V(s \ {First(s)})
      OBVIOUS
    <3> HIDE DEF h
    <3> QED
      BY <2>2, <3>2, <3>3
  <2>4. h = [s \in SUBSET T |-> h[s]]
    OBVIOUS
  <2> HIDE DEF h
  <2> QED
    BY <2>1, <2>3, <2>4 DEF Adds
<1> QED
  BY <1>3, <1>8

(* The sum of a part of f, one element at a time.                          *)
LEMMA SumStep ==
  ASSUME NEW f, IsFiniteSet(DOMAIN f), NEW S \in SUBSET DOMAIN f
  PROVE  SumFunction(On(f, S)) =
           IF S = {} THEN 0
           ELSE f[First(S)] + SumFunction(On(f, S \ {First(S)}))
<1> DEFINE Parts(T) == CHOOSE h : Adds(On(f, T), h)
<1>1. ASSUME NEW T \in SUBSET DOMAIN f
      PROVE  /\ Adds(On(f, T), Parts(T))
             /\ SumFunction(On(f, T)) = Parts(T)[T]
             /\ DOMAIN On(f, T) = T
             /\ IsFiniteSet(T)
  <2>1. IsFiniteSet(T) /\ DOMAIN On(f, T) = T
    BY FS_Subset DEF On
  <2> QED
    BY <2>1, SomeAdds, SumByParts
<1> HIDE DEF Parts
<1>2. CASE S = {}
  BY <1>1, <1>2 DEF Adds
<1>3. CASE S # {}
  <2> DEFINE U == S \ {First(S)}
  <2>1. First(S) \in S
    BY <1>3 DEF First
  <2>2. Parts(U) = On(Parts(S), SUBSET U)
    <3>1. On(On(f, S), U) = On(f, U)
      BY DEF On
    <3>2. U \in SUBSET S /\ U \in SUBSET DOMAIN f
      OBVIOUS
    <3> HIDE DEF U
    <3>3. Adds(On(f, U), On(Parts(S), SUBSET U))
      BY <1>1, <3>1, <3>2, SmallerAdds
    <3> QED
      BY <1>1, <3>2, <3>3, OneAdds
  <2>3. Parts(U)[U] = Parts(S)[U]
    BY <2>2 DEF On
  <2>4. On(f, S)[First(S)] = f[First(S)]
    BY <2>1 DEF On
  <2>5. Parts(S)[S] = f[First(S)] + Parts(S)[U]
    BY <1>1, <1>3, <2>4 DEF Adds
  <2>6. U \in SUBSET DOMAIN f
    OBVIOUS
  <2> QED
    BY <1>1, <1>3, <2>3, <2>5, <2>6
<1> QED
  BY <1>2, <1>3

(* Integers add up to an integer.                                          *)
LEMMA SumType ==
  ASSUME NEW f, IsFiniteSet(DOMAIN f), \A x \in DOMAIN f : f[x] \in Int,
         NEW S \in SUBSET DOMAIN f
  PROVE  SumFunction(On(f, S)) \in Int
<1> DEFINE C == {T \in SUBSET DOMAIN f : SumFunction(On(f, T)) \notin Int}
<1>1. SUFFICES ASSUME C # {} PROVE FALSE
  OBVIOUS
<1>2. PICK T \in C : \A U \in C : U \subseteq T => U = T
  <2>1. C \subseteq SUBSET DOMAIN f
    OBVIOUS
  <2> HIDE DEF C
  <2> QED
    BY <1>1, <2>1, SmallestSubset
<1>3. CASE T = {}
  <2>1. T \in SUBSET DOMAIN f
    BY <1>2
  <2>2. SumFunction(On(f, T)) = 0
    BY <1>3, <2>1, SumStep
  <2> QED
    BY <1>2, <2>2
<1>4. CASE T # {}
  <2>1. First(T) \in T /\ T \in SUBSET DOMAIN f
    BY <1>4 DEF First
  <2>2. SumFunction(On(f, T \ {First(T)})) \in Int
    BY <1>2, <2>1
  <2>3. f[First(T)] \in Int
    BY <2>1
  <2>4. SumFunction(On(f, T)) = f[First(T)] + SumFunction(On(f, T \ {First(T)}))
    BY <1>4, <2>1, SumStep
  <2> QED
    BY <1>2, <2>2, <2>3, <2>4
<1> QED
  BY <1>3, <1>4

(* The order of the elements does not matter.                              *)
LEMMA SumAnyFirst ==
  ASSUME NEW f, IsFiniteSet(DOMAIN f), \A x \in DOMAIN f : f[x] \in Int,
         NEW S \in SUBSET DOMAIN f, NEW d \in S
  PROVE  SumFunction(On(f, S)) = f[d] + SumFunction(On(f, S \ {d}))
<1> DEFINE Sum(T) == SumFunction(On(f, T))
           C == {T \in SUBSET DOMAIN f : \E x \in T : Sum(T) # f[x] + Sum(T \ {x})}
<1>1. SUFFICES ASSUME C # {} PROVE FALSE
  OBVIOUS
<1>2. PICK T \in C : \A U \in C : U \subseteq T => U = T
  <2>1. C \subseteq SUBSET DOMAIN f
    OBVIOUS
  <2> HIDE DEF C
  <2> QED
    BY <1>1, <2>1, SmallestSubset
<1>3. PICK x \in T : Sum(T) # f[x] + Sum(T \ {x})
  OBVIOUS
<1>4. \A U \in SUBSET DOMAIN f :
        /\ Sum(U) \in Int
        /\ U # {} => /\ First(U) \in U
                     /\ Sum(U) = f[First(U)] + Sum(U \ {First(U)})
  BY SumType, SumStep DEF First
<1> DEFINE e == First(T)
           R == (T \ {x}) \ {e}
<1>5. e \in T /\ Sum(T) = f[e] + Sum(T \ {e})
  BY <1>3, <1>4
<1>6. e # x
  BY <1>3, <1>5
<1>7. \A U \in SUBSET T : U # T => \A y \in U : Sum(U) = f[y] + Sum(U \ {y})
  BY <1>2
<1> HIDE DEF Sum, e
<1>8. Sum(T \ {e}) = f[x] + Sum(R)
  <2>1. (T \ {e}) \ {x} = R
    OBVIOUS
  <2> QED
    BY <1>3, <1>5, <1>6, <1>7, <2>1
<1>9. Sum(T \ {x}) = f[e] + Sum(R)
  BY <1>3, <1>5, <1>6, <1>7
<1>10. f[e] \in Int /\ f[x] \in Int /\ Sum(R) \in Int
  BY <1>4, <1>5
<1> QED
  BY <1>3, <1>5, <1>8, <1>9, <1>10

-----------------------------------------------------------------------------
(* What the proofs about the models cite.                                  *)

(* The sum is an integer, and any element may be taken out first.          *)
LEMMA Sum ==
  ASSUME NEW f, IsFiniteSet(DOMAIN f), f = [x \in DOMAIN f |-> f[x]],
         \A x \in DOMAIN f : f[x] \in Int
  PROVE  /\ SumFunction(f) \in Int
         /\ DOMAIN f = {} => SumFunction(f) = 0
         /\ \A d \in DOMAIN f :
              SumFunction(f) = f[d] + SumFunction([x \in DOMAIN f \ {d} |-> f[x]])
<1>1. On(f, DOMAIN f) = f
  BY DEF On
<1>2. \A d \in DOMAIN f : On(f, DOMAIN f \ {d}) = [x \in DOMAIN f \ {d} |-> f[x]]
  BY DEF On
<1>3. SumFunction(f) \in Int
  BY <1>1, SumType
<1>4. DOMAIN f = {} => SumFunction(f) = 0
  <2>1. DOMAIN f \in SUBSET DOMAIN f
    OBVIOUS
  <2> QED
    BY <1>1, <2>1, SumStep
<1>5. ASSUME NEW d \in DOMAIN f
      PROVE  SumFunction(f) = f[d] + SumFunction([x \in DOMAIN f \ {d} |-> f[x]])
  <2>1. SumFunction(On(f, DOMAIN f)) = f[d] + SumFunction(On(f, DOMAIN f \ {d}))
    BY SumAnyFirst
  <2> QED
    BY <1>1, <1>2, <2>1
<1> QED
  BY <1>3, <1>4, <1>5

(* One value changes, or is new.                                           *)
LEMMA SumChange ==
  ASSUME NEW D, IsFiniteSet(D), NEW d, NEW f \in [D -> Int], NEW g \in [D \cup {d} -> Int],
         \A x \in D \ {d} : g[x] = f[x]
  PROVE  SumFunction(g) = SumFunction(f) + g[d] - (IF d \in D THEN f[d] ELSE 0)
<1>1. IsFiniteSet(D \cup {d}) /\ IsFiniteSet(D \ {d})
  BY FS_AddElement, FS_RemoveElement
<1> DEFINE rest == [x \in D \ {d} |-> f[x]]
<1>2. rest = [x \in (D \cup {d}) \ {d} |-> g[x]] /\ rest \in [D \ {d} -> Int]
  OBVIOUS
<1>3. SumFunction(rest) \in Int
  BY <1>1, <1>2, Sum
<1>4. SumFunction(g) = g[d] + SumFunction(rest)
  <2>1. /\ DOMAIN g = D \cup {d} /\ d \in DOMAIN g
        /\ g = [x \in DOMAIN g |-> g[x]]
        /\ \A x \in DOMAIN g : g[x] \in Int
    OBVIOUS
  <2>2. SumFunction(g) = g[d] + SumFunction([x \in DOMAIN g \ {d} |-> g[x]])
    BY <1>1, <2>1, Sum
  <2> QED
    BY <1>2, <2>1, <2>2
<1>5. CASE d \in D
  <2>1. /\ DOMAIN f = D
        /\ f = [x \in DOMAIN f |-> f[x]]
        /\ \A x \in DOMAIN f : f[x] \in Int
    OBVIOUS
  <2>2. SumFunction(f) = f[d] + SumFunction(rest)
    BY <1>5, <2>1, Sum
  <2> QED
    BY <1>3, <1>4, <1>5, <2>2
<1>6. CASE d \notin D
  <2>1. rest = f
    BY <1>6
  <2> QED
    BY <1>3, <1>4, <1>6, <2>1
<1> QED
  BY <1>5, <1>6

(* Nothing adds up to nothing.                                             *)
LEMMA SumOfZeros ==
  ASSUME NEW D, IsFiniteSet(D)
  PROVE  SumFunction([x \in D |-> 0]) = 0
<1> DEFINE f == [x \in D |-> 0]
           C == {T \in SUBSET D : SumFunction(On(f, T)) # 0}
<1>1. CASE C = {}
  <2>1. D \in SUBSET D /\ D \notin C
    BY <1>1
  <2>2. SumFunction(On(f, D)) = 0
    BY <2>1
  <2>3. On(f, D) = f
    BY DEF On
  <2> QED
    BY <2>2, <2>3
<1>2. CASE C # {}
  <2>1. PICK T \in C : \A U \in C : U \subseteq T => U = T
    <3>1. C \subseteq SUBSET D
      OBVIOUS
    <3> HIDE DEF C
    <3> QED
      BY <1>2, <3>1, SmallestSubset
  <2>2. /\ DOMAIN f = D /\ T \in SUBSET DOMAIN f
        /\ T # {} => First(T) \in T /\ f[First(T)] = 0
    BY <2>1 DEF First
  <2>3. T # {} => SumFunction(On(f, T \ {First(T)})) = 0
    <3>1. T # {} => T \ {First(T)} \notin C
      BY <2>1, <2>2
    <3> HIDE DEF f
    <3> QED
      BY <2>2, <3>1
  <2>4. SumFunction(On(f, T)) # 0
    BY <2>1
  <2> HIDE DEF f
  <2> QED
    BY <2>2, <2>3, <2>4, SumStep
<1> QED
  BY <1>1, <1>2
=============================================================================
