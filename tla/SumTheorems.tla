----------------------------- MODULE SumTheorems -----------------------------
(***************************************************************************)
(* Laws of SumFunctionOnSet, the sum of the terms f[x] over a finite set,  *)
(* by which PipelineTotals adds up rows and events.                        *)
(*                                                                         *)
(* The sum is a fold, a recursive function that takes away one element     *)
(* after the other.  That the recursion has a solution, that it has one    *)
(* only, and that the order does not matter, is proved by looking at a     *)
(* smallest set for which it fails: strict inclusion is well-founded on    *)
(* the finite sets (FS_StrictSubsetOrderingWellFounded), and in this form  *)
(* an induction needs no operator as a parameter.                          *)
(***************************************************************************)
EXTENDS FiniteSetsExt, FiniteSetTheorems, TLAPS

-----------------------------------------------------------------------------
(* Induction *)

(* A family of subsets of a finite set has a smallest member. *)
LEMMA SmallestSet ==
  ASSUME NEW S, IsFiniteSet(S), NEW Bad \in SUBSET SUBSET S, Bad # {}
  PROVE  \E T \in Bad : \A U \in SUBSET T : U # T => U \notin Bad
<1>1. IsWellFoundedOn(StrictSubsetOrdering(S), SUBSET S)
  BY FS_StrictSubsetOrderingWellFounded, FS_FiniteSubsetsOfFinite
<1>2. PICK T \in Bad : \A U \in Bad : <<U, T>> \notin StrictSubsetOrdering(S)
  BY <1>1, WFMin
<1> QED BY <1>2 DEF StrictSubsetOrdering

(* What holds of the empty set, and of a set when it holds of one with an  *)
(* element less, holds of every finite set.                                *)
LEMMA FiniteInduction ==
  ASSUME NEW S, IsFiniteSet(S), NEW Good, {} \in Good,
         \A T \in SUBSET S, x \in S : T \in Good /\ x \notin T => T \cup {x} \in Good
  PROVE  S \in Good
<1> DEFINE Bad == {T \in SUBSET S : T \notin Good}
<1> SUFFICES ASSUME Bad # {} PROVE FALSE
  OBVIOUS
<1>1. PICK T \in Bad : \A U \in SUBSET T : U # T => U \notin Bad
  <2>1. Bad \in SUBSET SUBSET S
    OBVIOUS
  <2> HIDE DEF Bad
  <2> QED BY <2>1, SmallestSet
<1>2. PICK x \in T : TRUE
  OBVIOUS
<1>3. T \ {x} \notin Bad /\ (T \ {x}) \cup {x} = T
  BY <1>1, <1>2
<1> QED BY <1>2, <1>3

(* A function has finitely many values on a finite set. *)
LEMMA ImageFinite ==
  ASSUME NEW h, NEW S, IsFiniteSet(S)
  PROVE  IsFiniteSet({h[x] : x \in S})
<1> DEFINE To(T) == {h[x] : x \in T}
           Good == {T \in SUBSET S : IsFiniteSet(To(T))}
<1>1. {} \in Good
  <2>1. To({}) = {}
    OBVIOUS
  <2> HIDE DEF To
  <2> QED BY <2>1, FS_EmptySet
<1>2. ASSUME NEW T \in SUBSET S, NEW x \in S, T \in Good, x \notin T
      PROVE  T \cup {x} \in Good
  <2>1. To(T \cup {x}) = To(T) \cup {h[x]}
    OBVIOUS
  <2>2. IsFiniteSet(To(T) \cup {h[x]})
    BY <1>2, FS_AddElement
  <2>3. IsFiniteSet(To(T \cup {x}))
    BY <2>1, <2>2, Zenon
  <2> QED BY <2>3
<1> HIDE DEF Good
<1>3. S \in Good
  BY <1>1, <1>2, FiniteInduction
<1> QED BY <1>3 DEF Good

-----------------------------------------------------------------------------
(* The recursion *)

(* The element a fold takes first. *)
Any(s) == CHOOSE x \in s : TRUE

Rest(s) == s \ {Any(s)}

LEMMA RestIsSmaller ==
  ASSUME NEW s, s # {}
  PROVE  Any(s) \in s /\ Rest(s) \in SUBSET s /\ Rest(s) # s
BY DEF Any, Rest

(* g is the function of the sums of f over the subsets of S. *)
IsSum(g, f, S) ==
  g = [s \in SUBSET S |-> IF s = {} THEN 0 ELSE f[Any(s)] + g[Rest(s)]]

Sums(f, S) == CHOOSE g : IsSum(g, f, S)

LEMMA SumIsFold ==
  ASSUME NEW f, NEW S
  PROVE  SumFunctionOnSet(f, S) = Sums(f, S)[S]
BY DEF SumFunctionOnSet, FoldFunctionOnSet, MapThenFoldSet, IsSum, Sums, Any, Rest

(* Two such functions agree where both are defined. *)
LEMMA SumsAgree ==
  ASSUME NEW f, NEW S, IsFiniteSet(S), NEW T \in SUBSET S,
         NEW g, IsSum(g, f, S), NEW h, IsSum(h, f, T)
  PROVE  g[T] = h[T]
<1> DEFINE Bad == {U \in SUBSET T : g[U] # h[U]}
<1> SUFFICES ASSUME Bad # {} PROVE FALSE
  OBVIOUS
<1>1. PICK U \in Bad : \A V \in SUBSET U : V # U => V \notin Bad
  <2>1. Bad \in SUBSET SUBSET T /\ IsFiniteSet(T)
    BY FS_Subset
  <2> HIDE DEF Bad
  <2> QED BY <2>1, SmallestSet
<1>2. g[U] = IF U = {} THEN 0 ELSE f[Any(U)] + g[Rest(U)]
  BY DEF IsSum
<1>3. h[U] = IF U = {} THEN 0 ELSE f[Any(U)] + h[Rest(U)]
  BY DEF IsSum
<1>4. Rest(U) \notin Bad
  BY <1>1, <1>2, <1>3, RestIsSmaller
<1> QED BY <1>2, <1>3, <1>4, RestIsSmaller

(* There is one: from the sums over the smaller sets it is put together. *)
LEMMA SumsExist ==
  ASSUME NEW f, NEW S, IsFiniteSet(S)
  PROVE  IsSum(Sums(f, S), f, S)
<1> DEFINE Bad == {T \in SUBSET S : ~ \E g : IsSum(g, f, T)}
<1> SUFFICES ASSUME Bad # {} PROVE FALSE
  BY DEF Sums
<1>1. PICK T \in Bad : \A U \in SUBSET T : U # T => U \notin Bad
  <2>1. Bad \in SUBSET SUBSET S
    OBVIOUS
  <2> HIDE DEF Bad
  <2> QED BY <2>1, SmallestSet
<1>2. \A U \in SUBSET T : U # T => IsSum(Sums(f, U), f, U)
  BY <1>1 DEF Sums
<1> DEFINE g == [s \in SUBSET T |->
                   IF s = {} THEN 0 ELSE f[Any(s)] + Sums(f, Rest(s))[Rest(s)]]
<1>3. ASSUME NEW s \in SUBSET T, s # {}
      PROVE  g[Rest(s)] = Sums(f, Rest(s))[Rest(s)]
  <2>1. PICK r \in SUBSET T : r = Rest(s) /\ r # T
    BY <1>3, RestIsSmaller
  <2>2. IsSum(Sums(f, r), f, r)
    BY <1>2, <2>1
  <2>3. Sums(f, r)[r] = IF r = {} THEN 0 ELSE f[Any(r)] + Sums(f, r)[Rest(r)]
    BY <2>2 DEF IsSum
  <2>4. ASSUME r # {}
        PROVE  Sums(f, r)[Rest(r)] = Sums(f, Rest(r))[Rest(r)]
    <3>1. Rest(r) \in SUBSET r /\ Rest(r) \in SUBSET T /\ Rest(r) # T
      BY <2>1, <2>4, RestIsSmaller
    <3>2. IsSum(Sums(f, Rest(r)), f, Rest(r)) /\ IsFiniteSet(r)
      BY <1>2, <3>1, FS_Subset
    <3> HIDE DEF g
    <3> QED BY <2>2, <3>1, <3>2, SumsAgree
  <2> QED BY <2>1, <2>3, <2>4
<1>4. IsSum(g, f, T)
  BY <1>3 DEF IsSum
<1> QED BY <1>1, <1>4

LEMMA SumEmpty == ASSUME NEW f PROVE SumFunctionOnSet(f, {}) = 0
<1>1. IsSum(Sums(f, {}), f, {})
  BY SumsExist, FS_EmptySet
<1>2. Sums(f, {})[{}] = 0
  BY <1>1 DEF IsSum
<1> QED BY <1>2, SumIsFold

LEMMA SumRest ==
  ASSUME NEW f, NEW S, IsFiniteSet(S), S # {}
  PROVE  SumFunctionOnSet(f, S) = f[Any(S)] + SumFunctionOnSet(f, Rest(S))
<1>1. IsFiniteSet(Rest(S)) /\ Rest(S) \in SUBSET S
  BY FS_Subset, RestIsSmaller
<1>2. IsSum(Sums(f, S), f, S) /\ IsSum(Sums(f, Rest(S)), f, Rest(S))
  BY <1>1, SumsExist
<1>3. Sums(f, S)[S] = f[Any(S)] + Sums(f, S)[Rest(S)]
  BY <1>2 DEF IsSum
<1>4. Sums(f, S)[Rest(S)] = Sums(f, Rest(S))[Rest(S)]
  BY <1>1, <1>2, SumsAgree
<1> QED BY <1>3, <1>4, SumIsFold

-----------------------------------------------------------------------------
(* The laws *)

(* The terms of f over S are integers. *)
IntOn(f, S) == \A x \in S : f[x] \in Int

LEMMA SumType ==
  ASSUME NEW f, NEW S, IsFiniteSet(S), IntOn(f, S)
  PROVE  SumFunctionOnSet(f, S) \in Int
<1> DEFINE Bad == {T \in SUBSET S : SumFunctionOnSet(f, T) \notin Int}
<1> SUFFICES ASSUME Bad # {} PROVE FALSE
  OBVIOUS
<1>1. PICK T \in Bad : \A U \in SUBSET T : U # T => U \notin Bad
  <2>1. Bad \in SUBSET SUBSET S
    OBVIOUS
  <2> HIDE DEF Bad
  <2> QED BY <2>1, SmallestSet
<1>2. T # {}
  BY SumEmpty
<1>3. Any(T) \in T /\ SumFunctionOnSet(f, Rest(T)) \in Int
  BY <1>1, <1>2, RestIsSmaller
<1>4. SumFunctionOnSet(f, T) = f[Any(T)] + SumFunctionOnSet(f, Rest(T))
  BY <1>2, SumRest, FS_Subset
<1> QED BY <1>3, <1>4 DEF IntOn

(* It does not matter which element is taken first. *)
LEMMA SumRemove ==
  ASSUME NEW f, NEW S, IsFiniteSet(S), IntOn(f, S), NEW x \in S
  PROVE  SumFunctionOnSet(f, S) = f[x] + SumFunctionOnSet(f, S \ {x})
<1> DEFINE Sum(T) == SumFunctionOnSet(f, T)
           Bad == {T \in SUBSET S : \E y \in T : Sum(T) # f[y] + Sum(T \ {y})}
<1> SUFFICES ASSUME Bad # {} PROVE FALSE
  OBVIOUS
<1>1. PICK T \in Bad : \A U \in SUBSET T : U # T => U \notin Bad
  <2>1. Bad \in SUBSET SUBSET S
    OBVIOUS
  <2> HIDE DEF Bad
  <2> QED BY <2>1, SmallestSet
<1>2. PICK y \in T : Sum(T) # f[y] + Sum(T \ {y})
  OBVIOUS
<1>3. PICK z \in T : z = Any(T) /\ Rest(T) = T \ {z}
  BY <1>2, RestIsSmaller DEF Rest
<1>4. Sum(T) = f[z] + Sum(T \ {z})
  <2>1. IsFiniteSet(T) /\ T # {}
    BY FS_Subset
  <2> QED BY <1>3, <2>1, SumRest
<1>5. y # z
  BY <1>2, <1>4
<1>6. Sum(T \ {z}) = f[y] + Sum((T \ {z}) \ {y})
  BY <1>1, <1>5
<1>7. Sum(T \ {y}) = f[z] + Sum((T \ {y}) \ {z})
  BY <1>1, <1>5
<1>8. Sum((T \ {z}) \ {y}) = Sum((T \ {y}) \ {z})
  <2>1. (T \ {z}) \ {y} = (T \ {y}) \ {z}
    OBVIOUS
  <2> QED BY <2>1, Zenon
<1>9. Sum((T \ {y}) \ {z}) \in Int /\ f[y] \in Int /\ f[z] \in Int
  BY SumType, FS_Subset DEF IntOn
<1> QED BY <1>2, <1>4, <1>6, <1>7, <1>8, <1>9

(* The same, seen from the smaller set. *)
LEMMA SumAdd ==
  ASSUME NEW f, NEW S, IsFiniteSet(S), NEW x, x \notin S, IntOn(f, S \cup {x})
  PROVE  SumFunctionOnSet(f, S \cup {x}) = SumFunctionOnSet(f, S) + f[x]
<1>1. IsFiniteSet(S \cup {x}) /\ (S \cup {x}) \ {x} = S
  BY FS_AddElement
<1>2. SumFunctionOnSet(f, S) \in Int /\ f[x] \in Int
  BY SumType DEF IntOn
<1> QED BY <1>1, <1>2, SumRemove

(* A sum depends on its terms only. *)
LEMMA SumSame ==
  ASSUME NEW f, NEW g, NEW S, IsFiniteSet(S), IntOn(f, S), \A x \in S : f[x] = g[x]
  PROVE  SumFunctionOnSet(f, S) = SumFunctionOnSet(g, S)
<1> DEFINE Good == {T \in SUBSET S : SumFunctionOnSet(f, T) = SumFunctionOnSet(g, T)}
<1>1. {} \in Good
  BY SumEmpty
<1>2. ASSUME NEW T \in SUBSET S, NEW x \in S, T \in Good, x \notin T
      PROVE  T \cup {x} \in Good
  <2>1. /\ SumFunctionOnSet(f, T \cup {x}) = SumFunctionOnSet(f, T) + f[x]
        /\ SumFunctionOnSet(g, T \cup {x}) = SumFunctionOnSet(g, T) + g[x]
    BY <1>2, SumAdd, FS_Subset DEF IntOn
  <2> QED BY <1>2, <2>1
<1> HIDE DEF Good
<1>3. S \in Good
  BY <1>1, <1>2, FiniteInduction
<1> QED BY <1>3 DEF Good

(* Larger terms have a larger sum. *)
LEMMA SumMonotonic ==
  ASSUME NEW f, NEW g, NEW S, IsFiniteSet(S), IntOn(f, S), IntOn(g, S),
         \A x \in S : f[x] <= g[x]
  PROVE  SumFunctionOnSet(f, S) <= SumFunctionOnSet(g, S)
<1> DEFINE Good == {T \in SUBSET S : SumFunctionOnSet(f, T) <= SumFunctionOnSet(g, T)}
<1>1. {} \in Good
  BY SumEmpty
<1>2. ASSUME NEW T \in SUBSET S, NEW x \in S, T \in Good, x \notin T
      PROVE  T \cup {x} \in Good
  <2>1. /\ SumFunctionOnSet(f, T \cup {x}) = SumFunctionOnSet(f, T) + f[x]
        /\ SumFunctionOnSet(g, T \cup {x}) = SumFunctionOnSet(g, T) + g[x]
    BY <1>2, SumAdd, FS_Subset DEF IntOn
  <2>2. /\ SumFunctionOnSet(f, T) \in Int /\ SumFunctionOnSet(g, T) \in Int
        /\ f[x] \in Int /\ g[x] \in Int /\ f[x] <= g[x]
    BY <1>2, SumType, FS_Subset DEF IntOn
  <2> QED BY <1>2, <2>1, <2>2
<1> HIDE DEF Good
<1>3. S \in Good
  BY <1>1, <1>2, FiniteInduction
<1> QED BY <1>3 DEF Good

(* What x contributes to the sum over S. *)
Share(f, S, x) == IF x \in S THEN f[x] ELSE 0

(* If terms and sets differ in x only, so do the sums. *)
LEMMA SumExcept ==
  ASSUME NEW f, NEW S, IsFiniteSet(S), IntOn(f, S),
         NEW g, NEW T, IntOn(g, T), NEW x, S \ {x} = T \ {x},
         \A y \in S \ {x} : f[y] = g[y]
  PROVE  /\ IsFiniteSet(T)
         /\ SumFunctionOnSet(g, T) - Share(g, T, x)
              = SumFunctionOnSet(f, S) - Share(f, S, x)
<1>1. IsFiniteSet(S \ {x}) /\ IsFiniteSet(T)
  <2>1. IsFiniteSet(T \ {x})
    BY FS_RemoveElement
  <2>2. T = T \ {x} \/ T = (T \ {x}) \cup {x}
    OBVIOUS
  <2> QED BY <2>1, <2>2, FS_AddElement
<1>2. SumFunctionOnSet(f, S \ {x}) = SumFunctionOnSet(g, T \ {x})
  BY <1>1, SumSame DEF IntOn
<1>3. SumFunctionOnSet(f, S \ {x}) \in Int
  BY <1>1, SumType DEF IntOn
<1>4. SumFunctionOnSet(f, S) = Share(f, S, x) + SumFunctionOnSet(f, S \ {x})
  <2>1. CASE x \in S
    BY <2>1, SumRemove DEF Share
  <2>2. CASE x \notin S
    <3>1. SumFunctionOnSet(f, S \ {x}) = SumFunctionOnSet(f, S)
      <4>1. S \ {x} = S
        BY <2>2
      <4> QED BY <4>1, Zenon
    <3> QED BY <1>3, <2>2, <3>1 DEF Share
  <2> QED BY <2>1, <2>2
<1>5. SumFunctionOnSet(g, T) = Share(g, T, x) + SumFunctionOnSet(g, T \ {x})
  <2>1. CASE x \in T
    BY <1>1, <2>1, SumRemove DEF Share
  <2>2. CASE x \notin T
    <3>1. SumFunctionOnSet(g, T \ {x}) = SumFunctionOnSet(g, T)
      <4>1. T \ {x} = T
        BY <2>2
      <4> QED BY <4>1, Zenon
    <3> QED BY <1>2, <1>3, <2>2, <3>1 DEF Share
  <2> QED BY <2>1, <2>2
<1>6. Share(f, S, x) \in Int /\ Share(g, T, x) \in Int
  BY DEF Share, IntOn
<1> QED BY <1>1, <1>2, <1>3, <1>4, <1>5, <1>6
(* Terms that are zero may be left out. *)
LEMMA SumZeros ==
  ASSUME NEW f, NEW T, IsFiniteSet(T), IntOn(f, T), NEW S \in SUBSET T,
         \A x \in T \ S : f[x] = 0
  PROVE  SumFunctionOnSet(f, T) = SumFunctionOnSet(f, S)
<1> DEFINE Good == {U \in SUBSET (T \ S) :
                      SumFunctionOnSet(f, S \cup U) = SumFunctionOnSet(f, S)}
<1>1. {} \in Good
  <2>1. S \cup {} = S
    OBVIOUS
  <2>2. SumFunctionOnSet(f, S \cup {}) = SumFunctionOnSet(f, S)
    BY <2>1, Zenon
  <2> QED BY <2>2
<1>2. ASSUME NEW U \in SUBSET (T \ S), NEW x \in T \ S, U \in Good, x \notin U
      PROVE  U \cup {x} \in Good
  <2>1. IsFiniteSet(S \cup U) /\ x \notin S \cup U
    BY <1>2, FS_Subset
  <2>2. SumFunctionOnSet(f, (S \cup U) \cup {x}) = SumFunctionOnSet(f, S \cup U) + f[x]
    BY <2>1, SumAdd DEF IntOn
  <2>3. SumFunctionOnSet(f, S \cup U) \in Int
    BY <2>1, SumType DEF IntOn
  <2>4. SumFunctionOnSet(f, (S \cup U) \cup {x}) = SumFunctionOnSet(f, S)
    BY <1>2, <2>2, <2>3
  <2>5. (S \cup U) \cup {x} = S \cup (U \cup {x})
    OBVIOUS
  <2>6. SumFunctionOnSet(f, S \cup (U \cup {x})) = SumFunctionOnSet(f, S)
    BY <2>4, <2>5, Zenon
  <2> QED BY <2>6
<1> HIDE DEF Good
<1>3. T \ S \in Good
  BY <1>1, <1>2, FiniteInduction, FS_Subset
<1>4. S \cup (T \ S) = T
  OBVIOUS
<1>5. SumFunctionOnSet(f, S \cup (T \ S)) = SumFunctionOnSet(f, S)
  BY <1>3 DEF Good
<1> QED BY <1>4, <1>5, Zenon

(* Two sums agree when one has only zeros more. *)
LEMMA SumWider ==
  ASSUME NEW f, NEW g, NEW S, IsFiniteSet(S), NEW T, IsFiniteSet(T), S \subseteq T,
         IntOn(f, S), \A x \in S : f[x] = g[x], \A x \in T \ S : g[x] = 0
  PROVE  SumFunctionOnSet(g, T) = SumFunctionOnSet(f, S)
<1>1. IntOn(g, T) /\ S \in SUBSET T
  BY DEF IntOn
<1>2. SumFunctionOnSet(g, T) = SumFunctionOnSet(g, S)
  BY <1>1, SumZeros
<1>3. SumFunctionOnSet(f, S) = SumFunctionOnSet(g, S)
  BY SumSame
<1> QED BY <1>2, <1>3

LEMMA SumOfZeros ==
  ASSUME NEW f, NEW S, IsFiniteSet(S), \A x \in S : f[x] = 0
  PROVE  SumFunctionOnSet(f, S) = 0
<1>1. SumFunctionOnSet(f, S) = SumFunctionOnSet(f, {})
  <2>1. IntOn(f, S) /\ {} \in SUBSET S
    BY DEF IntOn
  <2> QED BY <2>1, SumZeros
<1> QED BY <1>1, SumEmpty

(* Fewer terms that are not negative have a smaller sum. *)
LEMMA SumOfSubset ==
  ASSUME NEW f, NEW T, IsFiniteSet(T), IntOn(f, T), \A x \in T : f[x] >= 0,
         NEW S \in SUBSET T
  PROVE  SumFunctionOnSet(f, S) <= SumFunctionOnSet(f, T)
<1> DEFINE g == [x \in T |-> IF x \in S THEN f[x] ELSE 0]
<1>1. /\ \A x \in S : f[x] = g[x]
      /\ \A x \in T \ S : g[x] = 0
      /\ \A x \in T : g[x] <= f[x]
      /\ IntOn(g, T) /\ IntOn(f, S)
  BY DEF IntOn
<1>2. IsFiniteSet(S)
  BY FS_Subset
<1> HIDE DEF g
<1>3. SumFunctionOnSet(g, T) = SumFunctionOnSet(f, S)
  BY <1>1, <1>2, SumWider
<1>4. SumFunctionOnSet(g, T) <= SumFunctionOnSet(f, T)
  BY <1>1, SumMonotonic
<1> QED BY <1>3, <1>4

(* One term changes, and new terms are zero. *)
LEMMA SumGrows ==
  ASSUME NEW f, NEW g, NEW S, IsFiniteSet(S), NEW T, IsFiniteSet(T), S \subseteq T,
         IntOn(f, S), IntOn(g, S), NEW x \in S,
         \A y \in S \ {x} : f[y] = g[y], \A y \in T \ S : g[y] = 0
  PROVE  SumFunctionOnSet(g, T) = SumFunctionOnSet(f, S) + g[x] - f[x]
<1>1. SumFunctionOnSet(g, T) = SumFunctionOnSet(g, S)
  BY SumWider
<1>2. SumFunctionOnSet(g, S) - Share(g, S, x) = SumFunctionOnSet(f, S) - Share(f, S, x)
  BY SumExcept
<1>3. SumFunctionOnSet(g, S) \in Int /\ SumFunctionOnSet(f, S) \in Int
  BY SumType
<1>4. Share(g, S, x) = g[x] /\ Share(f, S, x) = f[x] /\ g[x] \in Int /\ f[x] \in Int
  BY DEF Share, IntOn
<1> QED BY <1>1, <1>2, <1>3, <1>4

(* A sum with one term that is not zero is that term. *)
LEMMA SumSingle ==
  ASSUME NEW f, NEW S, IsFiniteSet(S), IntOn(f, S), NEW x, \A y \in S \ {x} : f[y] = 0
  PROVE  SumFunctionOnSet(f, S) = Share(f, S, x)
<1>1. IntOn(f, {}) /\ IsFiniteSet({}) /\ SumFunctionOnSet(f, {}) = 0
  BY SumEmpty, FS_EmptySet DEF IntOn
<1>2. CASE x \in S
  <2>1. SumFunctionOnSet(f, S) = f[x] + SumFunctionOnSet(f, S \ {x})
    BY <1>2, SumRemove
  <2>2. SumFunctionOnSet(f, S \ {x}) = 0
    <3>1. /\ IsFiniteSet(S \ {x}) /\ IntOn(f, S \ {x}) /\ {} \in SUBSET (S \ {x})
          /\ \A y \in (S \ {x}) \ {} : f[y] = 0
      BY FS_RemoveElement DEF IntOn
    <3> QED BY <1>1, <3>1, SumZeros
  <2> QED BY <1>2, <2>1, <2>2 DEF Share, IntOn
<1>3. CASE x \notin S
  BY <1>1, <1>3, SumZeros DEF Share
<1> QED BY <1>2, <1>3

(* The size of a set is a sum of ones. *)
LEMMA SumOnes ==
  ASSUME NEW f, NEW S, IsFiniteSet(S), \A x \in S : f[x] = 1
  PROVE  SumFunctionOnSet(f, S) = Cardinality(S)
<1> DEFINE Good == {T \in SUBSET S : SumFunctionOnSet(f, T) = Cardinality(T)}
<1>1. {} \in Good
  BY SumEmpty, FS_EmptySet
<1>2. ASSUME NEW T \in SUBSET S, NEW x \in S, T \in Good, x \notin T
      PROVE  T \cup {x} \in Good
  <2>1. IsFiniteSet(T)
    BY FS_Subset
  <2>2. SumFunctionOnSet(f, T \cup {x}) = SumFunctionOnSet(f, T) + 1
    BY <1>2, <2>1, SumAdd DEF IntOn
  <2>3. Cardinality(T \cup {x}) = Cardinality(T) + 1
    BY <1>2, <2>1, FS_AddElement
  <2> QED BY <1>2, <2>2, <2>3
<1> HIDE DEF Good
<1>3. S \in Good
  BY <1>1, <1>2, FiniteInduction
<1> QED BY <1>3 DEF Good

(* The terms may be named otherwise. *)
LEMMA SumRenamed ==
  ASSUME NEW f, NEW S, IsFiniteSet(S), IntOn(f, S),
         NEW g, NEW h, \A x \in S : g[h[x]] = f[x],
         \A x, y \in S : h[x] = h[y] => x = y
  PROVE  SumFunctionOnSet(g, {h[x] : x \in S}) = SumFunctionOnSet(f, S)
<1> DEFINE To(T) == {h[x] : x \in T}
           Good == {T \in SUBSET S :
                      SumFunctionOnSet(g, To(T)) = SumFunctionOnSet(f, T)}
<1>1. {} \in Good
  <2>1. To({}) = {}
    OBVIOUS
  <2>2. SumFunctionOnSet(g, To({})) = SumFunctionOnSet(g, {})
    BY <2>1, Zenon
  <2> QED BY <2>2, SumEmpty
<1>2. ASSUME NEW T \in SUBSET S, NEW x \in S, T \in Good, x \notin T
      PROVE  T \cup {x} \in Good
  <2>1. IsFiniteSet(T) /\ IsFiniteSet(To(T))
    <3>1. \A U : IsFiniteSet(U) => IsFiniteSet(To(U))
      BY ImageFinite
    <3> QED BY <3>1, FS_Subset
  <2>2. h[x] \notin To(T) /\ To(T \cup {x}) = To(T) \cup {h[x]}
    BY <1>2
  <2>3. IntOn(g, To(T) \cup {h[x]})
    BY DEF IntOn
  <2>4. /\ SumFunctionOnSet(g, To(T) \cup {h[x]}) = SumFunctionOnSet(g, To(T)) + g[h[x]]
        /\ SumFunctionOnSet(f, T \cup {x}) = SumFunctionOnSet(f, T) + f[x]
    <3> HIDE DEF To
    <3> QED BY <1>2, <2>1, <2>2, <2>3, SumAdd DEF IntOn
  <2>5. SumFunctionOnSet(g, To(T \cup {x})) = SumFunctionOnSet(g, To(T) \cup {h[x]})
    <3> HIDE DEF To
    <3> QED BY <2>2, Zenon
  <2>6. SumFunctionOnSet(g, To(T)) = SumFunctionOnSet(f, T) /\ g[h[x]] = f[x]
    BY <1>2
  <2> QED BY <2>4, <2>5, <2>6
<1> HIDE DEF Good
<1>3. S \in Good
  BY <1>1, <1>2, FiniteInduction
<1> QED BY <1>3 DEF Good
=============================================================================
