-------------------------- MODULE ServerFeedProofs ---------------------------
(***************************************************************************)
(* What the endpoints show follows from what the tables say of each other: *)
(* a question has a review exactly if it has an answer, the review comes   *)
(* after the answers unless they came out of order, and the counter of a   *)
(* profile, its log and its ratings count the same answers.                *)
(***************************************************************************)
EXTENDS ServerFeed, FiniteSetTheorems, TLAPS

-----------------------------------------------------------------------------
(* Facts about finite sets: sums over them, their largest and smallest     *)
(* members, the places of their members in an order.  What would be an     *)
(* induction is an appeal to a least counterexample: the proper subsets of *)
(* a finite set are well-founded.                                          *)

LEMMA LeastSet ==
  ASSUME NEW S, IsFiniteSet(S), NEW B \in SUBSET (SUBSET S), B # {}
  PROVE  \E T \in B : \A U \in B : U \subseteq T => U = T
  <1>1. IsWellFoundedOn(StrictSubsetOrdering(S), SUBSET S)
    BY FS_StrictSubsetOrderingWellFounded, FS_FiniteSubsetsOfFinite
  <1>2. PICK T \in B : \A U \in B : ~(<<U, T>> \in StrictSubsetOrdering(S))
    BY <1>1, WFMin
  <1> QED
    BY <1>2 DEF StrictSubsetOrdering

-----------------------------------------------------------------------------
(* Sums.  What the fold of the community modules computes.                 *)

Picked(s) == CHOOSE x \in s : TRUE

IsSum(g, f, S) ==
  g = [s \in SUBSET S |-> IF s = {} THEN 0 ELSE f[Picked(s)] + g[s \ {Picked(s)}]]

LEMMA SumUnfolded ==
  ASSUME NEW f, NEW S
  PROVE  SumFunctionOnSet(f, S) = (CHOOSE g : IsSum(g, f, S))[S]
  BY DEF SumFunctionOnSet, FoldFunctionOnSet, MapThenFoldSet, IsSum, Picked

LEMMA PickedIn ==
  ASSUME NEW s, s # {}
  PROVE  Picked(s) \in s
  BY DEF Picked

LEMMA SumsAgree ==
  ASSUME NEW f, NEW S, IsFiniteSet(S), NEW g, IsSum(g, f, S), NEW R, NEW h, IsSum(h, f, R),
         NEW T \in SUBSET S, T \in SUBSET R
  PROVE  g[T] = h[T]
  <1> DEFINE B == {U \in SUBSET S : U \in SUBSET R /\ g[U] # h[U]}
  <1>1. SUFFICES ASSUME B # {} PROVE FALSE
    OBVIOUS
  <1>2. PICK U \in B : \A V \in B : V \subseteq U => V = U
    <2>1. B \in SUBSET (SUBSET S)
      OBVIOUS
    <2> HIDE DEF B
    <2> QED
      BY <1>1, <2>1, LeastSet
  <1>3. g[U] = IF U = {} THEN 0 ELSE f[Picked(U)] + g[U \ {Picked(U)}]
    BY DEF IsSum
  <1>4. h[U] = IF U = {} THEN 0 ELSE f[Picked(U)] + h[U \ {Picked(U)}]
    BY DEF IsSum
  <1>5. U # {}
    BY <1>3, <1>4
  <1>6. Picked(U) \in U
    BY <1>5, PickedIn
  <1>7. U \ {Picked(U)} \notin B
    BY <1>2, <1>6
  <1>8. g[U \ {Picked(U)}] = h[U \ {Picked(U)}]
    BY <1>7
  <1> QED
    BY <1>3, <1>4, <1>8

LEMMA SumExists ==
  ASSUME NEW f, NEW S, IsFiniteSet(S)
  PROVE  \E g : IsSum(g, f, S)
  <1> DEFINE B == {U \in SUBSET S : ~ \E g : IsSum(g, f, U)}
  <1>1. SUFFICES ASSUME B # {} PROVE FALSE
    OBVIOUS
  <1>2. PICK U \in B : \A V \in B : V \subseteq U => V = U
    <2>1. B \in SUBSET (SUBSET S)
      OBVIOUS
    <2> HIDE DEF B
    <2> QED
      BY <1>1, <2>1, LeastSet
  <1> DEFINE Of(V) == CHOOSE g : IsSum(g, f, V)
             less(s) == s \ {Picked(s)}
             g == [s \in SUBSET U |-> IF s = {} THEN 0 ELSE f[Picked(s)] + Of(less(s))[less(s)]]
  <1>3. ASSUME NEW V \in SUBSET U, V # U
        PROVE  IsSum(Of(V), f, V) /\ IsFiniteSet(V)
    <2>1. V \notin B /\ V \in SUBSET S
      BY <1>2, <1>3
    <2>2. \E k : IsSum(k, f, V)
      BY <2>1
    <2> HIDE DEF B
    <2>3. IsSum(Of(V), f, V)
      BY <2>2
    <2> QED
      BY <2>1, <2>3, FS_Subset
  <1>4. ASSUME NEW s \in SUBSET U, s # {}
        PROVE  Of(less(s))[less(s)] = g[less(s)]
    <2>1. Picked(s) \in s
      BY <1>4, PickedIn
    <2>2. less(s) \in SUBSET U /\ less(s) # U
      BY <2>1
    <2>3. IsSum(Of(less(s)), f, less(s)) /\ IsFiniteSet(less(s))
      BY <1>3, <2>2
    <2> HIDE DEF Of
    <2> DEFINE v == less(s)
    <2>4. Of(v)[v] = IF v = {} THEN 0 ELSE f[Picked(v)] + Of(v)[less(v)]
      BY <2>3 DEF IsSum
    <2>5. g[v] = IF v = {} THEN 0 ELSE f[Picked(v)] + Of(less(v))[less(v)]
      BY <2>2
    <2>6. CASE v = {}
      BY <2>4, <2>5, <2>6
    <2>7. CASE v # {}
      <3>1. Picked(v) \in v
        BY <2>7, PickedIn
      <3>2. less(v) \in SUBSET U /\ less(v) # U /\ less(v) \in SUBSET v
        BY <2>2, <3>1
      <3>3. IsSum(Of(less(v)), f, less(v)) /\ IsFiniteSet(less(v))
        BY <1>3, <3>2
      <3>4. Of(less(v))[less(v)] = Of(v)[less(v)]
        <4> HIDE DEF less, v
        <4> QED
          BY <2>3, <3>2, <3>3, SumsAgree DEF v
      <3> QED
        BY <2>4, <2>5, <3>4
    <2> QED
      BY <2>6, <2>7
  <1>5. g = [s \in SUBSET U |-> IF s = {} THEN 0 ELSE f[Picked(s)] + g[less(s)]]
    <2> DEFINE k == [s \in SUBSET U |-> IF s = {} THEN 0 ELSE f[Picked(s)] + g[less(s)]]
    <2>1. ASSUME NEW s \in SUBSET U
          PROVE  g[s] = k[s]
      <3>1. CASE s = {}
        BY <3>1
      <3>2. CASE s # {}
        <4>1. g[s] = f[Picked(s)] + Of(less(s))[less(s)]
          BY <3>2
        <4>2. k[s] = f[Picked(s)] + g[less(s)]
          BY <3>2
        <4> QED
          BY <1>4, <3>2, <4>1, <4>2
      <3> QED
        BY <3>1, <3>2
    <2> HIDE DEF Of
    <2>2. DOMAIN g = SUBSET U /\ DOMAIN k = SUBSET U
      OBVIOUS
    <2>3. g = [s \in SUBSET U |-> g[s]] /\ k = [s \in SUBSET U |-> k[s]]
      OBVIOUS
    <2> HIDE DEF g, k
    <2>4. g = k
      BY <2>1, <2>3
    <2> QED
      BY <2>4 DEF k
  <1>6. IsSum(g, f, U)
    BY <1>5 DEF IsSum
  <1> HIDE DEF g
  <1> QED
    BY <1>2, <1>6

LEMMA SumHere ==
  ASSUME NEW f, NEW S, IsFiniteSet(S), NEW T \in SUBSET S, NEW g, IsSum(g, f, S)
  PROVE  SumFunctionOnSet(f, T) = g[T]
  <1>1. IsFiniteSet(T)
    BY FS_Subset
  <1>2. \E h : IsSum(h, f, T)
    BY <1>1, SumExists
  <1> DEFINE h == CHOOSE k : IsSum(k, f, T)
  <1>3. IsSum(h, f, T)
    BY <1>2
  <1>4. SumFunctionOnSet(f, T) = h[T]
    BY SumUnfolded
  <1> HIDE DEF h
  <1> QED
    BY <1>1, <1>3, <1>4, SumsAgree

LEMMA SumEmpty ==
  ASSUME NEW f
  PROVE  SumFunctionOnSet(f, {}) = 0
  <1>1. PICK g : IsSum(g, f, {})
    BY SumExists, FS_EmptySet
  <1>2. g[{}] = 0
    BY <1>1 DEF IsSum
  <1> QED
    BY <1>1, <1>2, SumHere, FS_EmptySet

LEMMA SumPicked ==
  ASSUME NEW f, NEW S, IsFiniteSet(S), S # {}
  PROVE  SumFunctionOnSet(f, S) = f[Picked(S)] + SumFunctionOnSet(f, S \ {Picked(S)})
  <1>1. PICK g : IsSum(g, f, S)
    BY SumExists
  <1>2. g[S] = f[Picked(S)] + g[S \ {Picked(S)}]
    BY <1>1 DEF IsSum
  <1>3. S \in SUBSET S /\ S \ {Picked(S)} \in SUBSET S
    OBVIOUS
  <1>4. SumFunctionOnSet(f, S) = g[S] /\ SumFunctionOnSet(f, S \ {Picked(S)}) = g[S \ {Picked(S)}]
    BY <1>1, <1>3, SumHere
  <1> QED
    BY <1>2, <1>4

LEMMA SumTyped ==
  ASSUME NEW f, NEW S, IsFiniteSet(S), \A x \in S : f[x] \in Int
  PROVE  /\ SumFunctionOnSet(f, S) \in Int
         /\ (\A x \in S : f[x] >= 0) => SumFunctionOnSet(f, S) >= 0
  <1> DEFINE sum(T) == SumFunctionOnSet(f, T)
             good(T) == sum(T) \in Int /\ ((\A x \in S : f[x] >= 0) => sum(T) >= 0)
             B == {T \in SUBSET S : ~ good(T)}
  <1>1. SUFFICES ASSUME B # {} PROVE FALSE
    OBVIOUS
  <1>2. PICK T \in B : \A V \in B : V \subseteq T => V = T
    <2>1. B \in SUBSET (SUBSET S)
      OBVIOUS
    <2> HIDE DEF B
    <2> QED
      BY <1>1, <2>1, LeastSet
  <1>3. T \in SUBSET S /\ ~ good(T) /\ IsFiniteSet(T)
    BY <1>2, FS_Subset
  <1>4. T # {}
    BY <1>3, SumEmpty
  <1>5. Picked(T) \in T
    BY <1>4, PickedIn
  <1>6. good(T \ {Picked(T)})
    BY <1>2, <1>3, <1>5
  <1>7. sum(T) = f[Picked(T)] + sum(T \ {Picked(T)})
    BY <1>3, <1>4, SumPicked
  <1>8. f[Picked(T)] \in Int
    BY <1>3, <1>5
  <1> QED
    BY <1>3, <1>5, <1>6, <1>7, <1>8

(* Any member may be taken out first.                                      *)
LEMMA SumTakeOut ==
  ASSUME NEW f, NEW S, IsFiniteSet(S), \A x \in S : f[x] \in Int, NEW x \in S
  PROVE  SumFunctionOnSet(f, S) = f[x] + SumFunctionOnSet(f, S \ {x})
  <1> DEFINE sum(T) == SumFunctionOnSet(f, T)
             B == {T \in SUBSET S : ~ \A y \in T : sum(T) = f[y] + sum(T \ {y})}
  <1>1. SUFFICES ASSUME B # {} PROVE FALSE
    OBVIOUS
  <1>2. PICK T \in B : \A V \in B : V \subseteq T => V = T
    <2>1. B \in SUBSET (SUBSET S)
      OBVIOUS
    <2> HIDE DEF B
    <2> QED
      BY <1>1, <2>1, LeastSet
  <1>3. PICK y \in T : sum(T) # f[y] + sum(T \ {y})
    BY <1>2
  <1>4. T \in SUBSET S /\ IsFiniteSet(T) /\ T # {}
    BY <1>2, <1>3, FS_Subset
  <1> DEFINE c == Picked(T)
             R == T \ {c, y}
  <1>5. c \in T /\ c # y /\ sum(T) = f[c] + sum(T \ {c})
    BY <1>3, <1>4, PickedIn, SumPicked
  <1>6. /\ y \in T \ {c} /\ T \ {c} \in SUBSET S /\ T \ {c} # T
        /\ c \in T \ {y} /\ T \ {y} \in SUBSET S /\ T \ {y} # T
        /\ (T \ {c}) \ {y} = R /\ (T \ {y}) \ {c} = R
    BY <1>3, <1>4, <1>5
  <1>7. sum(T \ {c}) = f[y] + sum(R)
    BY <1>2, <1>6
  <1>8. sum(T \ {y}) = f[c] + sum(R)
    BY <1>2, <1>6
  <1>9. f[c] \in Int /\ f[y] \in Int /\ sum(R) \in Int
    <2>1. IsFiniteSet(R) /\ R \in SUBSET S
      BY <1>4, FS_Subset
    <2> QED
      BY <1>4, <1>5, <1>6, <2>1, SumTyped
  <1> QED
    BY <1>3, <1>5, <1>7, <1>8, <1>9

LEMMA SumMonotone ==
  ASSUME NEW f, NEW g, NEW S, IsFiniteSet(S),
         \A x \in S : f[x] \in Int /\ g[x] \in Int /\ f[x] <= g[x]
  PROVE  SumFunctionOnSet(f, S) <= SumFunctionOnSet(g, S)
  <1> DEFINE sf(T) == SumFunctionOnSet(f, T)
             sg(T) == SumFunctionOnSet(g, T)
             B == {T \in SUBSET S : ~ sf(T) <= sg(T)}
  <1>1. SUFFICES ASSUME B # {} PROVE FALSE
    OBVIOUS
  <1>2. PICK T \in B : \A V \in B : V \subseteq T => V = T
    <2>1. B \in SUBSET (SUBSET S)
      OBVIOUS
    <2> HIDE DEF B
    <2> QED
      BY <1>1, <2>1, LeastSet
  <1>3. T \in SUBSET S /\ IsFiniteSet(T) /\ ~ sf(T) <= sg(T)
    BY <1>2, FS_Subset
  <1>4. T # {}
    BY <1>3, SumEmpty
  <1> DEFINE R == T \ {Picked(T)}
  <1>5. Picked(T) \in T /\ R \in SUBSET S /\ R # T /\ IsFiniteSet(R)
    BY <1>3, <1>4, PickedIn, FS_Subset
  <1>6. sf(T) = f[Picked(T)] + sf(R) /\ sg(T) = g[Picked(T)] + sg(R)
    BY <1>3, <1>4, SumPicked
  <1>7. sf(R) <= sg(R)
    BY <1>2, <1>5
  <1>8. sf(R) \in Int /\ sg(R) \in Int
    BY <1>3, <1>5, SumTyped
  <1>9. f[Picked(T)] \in Int /\ g[Picked(T)] \in Int /\ f[Picked(T)] <= g[Picked(T)]
    BY <1>3, <1>5
  <1> HIDE DEF R, sf, sg
  <1> QED
    BY <1>3, <1>6, <1>7, <1>8, <1>9

LEMMA SumSame ==
  ASSUME NEW f, NEW g, NEW S, IsFiniteSet(S), \A x \in S : f[x] \in Int /\ f[x] = g[x]
  PROVE  SumFunctionOnSet(f, S) = SumFunctionOnSet(g, S)
  <1>1. SumFunctionOnSet(f, S) \in Int /\ SumFunctionOnSet(g, S) \in Int
    BY SumTyped
  <1>2. SumFunctionOnSet(f, S) <= SumFunctionOnSet(g, S)
    BY SumMonotone
  <1>3. SumFunctionOnSet(g, S) <= SumFunctionOnSet(f, S)
    BY SumMonotone
  <1> QED
    BY <1>1, <1>2, <1>3

(* A change at one member.                                                 *)
LEMMA SumMoved ==
  ASSUME NEW f, NEW g, NEW S, IsFiniteSet(S), NEW x \in S,
         \A y \in S : f[y] \in Int /\ g[y] \in Int /\ (y # x => g[y] = f[y])
  PROVE  SumFunctionOnSet(g, S) = SumFunctionOnSet(f, S) - f[x] + g[x]
  <1>1. IsFiniteSet(S \ {x}) /\ \A y \in S \ {x} : f[y] \in Int /\ f[y] = g[y]
    BY FS_Subset
  <1>2. SumFunctionOnSet(f, S \ {x}) = SumFunctionOnSet(g, S \ {x})
    BY <1>1, SumSame
  <1>3. SumFunctionOnSet(f, S \ {x}) \in Int
    BY <1>1, SumTyped
  <1>4. /\ SumFunctionOnSet(f, S) = f[x] + SumFunctionOnSet(f, S \ {x})
        /\ SumFunctionOnSet(g, S) = g[x] + SumFunctionOnSet(g, S \ {x})
    BY SumTakeOut
  <1> QED
    BY <1>2, <1>3, <1>4

LEMMA SumScaled ==
  ASSUME NEW f, NEW g, NEW S, IsFiniteSet(S), NEW k \in Int,
         \A y \in S : f[y] \in Int /\ g[y] = k * f[y]
  PROVE  SumFunctionOnSet(g, S) = k * SumFunctionOnSet(f, S)
  <1> DEFINE sf(T) == SumFunctionOnSet(f, T)
             sg(T) == SumFunctionOnSet(g, T)
             B == {T \in SUBSET S : sg(T) # k * sf(T)}
  <1>1. SUFFICES ASSUME B # {} PROVE FALSE
    OBVIOUS
  <1>2. PICK T \in B : \A V \in B : V \subseteq T => V = T
    <2>1. B \in SUBSET (SUBSET S)
      OBVIOUS
    <2> HIDE DEF B
    <2> QED
      BY <1>1, <2>1, LeastSet
  <1>3. T \in SUBSET S /\ IsFiniteSet(T) /\ sg(T) # k * sf(T)
    BY <1>2, FS_Subset
  <1>4. T # {}
    <2>1. T = {} => sg(T) = 0 /\ sf(T) = 0
      BY SumEmpty
    <2>2. k * 0 = 0
      OBVIOUS
    <2> HIDE DEF sf, sg
    <2> QED
      BY <1>3, <2>1, <2>2
  <1> DEFINE R == T \ {Picked(T)}
  <1>5. Picked(T) \in T /\ R \in SUBSET S /\ R # T /\ IsFiniteSet(R)
    BY <1>3, <1>4, PickedIn, FS_Subset
  <1>6. sf(T) = f[Picked(T)] + sf(R) /\ sg(T) = g[Picked(T)] + sg(R)
    BY <1>3, <1>4, SumPicked
  <1>7. sg(R) = k * sf(R)
    BY <1>2, <1>5
  <1>8. sf(R) \in Int
    BY <1>3, <1>5, SumTyped
  <1>9. f[Picked(T)] \in Int /\ g[Picked(T)] = k * f[Picked(T)]
    BY <1>3, <1>5
  <1> HIDE DEF R, sf, sg
  <1>10. k * (f[Picked(T)] + sf(R)) = k * f[Picked(T)] + k * sf(R)
    BY <1>8, <1>9
  <1> QED
    BY <1>3, <1>6, <1>7, <1>9, <1>10

(* No more members have something than they have together.                 *)
LEMMA SumCovers ==
  ASSUME NEW f, NEW S, IsFiniteSet(S), \A x \in S : f[x] \in Nat
  PROVE  Cardinality({x \in S : f[x] > 0}) <= SumFunctionOnSet(f, S)
  <1> DEFINE sum(T) == SumFunctionOnSet(f, T)
             some(T) == {x \in T : f[x] > 0}
             B == {T \in SUBSET S : ~ Cardinality(some(T)) <= sum(T)}
  <1>1. SUFFICES ASSUME B # {} PROVE FALSE
    OBVIOUS
  <1>2. PICK T \in B : \A V \in B : V \subseteq T => V = T
    <2>1. B \in SUBSET (SUBSET S)
      OBVIOUS
    <2> HIDE DEF B
    <2> QED
      BY <1>1, <2>1, LeastSet
  <1>3. T \in SUBSET S /\ IsFiniteSet(T) /\ ~ Cardinality(some(T)) <= sum(T)
    BY <1>2, FS_Subset
  <1>4. T # {}
    BY <1>3, SumEmpty, FS_EmptySet
  <1> DEFINE c == Picked(T)
             R == T \ {c}
  <1>5. c \in T /\ R \in SUBSET S /\ R # T /\ IsFiniteSet(R)
    BY <1>3, <1>4, PickedIn, FS_Subset
  <1>6. sum(T) = f[c] + sum(R) /\ sum(R) \in Int /\ f[c] \in Nat
    BY <1>3, <1>4, <1>5, SumPicked, SumTyped
  <1>7. Cardinality(some(R)) <= sum(R)
    BY <1>2, <1>5
  <1>8. IsFiniteSet(some(R)) /\ Cardinality(some(R)) \in Nat
    <2>1. some(R) \in SUBSET R
      OBVIOUS
    <2> HIDE DEF some, R
    <2> QED
      BY <1>5, <2>1, FS_Subset, FS_CardinalityType
  <1>9. f[c] > 0 => some(T) = some(R) \cup {c}
    BY <1>5
  <1>10. ~ f[c] > 0 => some(T) = some(R)
    BY <1>5
  <1>11. c \notin some(R)
    OBVIOUS
  <1> HIDE DEF some, sum, c, R
  <1>12. f[c] > 0 => Cardinality(some(T)) = Cardinality(some(R)) + 1
    BY <1>8, <1>9, <1>11, FS_AddElement
  <1> QED
    BY <1>3, <1>6, <1>7, <1>8, <1>10, <1>12

-----------------------------------------------------------------------------
(* The largest and the smallest of finitely many integers.                 *)

LEMMA LargestExists ==
  ASSUME NEW S, IsFiniteSet(S), S # {}, \A x \in S : x \in Int
  PROVE  \E x \in S : \A y \in S : y <= x
  <1> DEFINE B == {T \in SUBSET S : T # {} /\ ~ \E x \in T : \A y \in T : y <= x}
  <1>1. SUFFICES ASSUME B # {} PROVE FALSE
    OBVIOUS
  <1>2. PICK T \in B : \A V \in B : V \subseteq T => V = T
    <2>1. B \in SUBSET (SUBSET S)
      OBVIOUS
    <2>2. B # {}
      BY <1>1
    <2> HIDE DEF B
    <2> QED
      BY <2>1, <2>2, LeastSet
  <1>3. (\A x \in T : x \in Int) /\ T # {} /\ ~ \E x \in T : \A y \in T : y <= x
    BY <1>2
  <1>4. PICK z : z \in T
    BY <1>3
  <1>5. T \ {z} \notin B /\ T \ {z} \in SUBSET S
    BY <1>2, <1>4
  <1>6. CASE T \ {z} = {}
    BY <1>3, <1>4, <1>6
  <1>7. CASE T \ {z} # {}
    <2>1. PICK x \in T \ {z} : \A y \in T \ {z} : y <= x
      BY <1>5, <1>7
    <2>2. z <= x \/ x <= z
      BY <1>3, <1>4, <2>1
    <2> QED
      BY <1>3, <1>4, <2>1, <2>2
  <1> QED
    BY <1>6, <1>7

LEMMA ImageFinite ==
  ASSUME NEW f, NEW S, IsFiniteSet(S)
  PROVE  IsFiniteSet({f[x] : x \in S})
  <1> DEFINE T == {f[x] : x \in S}
             g == [x \in S |-> f[x]]
  <1>1. g \in Surjection(S, T)
    BY DEF Surjection
  <1> HIDE DEF T, g
  <1>2. IsFiniteSet(T)
    BY <1>1, FS_Surjection
  <1> QED
    BY <1>2 DEF T

LEMMA SmallestExists ==
  ASSUME NEW S, IsFiniteSet(S), S # {}, \A x \in S : x \in Int
  PROVE  \E x \in S : \A y \in S : x <= y
  <1> DEFINE N == {-x : x \in S}
  <1>0. N # {} /\ \A x \in N : x \in Int
    OBVIOUS
  <1>1. IsFiniteSet(N)
    <2> DEFINE f == [x \in S |-> -x]
    <2>1. f \in Surjection(S, N)
      BY DEF Surjection
    <2>2. IsFiniteSet(N)
      <3> HIDE DEF N, f
      <3> QED
        BY <2>1, FS_Surjection
    <2> QED
      BY <2>2
  <1>2. PICK n \in N : \A m \in N : m <= n
    <2> HIDE DEF N
    <2> QED
      BY <1>0, <1>1, LargestExists
  <1>3. PICK x \in S : n = -x
    OBVIOUS
  <1>4. \A y \in S : x <= y
    BY <1>2, <1>3
  <1> QED
    BY <1>4

-----------------------------------------------------------------------------
(* Places.  The place of a member in a strict total order is the number of *)
(* the members before it.                                                  *)

StrictOrder(R, S) ==
  /\ \A x \in S : <<x, x>> \notin R
  /\ \A x, y, z \in S : <<x, y>> \in R /\ <<y, z>> \in R => <<x, z>> \in R
  /\ \A x, y \in S : x = y \/ <<x, y>> \in R \/ <<y, x>> \in R

Place(x, R, S) == Cardinality({y \in S : <<y, x>> \in R})

LEMMA PlacesDiffer ==
  ASSUME NEW S, IsFiniteSet(S), NEW R, StrictOrder(R, S), NEW x \in S
  PROVE  /\ Place(x, R, S) \in 0..(Cardinality(S) - 1)
         /\ \A y \in S : <<y, x>> \in R => Place(y, R, S) < Place(x, R, S)
  <1> DEFINE P(y) == {z \in S : <<z, y>> \in R}
  <1>1. ASSUME NEW y \in S
        PROVE  IsFiniteSet(P(y)) /\ Cardinality(P(y)) \in Nat /\ Place(y, R, S) = Cardinality(P(y))
    BY FS_Subset, FS_CardinalityType DEF Place
  <1>2. P(x) \in SUBSET S /\ P(x) # S
    BY DEF StrictOrder
  <1>3. Cardinality(P(x)) < Cardinality(S) /\ Cardinality(S) \in Nat
    <2>1. Cardinality(S) \in Nat /\ Cardinality(P(x)) \in Nat
      BY <1>1, FS_CardinalityType
    <2>2. Cardinality(P(x)) <= Cardinality(S) /\ Cardinality(S) # Cardinality(P(x))
      <3> HIDE DEF P
      <3> QED
        BY <1>2, FS_Subset
    <2> QED
      BY <2>1, <2>2
  <1>4. ASSUME NEW y \in S, <<y, x>> \in R
        PROVE  Cardinality(P(y)) < Cardinality(P(x))
    <2>1. P(y) \in SUBSET P(x) /\ y \in P(x) /\ y \notin P(y)
      BY <1>4 DEF StrictOrder
    <2>2. P(y) # P(x)
      BY <2>1
    <2> HIDE DEF P
    <2> QED
      BY <1>1, <2>1, <2>2, FS_Subset
  <1>5. Place(x, R, S) = Cardinality(P(x)) /\ Cardinality(P(x)) \in Nat
    BY <1>1
  <1> HIDE DEF P
  <1> QED
    BY <1>1, <1>3, <1>4, <1>5

(* So the first m places are held by m members, or by all there are.       *)
LEMMA FirstPlaces ==
  ASSUME NEW S, IsFiniteSet(S), NEW R, StrictOrder(R, S), NEW m \in Nat
  PROVE  LET first == {x \in S : Place(x, R, S) < m}
         IN  /\ IsFiniteSet(first)
             /\ Cardinality(first) \in Nat
             /\ Cardinality(first) <= m
             /\ m <= Cardinality(S) => Cardinality(first) = m
  <1> DEFINE n == Cardinality(S)
             first == {x \in S : Place(x, R, S) < m}
             at == [x \in S |-> Place(x, R, S)]
             in == [x \in first |-> Place(x, R, S)]
  <1>1. n \in Nat /\ IsFiniteSet(0..(n-1)) /\ Cardinality(0..(n-1)) = n
    <2>1. n \in Nat
      BY FS_CardinalityType
    <2> HIDE DEF n
    <2> QED
      BY <2>1, FS_Interval
  <1>2. IsFiniteSet(0..(m-1)) /\ Cardinality(0..(m-1)) = m
    BY FS_Interval
  <1>3. \A x, y \in S : Place(x, R, S) = Place(y, R, S) => x = y
    <2> SUFFICES ASSUME NEW x \in S, NEW y \in S, Place(x, R, S) = Place(y, R, S), x # y
                 PROVE  FALSE
      OBVIOUS
    <2>1. <<x, y>> \in R \/ <<y, x>> \in R
      BY DEF StrictOrder
    <2>2. Place(x, R, S) \in Nat /\ Place(y, R, S) \in Nat
      BY <1>1, PlacesDiffer
    <2> QED
      BY <2>1, <2>2, PlacesDiffer
  <1>4. at \in Injection(S, 0..(n-1))
    <2>1. at \in [S -> 0..(n-1)]
      BY PlacesDiffer
    <2> QED
      BY <1>3, <2>1 DEF Injection, IsInjective
  <1>5. at \in Surjection(S, 0..(n-1))
    <2> HIDE DEF at
    <2> QED
      BY <1>1, <1>4, FS_Injection
  <1>6. in \in Injection(first, 0..(m-1))
    <2>1. in \in [first -> 0..(m-1)]
      <3> SUFFICES ASSUME NEW x \in first
                   PROVE  Place(x, R, S) \in 0..(m-1)
        OBVIOUS
      <3> QED
        BY <1>1, PlacesDiffer
    <2> QED
      BY <1>3, <2>1 DEF Injection, IsInjective
  <1>7. /\ IsFiniteSet(first)
        /\ Cardinality(first) <= m
        /\ in \in Surjection(first, 0..(m-1)) => Cardinality(first) = m
    <2> HIDE DEF first, in
    <2> QED
      BY <1>2, <1>6, FS_Injection
  <1>8. ASSUME m <= n
        PROVE  in \in Surjection(first, 0..(m-1))
    <2>1. ASSUME NEW i \in 0..(m-1)
          PROVE  \E x \in first : in[x] = i
      <3>1. i \in 0..(n-1)
        BY <1>1, <1>8
      <3>2. PICK x \in S : at[x] = i
        BY <1>5, <3>1 DEF Surjection
      <3> QED
        BY <3>2
    <2>2. in \in [first -> 0..(m-1)]
      BY <1>6 DEF Injection
    <2> HIDE DEF first, in
    <2> QED
      BY <2>1, <2>2 DEF Surjection
  <1>9. Cardinality(first) \in Nat
    BY <1>7, FS_CardinalityType
  <1> QED
    BY <1>7, <1>8, <1>9

-----------------------------------------------------------------------------
(* What the tables say of each other.                                      *)

FeedTyped ==
  /\ profile \in [Specs -> Profiles \cup {None}]
  /\ rating \in [Specs -> [Topics -> Ratings \cup {None}]]
  /\ answers \in [Specs -> [Questions -> [at: Int \cup {None}, score: (0..2) \cup {None}, count: Nat]]]
  /\ due \in [Questions -> Int \cup {None}]
  /\ DOMAIN plan = Specs
  /\ \A s \in Specs : plan[s] # None =>
       \A d \in DOMAIN plan[s].days : plan[s].days[d].new_questions \in Nat
  /\ day \in Nat
  /\ unordered \subseteq Questions

(* The log and the reviews.                                                *)
ReviewsFollowLog ==
  \A q \in Questions :
    /\ due[q] # None <=> \E s \in Specs : answers[s][q].count > 0
    /\ \A s \in Specs : answers[s][q].count > 0 <=> answers[s][q].at # None
    /\ q \notin unordered =>
         \A s \in Specs : answers[s][q].at # None => answers[s][q].at < due[q]

(* The counters.                                                           *)
CountOf(s) == IF profile[s] = None THEN 0 ELSE profile[s].count
Rated(s)   == {t \in Topics : rating[s][t] # None}
RatingsCount(s) == SumFunction([t \in Rated(s) |-> rating[s][t].count])

CountersAgree == \A s \in Specs : CountOf(s) = AnswersOf(s) /\ CountOf(s) = RatingsCount(s)

FeedInv == FeedTyped /\ ReviewsFollowLog /\ CountersAgree

-----------------------------------------------------------------------------
(* Operators.                                                              *)

LEMMA MaxOfTwo ==
  ASSUME NEW a \in Int, NEW b \in Int
  PROVE  Max({a, b}) = IF a >= b THEN a ELSE b
  <1>1. \E x \in {a, b} : \A y \in {a, b} : x >= y
    OBVIOUS
  <1>2. Max({a, b}) \in {a, b} /\ \A y \in {a, b} : Max({a, b}) >= y
    BY <1>1 DEF Max
  <1> QED
    BY <1>2

LEMMA MinOfTwo ==
  ASSUME NEW a \in Int, NEW b \in Int
  PROVE  Min({a, b}) = IF a <= b THEN a ELSE b
  <1>1. \E x \in {a, b} : \A y \in {a, b} : x =< y
    OBVIOUS
  <1>2. Min({a, b}) \in {a, b} /\ \A y \in {a, b} : Min({a, b}) =< y
    BY <1>1 DEF Min
  <1> QED
    BY <1>2

LEMMA ResolvedDay ==
  ASSUME FeedAssumption, FeedTyped, NEW claimed \in (0..day + 1) \cup {None}
  PROVE  _resolve_answered_at(claimed) \in Int
  <1>1. day \in Int /\ day - MaxBackdating \in Int
    BY DEF FeedTyped, FeedAssumption
  <1>2. CASE claimed = None
    BY <1>1, <1>2 DEF _resolve_answered_at
  <1>3. CASE claimed # None
    <2>1. claimed \in Int
      BY <1>1, <1>3
    <2> QED
      BY <1>1, <2>1, MaxOfTwo DEF _resolve_answered_at
  <1> QED
    BY <1>2, <1>3

LEMMA LastAtIsLast ==
  ASSUME FeedAssumption, FeedTyped, NEW q \in Questions
  PROVE  /\ LastAt(q) \in Int
         /\ \A s \in Specs : answers[s][q].at # None => answers[s][q].at <= LastAt(q)
         /\ LastAt(q) # -1 => \E s \in Specs : answers[s][q].at # None /\ answers[s][q].at = LastAt(q)
  <1> DEFINE f == [s \in Specs |-> answers[s][q].at]
             A == {-1} \cup ({answers[s][q].at : s \in Specs} \ {None})
  <1>1. IsFiniteSet(A)
    <2>1. IsFiniteSet({f[s] : s \in Specs})
      BY ImageFinite DEF FeedAssumption
    <2>2. {f[s] : s \in Specs} = {answers[s][q].at : s \in Specs}
      OBVIOUS
    <2>3. IsFiniteSet({answers[s][q].at : s \in Specs} \ {None})
      BY <2>1, <2>2, FS_Difference
    <2> QED
      BY <2>3, FS_Singleton, FS_Union
  <1>2. (\A x \in A : x \in Int) /\ A # {}
    BY DEF FeedTyped
  <1>3. PICK x \in A : \A y \in A : y <= x
    <2> HIDE DEF A
    <2> QED
      BY <1>1, <1>2, LargestExists
  <1>4. \E m \in A : \A y \in A : m >= y
    BY <1>2, <1>3
  <1>5. Max(A) \in A /\ \A y \in A : Max(A) >= y
    <2> HIDE DEF A
    <2> QED
      BY <1>4 DEF Max
  <1>6. LastAt(q) = Max(A)
    BY DEF LastAt
  <1> QED
    BY <1>2, <1>5, <1>6

-----------------------------------------------------------------------------
(* The tables.                                                             *)

LEMMA SumOfZeros ==
  ASSUME NEW S, IsFiniteSet(S)
  PROVE  SumFunction([x \in S |-> 0]) = 0
  <1> DEFINE f == [x \in S |-> 0]
  <1>1. \A x \in S : f[x] \in Int /\ f[x] = 0 * f[x]
    OBVIOUS
  <1>2. SumFunctionOnSet(f, S) = 0 * SumFunctionOnSet(f, S) /\ SumFunctionOnSet(f, S) \in Int
    <2>1. 0 \in Int /\ (\A x \in S : f[x] \in Int)
      BY <1>1
    <2> HIDE DEF f
    <2> QED
      BY <1>1, <2>1, SumScaled, SumTyped
  <1> QED
    BY <1>2 DEF SumFunction

LEMMA TopicsFinite ==
  ASSUME FeedAssumption
  PROVE  IsFiniteSet(Topics)
  <1> DEFINE f == [q \in Questions |-> Bank[q].topic]
  <1>1. IsFiniteSet({f[q] : q \in Questions})
    BY ImageFinite DEF FeedAssumption
  <1>2. {f[q] : q \in Questions} = Topics
    BY DEF Topics
  <1> QED
    BY <1>1, <1>2

LEMMA FeedStarts == FeedAssumption /\ Init => FeedInv
  <1> SUFFICES ASSUME FeedAssumption, Init
               PROVE  FeedInv
    OBVIOUS
  <1>1. FeedTyped
    BY DEF Init, FeedTyped, NoAnswers
  <1>2. ReviewsFollowLog
    BY DEF Init, ReviewsFollowLog, NoAnswers
  <1>3. ASSUME NEW s \in Specs
        PROVE  CountOf(s) = 0 /\ AnswersOf(s) = 0 /\ RatingsCount(s) = 0
    <2>1. CountOf(s) = 0
      BY DEF Init, CountOf
    <2>2. [q \in Questions |-> answers[s][q].count] = [q \in Questions |-> 0]
      BY DEF Init, NoAnswers
    <2>3. AnswersOf(s) = 0
      BY <2>2, SumOfZeros DEF AnswersOf, FeedAssumption
    <2>4. Rated(s) = {}
      BY DEF Init, Rated
    <2>5. RatingsCount(s) = 0
      <3>1. DOMAIN [t \in Rated(s) |-> rating[s][t].count] = {}
        BY <2>4
      <3> QED
        BY <3>1, SumEmpty DEF RatingsCount, SumFunction
    <2> QED
      BY <2>1, <2>3, <2>5
  <1> QED
    BY <1>1, <1>2, <1>3 DEF FeedInv, CountersAgree

LEMMA SubmitChanges ==
  ASSUME FeedAssumption, FeedTyped, NEW s \in Specs, NEW q \in Questions, NEW quality \in Qualities,
         NEW claimed \in (0..day + 1) \cup {None}, NEW move \in Moves, NEW interval \in Intervals,
         submit_answer(s, q, quality, claimed, move, interval)
  PROVE  LET at == _resolve_answered_at(claimed)
             t  == Bank[q].topic
             later == answers[s][q].at = None \/ answers[s][q].at <= at
             old == answers[s][q]
         IN  /\ at \in Int /\ t \in Topics
             /\ \A r \in Specs : \A p \in Questions :
                  r # s \/ p # q => answers'[r][p] = answers[r][p]
             /\ answers'[s][q].at = IF later THEN at ELSE old.at
             /\ answers'[s][q].count = old.count + 1
             /\ \A r \in Specs : \A u \in Topics : r # s \/ u # t => rating'[r][u] = rating[r][u]
             /\ rating'[s][t] # None
             /\ rating'[s][t].count = IF rating[s][t] = None THEN 1 ELSE rating[s][t].count + 1
             /\ \A r \in Specs : r # s => profile'[r] = profile[r]
             /\ profile[s] # None /\ profile'[s] # None /\ profile'[s].count = profile[s].count + 1
             /\ \A p \in Questions : p # q => due'[p] = due[p]
             /\ due'[q] \in Int /\ due'[q] > at
             /\ unordered' = IF at < LastAt(q) THEN unordered \cup {q} ELSE unordered
             /\ FeedTyped'
  <1> DEFINE at == _resolve_answered_at(claimed)
             t  == Bank[q].topic
             later == answers[s][q].at = None \/ answers[s][q].at <= at
             old == answers[s][q]
             score == score_from_quality(quality)
             wait == IF quality < 3 THEN 1 ELSE interval
             new == [at |-> IF later THEN at ELSE old.at,
                     score |-> IF later THEN score ELSE old.score, count |-> old.count + 1]
             row == [rating |-> RatingOf(s, t) + move,
                     count |-> IF rating[s][t] = None THEN 1 ELSE rating[s][t].count + 1]
             told == [profile[s] EXCEPT !.count = @ + 1]
  <1>1. at \in Int
    BY ResolvedDay
  <1>2. /\ score \in 0..2 /\ t \in Topics /\ move \in Int /\ wait \in Nat \ {0}
    BY DEF score_from_quality, Topics, FeedAssumption
  <1>3. /\ old \in [at: Int \cup {None}, score: (0..2) \cup {None}, count: Nat]
        /\ rating[s][t] \in Ratings \cup {None} /\ profile[s] \in Profiles \cup {None}
    BY <1>2 DEF FeedTyped
  <1>4. /\ profile[s] # None
        /\ answers' = [answers EXCEPT ![s] = [answers[s] EXCEPT ![q] = new]]
        /\ rating' = [rating EXCEPT ![s] = [rating[s] EXCEPT ![t] = row]]
        /\ profile' = [profile EXCEPT ![s] = told]
        /\ due' = [due EXCEPT ![q] = at + wait]
        /\ unordered' = IF at < LastAt(q) THEN unordered \cup {q} ELSE unordered
        /\ UNCHANGED <<plan, day>>
    BY DEF submit_answer
  <1>5. new \in [at: Int \cup {None}, score: (0..2) \cup {None}, count: Nat]
    BY <1>1, <1>2, <1>3
  <1>6. row \in Ratings /\ row # None
    BY <1>2, <1>3 DEF Ratings, RatingOf, StartRating, FeedAssumption
  <1>7. told \in Profiles /\ told # None /\ told.count = profile[s].count + 1
    BY <1>3, <1>4 DEF Profiles, FeedAssumption
  <1>8. at + wait \in Int /\ at + wait > at
    BY <1>1, <1>2
  <1> HIDE DEF at, t, later, score, wait, new, row, told
  <1>9. /\ answers' \in [Specs -> [Questions -> [at: Int \cup {None}, score: (0..2) \cup {None}, count: Nat]]]
        /\ answers'[s][q] = new
        /\ \A r \in Specs : \A p \in Questions : r # s \/ p # q => answers'[r][p] = answers[r][p]
    BY <1>4, <1>5 DEF FeedTyped
  <1>10. /\ rating' \in [Specs -> [Topics -> Ratings \cup {None}]]
         /\ rating'[s][t] = row
         /\ \A r \in Specs : \A u \in Topics : r # s \/ u # t => rating'[r][u] = rating[r][u]
    BY <1>2, <1>4, <1>6 DEF FeedTyped
  <1>11. /\ profile' \in [Specs -> Profiles \cup {None}] /\ profile'[s] = told
         /\ \A r \in Specs : r # s => profile'[r] = profile[r]
    BY <1>4, <1>7 DEF FeedTyped
  <1>12. /\ due' \in [Questions -> Int \cup {None}] /\ due'[q] = at + wait
         /\ \A p \in Questions : p # q => due'[p] = due[p]
    BY <1>4, <1>8 DEF FeedTyped
  <1>13. FeedTyped'
    BY <1>4, <1>9, <1>10, <1>11, <1>12 DEF FeedTyped
  <1>14. /\ answers'[s][q].at = IF later THEN at ELSE old.at
         /\ answers'[s][q].count = old.count + 1
    BY <1>9 DEF new
  <1>15. /\ rating'[s][t] # None
         /\ rating'[s][t].count = IF rating[s][t] = None THEN 1 ELSE rating[s][t].count + 1
    BY <1>6, <1>10 DEF row
  <1>16. profile'[s] # None /\ profile'[s].count = profile[s].count + 1
    BY <1>7, <1>11
  <1>17. due'[q] \in Int /\ due'[q] > at
    BY <1>8, <1>12
  <1> HIDE DEF old
  <1> QED
    BY <1>1, <1>2, <1>4, <1>9, <1>10, <1>11, <1>12, <1>13, <1>14, <1>15, <1>16, <1>17
       DEF at, t, later, old

LEMMA SubmitKeepsReviews ==
  ASSUME FeedAssumption, FeedInv, NEW s \in Specs, NEW q \in Questions, NEW quality \in Qualities,
         NEW claimed \in (0..day + 1) \cup {None}, NEW move \in Moves, NEW interval \in Intervals,
         submit_answer(s, q, quality, claimed, move, interval)
  PROVE  ReviewsFollowLog'
  <1> DEFINE at == _resolve_answered_at(claimed)
             later == answers[s][q].at = None \/ answers[s][q].at <= at
  <1>0. FeedTyped
    BY DEF FeedInv
  <1>1. /\ at \in Int
        /\ \A r \in Specs : \A p \in Questions : r # s \/ p # q => answers'[r][p] = answers[r][p]
        /\ answers'[s][q].at = IF later THEN at ELSE answers[s][q].at
        /\ answers'[s][q].count = answers[s][q].count + 1
        /\ \A p \in Questions : p # q => due'[p] = due[p]
        /\ due'[q] \in Int /\ due'[q] > at
        /\ unordered' = IF at < LastAt(q) THEN unordered \cup {q} ELSE unordered
    BY <1>0, SubmitChanges
  <1>2. /\ None \notin Int
        /\ \A r \in Specs : \A p \in Questions :
             answers[r][p].at \in Int \cup {None} /\ answers[r][p].count \in Nat
    BY DEF FeedInv, FeedTyped, FeedAssumption
  <1> HIDE DEF at
  <1>3. ASSUME NEW p \in Questions, p # q
        PROVE  ReviewsFollowLog!(p)'
    <2>1. \A r \in Specs : answers'[r][p] = answers[r][p]
      BY <1>1, <1>3
    <2>2. p \in unordered' <=> p \in unordered
      BY <1>1, <1>3
    <2> QED
      BY <1>1, <1>3, <2>1, <2>2 DEF FeedInv, ReviewsFollowLog
  <1>4. answers'[s][q].count > 0 /\ answers'[s][q].at # None
    BY <1>1, <1>2
  <1>5. ASSUME NEW r \in Specs
        PROVE  answers'[r][q].count > 0 <=> answers'[r][q].at # None
    <2>1. CASE r = s
      BY <1>4, <2>1
    <2>2. CASE r # s
      BY <1>1, <2>2 DEF FeedInv, ReviewsFollowLog
    <2> QED
      BY <2>1, <2>2
  <1>6. ASSUME q \notin unordered', NEW r \in Specs, answers'[r][q].at # None
        PROVE  answers'[r][q].at < due'[q]
    <2>1. LastAt(q) \in Int /\ LastAt(q) <= at
      BY <1>1, <1>6, LastAtIsLast DEF FeedInv
    <2>2. answers[r][q].at # None => answers[r][q].at <= at
      <3>1. answers[r][q].at # None => answers[r][q].at <= LastAt(q)
        BY LastAtIsLast DEF FeedInv
      <3> QED
        BY <1>1, <1>2, <2>1, <3>1
    <2>3. answers'[r][q].at \in Int /\ answers'[r][q].at <= at
      <3>1. CASE r # s
        BY <1>1, <1>2, <1>6, <2>2, <3>1
      <3>2. CASE r = s
        BY <1>1, <1>2, <2>2, <3>2
      <3> QED
        BY <3>1, <3>2
    <2> QED
      BY <1>1, <2>3
  <1>7. due'[q] # None /\ \E r \in Specs : answers'[r][q].count > 0
    BY <1>1, <1>2, <1>4
  <1> QED
    BY <1>3, <1>5, <1>6, <1>7 DEF ReviewsFollowLog

LEMMA CountsTyped ==
  ASSUME FeedTyped, NEW s \in Specs, NEW q \in Questions
  PROVE  answers[s][q].count \in Nat /\ answers[s][q].at \in Int \cup {None}
  <1>1. answers[s] \in [Questions -> [at: Int \cup {None}, score: (0..2) \cup {None}, count: Nat]]
    BY DEF FeedTyped
  <1>2. answers[s][q] \in [at: Int \cup {None}, score: (0..2) \cup {None}, count: Nat]
    BY <1>1
  <1> QED
    BY <1>2

LEMMA SubmitKeepsCounters ==
  ASSUME FeedAssumption, FeedInv, NEW s \in Specs, NEW q \in Questions, NEW quality \in Qualities,
         NEW claimed \in (0..day + 1) \cup {None}, NEW move \in Moves, NEW interval \in Intervals,
         submit_answer(s, q, quality, claimed, move, interval)
  PROVE  CountersAgree'
  <1> DEFINE t == Bank[q].topic
             R == Rated(s)
  <1>0. FeedTyped
    BY DEF FeedInv
  <1>1. /\ t \in Topics
        /\ \A r \in Specs : \A p \in Questions : r # s \/ p # q => answers'[r][p] = answers[r][p]
        /\ answers'[s][q].count = answers[s][q].count + 1
        /\ \A r \in Specs : \A u \in Topics : r # s \/ u # t => rating'[r][u] = rating[r][u]
        /\ rating'[s][t] # None
        /\ rating'[s][t].count = IF rating[s][t] = None THEN 1 ELSE rating[s][t].count + 1
        /\ \A r \in Specs : r # s => profile'[r] = profile[r]
        /\ profile[s] # None /\ profile'[s] # None /\ profile'[s].count = profile[s].count + 1
    BY <1>0, SubmitChanges
  <1> HIDE DEF t
  <1>2. ASSUME NEW r \in Specs, r # s
        PROVE  CountersAgree!(r)'
    <2>1. CountOf(r)' = CountOf(r)
      BY <1>1, <1>2 DEF CountOf
    <2>2. AnswersOf(r)' = AnswersOf(r)
      <3>1. [p \in Questions |-> answers'[r][p].count] = [p \in Questions |-> answers[r][p].count]
        BY <1>1, <1>2
      <3> QED
        BY <3>1 DEF AnswersOf
    <2>3. RatingsCount(r)' = RatingsCount(r)
      <3>1. Rated(r)' = Rated(r)
        BY <1>1, <1>2 DEF Rated
      <3>2. [u \in Rated(r) |-> rating'[r][u].count] = [u \in Rated(r) |-> rating[r][u].count]
        BY <1>1, <1>2 DEF Rated
      <3> QED
        BY <3>1, <3>2 DEF RatingsCount
    <2> QED
      BY <2>1, <2>2, <2>3 DEF FeedInv, CountersAgree
  <1>3. CountOf(s) = profile[s].count /\ CountOf(s)' = CountOf(s) + 1
    BY <1>1 DEF CountOf
  <1>4. AnswersOf(s)' = AnswersOf(s) + 1
    <2> DEFINE f == [p \in Questions |-> answers[s][p].count]
               g == [p \in Questions |-> answers'[s][p].count]
    <2>1. \A p \in Questions : f[p] \in Int /\ g[p] \in Int /\ (p # q => g[p] = f[p])
      <3>1. \A p \in Questions : answers[s][p].count \in Nat
        BY CountsTyped DEF FeedInv
      <3>2. \A p \in Questions : p # q => answers'[s][p] = answers[s][p]
        BY <1>1
      <3> QED
        BY <1>1, <3>1, <3>2
    <2>2. g[q] = f[q] + 1 /\ f[q] \in Int
      BY <1>1, <2>1
    <2>3. AnswersOf(s) = SumFunctionOnSet(f, Questions) /\ AnswersOf(s)' = SumFunctionOnSet(g, Questions)
      BY DEF AnswersOf, SumFunction
    <2> HIDE DEF f, g
    <2>4. SumFunctionOnSet(g, Questions) = SumFunctionOnSet(f, Questions) - f[q] + g[q]
      BY <2>1, SumMoved DEF FeedAssumption
    <2>5. SumFunctionOnSet(f, Questions) \in Int
      BY <2>1, SumTyped DEF FeedAssumption
    <2> QED
      BY <2>2, <2>3, <2>4, <2>5
  <1>5. RatingsCount(s)' = RatingsCount(s) + 1
    <2> DEFINE f == [u \in Rated(s) |-> rating[s][u].count]
               g == [u \in Rated(s)' |-> rating'[s][u].count]
    <2>1. Rated(s)' = Rated(s) \cup {t} /\ IsFiniteSet(Rated(s)) /\ IsFiniteSet(Rated(s)')
      <3>1. Rated(s)' = Rated(s) \cup {t}
        BY <1>1 DEF Rated
      <3>2. Rated(s) \in SUBSET Topics /\ Rated(s)' \in SUBSET Topics
        BY DEF Rated
      <3> QED
        BY <3>1, <3>2, TopicsFinite, FS_Subset
    <2>2. ASSUME NEW u \in Rated(s)
          PROVE  f[u] \in Int /\ rating[s][u].count \in Nat
      BY DEF FeedInv, FeedTyped, Rated, Ratings
    <2>3. ASSUME NEW u \in Rated(s)'
          PROVE  g[u] \in Int /\ (u # t => u \in Rated(s) /\ g[u] = f[u])
      <3>1. u \in Topics /\ g[u] = rating'[s][u].count
        BY <2>3 DEF Rated
      <3>2. CASE u # t
        BY <1>1, <2>1, <2>2, <3>1, <3>2
      <3>3. CASE u = t
        <4>1. rating[s][t] # None => rating[s][t].count \in Nat
          BY <1>1, <2>2 DEF Rated
        <4> QED
          BY <1>1, <3>1, <3>3, <4>1
      <3> QED
        BY <3>2, <3>3
    <2>4. RatingsCount(s) = SumFunctionOnSet(f, Rated(s)) /\ RatingsCount(s)' = SumFunctionOnSet(g, Rated(s)')
      BY DEF RatingsCount, SumFunction
    <2>5. SumFunctionOnSet(f, Rated(s)) \in Int
      <3> HIDE DEF f
      <3> QED
        BY <2>1, <2>2, SumTyped
    <2>6. CASE rating[s][t] # None
      <3>1. t \in Rated(s) /\ Rated(s)' = Rated(s) /\ g[t] = f[t] + 1
        BY <1>1, <2>1, <2>2, <2>6 DEF Rated
      <3> HIDE DEF f, g
      <3>2. \A u \in Rated(s) : f[u] \in Int /\ g[u] \in Int /\ (u # t => g[u] = f[u])
        BY <2>2, <2>3, <3>1
      <3>3. SumFunctionOnSet(g, Rated(s)) = SumFunctionOnSet(f, Rated(s)) - f[t] + g[t]
        BY <2>1, <3>1, <3>2, SumMoved
      <3> QED
        BY <2>4, <2>5, <3>1, <3>2, <3>3
    <2>7. CASE rating[s][t] = None
      <3>1. t \notin Rated(s) /\ t \in Rated(s)' /\ Rated(s)' \ {t} = Rated(s) /\ g[t] = 1
        BY <1>1, <2>1, <2>7 DEF Rated
      <3> HIDE DEF f, g
      <3>2. SumFunctionOnSet(g, Rated(s)') = g[t] + SumFunctionOnSet(g, Rated(s))
        BY <2>1, <2>3, <3>1, SumTakeOut
      <3>3. SumFunctionOnSet(g, Rated(s)) = SumFunctionOnSet(f, Rated(s))
        <4>1. \A u \in Rated(s) : f[u] \in Int /\ f[u] = g[u]
          BY <2>1, <2>2, <2>3, <3>1
        <4> QED
          BY <2>1, <4>1, SumSame
      <3> QED
        BY <2>4, <2>5, <3>1, <3>2, <3>3
    <2> QED
      BY <2>6, <2>7
  <1>6. CountersAgree!(s)'
    BY <1>3, <1>4, <1>5 DEF FeedInv, CountersAgree
  <1> QED
    BY <1>2, <1>6 DEF CountersAgree

LEMMA CreateKeeps ==
  ASSUME FeedAssumption, FeedInv, NEW s \in Specs, NEW deadline \in Deadlines, create(s, deadline)
  PROVE  FeedInv'
  <1> DEFINE made == build_plan(Ranked(s, profile[s].target), plan_days(day, day + deadline))
             p == [target |-> profile[s].target, days |-> made]
  <1>1. plan' = [plan EXCEPT ![s] = p] /\ UNCHANGED <<profile, rating, answers, due, day, unordered>>
    BY DEF create
  <1>2. \A d \in DOMAIN made : made[d].new_questions \in Nat
    BY DEF build_plan, ReviewDay, FeedAssumption
  <1>3. p.days = made
    OBVIOUS
  <1> HIDE DEF made, p
  <1>4. DOMAIN plan' = Specs /\ \A r \in Specs : plan'[r] = IF r = s THEN p ELSE plan[r]
    BY <1>1 DEF FeedInv, FeedTyped
  <1>5. FeedTyped'
    BY <1>1, <1>2, <1>3, <1>4 DEF FeedInv, FeedTyped
  <1> QED
    BY <1>1, <1>5 DEF FeedInv, ReviewsFollowLog, CountersAgree, CountOf, AnswersOf, RatingsCount, Rated

LEMMA SetKeeps ==
  ASSUME FeedAssumption, FeedInv, NEW s \in Specs, NEW target \in Aims, set_specialization(s, target)
  PROVE  FeedInv'
  <1> DEFINE p == [target |-> target, count |-> CountOf(s)]
  <1>1. profile' = [profile EXCEPT ![s] = p] /\ UNCHANGED <<rating, answers, due, plan, day, unordered>>
    BY DEF set_specialization, CountOf, FeedInv, FeedTyped
  <1>2. CountOf(s) \in Nat
    BY DEF CountOf, FeedInv, FeedTyped, Profiles
  <1>3. p \in Profiles /\ p # None /\ p.count = CountOf(s)
    BY <1>2 DEF Profiles, FeedAssumption
  <1> HIDE DEF p
  <1>4. FeedTyped'
    BY <1>1, <1>3 DEF FeedInv, FeedTyped
  <1>5. \A r \in Specs : CountOf(r)' = CountOf(r)
    BY <1>1, <1>3 DEF CountOf, FeedInv, FeedTyped
  <1>6. \A r \in Specs : AnswersOf(r)' = AnswersOf(r) /\ RatingsCount(r)' = RatingsCount(r)
    BY <1>1 DEF AnswersOf, RatingsCount, Rated
  <1>7. CountersAgree'
    BY <1>5, <1>6 DEF FeedInv, CountersAgree
  <1> QED
    BY <1>1, <1>4, <1>7 DEF FeedInv, ReviewsFollowLog

LEMMA FeedSteps == FeedAssumption /\ FeedInv /\ [Next]_vars => FeedInv'
  <1> SUFFICES ASSUME FeedAssumption, FeedInv, [Next]_vars
               PROVE  FeedInv'
    OBVIOUS
  <1>1. ASSUME NEW s \in Specs, NEW target \in Aims, set_specialization(s, target)
        PROVE  FeedInv'
    BY <1>1, SetKeeps
  <1>2. ASSUME NEW s \in Specs, NEW q \in Questions, NEW quality \in Qualities,
               NEW claimed \in (0..day + 1) \cup {None}, NEW move \in Moves, NEW interval \in Intervals,
               submit_answer(s, q, quality, claimed, move, interval)
        PROVE  FeedInv'
    <2>1. FeedTyped'
      BY <1>2, SubmitChanges DEF FeedInv
    <2>2. ReviewsFollowLog'
      BY <1>2, SubmitKeepsReviews
    <2>3. CountersAgree'
      BY <1>2, SubmitKeepsCounters
    <2> QED
      BY <2>1, <2>2, <2>3 DEF FeedInv
  <1>3. ASSUME NEW s \in Specs, NEW deadline \in Deadlines, create(s, deadline)
        PROVE  FeedInv'
    BY <1>3, CreateKeeps
  <1>4. CASE NextDay
    <2>1. day' \in Nat /\ UNCHANGED <<profile, rating, answers, due, plan, unordered>>
      BY <1>4 DEF NextDay, FeedInv, FeedTyped
    <2>2. FeedTyped'
      BY <2>1 DEF FeedInv, FeedTyped
    <2>3. ReviewsFollowLog' /\ CountersAgree'
      BY <2>1 DEF FeedInv, ReviewsFollowLog, CountersAgree, CountOf, AnswersOf, RatingsCount, Rated
    <2> QED
      BY <2>2, <2>3 DEF FeedInv
  <1>5. CASE UNCHANGED vars
    <2>1. UNCHANGED <<profile, rating, answers, due, plan, unordered, day>>
      BY <1>5 DEF vars
    <2>2. FeedTyped'
      BY <2>1 DEF FeedInv, FeedTyped
    <2>3. ReviewsFollowLog' /\ CountersAgree'
      BY <2>1 DEF FeedInv, ReviewsFollowLog, CountersAgree, CountOf, AnswersOf, RatingsCount, Rated
    <2> QED
      BY <2>2, <2>3 DEF FeedInv
  <1> QED
    BY <1>1, <1>2, <1>3, <1>4, <1>5 DEF Next

LEMMA FeedTablesAgree == Spec => []FeedInv
  BY FeedStarts, FeedSteps, FeedAssumption, PTL DEF Spec

-----------------------------------------------------------------------------
(* What the feed may give.                                                 *)

LEMMA NoAnswersNoDay ==
  ASSUME FeedAssumption, FeedInv, NEW q \in Questions, q \notin _answered
  PROVE  /\ due[q] = None /\ LastAt(q) = -1
         /\ \A s \in Specs : answers[s][q].count = 0
  <1>1. \A s \in Specs : answers[s][q].count = 0 /\ answers[s][q].at = None
    <2> SUFFICES ASSUME NEW s \in Specs
                 PROVE  answers[s][q].count = 0 /\ answers[s][q].at = None
      OBVIOUS
    <2>1. answers[s][q].count \in Nat
      BY CountsTyped DEF FeedInv
    <2>2. ~ answers[s][q].count > 0
      BY DEF _answered
    <2>3. answers[s][q].count > 0 <=> answers[s][q].at # None
      BY DEF FeedInv, ReviewsFollowLog
    <2> QED
      BY <2>1, <2>2, <2>3
  <1>2. due[q] = None
    BY <1>1 DEF FeedInv, ReviewsFollowLog
  <1>3. LastAt(q) = -1
    BY <1>1, LastAtIsLast DEF FeedInv
  <1> QED
    BY <1>1, <1>2, <1>3

(* A day and, among the questions of the day, the first.                   *)
LEMMA ReviewsAreDue ==
  ASSUME FeedAssumption, FeedInv, NEW s \in Specs
  PROVE  /\ _next_due_question(s) \subseteq DueNow(s)
         /\ DueNow(s) # {} => _next_due_question(s) # {}
  <1>1. _next_due_question(s) \subseteq DueNow(s)
    BY DEF _next_due_question
  <1>2. ASSUME DueNow(s) # {}
        PROVE  _next_due_question(s) # {}
    <2>1. DueNow(s) \in SUBSET Questions /\ IsFiniteSet(DueNow(s))
      <3>1. DueNow(s) \in SUBSET Questions
        BY DEF DueNow, Linked
      <3> QED
        BY <3>1, FS_Subset DEF FeedAssumption
    <2>2. \A q \in DueNow(s) : due[q] \in Int /\ q \in Int
      <3>1. due \in [Questions -> Int \cup {None}] /\ Questions \subseteq Int
        BY DEF FeedInv, FeedTyped, FeedAssumption
      <3>2. \A q \in DueNow(s) : due[q] # None
        BY DEF DueNow
      <3> QED
        BY <2>1, <3>1, <3>2
    <2> DEFINE days == {due[q] : q \in DueNow(s)}
    <2>3. IsFiniteSet(days) /\ days # {} /\ \A d \in days : d \in Int
      BY <1>2, <2>1, <2>2, ImageFinite
    <2>4. PICK d \in days : \A e \in days : d <= e
      <3> HIDE DEF days
      <3> QED
        BY <2>3, SmallestExists
    <2> DEFINE first == {q \in DueNow(s) : due[q] = d}
    <2>5. IsFiniteSet(first) /\ first # {} /\ \A q \in first : q \in Int
      <3>1. first \in SUBSET DueNow(s)
        OBVIOUS
      <3>2. IsFiniteSet(first)
        <4> HIDE DEF first
        <4> QED
          BY <2>1, <3>1, FS_Subset
      <3> QED
        BY <2>2, <2>4, <3>2
    <2>6. PICK q \in first : \A p \in first : q <= p
      <3> HIDE DEF first
      <3> QED
        BY <2>5, SmallestExists
    <2>7. \A p \in DueNow(s) : due[q] < due[p] \/ (due[q] = due[p] /\ q <= p)
      BY <2>2, <2>4, <2>6
    <2> QED
      BY <2>6, <2>7 DEF _next_due_question
  <1> QED
    BY <1>1, <1>2

LEMMA PriorityIsNumber ==
  ASSUME FeedAssumption, FeedInv, NEW s \in Specs, NEW q \in Questions, NEW grade \in Aims
  PROVE  _priority(s, q, grade) \in Int
  <1> DEFINE weights == _topic_weights(s, grade)
             distance == IF Bank[q].peak > grade THEN Bank[q].peak - grade ELSE grade - Bank[q].peak
             t == Bank[q].topic
             w == IF t \in DOMAIN weights THEN weights[t] ELSE 1
  <1>1. t \in Topics
    BY DEF Topics
  <1>2. w \in Int
    <2>1. CASE t \in DOMAIN weights
      <3>1. t \in DOMAIN Weights[s] /\ weights[t] = Weights[s][t][grade]
        BY <2>1 DEF _topic_weights
      <3>2. Weights[s][t][grade] \in Nat
        BY <3>1 DEF FeedAssumption
      <3> QED
        BY <2>1, <3>1, <3>2
    <2>2. CASE t \notin DOMAIN weights
      BY <2>2
    <2> QED
      BY <2>1, <2>2
  <1>3. RatingOf(s, t) \in Int
    BY <1>1 DEF RatingOf, StartRating, FeedInv, FeedTyped, Ratings
  <1>4. Gap(RatingOf(s, t)) \in Int
    BY <1>3 DEF Gap
  <1>5. distance \in Nat
    BY DEF FeedAssumption
  <1>6. 420 \div (1 + distance) \in Int
    <2> HIDE DEF distance
    <2> QED
      BY <1>5
  <1>7. Bank[q].frequency \in Int
    BY DEF FeedAssumption
  <1>8. _priority(s, q, grade) = w * Gap(RatingOf(s, t)) * (420 \div (1 + distance)) * Bank[q].frequency
    BY DEF _priority
  <1> HIDE DEF w, t, distance
  <1>9. w * Gap(RatingOf(s, t)) \in Int
    BY <1>2, <1>4
  <1>10. w * Gap(RatingOf(s, t)) * (420 \div (1 + distance)) \in Int
    BY <1>6, <1>9
  <1> QED
    BY <1>7, <1>8, <1>10

(* Among finitely many candidates one is above the others.                 *)
LEMMA SomeoneIsAbove ==
  ASSUME NEW c, IsFiniteSet(c), c # {}, \A q \in c : q \in Int,
         NEW rank, \A q \in c : rank[q] \in Int
  PROVE  \E q \in c : \A p \in c \ {q} : rank[q] > rank[p] \/ (rank[q] = rank[p] /\ q > p)
  <1> DEFINE ranks == {rank[q] : q \in c}
  <1>1. IsFiniteSet(ranks) /\ ranks # {} /\ \A r \in ranks : r \in Int
    BY ImageFinite
  <1>2. PICK r \in ranks : \A x \in ranks : x <= r
    <2> HIDE DEF ranks
    <2> QED
      BY <1>1, LargestExists
  <1> DEFINE best == {q \in c : rank[q] = r}
  <1>3. best \in SUBSET c
    OBVIOUS
  <1>4. IsFiniteSet(best) /\ best # {} /\ \A q \in best : q \in Int
    <2>1. best # {} /\ \A q \in best : q \in Int
      BY <1>2
    <2> HIDE DEF best
    <2> QED
      BY <1>3, <2>1, FS_Subset
  <1>5. PICK q \in best : \A p \in best : p <= q
    <2> HIDE DEF best
    <2> QED
      BY <1>4, LargestExists
  <1>6. q \in c /\ rank[q] = r /\ q \in Int /\ r \in Int
    OBVIOUS
  <1>7. ASSUME NEW p \in c \ {q}
        PROVE  rank[q] > rank[p] \/ (rank[q] = rank[p] /\ q > p)
    <2>1. rank[p] \in Int /\ rank[p] <= r /\ p \in Int
      BY <1>2
    <2>2. rank[p] = r => p <= q
      BY <1>5
    <2> QED
      BY <1>6, <2>1, <2>2
  <1> QED
    BY <1>6, <1>7

LEMMA SubsetOfSize ==
  ASSUME NEW S, IsFiniteSet(S), \A x \in S : x \in Int, NEW m \in Nat, m <= Cardinality(S)
  PROVE  \E T \in SUBSET S : Cardinality(T) = m
  <1> DEFINE R == {x \in S \X S : x[1] < x[2]}
             first == {x \in S : Place(x, R, S) < m}
  <1>1. StrictOrder(R, S)
    BY DEF StrictOrder
  <1>2. Cardinality(first) = m
    <2> HIDE DEF R
    <2> QED
      BY <1>1, FirstPlaces
  <1> QED
    BY <1>2

LEMMA NewAreNew ==
  ASSUME FeedAssumption, FeedInv, NEW s \in Specs, NEW grade \in Aims
  PROVE  /\ _next_new_question(s, grade) \subseteq NewFor(s, grade)
         /\ NewFor(s, grade) # {} => _next_new_question(s, grade) # {}
  <1> DEFINE N == NewFor(s, grade)
             n == Cardinality(N)
             limit == Min({CandidateLimit, n})
             rank == [q \in N |-> _priority(s, q, grade)]
             above(p, q) == LET a == _priority(s, p, grade)
                                b == _priority(s, q, grade) IN a > b \/ (a = b /\ p > q)
  <1>1. N \in SUBSET Questions /\ IsFiniteSet(N) /\ n \in Nat
    <2>1. N \in SUBSET Questions
      BY DEF NewFor, Linked
    <2> HIDE DEF N
    <2> QED
      BY <2>1, FS_Subset, FS_CardinalityType DEF FeedAssumption
  <1>2. \A q \in N : q \in Int /\ rank[q] \in Int /\ rank[q] = _priority(s, q, grade)
    <2>1. \A q \in N : q \in Questions /\ q \in Int
      <3>1. Questions \subseteq Int
        BY DEF FeedAssumption
      <3> HIDE DEF N
      <3> QED
        BY <1>1, <3>1
    <2>2. \A q \in N : _priority(s, q, grade) \in Int
      BY <2>1, PriorityIsNumber
    <2> QED
      BY <2>1, <2>2
  <1>3. limit = IF CandidateLimit <= n THEN CandidateLimit ELSE n
    <2> HIDE DEF n
    <2> QED
      BY <1>1, MinOfTwo DEF FeedAssumption
  <1>4. _next_new_question(s, grade) =
          {CHOOSE q \in c : \A p \in c \ {q} : above(q, p) : c \in kSubset(limit, N) \ {{}}}
    BY DEF _next_new_question
  <1> HIDE DEF N, n, limit, rank
  <1>5. ASSUME NEW c \in kSubset(limit, N) \ {{}}
        PROVE  (CHOOSE q \in c : \A p \in c \ {q} : above(q, p)) \in c /\ c \in SUBSET N
    <2>1. c \in SUBSET N /\ c # {}
      BY DEF kSubset
    <2>2. IsFiniteSet(c) /\ (\A q \in c : q \in Int) /\ (\A q \in c : rank[q] \in Int)
      BY <1>1, <1>2, <2>1, FS_Subset
    <2>3. \E q \in c : \A p \in c \ {q} : rank[q] > rank[p] \/ (rank[q] = rank[p] /\ q > p)
      BY <2>1, <2>2, SomeoneIsAbove
    <2>4. \E q \in c : \A p \in c \ {q} : above(q, p)
      BY <1>2, <2>1, <2>3
    <2> QED
      BY <2>1, <2>4
  <1>6. _next_new_question(s, grade) \subseteq N
    BY <1>4, <1>5
  <1>7. ASSUME N # {}
        PROVE  _next_new_question(s, grade) # {}
    <2>1. n # 0
      BY <1>1, <1>7, FS_EmptySet DEF n
    <2>2. limit \in Nat \ {0} /\ limit <= n
      BY <1>1, <1>3, <2>1 DEF FeedAssumption
    <2>3. PICK c \in SUBSET N : Cardinality(c) = limit
      BY <1>1, <1>2, <2>2, SubsetOfSize DEF n
    <2>4. c \in kSubset(limit, N) /\ c # {}
      BY <2>2, <2>3, FS_EmptySet DEF kSubset
    <2> QED
      BY <1>4, <2>4
  <1> QED
    BY <1>6, <1>7 DEF N

LEMMA FeedGives ==
  ASSUME FeedAssumption, FeedInv, NEW s \in Chosen, NEW n \in next_question(s)
  PROVE  \/ /\ n.question \in DueNow(s)
            /\ n = [question |-> n.question, is_review |-> TRUE, due_at |-> due[n.question]]
         \/ /\ n.question \in NewFor(s, profile[s].target)
            /\ n = [question |-> n.question, is_review |-> FALSE, due_at |-> None]
  <1>1. s \in Specs /\ profile[s].target \in Aims
    BY DEF Chosen, FeedInv, FeedTyped, Profiles
  <1>2. CASE DueNow(s) # {}
    BY <1>1, <1>2, ReviewsAreDue DEF next_question
  <1>3. CASE DueNow(s) = {}
    BY <1>1, <1>3, NewAreNew DEF next_question, feed_grade
  <1> QED
    BY <1>2, <1>3

(* A question answered today is not served again today, by the feed of any *)
(* specialization, unless its answers have arrived out of order, whatever  *)
(* the bank, the intervals and the order of the requests.                  *)
THEOREM FeedLetsRest == Spec => []AnsweredRests
  <1>1. FeedAssumption /\ FeedInv => AnsweredRests
    <2> SUFFICES ASSUME FeedAssumption, FeedInv, NEW s \in Chosen, NEW n \in next_question(s),
                        n.question \notin unordered
                 PROVE  LastAt(n.question) < day
      BY DEF AnsweredRests
    <2> DEFINE q == n.question
    <2>1. q \in Questions
      BY FeedGives DEF DueNow, NewFor, Linked
    <2>2. day \in Nat /\ LastAt(q) \in Int
      BY <2>1, LastAtIsLast DEF FeedInv, FeedTyped
    <2>3. CASE q \in DueNow(s)
      <3>1. due[q] \in Int /\ due[q] <= day
        BY <2>1, <2>3 DEF DueNow, FeedInv, FeedTyped
      <3>2. \A r \in Specs : answers[r][q].at # None => answers[r][q].at < due[q]
        BY <2>1 DEF FeedInv, ReviewsFollowLog
      <3>3. LastAt(q) # -1 => LastAt(q) < due[q]
        BY <2>1, <3>2, LastAtIsLast DEF FeedInv
      <3> QED
        BY <2>2, <3>1, <3>3
    <2>4. CASE q \in NewFor(s, profile[s].target)
      <3>1. LastAt(q) = -1
        BY <2>1, <2>4, NoAnswersNoDay DEF NewFor
      <3> QED
        BY <2>2, <3>1
    <2> QED
      BY <2>3, <2>4, FeedGives
  <1> QED
    BY <1>1, FeedTablesAgree, FeedAssumption, PTL

(* Today's plan asks for no more new questions than the norm leaves beside *)
(* the reviews that are due, for none the feed would call a review and for *)
(* none outside the grade range of the list, whatever plans are made.      *)
THEOREM TodayKeepsNorm == Spec => []TodayWithinNorm
  <1>1. FeedAssumption /\ FeedInv => TodayWithinNorm
    <2> SUFFICES ASSUME FeedAssumption, FeedInv, NEW s \in Chosen, HasToday(s)
                 PROVE  TodayWithinNorm!(s)
      BY DEF TodayWithinNorm
    <2> DEFINE D == _count_due_reviews(s)
               N == plan[s].days[day].new_questions
               left == capacity_left(s)
               of == plan[s].days[day]
               open == {q \in Linked(s) : Bank[q].topic \in of.topics /\ InRange(q, plan[s].target)
                                            /\ q \notin _answered}
               R == {x \in open \X open : \/ Bank[x[1]].frequency > Bank[x[2]].frequency
                                          \/ /\ Bank[x[1]].frequency = Bank[x[2]].frequency
                                             /\ x[1] < x[2]}
               asked == today(s).new_questions
    <2>1. s \in Specs /\ Linked(s) \subseteq Questions
      BY DEF Chosen, Linked
    <2>2. D \in Nat
      <3>1. DueNow(s) \in SUBSET Questions
        BY DEF DueNow, Linked
      <3> QED
        BY <3>1, FS_Subset, FS_CardinalityType DEF _count_due_reviews, FeedAssumption
    <2>3. N \in Nat
      BY <2>1 DEF HasToday, FeedInv, FeedTyped
    <2> HIDE DEF D, N
    <2>4. left \in Nat /\ left = IF N > D THEN N - D ELSE 0
      <3>1. left = Max({0, N - D})
        BY DEF capacity_left, N, D
      <3> QED
        BY <2>2, <2>3, <3>1, MaxOfTwo
    <2>5. open \in SUBSET Questions /\ IsFiniteSet(open)
      <3>1. open \in SUBSET Questions
        BY <2>1
      <3> HIDE DEF open
      <3> QED
        BY <3>1, FS_Subset DEF FeedAssumption
    <2>6. StrictOrder(R, open)
      <3>1. \A q \in open : q \in Int /\ Bank[q].frequency \in Int
        <4>1. Questions \subseteq Int /\ \A q \in Questions : Bank[q].frequency \in Int
          BY DEF FeedAssumption
        <4> HIDE DEF open
        <4> QED
          BY <2>5, <4>1
      <3> HIDE DEF open
      <3> QED
        BY <3>1 DEF StrictOrder
    <2>7. asked \in {{}, {q \in open : Place(q, R, open) < left}}
      <3>1. asked \in {{}, _pick_new_questions(s, left)}
        BY DEF today
      <3>2. _pick_new_questions(s, left) =
              {q \in open : Cardinality({p \in open : \/ Bank[p].frequency > Bank[q].frequency
                                                      \/ /\ Bank[p].frequency = Bank[q].frequency
                                                         /\ p < q}) < left}
        BY DEF _pick_new_questions
      <3>3. ASSUME NEW q \in open
            PROVE  {p \in open : <<p, q>> \in R} =
                   {p \in open : \/ Bank[p].frequency > Bank[q].frequency
                                 \/ /\ Bank[p].frequency = Bank[q].frequency /\ p < q}
        <4> HIDE DEF open
        <4> QED
          OBVIOUS
      <3> HIDE DEF open, R, left
      <3> QED
        BY <3>1, <3>2, <3>3 DEF Place
    <2>8. IsFiniteSet(asked) /\ Cardinality(asked) \in Nat /\ Cardinality(asked) <= left
      <3> HIDE DEF open, R, left, asked
      <3>1. CASE asked = {}
        BY <2>4, <3>1, FS_EmptySet
      <3>2. CASE asked = {q \in open : Place(q, R, open) < left}
        BY <2>4, <2>5, <2>6, <3>2, FirstPlaces
      <3> QED
        BY <2>7, <3>1, <3>2
    <2>9. total_target(s) <= Max({N, D})
      <3>1. Max({N, D}) = IF N >= D THEN N ELSE D
        BY <2>2, <2>3, MaxOfTwo
      <3>2. total_target(s) = D + Cardinality(asked)
        BY DEF total_target, today, D
      <3> HIDE DEF asked, left
      <3> QED
        BY <2>2, <2>3, <2>4, <2>8, <3>1, <3>2
    <2>10. ASSUME NEW q \in asked
           PROVE  LET item == question_list(s)[q]
                  IN  /\ item.count = 0 /\ item.due_at = None
                      /\ plan[s].target = profile[s].target => item.in_grade_range
      <3>1. q \in open
        BY <2>7
      <3>2. q \in Questions /\ q \in Linked(s) /\ q \notin _answered /\ InRange(q, plan[s].target)
        BY <2>1, <3>1
      <3>3. answers[s][q].count = 0 /\ due[q] = None
        BY <2>1, <3>2, NoAnswersNoDay
      <3> QED
        BY <3>2, <3>3 DEF question_list, _answer_index, feed_grade
    <2> QED
      BY <2>9, <2>10 DEF N, D, _count_due_reviews
  <1> QED
    BY <1>1, FeedTablesAgree, FeedAssumption, PTL

-----------------------------------------------------------------------------
(* A mean is not below the lowest of what it is the mean of, nor above the *)
(* highest, and the grades are in the order of the ratings.                *)

LEMMA GradesFinite == IsFiniteSet(1..6)
  <1>1. \A a, b \in Int : IsFiniteSet(a..b)
    BY FS_Interval
  <1>2. 1 \in Int /\ 6 \in Int
    OBVIOUS
  <1> QED
    BY <1>1, <1>2, Zenon

LEMMA GradesInOrder ==
  ASSUME NEW r \in Int, NEW num \in Int, NEW den \in Nat
  PROVE  /\ den > 0 /\ r * den <= num => grade_from_rating(r, 1) <= grade_from_rating(num, den)
         /\ den > 0 /\ num <= r * den => grade_from_rating(num, den) <= grade_from_rating(r, 1)
  <1> DEFINE one == {i \in DOMAIN GradeThresholds : r >= 1 * GradeThresholds[i]}
             all == {i \in DOMAIN GradeThresholds : num >= den * GradeThresholds[i]}
  <1>1. DOMAIN GradeThresholds = 1..6 /\ \A i \in 1..6 : GradeThresholds[i] \in Int
    BY DEF GradeThresholds
  <1>2. one \in SUBSET (1..6) /\ all \in SUBSET (1..6) /\ IsFiniteSet(1..6)
    <2>1. IsFiniteSet(1..6)
      BY GradesFinite
    <2> QED
      BY <1>1, <2>1
  <1>3. IsFiniteSet(one) /\ IsFiniteSet(all)
    <2> HIDE DEF one, all
    <2> QED
      BY <1>2, FS_Subset
  <1>4. ASSUME den > 0, r * den <= num
        PROVE  one \subseteq all
    <2> SUFFICES ASSUME NEW i \in 1..6, r >= 1 * GradeThresholds[i]
                 PROVE  num >= den * GradeThresholds[i]
      BY <1>1
    <2> DEFINE g == GradeThresholds[i]
    <2>1. g \in Int /\ g <= r
      BY <1>1
    <2> HIDE DEF g
    <2>2. r - g \in Nat
      BY <2>1
    <2>3. den * (r - g) >= 0
      BY <2>2
    <2>4. den * (r - g) = r * den - den * g /\ den * g \in Int /\ r * den \in Int
      BY <2>1
    <2>5. den * g <= num
      BY <1>4, <2>3, <2>4
    <2> QED
      BY <2>4, <2>5 DEF g
  <1>5. ASSUME den > 0, num <= r * den
        PROVE  all \subseteq one
    <2> SUFFICES ASSUME NEW i \in 1..6, num >= den * GradeThresholds[i]
                 PROVE  r >= GradeThresholds[i]
      BY <1>1
    <2> DEFINE g == GradeThresholds[i]
    <2>1. g \in Int /\ den * g <= num
      BY <1>1
    <2> HIDE DEF g
    <2>2. SUFFICES ASSUME r < g PROVE FALSE
      BY <2>1 DEF g
    <2>3. g - r - 1 \in Nat
      BY <2>1, <2>2
    <2>4. den * (g - r - 1) >= 0
      BY <2>3
    <2>5. den * (g - r - 1) = den * g - r * den - den /\ den * g \in Int /\ r * den \in Int
      BY <2>1
    <2> QED
      BY <1>5, <2>1, <2>4, <2>5
  <1>6. grade_from_rating(r, 1) = Cardinality(one) /\ grade_from_rating(num, den) = Cardinality(all)
    BY DEF grade_from_rating
  <1> HIDE DEF one, all
  <1> QED
    BY <1>3, <1>4, <1>5, <1>6, FS_Subset

LEMMA GradeTyped ==
  ASSUME NEW num \in Int, NEW den \in Int
  PROVE  grade_from_rating(num, den) \in Nat
  <1> DEFINE some == {i \in DOMAIN GradeThresholds : num >= den * GradeThresholds[i]}
  <1>1. some \in SUBSET (1..6)
    BY DEF GradeThresholds
  <1>2. IsFiniteSet(1..6)
    BY GradesFinite
  <1>3. grade_from_rating(num, den) = Cardinality(some)
    BY DEF grade_from_rating
  <1> HIDE DEF some
  <1> QED
    BY <1>1, <1>2, <1>3, FS_Subset, FS_CardinalityType

LEMMA MeanBetween ==
  ASSUME NEW C, IsFiniteSet(C), NEW ratings, NEW weights,
         \A t \in C : ratings[t] \in Int /\ weights[t] \in Nat,
         SumFunctionOnSet(weights, C) # 0
  PROVE  LET num == SumFunction([t \in C |-> ratings[t] * weights[t]])
             den == SumFunctionOnSet(weights, C)
         IN  /\ num \in Int /\ den \in Nat /\ den > 0
             /\ \E t \in C : ratings[t] * den <= num
             /\ \E t \in C : num <= ratings[t] * den
  <1> DEFINE den == SumFunctionOnSet(weights, C)
             f == [t \in C |-> ratings[t] * weights[t]]
             num == SumFunction(f)
             R == {ratings[t] : t \in C}
  <1>1. den \in Nat /\ den > 0 /\ C # {}
    BY SumTyped, SumEmpty
  <1>2. \A t \in C : f[t] = ratings[t] * weights[t] /\ f[t] \in Int
    OBVIOUS
  <1>3. num = SumFunctionOnSet(f, C)
    BY DEF SumFunction
  <1>4. IsFiniteSet(R) /\ R # {} /\ \A r \in R : r \in Int
    BY <1>1, ImageFinite
  <1> HIDE DEF f, num, R, den
  <1>5. num \in Int
    BY <1>2, <1>3, SumTyped
  <1>6. PICK low \in R : \A r \in R : low <= r
    BY <1>4, SmallestExists
  <1>7. PICK high \in R : \A r \in R : r <= high
    BY <1>4, LargestExists
  <1>8. low \in Int /\ high \in Int
    BY <1>4
  <1>9. ASSUME NEW k \in Int
        PROVE  LET g == [t \in C |-> k * weights[t]]
               IN  /\ SumFunctionOnSet(g, C) = k * den
                   /\ (\A t \in C : k <= ratings[t]) => SumFunctionOnSet(g, C) <= num
                   /\ (\A t \in C : ratings[t] <= k) => num <= SumFunctionOnSet(g, C)
    <2> DEFINE g == [t \in C |-> k * weights[t]]
    <2>1. \A t \in C : weights[t] \in Int /\ g[t] = k * weights[t] /\ g[t] \in Int
      OBVIOUS
    <2> HIDE DEF g
    <2>2. SumFunctionOnSet(g, C) = k * den
      BY <2>1, SumScaled DEF den
    <2>3. ASSUME \A t \in C : k <= ratings[t]
          PROVE  SumFunctionOnSet(g, C) <= num
      <3>1. ASSUME NEW t \in C PROVE g[t] <= f[t]
        <4>1. ratings[t] - k \in Nat /\ weights[t] \in Nat /\ ratings[t] \in Int
          BY <2>3
        <4>2. (ratings[t] - k) * weights[t] >= 0
          BY <4>1
        <4>3. (ratings[t] - k) * weights[t] = ratings[t] * weights[t] - k * weights[t]
          BY <4>1
        <4> QED
          BY <1>2, <2>1, <4>2, <4>3
      <3> QED
        BY <1>2, <1>3, <2>1, <3>1, SumMonotone
    <2>4. ASSUME \A t \in C : ratings[t] <= k
          PROVE  num <= SumFunctionOnSet(g, C)
      <3>1. ASSUME NEW t \in C PROVE f[t] <= g[t]
        <4>1. k - ratings[t] \in Nat /\ weights[t] \in Nat /\ ratings[t] \in Int
          BY <2>4
        <4>2. (k - ratings[t]) * weights[t] >= 0
          BY <4>1
        <4>3. (k - ratings[t]) * weights[t] = k * weights[t] - ratings[t] * weights[t]
          BY <4>1
        <4> QED
          BY <1>2, <2>1, <4>2, <4>3
      <3> QED
        BY <1>2, <1>3, <2>1, <3>1, SumMonotone
    <2> QED
      BY <2>2, <2>3, <2>4 DEF g
  <1>10. low * den <= num
    BY <1>6, <1>8, <1>9 DEF R
  <1>11. num <= high * den
    BY <1>7, <1>8, <1>9 DEF R
  <1>12. (\E t \in C : ratings[t] = low) /\ \E t \in C : ratings[t] = high
    BY <1>6, <1>7 DEF R
  <1>13. (\E t \in C : ratings[t] * den <= num) /\ \E t \in C : num <= ratings[t] * den
    BY <1>10, <1>11, <1>12
  <1> QED
    BY <1>1, <1>5, <1>13 DEF num, f, den
-----------------------------------------------------------------------------
(* The endpoints, one by one.                                              *)

(* What the feed gives is in the list as the feed gives it.                *)
LEMMA FeedMatchesList ==
  ASSUME FeedAssumption, FeedInv, NEW s \in Chosen, NEW n \in next_question(s)
  PROVE  LET item == question_list(s)[n.question]
         IN  /\ n.due_at = item.due_at
             /\ n.is_review = question_by_id(s, n.question).is_review
             /\ n.is_review => n.due_at <= day
             /\ ~ n.is_review => item.in_grade_range /\ item.count = 0
  <1> DEFINE q == n.question
  <1>0. s \in Specs
    BY DEF Chosen
  <1>1. CASE q \in DueNow(s) /\ n = [question |-> q, is_review |-> TRUE, due_at |-> due[q]]
    <2>1. q \in Linked(s) /\ due[q] # None /\ due[q] <= day
      BY <1>1 DEF DueNow
    <2>2. n.is_review = TRUE /\ n.due_at = due[q]
      BY <1>1
    <2> QED
      BY <2>1, <2>2 DEF question_list, question_by_id
  <1>2. CASE q \in NewFor(s, profile[s].target)
             /\ n = [question |-> q, is_review |-> FALSE, due_at |-> None]
    <2>1. q \in Questions /\ q \in Linked(s) /\ InRange(q, profile[s].target) /\ q \notin _answered
      BY <1>2 DEF NewFor, Linked
    <2>2. n.is_review = FALSE /\ n.due_at = None
      BY <1>2
    <2>3. answers[s][q].count = 0 /\ due[q] = None
      BY <1>0, <2>1, NoAnswersNoDay
    <2> QED
      BY <2>1, <2>2, <2>3 DEF question_list, question_by_id, _answer_index, feed_grade
  <1> QED
    BY <1>1, <1>2, FeedGives

(* When the feed has run dry, what is in range waits for its day.          *)
LEMMA DryFeedWaits ==
  ASSUME FeedAssumption, FeedInv, NEW s \in Chosen, next_question(s) = {},
         NEW q \in Linked(s), InRange(q, feed_grade(s))
  PROVE  due[q] # None /\ due[q] > day
  <1>1. s \in Specs /\ profile[s].target \in Aims /\ q \in Questions
    BY DEF Chosen, FeedInv, FeedTyped, Profiles, Linked
  <1>2. DueNow(s) = {}
    BY <1>1, ReviewsAreDue DEF next_question
  <1>3. NewFor(s, profile[s].target) = {}
    BY <1>1, <1>2, NewAreNew DEF next_question, feed_grade
  <1>4. q \in _answered
    BY <1>1, <1>3 DEF NewFor, feed_grade
  <1>5. due[q] # None
    BY <1>1, <1>4 DEF _answered, FeedInv, ReviewsFollowLog
  <1>6. ~ due[q] <= day
    BY <1>2, <1>5 DEF DueNow
  <1>7. due[q] \in Int /\ day \in Int
    BY <1>1, <1>5 DEF FeedInv, FeedTyped
  <1> QED
    BY <1>5, <1>6, <1>7

LEMMA DisjointUnion ==
  ASSUME NEW S, IsFiniteSet(S), NEW T, IsFiniteSet(T), S \cap T = {}
  PROVE  Cardinality(S \cup T) = Cardinality(S) + Cardinality(T)
  <1>1. Cardinality(S \cup T) = Cardinality(S) + Cardinality(T) - Cardinality({})
    BY FS_Union
  <1>2. Cardinality({}) = 0
    BY FS_EmptySet
  <1>3. Cardinality(S) \in Nat /\ Cardinality(T) \in Nat
    BY FS_CardinalityType
  <1> QED
    BY <1>1, <1>2, <1>3

(* Every answered question counts in one of three totals.                  *)
LEMMA TotalsAdd ==
  ASSUME FeedAssumption, FeedInv, NEW s \in Specs
  PROVE  LET totals == QuestionListResponse(s)
         IN  /\ totals.answered = totals.correct + totals.partial + totals.wrong
             /\ totals.answered <= totals.total
             /\ totals.answered <= AnswersOf(s)
  <1> DEFINE L == Linked(s)
             status(q) == from_score(answers[s][q].score)
             A == {q \in L : answers[s][q].count > 0}
             C == {q \in A : status(q) = "correct"}
             P == {q \in A : status(q) = "partial"}
             W == {q \in A : status(q) = "wrong"}
             counts == [q \in Questions |-> answers[s][q].count]
             B == {q \in Questions : counts[q] > 0}
  <1>1. QuestionListResponse(s) =
          [total |-> Cardinality(L), answered |-> Cardinality(A),
           correct |-> Cardinality(C), partial |-> Cardinality(P), wrong |-> Cardinality(W)]
    <2> DEFINE list == question_list(s)
    <2>1. DOMAIN list = L
      BY DEF question_list
    <2>2. \A q \in L : list[q].count = answers[s][q].count /\ list[q].status = answers[s][q].score
      BY DEF question_list, _answer_index
    <2> HIDE DEF list, L
    <2>3. {q \in DOMAIN list : list[q].count > 0} = A
      BY <2>1, <2>2
    <2>4. \A q \in A : from_score(list[q].status) = status(q)
      BY <2>2
    <2> HIDE DEF A, status
    <2>5. \A x : {q \in A : from_score(list[q].status) = x} = {q \in A : status(q) = x}
      BY <2>4
    <2> DEFINE num(x) == Cardinality({q \in A : from_score(list[q].status) = x})
    <2>7. num("correct") = Cardinality(C) /\ num("partial") = Cardinality(P) /\ num("wrong") = Cardinality(W)
      BY <2>5
    <2>8. QuestionListResponse(s) =
            [total |-> Cardinality(DOMAIN list), answered |-> Cardinality({q \in DOMAIN list : list[q].count > 0}),
             correct |-> Cardinality({q \in {q \in DOMAIN list : list[q].count > 0} : from_score(list[q].status) = "correct"}),
             partial |-> Cardinality({q \in {q \in DOMAIN list : list[q].count > 0} : from_score(list[q].status) = "partial"}),
             wrong |-> Cardinality({q \in {q \in DOMAIN list : list[q].count > 0} : from_score(list[q].status) = "wrong"})]
      BY DEF QuestionListResponse, list
    <2> QED
      BY <2>1, <2>3, <2>7, <2>8
  <1>2. L \in SUBSET Questions /\ IsFiniteSet(Questions) /\ IsFiniteSet(L)
    BY FS_Subset DEF Linked, FeedAssumption
  <1> HIDE DEF L
  <1>3. A \in SUBSET L /\ IsFiniteSet(A)
    BY <1>2, FS_Subset
  <1>4. Cardinality(A) <= Cardinality(L)
    BY <1>2, <1>3, FS_Subset
  <1>5. Cardinality(A) = Cardinality(C) + Cardinality(P) + Cardinality(W)
    <2>1. A = (C \cup P) \cup W /\ C \cap P = {} /\ (C \cup P) \cap W = {}
      BY DEF from_score
    <2>2. C \in SUBSET A /\ P \in SUBSET A /\ W \in SUBSET A
      OBVIOUS
    <2> HIDE DEF A, C, P, W
    <2>3. IsFiniteSet(C) /\ IsFiniteSet(P) /\ IsFiniteSet(W)
      BY <1>3, <2>2, FS_Subset
    <2>4. IsFiniteSet(C \cup P)
      BY <2>3, FS_Union
    <2>5. /\ Cardinality(C) \in Nat /\ Cardinality(P) \in Nat /\ Cardinality(W) \in Nat
          /\ Cardinality({}) = 0
      BY <2>3, FS_CardinalityType, FS_EmptySet
    <2>6. Cardinality(C \cup P) = Cardinality(C) + Cardinality(P)
      BY <2>1, <2>3, <2>5, DisjointUnion
    <2>7. Cardinality(A) = Cardinality(C \cup P) + Cardinality(W)
      BY <2>1, <2>3, <2>4, <2>5, <2>6, DisjointUnion
    <2> QED
      BY <2>5, <2>6, <2>7
  <1>6. Cardinality(A) <= AnswersOf(s)
    <2>1. \A q \in Questions : counts[q] \in Nat
      BY CountsTyped DEF FeedInv
    <2>2. A \in SUBSET B /\ B \in SUBSET Questions
      BY <1>2
    <2>3. AnswersOf(s) = SumFunctionOnSet(counts, Questions)
      BY DEF AnswersOf, SumFunction
    <2> HIDE DEF A, counts
    <2>4. Cardinality(B) <= SumFunctionOnSet(counts, Questions)
      BY <1>2, <2>1, SumCovers
    <2>5. SumFunctionOnSet(counts, Questions) \in Int
      <3>1. \A q \in Questions : counts[q] \in Int
        BY <2>1
      <3> QED
        BY <1>2, <3>1, SumTyped
    <2> HIDE DEF B
    <2>6. IsFiniteSet(B)
      BY <1>2, <2>2, FS_Subset
    <2>7. Cardinality(A) <= Cardinality(B)
      BY <2>2, <2>6, FS_Subset
    <2>8. Cardinality(A) \in Int /\ Cardinality(B) \in Int
      BY <1>3, <2>6, FS_CardinalityType
    <2> QED
      BY <2>3, <2>4, <2>5, <2>7, <2>8
  <1> QED
    BY <1>1, <1>4, <1>5, <1>6

(* The grade of a specialization lies between those of its topics.         *)
LEMMA OverallBetween ==
  ASSUME FeedAssumption, FeedInv, NEW s \in Chosen, stats(s).overall_grade # None
  PROVE  LET st == stats(s)
         IN  /\ st.answers_count >= MinAnswers
             /\ \E t \in DOMAIN st.topics : st.topics[t].grade <= st.overall_grade
             /\ \E t \in DOMAIN st.topics : st.topics[t].grade >= st.overall_grade
  <1> DEFINE ratings == _topic_ratings(s)
             weights == _topic_weights(s, profile[s].target)
             C == {t \in DOMAIN ratings \cap DOMAIN weights : weights[t] > 0}
             den == SumFunctionOnSet(weights, C)
             num == SumFunction([t \in C |-> ratings[t] * weights[t]])
             topics == stats(s).topics
  <1>1. s \in Specs /\ profile[s] \in Profiles
    BY DEF Chosen, FeedInv, FeedTyped
  <1>2. profile[s].target \in Aims /\ profile[s].count \in Nat
    BY <1>1 DEF Profiles
  <1>3. _estimate_lock(s) = None /\ stats(s).overall_grade = GradeOf(Overall(s))
    BY DEF stats
  <1>4. stats(s).answers_count >= MinAnswers
    <2>1. profile[s].count >= MinAnswers
      BY <1>2, <1>3 DEF _estimate_lock, FeedAssumption
    <2> QED
      BY <2>1 DEF stats
  <1>5. den # 0 /\ stats(s).overall_grade = grade_from_rating(num, den)
    <2>1. Overall(s) # None /\ GradeOf(Overall(s)) = grade_from_rating(Overall(s).num, Overall(s).den)
      BY <1>3 DEF GradeOf
    <2>2. Overall(s) = IF den = 0 THEN None ELSE [num |-> num, den |-> den]
      BY DEF Overall, overall_rating
    <2> HIDE DEF num, den
    <2> QED
      BY <1>3, <2>1, <2>2
  <1>6. C \in SUBSET Rated(s) /\ Rated(s) \in SUBSET Topics
    BY DEF _topic_ratings, Rated
  <1>7. IsFiniteSet(C)
    BY <1>6, TopicsFinite, FS_Subset
  <1>8. \A t \in C : ratings[t] \in Int /\ weights[t] \in Nat /\ ratings[t] = rating[s][t].rating
    <2> SUFFICES ASSUME NEW t \in C
                 PROVE  ratings[t] \in Int /\ weights[t] \in Nat /\ ratings[t] = rating[s][t].rating
      OBVIOUS
    <2>1. t \in Topics /\ rating[s][t] # None
      BY <1>6 DEF Rated
    <2>2. rating[s][t] \in Ratings
      BY <1>1, <2>1 DEF FeedInv, FeedTyped
    <2>3. ratings[t] = rating[s][t].rating
      BY <2>1 DEF _topic_ratings
    <2>4. t \in DOMAIN Weights[s] /\ weights[t] = Weights[s][t][profile[s].target]
      BY DEF _topic_weights
    <2> QED
      BY <1>1, <1>2, <2>2, <2>3, <2>4 DEF Ratings, FeedAssumption
  <1>9. /\ DOMAIN topics = Rated(s)
        /\ \A t \in Rated(s) : topics[t].grade = grade_from_rating(rating[s][t].rating, 1)
    BY DEF stats, Rated
  <1> HIDE DEF C, ratings, weights, topics
  <1>10. /\ num \in Int /\ den \in Nat /\ den > 0
         /\ \E t \in C : ratings[t] * den <= num
         /\ \E t \in C : num <= ratings[t] * den
    BY <1>5, <1>7, <1>8, MeanBetween
  <1> HIDE DEF num, den
  <1>11. \E t \in C : grade_from_rating(ratings[t], 1) <= grade_from_rating(num, den)
    BY <1>8, <1>10, GradesInOrder
  <1>12. \E t \in C : grade_from_rating(num, den) <= grade_from_rating(ratings[t], 1)
    BY <1>8, <1>10, GradesInOrder
  <1>13. \A a, b \in Int : a <= b => b >= a
    OBVIOUS
  <1>14. \A t \in C : t \in DOMAIN topics /\ topics[t].grade = grade_from_rating(ratings[t], 1)
    BY <1>6, <1>8, <1>9
  <1>15. \E t \in DOMAIN topics : topics[t].grade <= stats(s).overall_grade
    BY <1>5, <1>11, <1>14
  <1>16. \E t \in DOMAIN topics : topics[t].grade >= stats(s).overall_grade
    <2>1. PICK t \in C : grade_from_rating(num, den) <= grade_from_rating(ratings[t], 1)
      BY <1>12
    <2>2. grade_from_rating(num, den) \in Int
      BY <1>10, GradeTyped
    <2>3. grade_from_rating(ratings[t], 1) \in Int
      <3>1. ratings[t] \in Int /\ 1 \in Int
        BY <1>8
      <3>2. grade_from_rating(ratings[t], 1) \in Nat
        BY <3>1, GradeTyped
      <3> QED
        BY <3>2
    <2> QED
      BY <1>5, <1>14, <2>1, <2>2, <2>3
  <1> QED
    BY <1>4, <1>15, <1>16 DEF topics

(* The feed, the list, the single question and the statistics tell one     *)
(* story, whatever the bank, the weights and the order of the requests.    *)
THEOREM EndpointsTellOneStory == Spec => []EndpointsAgree
  <1>1. FeedAssumption /\ FeedInv => EndpointsAgree
    <2> SUFFICES ASSUME FeedAssumption, FeedInv, NEW s \in Chosen
                 PROVE  EndpointsAgree!(s)
      BY DEF EndpointsAgree
    <2> DEFINE list == question_list(s)
               st == stats(s)
               totals == QuestionListResponse(s)
    <2>1. s \in Specs /\ DOMAIN list = Linked(s) /\ Linked(s) \subseteq Questions
      BY DEF Chosen, question_list, Linked
    <2>2. \A n \in next_question(s) :
            LET item == list[n.question]
            IN  /\ n.due_at = item.due_at
                /\ n.is_review = question_by_id(s, n.question).is_review
                /\ n.is_review => n.due_at <= day
                /\ ~ n.is_review => item.in_grade_range /\ item.count = 0
      BY FeedMatchesList
    <2>3. \A q \in Linked(s) : list[q].due_at = due[q] /\ list[q].in_grade_range = InRange(q, feed_grade(s))
      BY DEF question_list
    <2>4. next_question(s) = {} =>
            \A q \in DOMAIN list : list[q].in_grade_range => list[q].due_at # None /\ list[q].due_at > day
      BY <2>1, <2>3, DryFeedWaits
    <2>5. \A q \in DOMAIN list : list[q].due_at # None <=> \E r \in Specs : answers[r][q].count > 0
      BY <2>1, <2>3 DEF FeedInv, ReviewsFollowLog
    <2>6. st.answers_count = AnswersOf(s)
      BY <2>1 DEF stats, FeedInv, CountersAgree, CountOf, Chosen
    <2>7. st.answers_count = SumFunction([t \in DOMAIN st.topics |-> st.topics[t].answers_count])
      <3>1. [t \in DOMAIN st.topics |-> st.topics[t].answers_count] = [t \in Rated(s) |-> rating[s][t].count]
        BY DEF stats, Rated
      <3>2. st.answers_count = RatingsCount(s)
        BY <2>1 DEF stats, FeedInv, CountersAgree, CountOf, Chosen
      <3> QED
        BY <3>1, <3>2 DEF RatingsCount
    <2>8. /\ totals.answered = totals.correct + totals.partial + totals.wrong
          /\ totals.answered <= totals.total /\ totals.answered <= st.answers_count
      BY <2>1, <2>6, TotalsAdd
    <2>9. st.overall_grade # None =>
            /\ st.answers_count >= MinAnswers
            /\ \E t \in DOMAIN st.topics : st.topics[t].grade <= st.overall_grade
            /\ \E t \in DOMAIN st.topics : st.topics[t].grade >= st.overall_grade
      BY OverallBetween
    <2> HIDE DEF list, st, totals
    <2> QED
      BY <2>2, <2>4, <2>5, <2>6, <2>7, <2>8, <2>9 DEF list, st, totals
  <1> QED
    BY <1>1, FeedTablesAgree, FeedAssumption, PTL
=============================================================================
