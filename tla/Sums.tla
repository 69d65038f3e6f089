-------------------------------- MODULE Sums --------------------------------
(***************************************************************************)
(* Facts about the sums of the community modules, SumFunctionOnSet over    *)
(* finite sets, which the SQL collectors are modelled with.  The sum is a  *)
(* recursive function on the subsets of its index set.  Each fact that     *)
(* needs an induction is proved by a least counterexample: of the finite   *)
(* sets that violate it, one has no other among its subsets.               *)
(***************************************************************************)
EXTENDS Integers, FiniteSets, Functions, FiniteSetTheorems, TLAPS

(* The element the library removes, its equation, and its function.        *)
Taken(s) == CHOOSE x \in s : TRUE
Summed(f, g, s) == IF s = {} THEN 0 ELSE f[Taken(s)] + g[s \ {Taken(s)}]
Summer(f, S) == CHOOSE g : g = [s \in SUBSET S |-> Summed(f, g, s)]

LEMMA SumIsSummer ==
  ASSUME NEW f, NEW S
  PROVE  SumFunctionOnSet(f, S) = Summer(f, S)[S]
BY DEF SumFunctionOnSet, FoldFunctionOnSet, MapThenFoldSet, Summer, Summed, Taken

(* A non-empty collection of subsets of a finite set has a least element.  *)
LEMMA LeastSubset ==
  ASSUME NEW S, IsFiniteSet(S), NEW B, B \subseteq SUBSET S, B # {}
  PROVE  \E T \in B : \A U \in B : U \subseteq T => U = T
<1>1. FiniteSubsetsOf(S) = SUBSET S
  BY FS_FiniteSubsetsOfFinite
<1>2. IsWellFoundedOn(StrictSubsetOrdering(S), SUBSET S)
  BY <1>1, FS_StrictSubsetOrderingWellFounded
<1>3. \E T \in B : \A U \in B : <<U, T>> \notin StrictSubsetOrdering(S)
  BY <1>2, WFMin
<1> QED
  BY <1>3 DEF StrictSubsetOrdering

LEMMA TakenIn == ASSUME NEW s, s # {} PROVE Taken(s) \in s
BY DEF Taken

(* Two functions that satisfy the equation agree where both are defined.   *)
LEMMA SummersAgree ==
  ASSUME NEW f, NEW S, IsFiniteSet(S), NEW g, NEW h,
         \A s \in SUBSET S : g[s] = Summed(f, g, s),
         \A s \in SUBSET S : h[s] = Summed(f, h, s)
  PROVE  g[S] = h[S]
<1> DEFINE B == {T \in SUBSET S : g[T] # h[T]}
<1> SUFFICES ASSUME B # {} PROVE FALSE
  OBVIOUS
<1>0. B \subseteq SUBSET S
  OBVIOUS
<1> HIDE DEF B
<1>1. PICK T \in B : \A U \in B : U \subseteq T => U = T
  BY <1>0, LeastSubset
<1>2. T # {}
  BY <1>1 DEF Summed, B
<1>3. Taken(T) \in T
  BY <1>2, TakenIn
<1>4. T \ {Taken(T)} \in SUBSET S /\ T \ {Taken(T)} \notin B
  BY <1>0, <1>1, <1>3
<1>5. g[T \ {Taken(T)}] = h[T \ {Taken(T)}]
  BY <1>4 DEF B
<1> QED
  BY <1>1, <1>5 DEF Summed, B

(* The library's function exists, and satisfies its equation.              *)
LEMMA SummerEquation ==
  ASSUME NEW f, NEW S, IsFiniteSet(S)
  PROVE  \A t \in SUBSET S : Summer(f, S)[t] = Summed(f, Summer(f, S), t)
<1> DEFINE Good(T) == Summer(f, T) = [s \in SUBSET T |-> Summed(f, Summer(f, T), s)]
           B == {T \in SUBSET S : ~Good(T)}
<1>1. Good(S)
  <2> SUFFICES ASSUME B # {} PROVE FALSE
    OBVIOUS
  <2>0. B \subseteq SUBSET S
    OBVIOUS
  <2> HIDE DEF B
  <2>1. PICK T \in B : \A U \in B : U \subseteq T => U = T
    BY <2>0, LeastSubset
  <2>2. \A U \in SUBSET T : U # T => Good(U)
    BY <2>0, <2>1 DEF B
  <2> HIDE DEF Good
  <2> DEFINE sum(U) == Summer(f, U)[U]
             g == [s \in SUBSET T |->
                     IF s = {} THEN 0 ELSE f[Taken(s)] + sum(s \ {Taken(s)})]
  <2>3. ASSUME NEW U \in SUBSET T, U # T PROVE g[U] = sum(U)
    <3>1. Good(U)
      BY <2>2, <2>3
    <3>2. \A s \in SUBSET U : Summer(f, U)[s] = Summed(f, Summer(f, U), s)
      BY <3>1 DEF Good
    <3>3. CASE U = {}
      BY <3>2, <3>3 DEF Summed
    <3>4. CASE U # {}
      <4> DEFINE V == U \ {Taken(U)}
      <4>1. V \in SUBSET U /\ V # U /\ V \in SUBSET T /\ V # T
        BY <3>4, TakenIn
      <4>2. Good(V)
        BY <2>2, <4>1
      <4>3. \A s \in SUBSET V : Summer(f, V)[s] = Summed(f, Summer(f, V), s)
        BY <4>2 DEF Good
      <4>4. \A s \in SUBSET V : Summer(f, U)[s] = Summed(f, Summer(f, U), s)
        BY <3>2, <4>1
      <4>5. IsFiniteSet(V)
        BY <4>1, <2>0, <2>1, FS_Subset
      <4> DEFINE a == Summer(f, U)
                 b == Summer(f, V)
      <4> HIDE DEF V, a, b
      <4>6. a[V] = b[V]
        <5>1. \A s \in SUBSET V : a[s] = Summed(f, a, s)
          BY <4>4 DEF a
        <5>2. \A s \in SUBSET V : b[s] = Summed(f, b, s)
          BY <4>3 DEF b
        <5> QED
          BY <5>1, <5>2, <4>5, SummersAgree
      <4>7. Summer(f, U)[U] = f[Taken(U)] + Summer(f, U)[V]
        BY <3>2, <3>4 DEF Summed, V
      <4>8. g[U] = f[Taken(U)] + sum(V)
        BY <3>4 DEF V
      <4> QED
        BY <4>6, <4>7, <4>8 DEF a, b
    <3> QED
      BY <3>3, <3>4
  <2>4. ASSUME NEW s \in SUBSET T PROVE g[s] = Summed(f, g, s)
    <3>1. CASE s = {}
      BY <3>1 DEF Summed
    <3>2. CASE s # {}
      <4>1. s \ {Taken(s)} \in SUBSET T /\ s \ {Taken(s)} # T
        BY <3>2, TakenIn
      <4>2. g[s \ {Taken(s)}] = sum(s \ {Taken(s)})
        BY <4>1, <2>3
      <4> QED
        BY <3>2, <4>2 DEF Summed
    <3> QED
      BY <3>1, <3>2
  <2>5. g = [s \in SUBSET T |-> Summed(f, g, s)]
    <3> DEFINE k == [s \in SUBSET T |-> Summed(f, g, s)]
    <3>1. \A s \in SUBSET T : g[s] = k[s]
      BY <2>4
    <3> QED
      BY <3>1
  <2> HIDE DEF g
  <2>6. Good(T)
    BY <2>5 DEF Good, Summer
  <2> QED
    BY <2>1, <2>6 DEF B
<1> QED
  BY <1>1 DEF Good

-----------------------------------------------------------------------------

LEMMA SumEmpty == ASSUME NEW f PROVE SumFunctionOnSet(f, {}) = 0
<1> DEFINE E == {}
<1>1. IsFiniteSet(E)
  BY FS_EmptySet
<1> HIDE DEF E
<1>2. Summer(f, E)[E] = Summed(f, Summer(f, E), E)
  BY <1>1, SummerEquation
<1> QED
  BY <1>2, SumIsSummer DEF Summed, E

(* The equation, for the element that the library removes.                 *)
LEMMA SumTaken ==
  ASSUME NEW f, NEW S, IsFiniteSet(S), S # {}
  PROVE  /\ Taken(S) \in S
         /\ SumFunctionOnSet(f, S)
              = f[Taken(S)] + SumFunctionOnSet(f, S \ {Taken(S)})
<1> DEFINE T == S \ {Taken(S)}
           a == Summer(f, S)
           b == Summer(f, T)
<1>1. T \in SUBSET S /\ Taken(S) \in S
  BY TakenIn
<1>2. IsFiniteSet(T)
  BY FS_Subset
<1> HIDE DEF T, a, b
<1>3. \A s \in SUBSET S : a[s] = Summed(f, a, s)
  BY SummerEquation DEF a
<1>4. \A s \in SUBSET T : b[s] = Summed(f, b, s)
  BY <1>2, SummerEquation DEF b
<1>5. a[S] = f[Taken(S)] + a[T]
  BY <1>3 DEF Summed, T
<1>6. \A s \in SUBSET T : a[s] = Summed(f, a, s)
  BY <1>1, <1>3
<1>8. a[T] = b[T]
  <2>1. \A s \in SUBSET T : a[s] = Summed(f, a, s)
    BY <1>6
  <2>2. \A s \in SUBSET T : b[s] = Summed(f, b, s)
    BY <1>4
  <2>3. IsFiniteSet(T)
    BY <1>2
  <2> QED
    BY <2>1, <2>2, <2>3, SummersAgree
<1>9. SumFunctionOnSet(f, S) = a[S] /\ SumFunctionOnSet(f, T) = b[T]
  BY SumIsSummer DEF a, b
<1> QED
  BY <1>1, <1>5, <1>8, <1>9 DEF T

LEMMA SumType ==
  ASSUME NEW f, NEW S, IsFiniteSet(S), \A x \in S : f[x] \in Nat
  PROVE  SumFunctionOnSet(f, S) \in Nat
<1> DEFINE B == {T \in SUBSET S : SumFunctionOnSet(f, T) \notin Nat}
<1> SUFFICES ASSUME B # {} PROVE FALSE
  OBVIOUS
<1>0. B \subseteq SUBSET S
  OBVIOUS
<1> HIDE DEF B
<1>1. PICK T \in B : \A U \in B : U \subseteq T => U = T
  BY <1>0, LeastSubset
<1>2. T # {} /\ T \in SUBSET S /\ IsFiniteSet(T)
  <2>1. T \in SUBSET S /\ SumFunctionOnSet(f, T) \notin Nat
    BY <1>1 DEF B
  <2>2. T # {}
    BY <2>1, SumEmpty
  <2> QED
    BY <2>1, <2>2, FS_Subset
<1>3. /\ Taken(T) \in T
      /\ SumFunctionOnSet(f, T) = f[Taken(T)] + SumFunctionOnSet(f, T \ {Taken(T)})
  BY <1>2, SumTaken
<1>4. SumFunctionOnSet(f, T \ {Taken(T)}) \in Nat
  <2>1. T \ {Taken(T)} \notin B
    BY <1>1, <1>3
  <2> QED
    BY <1>2, <2>1 DEF B
<1>5. f[Taken(T)] \in Nat
  BY <1>2, <1>3
<1> QED
  BY <1>1, <1>3, <1>4, <1>5 DEF B

LEMMA SumAgree ==
  ASSUME NEW f, NEW g, NEW S, IsFiniteSet(S), \A x \in S : f[x] = g[x]
  PROVE  SumFunctionOnSet(f, S) = SumFunctionOnSet(g, S)
<1> DEFINE B == {T \in SUBSET S : SumFunctionOnSet(f, T) # SumFunctionOnSet(g, T)}
<1> SUFFICES ASSUME B # {} PROVE FALSE
  OBVIOUS
<1>0. B \subseteq SUBSET S
  OBVIOUS
<1> HIDE DEF B
<1>1. PICK T \in B : \A U \in B : U \subseteq T => U = T
  BY <1>0, LeastSubset
<1>2. T # {} /\ T \in SUBSET S /\ IsFiniteSet(T)
  BY <1>0, <1>1, SumEmpty, FS_Subset DEF B
<1>3. /\ Taken(T) \in T
      /\ SumFunctionOnSet(f, T) = f[Taken(T)] + SumFunctionOnSet(f, T \ {Taken(T)})
      /\ SumFunctionOnSet(g, T) = g[Taken(T)] + SumFunctionOnSet(g, T \ {Taken(T)})
  BY <1>2, SumTaken
<1>4. T \ {Taken(T)} \in SUBSET S /\ T \ {Taken(T)} \notin B
  BY <1>1, <1>2, <1>3
<1>5. SumFunctionOnSet(f, T \ {Taken(T)}) = SumFunctionOnSet(g, T \ {Taken(T)})
  BY <1>4 DEF B
<1>6. f[Taken(T)] = g[Taken(T)]
  BY <1>2, <1>3
<1> QED
  BY <1>1, <1>3, <1>5, <1>6 DEF B

(* Addition commutes: any element may be taken out first.                  *)
LEMMA SumRemove ==
  ASSUME NEW f, NEW S, IsFiniteSet(S), \A x \in S : f[x] \in Nat, NEW e \in S
  PROVE  SumFunctionOnSet(f, S) = f[e] + SumFunctionOnSet(f, S \ {e})
<1> DEFINE Splits(T, x) ==
             SumFunctionOnSet(f, T) = f[x] + SumFunctionOnSet(f, T \ {x})
           B == {T \in SUBSET S : \E x \in T : ~Splits(T, x)}
<1> SUFFICES ASSUME B # {} PROVE FALSE
  OBVIOUS
<1>0. B \subseteq SUBSET S
  OBVIOUS
<1> HIDE DEF B
<1>1. PICK T \in B : \A U \in B : U \subseteq T => U = T
  BY <1>0, LeastSubset
<1>2. PICK x \in T : ~Splits(T, x)
  BY <1>1 DEF B
<1>3. T # {} /\ T \in SUBSET S /\ IsFiniteSet(T)
  BY <1>0, <1>1, <1>2, FS_Subset
<1> DEFINE n == Taken(T)
<1>4. n \in T /\ SumFunctionOnSet(f, T) = f[n] + SumFunctionOnSet(f, T \ {n})
  BY <1>3, SumTaken
<1> HIDE DEF n
<1>5. x # n
  BY <1>2, <1>4
<1>6. \A U \in SUBSET T : U # T => \A y \in U : Splits(U, y)
  BY <1>1, <1>3 DEF B
<1>7. Splits(T \ {n}, x) /\ Splits(T \ {x}, n)
  BY <1>2, <1>4, <1>5, <1>6
<1>8. (T \ {n}) \ {x} = (T \ {x}) \ {n}
  OBVIOUS
<1>9. /\ f[x] \in Nat /\ f[n] \in Nat
      /\ SumFunctionOnSet(f, (T \ {n}) \ {x}) \in Nat
  <2>1. (T \ {n}) \ {x} \in SUBSET T
    OBVIOUS
  <2>2. IsFiniteSet((T \ {n}) \ {x}) /\ \A y \in (T \ {n}) \ {x} : f[y] \in Nat
    BY <1>3, <2>1, FS_Subset
  <2> QED
    BY <1>3, <1>4, <2>2, SumType
<1> QED
  BY <1>2, <1>4, <1>7, <1>8, <1>9

(* A sum in which one element changes.                                     *)
LEMMA SumUpdate ==
  ASSUME NEW f, NEW g, NEW S, IsFiniteSet(S), NEW e \in S,
         \A x \in S : f[x] \in Nat /\ g[x] \in Nat,
         \A x \in S \ {e} : g[x] = f[x]
  PROVE  SumFunctionOnSet(g, S) = SumFunctionOnSet(f, S) - f[e] + g[e]
<1>1. IsFiniteSet(S \ {e})
  BY FS_Subset
<1>2. SumFunctionOnSet(g, S \ {e}) = SumFunctionOnSet(f, S \ {e})
  BY <1>1, SumAgree
<1>3. SumFunctionOnSet(f, S) = f[e] + SumFunctionOnSet(f, S \ {e})
  BY SumRemove
<1>4. SumFunctionOnSet(g, S) = g[e] + SumFunctionOnSet(g, S \ {e})
  BY SumRemove
<1>5. SumFunctionOnSet(f, S \ {e}) \in Nat
  BY <1>1, SumType
<1> QED
  BY <1>2, <1>3, <1>4, <1>5

(* Elements that count nothing do not matter.                              *)
LEMMA SumOfSupport ==
  ASSUME NEW f, NEW S, IsFiniteSet(S), NEW T \in SUBSET S,
         \A x \in S : f[x] \in Nat, \A x \in S \ T : f[x] = 0
  PROVE  SumFunctionOnSet(f, S) = SumFunctionOnSet(f, T)
<1> DEFINE B == {U \in SUBSET S : /\ T \subseteq U
                                 /\ SumFunctionOnSet(f, U) # SumFunctionOnSet(f, T)}
<1> SUFFICES ASSUME B # {} PROVE FALSE
  OBVIOUS
<1>0. B \subseteq SUBSET S
  OBVIOUS
<1> HIDE DEF B
<1>1. PICK U \in B : \A V \in B : V \subseteq U => V = U
  BY <1>0, LeastSubset
<1>2. U \in SUBSET S /\ T \subseteq U /\ U # T
  BY <1>1 DEF B
<1>3. PICK e \in U : e \notin T
  BY <1>2
<1>4. IsFiniteSet(U) /\ IsFiniteSet(U \ {e}) /\ U \ {e} \in SUBSET S
  BY <1>2, FS_Subset
<1>5. SumFunctionOnSet(f, U \ {e}) = SumFunctionOnSet(f, T)
  BY <1>1, <1>2, <1>3, <1>4 DEF B
<1>6. SumFunctionOnSet(f, U) = f[e] + SumFunctionOnSet(f, U \ {e})
  BY <1>2, <1>4, SumRemove
<1>7. f[e] = 0 /\ SumFunctionOnSet(f, U \ {e}) \in Nat
  BY <1>2, <1>3, <1>4, SumType
<1> QED
  BY <1>1, <1>5, <1>6, <1>7 DEF B

LEMMA SumOfZeros ==
  ASSUME NEW f, NEW S, IsFiniteSet(S), \A x \in S : f[x] = 0
  PROVE  SumFunctionOnSet(f, S) = 0
BY SumOfSupport, SumEmpty

(* A non-empty finite set of numbers has a greatest and a least one.       *)
LEMMA GreatestOf ==
  ASSUME NEW S, IsFiniteSet(S), S \subseteq Nat, S # {}
  PROVE  \E x \in S : \A y \in S : y <= x
<1> DEFINE Beyond == [x \in S |-> {y \in S : y > x}]
           B == {Beyond[x] : x \in S}
<1>0. B \subseteq SUBSET S /\ B # {}
  OBVIOUS
<1> HIDE DEF B, Beyond
<1>1. \E T \in B : \A U \in B : U \subseteq T => U = T
  <2>1. B \subseteq SUBSET S
    BY <1>0
  <2>2. B # {}
    BY <1>0
  <2>3. IsFiniteSet(S)
    OBVIOUS
  <2> QED
    BY ONLY <2>1, <2>2, <2>3, LeastSubset
<1>2. PICK x \in S : \A y \in S : Beyond[y] \subseteq Beyond[x] => Beyond[y] = Beyond[x]
  <2>1. PICK T \in B : \A U \in B : U \subseteq T => U = T
    BY <1>1
  <2>2. \A y \in S : Beyond[y] \in B
    BY DEF B, Beyond
  <2>3. PICK x \in S : T = Beyond[x]
    BY DEF B
  <2> HIDE DEF Beyond
  <2> QED
    BY <2>1, <2>2, <2>3
<1>3. ASSUME NEW y \in S, y > x PROVE FALSE
  <2>1. \A z \in S : z > y => z > x
    BY <1>3
  <2>2. Beyond[y] \subseteq Beyond[x]
    BY <2>1 DEF Beyond
  <2>3. y \in Beyond[x] /\ y \notin Beyond[y]
    BY <1>3 DEF Beyond
  <2> QED
    BY <1>2, <2>2, <2>3
<1> QED
  BY <1>3

LEMMA LeastOf ==
  ASSUME NEW S, IsFiniteSet(S), S \subseteq Nat, S # {}
  PROVE  \E x \in S : \A y \in S : x <= y
<1> DEFINE Beyond == [x \in S |-> {y \in S : y < x}]
           B == {Beyond[x] : x \in S}
<1>0. B \subseteq SUBSET S /\ B # {}
  OBVIOUS
<1> HIDE DEF B, Beyond
<1>1. \E T \in B : \A U \in B : U \subseteq T => U = T
  <2>1. B \subseteq SUBSET S
    BY <1>0
  <2>2. B # {}
    BY <1>0
  <2>3. IsFiniteSet(S)
    OBVIOUS
  <2> QED
    BY ONLY <2>1, <2>2, <2>3, LeastSubset
<1>2. PICK x \in S : \A y \in S : Beyond[y] \subseteq Beyond[x] => Beyond[y] = Beyond[x]
  <2>1. PICK T \in B : \A U \in B : U \subseteq T => U = T
    BY <1>1
  <2>2. \A y \in S : Beyond[y] \in B
    BY DEF B, Beyond
  <2>3. PICK x \in S : T = Beyond[x]
    BY DEF B
  <2> HIDE DEF Beyond
  <2> QED
    BY <2>1, <2>2, <2>3
<1>3. ASSUME NEW y \in S, y < x PROVE FALSE
  <2>1. \A z \in S : z < y => z < x
    BY <1>3
  <2>2. Beyond[y] \subseteq Beyond[x]
    BY <2>1 DEF Beyond
  <2>3. y \in Beyond[x] /\ y \notin Beyond[y]
    BY <1>3 DEF Beyond
  <2> QED
    BY <1>2, <2>2, <2>3
<1> QED
  BY <1>3
=============================================================================
