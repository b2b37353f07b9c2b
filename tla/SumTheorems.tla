------------------------------ MODULE SumTheorems ------------------------------
(***************************************************************************)
(* What SumFunctionOnSet of the community modules adds up to.  It adds the *)
(* terms one by one, in an order that is fixed but not known, so that what *)
(* is plain of a sum has to be shown by induction on the set.              *)
(***************************************************************************)
EXTENDS Integers, FiniteSets, Functions, FiniteSetTheorems, WellFoundedInduction, TLAPS

(* A set of natural numbers has a least one, and so a set of finite sets a  *)
(* smallest one: an induction takes the smallest counterexample.            *)
LEMMA LeastNumber == ASSUME NEW T \in SUBSET Nat, T # {} PROVE \E n \in T : \A m \in T : n <= m
<1> DEFINE R == {ss \in Nat \X Nat : ss[1] < ss[2]}
<1>1. IsWellFoundedOn(R, Nat)
  BY NatLessThanWellFounded, Zenon DEF OpToRel
<1>2. \A x, y \in Nat : x < y => <<x, y>> \in R
  OBVIOUS
<1> HIDE DEF R
<1>3. PICK n \in T : \A m \in T : ~(<<m, n>> \in R)
  BY <1>1, WFMin, Zenon
<1>4. \A m \in T : ~(m < n)
  BY <1>2, <1>3, Zenon
<1>5. \A m \in T : n <= m
  BY <1>4
<1> QED BY <1>5

LEMMA SmallestSet ==
  ASSUME NEW C, C # {}, \A S \in C : IsFiniteSet(S)
  PROVE  \E S \in C : \A T \in C : Cardinality(S) <= Cardinality(T)
<1> DEFINE sizes == {Cardinality(S) : S \in C}
<1>1. sizes \in SUBSET Nat /\ sizes # {}
  BY FS_CardinalityType
<1>2. PICK n \in sizes : \A m \in sizes : n <= m
  BY <1>1, LeastNumber
<1> QED BY <1>2

-----------------------------------------------------------------------------
(* The function by which a sum is defined, which gives the sums over all of *)
(* the subsets of S: there is one, and only one.                            *)
Chosen(s) == CHOOSE x \in s : TRUE

Sums(w, S, g) == g = [s \in SUBSET S |-> IF s = {} THEN 0 ELSE w[Chosen(s)] + g[s \ {Chosen(s)}]]

LEMMA ChosenSmaller ==
  ASSUME NEW S, IsFiniteSet(S), S # {}
  PROVE  /\ Chosen(S) \in S /\ IsFiniteSet(S \ {Chosen(S)})
         /\ Cardinality(S \ {Chosen(S)}) \in Nat /\ Cardinality(S) \in Nat
         /\ Cardinality(S \ {Chosen(S)}) < Cardinality(S)
<1>1. Chosen(S) \in S
  BY DEF Chosen
<1>2. IsFiniteSet(S \ {Chosen(S)}) /\ Cardinality(S \ {Chosen(S)}) = Cardinality(S) - 1
  BY <1>1, FS_RemoveElement, Zenon
<1>3. Cardinality(S) \in Nat /\ Cardinality(S \ {Chosen(S)}) \in Nat
  BY <1>2, FS_CardinalityType
<1> QED BY <1>1, <1>2, <1>3

LEMMA SumsUnique ==
  ASSUME NEW w, NEW S, IsFiniteSet(S), NEW R, S \subseteq R, NEW g, Sums(w, S, g), NEW h, Sums(w, R, h)
  PROVE  \A s \in SUBSET S : g[s] = h[s]
<1> DEFINE C == {s \in SUBSET S : g[s] # h[s]}
<1> SUFFICES ASSUME C # {} PROVE FALSE
  OBVIOUS
<1>1. PICK s \in C : \A t \in C : Cardinality(s) <= Cardinality(t)
  BY SmallestSet, FS_Subset
<1>2. s \in SUBSET S /\ g[s] # h[s] /\ IsFiniteSet(s)
  BY FS_Subset
<1>3. s # {}
  BY <1>2 DEF Sums
<1>4. s \ {Chosen(s)} \in SUBSET S /\ s \ {Chosen(s)} \notin C
  BY <1>1, <1>2, <1>3, ChosenSmaller
<1>5. g[s] = w[Chosen(s)] + g[s \ {Chosen(s)}] /\ h[s] = w[Chosen(s)] + h[s \ {Chosen(s)}]
  <2>1. g[s] = w[Chosen(s)] + g[s \ {Chosen(s)}]
    BY <1>2, <1>3 DEF Sums
  <2>2. s \in SUBSET R
    BY <1>2
  <2>3. h[s] = w[Chosen(s)] + h[s \ {Chosen(s)}]
    BY <2>2, <1>3 DEF Sums
  <2> QED BY <2>1, <2>3
<1> QED BY <1>2, <1>4, <1>5

SumsOf(w, S) == CHOOSE g : Sums(w, S, g)

LEMMA SumsExist == ASSUME NEW w, NEW S, IsFiniteSet(S) PROVE Sums(w, S, SumsOf(w, S))
<1> DEFINE C == {T \in SUBSET S : ~\E g : Sums(w, T, g)}
<1> SUFFICES ASSUME C # {} PROVE FALSE
  BY DEF SumsOf
<1>1. PICK T \in C : \A U \in C : Cardinality(T) <= Cardinality(U)
  BY SmallestSet, FS_Subset
<1>2. IsFiniteSet(T) /\ ~\E g : Sums(w, T, g)
  BY FS_Subset
<1>3. \A U \in SUBSET T : U # T => IsFiniteSet(U) /\ Sums(w, U, SumsOf(w, U))
  <2> SUFFICES ASSUME NEW U \in SUBSET T, U # T PROVE IsFiniteSet(U) /\ Sums(w, U, SumsOf(w, U))
    OBVIOUS
  <2>1. IsFiniteSet(U) /\ Cardinality(U) < Cardinality(T)
    BY <1>2, FS_Subset, FS_CardinalityType
  <2>2. U \notin C
    BY <1>1, <2>1, FS_CardinalityType, <1>2
  <2> QED BY <2>1, <2>2 DEF SumsOf
<1> DEFINE h(U) == SumsOf(w, U)[U]
           g == [s \in SUBSET T |-> IF s = {} THEN 0 ELSE w[Chosen(s)] + h(s \ {Chosen(s)})]
<1>4. ASSUME NEW U \in SUBSET T, U # T PROVE g[U] = h(U)
  <2>1. Sums(w, U, SumsOf(w, U)) /\ IsFiniteSet(U)
    BY <1>3, <1>4
  <2>2. CASE U = {}
    BY <2>1, <2>2 DEF Sums
  <2>3. CASE U # {}
    <3> DEFINE V == U \ {Chosen(U)}
    <3>1. Chosen(U) \in U /\ V \in SUBSET U /\ V \in SUBSET T /\ V # T
      BY <2>1, <2>3, ChosenSmaller
    <3>2. Sums(w, V, SumsOf(w, V)) /\ IsFiniteSet(V)
      BY <1>3, <3>1
    <3>3. SumsOf(w, V)[V] = SumsOf(w, U)[V]
      <4> V \in SUBSET V
        OBVIOUS
      <4> HIDE DEF V
      <4> QED BY <2>1, <3>1, <3>2, SumsUnique
    <3>4. SumsOf(w, U)[U] = w[Chosen(U)] + SumsOf(w, U)[V]
      BY <2>1, <2>3 DEF Sums
    <3>5. g[U] = w[Chosen(U)] + h(V)
      BY <2>3
    <3> QED BY <3>3, <3>4, <3>5
  <2> QED BY <2>2, <2>3
<1>5. Sums(w, T, g)
  <2> SUFFICES ASSUME NEW s \in SUBSET T, s # {} PROVE h(s \ {Chosen(s)}) = g[s \ {Chosen(s)}]
    BY DEF Sums
  <2>1. s \ {Chosen(s)} \in SUBSET T /\ s \ {Chosen(s)} # T
    BY <1>2, ChosenSmaller, FS_Subset
  <2> HIDE DEF g, h
  <2> QED BY <2>1, <1>4
<1> QED BY <1>2, <1>5

-----------------------------------------------------------------------------
(* Sums *)

LEMMA SumIs == ASSUME NEW w, NEW S PROVE SumFunctionOnSet(w, S) = SumsOf(w, S)[S]
  BY DEF SumFunctionOnSet, FoldFunctionOnSet, MapThenFoldSet, SumsOf, Sums, Chosen

LEMMA SumEmpty == ASSUME NEW w PROVE SumFunctionOnSet(w, {}) = 0
<1>1. Sums(w, {}, SumsOf(w, {}))
  BY SumsExist, FS_EmptySet
<1> QED BY <1>1, SumIs DEF Sums

LEMMA SumChosen ==
  ASSUME NEW w, NEW S, IsFiniteSet(S), S # {}
  PROVE  SumFunctionOnSet(w, S) = w[Chosen(S)] + SumFunctionOnSet(w, S \ {Chosen(S)})
<1> DEFINE V == S \ {Chosen(S)}
<1>1. V \subseteq S /\ V \in SUBSET V /\ IsFiniteSet(V)
  BY ChosenSmaller
<1>2. SumsOf(w, S)[S] = w[Chosen(S)] + SumsOf(w, S)[V]
  <2>1. Sums(w, S, SumsOf(w, S))
    BY SumsExist
  <2> QED BY <2>1 DEF Sums
<1>3. SumsOf(w, V)[V] = SumsOf(w, S)[V]
  <2> HIDE DEF V
  <2> QED BY <1>1, SumsExist, SumsUnique
<1> QED BY <1>2, <1>3, SumIs

(* Equal terms have equal sums. *)
LEMMA SumSame ==
  ASSUME NEW v, NEW w, NEW S, IsFiniteSet(S), \A x \in S : v[x] = w[x]
  PROVE  SumFunctionOnSet(v, S) = SumFunctionOnSet(w, S)
<1> DEFINE C == {T \in SUBSET S : SumFunctionOnSet(v, T) # SumFunctionOnSet(w, T)}
<1> SUFFICES ASSUME C # {} PROVE FALSE
  OBVIOUS
<1>1. PICK T \in C : \A U \in C : Cardinality(T) <= Cardinality(U)
  BY SmallestSet, FS_Subset
<1>2. IsFiniteSet(T) /\ T # {}
  BY FS_Subset, SumEmpty
<1>3. T \ {Chosen(T)} \notin C /\ Chosen(T) \in S
  BY <1>1, <1>2, ChosenSmaller
<1> QED BY <1>2, <1>3, SumChosen

LEMMA SumInt ==
  ASSUME NEW w, NEW S, IsFiniteSet(S), \A x \in S : w[x] \in Int
  PROVE  SumFunctionOnSet(w, S) \in Int
<1> DEFINE C == {T \in SUBSET S : SumFunctionOnSet(w, T) \notin Int}
<1> SUFFICES ASSUME C # {} PROVE FALSE
  OBVIOUS
<1>1. PICK T \in C : \A U \in C : Cardinality(T) <= Cardinality(U)
  BY SmallestSet, FS_Subset
<1>2. T \in SUBSET S /\ SumFunctionOnSet(w, T) \notin Int /\ IsFiniteSet(T)
  BY FS_Subset
<1>3. T # {}
  BY <1>2, SumEmpty
<1>4. T \ {Chosen(T)} \notin C /\ Chosen(T) \in S
  BY <1>1, <1>2, <1>3, ChosenSmaller
<1>5. SumFunctionOnSet(w, T \ {Chosen(T)}) \in Int /\ w[Chosen(T)] \in Int
  BY <1>2, <1>4
<1>6. SumFunctionOnSet(w, T) = w[Chosen(T)] + SumFunctionOnSet(w, T \ {Chosen(T)})
  BY <1>2, <1>3, SumChosen
<1> HIDE DEF C
<1> QED BY <1>2, <1>5, <1>6

(* The order does not matter: any term can be the last one that is added.   *)
Adds(w, T, y) == SumFunctionOnSet(w, T \cup {y}) = SumFunctionOnSet(w, T) + w[y]

LEMMA SumAdd ==
  ASSUME NEW w, NEW S, NEW x, IsFiniteSet(S), x \notin S, \A y \in S \cup {x} : w[y] \in Int
  PROVE  SumFunctionOnSet(w, S \cup {x}) = SumFunctionOnSet(w, S) + w[x]
<1> DEFINE all == S \cup {x}
           C == {T \in SUBSET all : \E y \in all : y \notin T /\ ~Adds(w, T, y)}
<1>0. IsFiniteSet(all) /\ x \in all /\ S \in SUBSET all
  BY FS_AddElement
<1> SUFFICES ASSUME C # {} PROVE FALSE
  BY <1>0 DEF Adds
<1> HIDE DEF all
<1>1. PICK T \in C : \A U \in C : Cardinality(T) <= Cardinality(U)
  BY <1>0, SmallestSet, FS_Subset
<1>2. PICK y \in all : y \notin T /\ ~Adds(w, T, y)
  OBVIOUS
<1>3. T \in SUBSET all /\ IsFiniteSet(T) /\ IsFiniteSet(T \cup {y})
  BY <1>0, FS_Subset, FS_AddElement
<1> DEFINE c == Chosen(T \cup {y})
           U == T \ {c}
<1>4. c \in T \cup {y} /\ SumFunctionOnSet(w, T \cup {y}) = w[c] + SumFunctionOnSet(w, (T \cup {y}) \ {c})
  BY <1>3, SumChosen, ChosenSmaller
<1> HIDE DEF c
<1>5. SumFunctionOnSet(w, T) \in Int /\ w[y] \in Int /\ w[c] \in Int
  BY <1>3, <1>4, SumInt DEF all
<1>6. c # y
  <2> SUFFICES ASSUME c = y PROVE FALSE
    OBVIOUS
  <2>1. (T \cup {y}) \ {c} = T
    BY <1>2
  <2>2. SumFunctionOnSet(w, T \cup {y}) = w[y] + SumFunctionOnSet(w, T)
    BY <1>4, <2>1, Zenon
  <2>3. Adds(w, T, y)
    BY <1>5, <2>2 DEF Adds
  <2> QED BY <1>2, <2>3
<1>7. /\ U \in SUBSET all /\ IsFiniteSet(U) /\ c \notin U /\ y \notin U /\ c \in all
      /\ U \cup {c} = T /\ (T \cup {y}) \ {c} = U \cup {y}
  BY <1>2, <1>3, <1>4, <1>6, FS_RemoveElement
<1>8. Cardinality(U) < Cardinality(T)
  <2>1. Cardinality(U) = Cardinality(T) - 1 /\ Cardinality(T) \in Nat
    BY <1>3, <1>4, <1>6, FS_RemoveElement, FS_CardinalityType
  <2> QED BY <2>1
<1>9. U \notin C
  <2>1. Cardinality(U) \in Nat /\ Cardinality(T) \in Nat
    BY <1>3, <1>7, FS_CardinalityType
  <2> HIDE DEF C, U
  <2> QED BY <1>1, <1>8, <2>1
<1>10. Adds(w, U, c) /\ Adds(w, U, y)
  BY <1>7, <1>9
<1>11. SumFunctionOnSet(w, U) \in Int
  BY <1>7, SumInt DEF all
<1> HIDE DEF U, C
<1>12. /\ SumFunctionOnSet(w, T \cup {y}) = w[c] + SumFunctionOnSet(w, U \cup {y})
       /\ SumFunctionOnSet(w, T) = SumFunctionOnSet(w, U) + w[c]
  BY <1>4, <1>7, <1>10, Zenon DEF Adds
<1>13. Adds(w, T, y)
  BY <1>5, <1>10, <1>11, <1>12 DEF Adds
<1> QED BY <1>2, <1>13

LEMMA SumRemove ==
  ASSUME NEW w, NEW S, NEW x \in S, IsFiniteSet(S), \A y \in S : w[y] \in Int
  PROVE  SumFunctionOnSet(w, S) = SumFunctionOnSet(w, S \ {x}) + w[x]
<1>1. IsFiniteSet(S \ {x}) /\ (S \ {x}) \cup {x} = S /\ x \notin S \ {x}
  BY FS_RemoveElement
<1>2. SumFunctionOnSet(w, (S \ {x}) \cup {x}) = SumFunctionOnSet(w, S \ {x}) + w[x]
  BY <1>1, SumAdd
<1> QED BY <1>1, <1>2, Zenon

(* Sums of natural numbers are natural numbers. *)
LEMMA SumNat ==
  ASSUME NEW w, NEW S, IsFiniteSet(S), \A x \in S : w[x] \in Nat
  PROVE  SumFunctionOnSet(w, S) \in Nat
<1> DEFINE C == {T \in SUBSET S : SumFunctionOnSet(w, T) \notin Nat}
<1> SUFFICES ASSUME C # {} PROVE FALSE
  OBVIOUS
<1>1. PICK T \in C : \A U \in C : Cardinality(T) <= Cardinality(U)
  BY SmallestSet, FS_Subset
<1>2. T \in SUBSET S /\ SumFunctionOnSet(w, T) \notin Nat /\ IsFiniteSet(T)
  BY FS_Subset
<1>3. T # {}
  BY <1>2, SumEmpty
<1>4. T \ {Chosen(T)} \notin C /\ Chosen(T) \in S
  BY <1>1, <1>2, <1>3, ChosenSmaller
<1>5. SumFunctionOnSet(w, T \ {Chosen(T)}) \in Nat /\ w[Chosen(T)] \in Nat
  BY <1>2, <1>4
<1>6. SumFunctionOnSet(w, T) = w[Chosen(T)] + SumFunctionOnSet(w, T \ {Chosen(T)})
  BY <1>2, <1>3, SumChosen
<1> HIDE DEF C
<1> QED BY <1>2, <1>5, <1>6

(* A sum over the images of distinct elements. *)
LEMMA SumImage ==
  ASSUME NEW v, NEW w, NEW S, NEW at, IsFiniteSet(S),
         \A x, y \in S : at[x] = at[y] => x = y,
         \A x \in S : v[x] = w[at[x]] /\ v[x] \in Int
  PROVE  SumFunctionOnSet(v, S) = SumFunctionOnSet(w, {at[x] : x \in S})
<1> DEFINE Moved(U) == SumFunctionOnSet(v, U) = SumFunctionOnSet(w, {at[x] : x \in U})
           C == {U \in SUBSET S : ~Moved(U)}
<1> SUFFICES ASSUME C # {} PROVE FALSE
  OBVIOUS
<1>1. PICK U \in C : \A V \in C : Cardinality(U) <= Cardinality(V)
  BY SmallestSet, FS_Subset
<1>2. U \in SUBSET S /\ ~Moved(U) /\ IsFiniteSet(U)
  BY FS_Subset
<1>4. U # {}
  <2>1. {at[x] : x \in {}} = {}
    OBVIOUS
  <2>2. SumFunctionOnSet(w, {at[x] : x \in {}}) = 0
    BY <2>1, SumEmpty, Zenon
  <2> QED BY <1>2, <2>2, SumEmpty
<1>5. PICK x \in U : TRUE
  BY <1>4
<1> DEFINE V == U \ {x}
<1>6. V \in SUBSET S /\ IsFiniteSet(V) /\ Cardinality(V) < Cardinality(U) /\ Cardinality(V) \in Nat /\ Cardinality(U) \in Nat
  <2>1. Cardinality(V) = Cardinality(U) - 1 /\ IsFiniteSet(V)
    BY <1>2, FS_RemoveElement
  <2> QED BY <1>2, <2>1, FS_CardinalityType
<1>7. V \notin C
  <2> HIDE DEF C, V
  <2> QED BY <1>1, <1>6
<1>8. Moved(V)
  BY <1>6, <1>7
<1>9. SumFunctionOnSet(v, U) = SumFunctionOnSet(v, V) + v[x] /\ v[x] = w[at[x]]
  BY <1>2, SumRemove
<1>10. SumFunctionOnSet(w, {at[y] : y \in U}) = SumFunctionOnSet(w, {at[y] : y \in V}) + w[at[x]]
  <2> DEFINE I == {at[y] : y \in U}
  <2>1. IsFiniteSet(I)
    <3>1. [y \in U |-> at[y]] \in Surjection(U, I)
      BY DEF Surjection
    <3> QED BY <1>2, <3>1, FS_Surjection
  <2>2. I \ {at[x]} = {at[y] : y \in V} /\ at[x] \in I /\ \A y \in I : w[y] \in Int
    BY <1>2
  <2> HIDE DEF I
  <2>3. SumFunctionOnSet(w, I) = SumFunctionOnSet(w, I \ {at[x]}) + w[at[x]]
    BY <2>1, <2>2, SumRemove
  <2> QED BY <2>2, <2>3, Zenon DEF I
<1> HIDE DEF V, C
<1>11. Moved(U)
  BY <1>8, <1>9, <1>10
<1> QED BY <1>2, <1>11
=============================================================================
