-------------------------- MODULE BudgetStoreProofs --------------------------
(***************************************************************************)
(* What is proved of the budget store, for every set of requests, scopes,  *)
(* windows and callers: its state keeps its shape; prune never folds away  *)
(* a history row that an open hold will still adjust; the totals, the      *)
(* history and the records agree; admission counts what the records owe,   *)
(* and so admits within every limit; a closed request's bill stands.       *)
(*                                                                         *)
(* The accounts are sums over finite sets, which the fold of the community *)
(* modules computes by a CHOOSE: the first section shows of that sum what  *)
(* arithmetic needs.                                                       *)
(***************************************************************************)
EXTENDS BudgetStore, FiniteSetTheorems, WellFoundedInduction, TLAPS

-----------------------------------------------------------------------------
(* Sums over finite sets. *)

\* A nonempty set of natural numbers has a least one.
LEMMA LeastNat ==
  ASSUME NEW T, T \subseteq Nat, T # {}
  PROVE  \E n \in T : \A m \in T : n <= m
<1> DEFINE R == OpToRel(<, Nat)
<1>1. IsWellFoundedOn(R, Nat)
  BY NatLessThanWellFounded
<1>2. \E n \in T : \A m \in T : ~(<<m, n>> \in R)
  <2> HIDE DEF R
  <2> QED BY <1>1, WFMin
<1>3. PICK n \in T : \A m \in T : ~(<<m, n>> \in R)
  BY <1>2
<1>4. \A m \in T : ~(m < n)
  BY <1>3 DEF OpToRel
<1> QED BY <1>4

\* A set of subsets of a finite set that has each one whose smaller subsets it
\* has, has the whole: of those outside, one with the fewest elements would have
\* all its smaller subsets inside.
LEMMA SmallerFirst ==
  ASSUME NEW S, IsFiniteSet(S), NEW G,
         \A s \in SUBSET S : (\A r \in SUBSET s : r # s => r \in G) => s \in G
  PROVE  S \in G
<1> DEFINE T == {n \in Nat : \E s \in SUBSET S : Cardinality(s) = n /\ s \notin G}
<1>2. ASSUME T # {} PROVE FALSE
  <2>1. T \subseteq Nat
    OBVIOUS
  <2> HIDE DEF T
  <2>2. PICK n \in T : \A m \in T : n <= m
    BY <1>2, <2>1, LeastNat
  <2>3. PICK s \in SUBSET S : Cardinality(s) = n /\ s \notin G /\ n \in Nat
    BY <2>2 DEF T
  <2>4. IsFiniteSet(s)
    BY <2>3, FS_Subset
  <2>5. PICK r \in SUBSET s : r # s /\ r \notin G
    BY <2>3
  <2>6. IsFiniteSet(r) /\ Cardinality(r) \in Nat /\ Cardinality(r) < n
    <3>1. IsFiniteSet(r) /\ Cardinality(r) <= n /\ Cardinality(r) # n
      BY <2>3, <2>4, <2>5, FS_Subset
    <3>2. Cardinality(r) \in Nat
      BY <3>1, FS_CardinalityType
    <3> QED BY <2>3, <3>1, <3>2
  <2>7. Cardinality(r) \in T
    BY <2>3, <2>5, <2>6 DEF T
  <2> QED BY <2>2, <2>3, <2>6, <2>7
<1>3. S \in G \/ Cardinality(S) \in T
  BY FS_CardinalityType
<1> QED BY <1>2, <1>3

\* So has one with the empty set that has, with a set, every one of an element
\* more.
LEMMA GrowingUp ==
  ASSUME NEW S, IsFiniteSet(S), NEW G, {} \in G,
         \A s \in G : \A x \in S \ s : s \cup {x} \in G
  PROVE  S \in G
<1>1. ASSUME NEW s \in SUBSET S, \A r \in SUBSET s : r # s => r \in G
      PROVE  s \in G
  <2>1. CASE s = {}
    BY <2>1
  <2>2. CASE s # {}
    <3>1. PICK x \in s : TRUE
      BY <2>2
    <3>2. s \ {x} \in G /\ x \in S \ (s \ {x})
      BY <1>1, <3>1
    <3>3. (s \ {x}) \cup {x} = s
      BY <3>1
    <3> QED BY <3>2, <3>3
  <2> QED BY <2>1, <2>2
<1> QED BY <1>1, SmallerFirst

\* What the sum of w over S computes, one element at a time.
First(s) == CHOOSE x \in s : TRUE
Totals(w, S, t) ==
  t = [s \in SUBSET S |-> IF s = {} THEN 0 ELSE w[First(s)] + t[s \ {First(s)}]]

\* The same, for the sets of a family only.
TotalsIn(w, F, t) ==
  t = [s \in F |-> IF s = {} THEN 0 ELSE w[First(s)] + t[s \ {First(s)}]]

\* Such a computation exists: it grows with the number of elements.
LEMMA TotalsExist ==
  ASSUME NEW w, NEW S, IsFiniteSet(S)
  PROVE  \E t : Totals(w, S, t)
<1> DEFINE U(n) == {s \in SUBSET S : Cardinality(s) <= n}
           N == {n \in Nat : \E t : TotalsIn(w, U(n), t)}
           K == {s \in SUBSET S : Cardinality(s) \in N}
<1>0. \A s \in SUBSET S : IsFiniteSet(s) /\ Cardinality(s) \in Nat
  BY FS_Subset, FS_CardinalityType
<1>1. 0 \in N
  <2>1. \A s \in U(0) : s = {}
    <3>1. \A s \in U(0) : Cardinality(s) = 0 /\ IsFiniteSet(s)
      BY <1>0
    <3> QED BY <3>1, FS_EmptySet
  <2>2. TotalsIn(w, U(0), [s \in U(0) |-> 0])
    BY <2>1 DEF TotalsIn
  <2> QED BY <2>2
<1>2. ASSUME NEW n \in N PROVE n + 1 \in N
  <2>1. PICK t : TotalsIn(w, U(n), t)
    BY <1>2
  <2> DEFINE u == [s \in U(n + 1) |-> IF s = {} THEN 0 ELSE w[First(s)] + t[s \ {First(s)}]]
  <2>2. n \in Nat
    BY <1>2
  <2>3. ASSUME NEW s \in U(n + 1), s # {}
        PROVE  s \ {First(s)} \in U(n) /\ s \ {First(s)} \in U(n + 1)
    <3>1. First(s) \in s
      BY <2>3 DEF First
    <3>2. Cardinality(s \ {First(s)}) = Cardinality(s) - 1
      BY <1>0, <3>1, FS_RemoveElement
    <3>3. Cardinality(s) \in Nat /\ Cardinality(s) <= n + 1
      BY <1>0
    <3>4. Cardinality(s \ {First(s)}) <= n /\ Cardinality(s \ {First(s)}) <= n + 1
      BY <2>2, <3>2, <3>3
    <3> QED BY <3>4
  <2>4. \A r \in U(n) : t[r] = IF r = {} THEN 0 ELSE w[First(r)] + t[r \ {First(r)}]
    <3> HIDE DEF U
    <3> QED BY <2>1 DEF TotalsIn
  <2>5. \A r \in U(n) : r \in U(n + 1)
    BY <1>0, <2>2
  <2> HIDE DEF U
  <2>6. \A r \in U(n) : u[r] = t[r]
    BY <2>4, <2>5
  <2>7. \A s \in U(n + 1) :
          u[s] = IF s = {} THEN 0 ELSE w[First(s)] + u[s \ {First(s)}]
    <3> TAKE s \in U(n + 1)
    <3>1. CASE s = {}
      BY <3>1
    <3>2. CASE s # {}
      <4>1. s \ {First(s)} \in U(n)
        BY <2>3, <3>2
      <4>2. u[s] = w[First(s)] + t[s \ {First(s)}]
        BY <3>2
      <4> HIDE DEF u
      <4> QED BY <2>6, <3>2, <4>1, <4>2
    <3> QED BY <3>1, <3>2
  <2>8. TotalsIn(w, U(n + 1), u)
    <3>1. u = [s \in U(n + 1) |-> u[s]]
      OBVIOUS
    <3> HIDE DEF u
    <3> QED BY <2>7, <3>1 DEF TotalsIn
  <2> HIDE DEF u
  <2>9. n + 1 \in Nat
    BY <2>2
  <2> QED BY <2>8, <2>9
<1>3. S \in K
  <2>1. K \subseteq SUBSET S /\ {} \in K
    BY <1>1, FS_EmptySet
  <2>2. ASSUME NEW s \in K, NEW x \in S \ s PROVE s \cup {x} \in K
    <3>1. IsFiniteSet(s) /\ Cardinality(s) \in N
      BY <1>0, <2>2
    <3>2. Cardinality(s \cup {x}) = Cardinality(s) + 1
      BY <2>2, <3>1, FS_AddElement
    <3> HIDE DEF N
    <3> QED BY <1>2, <2>2, <3>1, <3>2
  <2> HIDE DEF K
  <2> QED BY <2>1, <2>2, GrowingUp
<1>4. PICK t : TotalsIn(w, U(Cardinality(S)), t)
  BY <1>3
<1>5. U(Cardinality(S)) = SUBSET S
  <2>1. ASSUME NEW s \in SUBSET S PROVE Cardinality(s) <= Cardinality(S)
    BY FS_Subset
  <2> QED BY <2>1
<1> QED BY <1>4, <1>5 DEF TotalsIn, Totals

\* Two of them agree on the sets both are about.
LEMMA TotalsAgree ==
  ASSUME NEW w, NEW S, IsFiniteSet(S), NEW T, T \subseteq S,
         NEW t, Totals(w, S, t), NEW u, Totals(w, T, u)
  PROVE  t[T] = u[T]
<1> DEFINE K == {s \in SUBSET T : t[s] = u[s]}
<1>1. ASSUME NEW s \in SUBSET T, \A r \in SUBSET s : r # s => r \in K
      PROVE  s \in K
  <2>1. CASE s = {}
    BY <2>1 DEF Totals
  <2>2. CASE s # {}
    <3>1. First(s) \in s
      BY <2>2 DEF First
    <3>2. t[s \ {First(s)}] = u[s \ {First(s)}]
      BY <1>1, <3>1
    <3>3. t[s] = w[First(s)] + t[s \ {First(s)}]
      BY <2>2 DEF Totals
    <3>4. u[s] = w[First(s)] + u[s \ {First(s)}]
      BY <2>2 DEF Totals
    <3> QED BY <3>2, <3>3, <3>4
  <2> QED BY <2>1, <2>2
<1>2. IsFiniteSet(T)
  BY FS_Subset
<1> HIDE DEF K
<1>3. T \in K
  BY <1>1, <1>2, SmallerFirst
<1> QED BY <1>3 DEF K

\* The sum of the community modules is that computation.
LEMMA SumIs ==
  ASSUME NEW w, NEW S
  PROVE  SumFunctionOnSet(w, S) = (CHOOSE t : Totals(w, S, t))[S]
BY Zenon DEF SumFunctionOnSet, FoldFunctionOnSet, MapThenFoldSet, Totals, First

\* One element at a time, whichever comes first.
LEMMA SumFirst ==
  ASSUME NEW w, NEW S, IsFiniteSet(S), S # {}
  PROVE  SumFunctionOnSet(w, S) = w[First(S)] + SumFunctionOnSet(w, S \ {First(S)})
<1> DEFINE T == S \ {First(S)}
           t == CHOOSE t : Totals(w, S, t)
           u == CHOOSE u : Totals(w, T, u)
<1>1. IsFiniteSet(T) /\ T \subseteq S
  BY FS_Subset
<1>2. Totals(w, S, t)
  <2>1. \E x : Totals(w, S, x)
    BY TotalsExist
  <2> QED BY <2>1
<1> HIDE DEF T
<1>3. Totals(w, T, u)
  <2>1. \E x : Totals(w, T, x)
    BY <1>1, TotalsExist
  <2> QED BY <2>1
<1>4. SumFunctionOnSet(w, S) = t[S] /\ SumFunctionOnSet(w, T) = u[T]
  BY SumIs
<1> HIDE DEF t, u
<1>5. t[S] = w[First(S)] + t[T]
  BY <1>2 DEF Totals, T
<1>6. t[T] = u[T]
  BY <1>1, <1>2, <1>3, TotalsAgree
<1> QED BY <1>4, <1>5, <1>6 DEF T

\* The sum over no element.
LEMMA SumNone ==
  ASSUME NEW w
  PROVE  SumFunctionOnSet(w, {}) = 0
<1> DEFINE t == CHOOSE t : Totals(w, {}, t)
<1>1. Totals(w, {}, t)
  <2>1. IsFiniteSet({})
    BY FS_EmptySet
  <2>2. \E x : Totals(w, {}, x)
    BY <2>1, TotalsExist
  <2> QED BY <2>2
<1>2. SumFunctionOnSet(w, {}) = t[{}]
  BY SumIs
<1> HIDE DEF t
<1> QED BY <1>1, <1>2 DEF Totals

\* A sum of integers is one.
LEMMA SumInt ==
  ASSUME NEW w, NEW S, IsFiniteSet(S), \A x \in S : w[x] \in Int
  PROVE  SumFunctionOnSet(w, S) \in Int
<1> DEFINE K == {s \in SUBSET S : SumFunctionOnSet(w, s) \in Int}
<1>1. ASSUME NEW s \in SUBSET S, \A r \in SUBSET s : r # s => r \in K
      PROVE  s \in K
  <2>1. CASE s = {}
    BY <2>1, SumNone
  <2>2. CASE s # {}
    <3>1. First(s) \in s
      BY <2>2 DEF First
    <3>2. SumFunctionOnSet(w, s \ {First(s)}) \in Int /\ w[First(s)] \in Int
      BY <1>1, <3>1
    <3>3. IsFiniteSet(s)
      BY FS_Subset
    <3>4. SumFunctionOnSet(w, s) = w[First(s)] + SumFunctionOnSet(w, s \ {First(s)})
      BY <2>2, <3>3, SumFirst
    <3> QED BY <3>2, <3>4
  <2> QED BY <2>1, <2>2
<1> HIDE DEF K
<1>2. S \in K
  BY <1>1, SmallerFirst
<1> QED BY <1>2 DEF K

\* Any element may come first.
LEMMA SumRemove ==
  ASSUME NEW w, NEW S, IsFiniteSet(S), \A x \in S : w[x] \in Int, NEW x \in S
  PROVE  SumFunctionOnSet(w, S) = w[x] + SumFunctionOnSet(w, S \ {x})
<1> DEFINE Sum(s) == SumFunctionOnSet(w, s)
           K == {s \in SUBSET S : \A y \in s : Sum(s) = w[y] + Sum(s \ {y})}
<1>0. \A s \in SUBSET S : IsFiniteSet(s) /\ Sum(s) \in Int
  <2> TAKE s \in SUBSET S
  <2>1. IsFiniteSet(s) /\ \A y \in s : w[y] \in Int
    BY FS_Subset
  <2> QED BY <2>1, SumInt
<1>1. ASSUME NEW s \in SUBSET S, \A r \in SUBSET s : r # s => r \in K
      PROVE  s \in K
  <2> SUFFICES ASSUME NEW y \in s PROVE Sum(s) = w[y] + Sum(s \ {y})
    OBVIOUS
  <2> DEFINE c == First(s)
  <2>1. c \in s
    BY DEF First
  <2>2. Sum(s) = w[c] + Sum(s \ {c})
    BY <1>0, SumFirst
  <2> HIDE DEF c
  <2>3. CASE y = c
    BY <2>2, <2>3
  <2>4. CASE y # c
    <3> DEFINE rest == (s \ {c}) \ {y}
    <3>1. y \in s \ {c} /\ c \in s \ {y} /\ rest = (s \ {y}) \ {c}
      BY <2>1, <2>4
    <3>2. s \ {c} \in K /\ s \ {y} \in K
      BY <1>1, <2>1
    <3>3. Sum(s \ {c}) = w[y] + Sum(rest)
      BY <3>1, <3>2
    <3>4. Sum(s \ {y}) = w[c] + Sum(rest)
      BY <3>1, <3>2
    <3>5. Sum(rest) \in Int /\ w[y] \in Int /\ w[c] \in Int
      BY <1>0, <2>1
    <3> HIDE DEF rest, Sum
    <3> QED BY <2>2, <3>3, <3>4, <3>5
  <2> QED BY <2>3, <2>4
<1> HIDE DEF K, Sum
<1>2. S \in K
  BY <1>1, SmallerFirst
<1> QED BY <1>2 DEF K, Sum

\* One element more.
LEMMA SumAdd ==
  ASSUME NEW w, NEW S, IsFiniteSet(S), NEW x, x \notin S, w[x] \in Int,
         \A y \in S : w[y] \in Int
  PROVE  SumFunctionOnSet(w, S \cup {x}) = w[x] + SumFunctionOnSet(w, S)
<1> DEFINE T == S \cup {x}
<1>1. IsFiniteSet(T) /\ x \in T /\ T \ {x} = S /\ \A y \in T : w[y] \in Int
  BY FS_AddElement
<1> HIDE DEF T
<1>2. SumFunctionOnSet(w, T) = w[x] + SumFunctionOnSet(w, T \ {x})
  BY <1>1, SumRemove
<1> QED BY <1>1, <1>2 DEF T

\* The sum depends on the values over S alone.
LEMMA SumSame ==
  ASSUME NEW w, NEW v, NEW S, IsFiniteSet(S), \A x \in S : w[x] = v[x]
  PROVE  SumFunctionOnSet(w, S) = SumFunctionOnSet(v, S)
<1> DEFINE K == {s \in SUBSET S : SumFunctionOnSet(w, s) = SumFunctionOnSet(v, s)}
<1>1. ASSUME NEW s \in SUBSET S, \A r \in SUBSET s : r # s => r \in K
      PROVE  s \in K
  <2>1. CASE s = {}
    BY <2>1, SumNone
  <2>2. CASE s # {}
    <3>1. First(s) \in s
      BY <2>2 DEF First
    <3>2. SumFunctionOnSet(w, s \ {First(s)}) = SumFunctionOnSet(v, s \ {First(s)})
          /\ w[First(s)] = v[First(s)]
      BY <1>1, <3>1
    <3>3. IsFiniteSet(s)
      BY FS_Subset
    <3>4. /\ SumFunctionOnSet(w, s) = w[First(s)] + SumFunctionOnSet(w, s \ {First(s)})
          /\ SumFunctionOnSet(v, s) = v[First(s)] + SumFunctionOnSet(v, s \ {First(s)})
      BY <2>2, <3>3, SumFirst
    <3> QED BY <3>2, <3>4
  <2> QED BY <2>1, <2>2
<1> HIDE DEF K
<1>2. S \in K
  BY <1>1, SmallerFirst
<1> QED BY <1>2 DEF K

\* The sum over two disjoint sets.
LEMMA SumJoin ==
  ASSUME NEW w, NEW S, IsFiniteSet(S), NEW T, IsFiniteSet(T), S \cap T = {},
         \A x \in S \cup T : w[x] \in Int
  PROVE  SumFunctionOnSet(w, S \cup T) = SumFunctionOnSet(w, S) + SumFunctionOnSet(w, T)
<1> DEFINE Sum(s) == SumFunctionOnSet(w, s)
           K == {s \in SUBSET T : Sum(S \cup s) = Sum(S) + Sum(s)}
<1>0. Sum(S) \in Int
  BY SumInt
<1>1. {} \in K
  <2>1. S \cup {} = S
    OBVIOUS
  <2> QED BY <1>0, <2>1, SumNone
<1>2. ASSUME NEW s \in K, NEW x \in T \ s PROVE s \cup {x} \in K
  <2>1. IsFiniteSet(s) /\ IsFiniteSet(S \cup s) /\ s \in SUBSET T
    BY <1>2, FS_Subset, FS_Union
  <2>2. Sum(s \cup {x}) = w[x] + Sum(s)
    BY <2>1, SumAdd
  <2>3. Sum((S \cup s) \cup {x}) = w[x] + Sum(S \cup s)
    BY <2>1, SumAdd
  <2>4. (S \cup s) \cup {x} = S \cup (s \cup {x})
    OBVIOUS
  <2>5. Sum(s) \in Int /\ w[x] \in Int
    BY <2>1, SumInt
  <2>6. Sum(S \cup s) = Sum(S) + Sum(s)
    BY <1>2
  <2>7. s \cup {x} \in SUBSET T
    BY <2>1
  <2>8. Sum(S \cup (s \cup {x})) = Sum(S) + Sum(s \cup {x})
    <3> DEFINE a == Sum(S)
               b == Sum(s)
    <3>1. a \in Int /\ b \in Int
      BY <1>0, <2>5
    <3>2. Sum(S \cup (s \cup {x})) = w[x] + (a + b)
      BY Zenon, <2>3, <2>4, <2>6
    <3>3. Sum(s \cup {x}) = w[x] + b
      BY Zenon, <2>2
    <3> HIDE DEF Sum, a, b
    <3>4. w[x] + (a + b) = a + (w[x] + b)
      BY <2>5, <3>1
    <3> QED BY Zenon, <3>2, <3>3, <3>4 DEF a
  <2> QED BY <2>7, <2>8
<1> HIDE DEF K, Sum
<1>3. T \in K
  BY <1>1, <1>2, GrowingUp
<1> QED BY <1>3 DEF K, Sum

\* A sum of natural numbers is one.
LEMMA SumNat ==
  ASSUME NEW w, NEW S, IsFiniteSet(S), \A x \in S : w[x] \in Nat
  PROVE  SumFunctionOnSet(w, S) \in Nat
<1> DEFINE K == {s \in SUBSET S : SumFunctionOnSet(w, s) \in Nat}
<1>1. {} \in K
  BY SumNone
<1>2. ASSUME NEW s \in K, NEW x \in S \ s PROVE s \cup {x} \in K
  <2>1. IsFiniteSet(s) /\ w[x] \in Nat /\ \A y \in s : w[y] \in Int
    BY <1>2, FS_Subset
  <2>2. SumFunctionOnSet(w, s \cup {x}) = w[x] + SumFunctionOnSet(w, s)
    BY <1>2, <2>1, SumAdd
  <2> QED BY <1>2, <2>1, <2>2
<1> HIDE DEF K
<1>3. S \in K
  BY <1>1, <1>2, GrowingUp
<1> QED BY <1>3 DEF K

\* One part more, or one value moved.
LEMMA SumMoved ==
  ASSUME NEW w, NEW v, NEW S, IsFiniteSet(S), NEW x \in S, NEW delta \in Int,
         \A y \in S : w[y] \in Int, v[x] = w[x] + delta, \A y \in S : y # x => v[y] = w[y]
  PROVE  SumFunctionOnSet(v, S) = SumFunctionOnSet(w, S) + delta
<1> DEFINE T == S \ {x}
<1>1. IsFiniteSet(T) /\ \A y \in T : v[y] = w[y] /\ w[y] \in Int
  BY FS_Subset
<1>2. SumFunctionOnSet(v, T) = SumFunctionOnSet(w, T) /\ SumFunctionOnSet(w, T) \in Int
  BY <1>1, SumSame, SumInt
<1>3. \A y \in S : v[y] \in Int
  OBVIOUS
<1>4. /\ SumFunctionOnSet(v, S) = v[x] + SumFunctionOnSet(v, S \ {x})
      /\ SumFunctionOnSet(w, S) = w[x] + SumFunctionOnSet(w, S \ {x})
  BY <1>3, SumRemove
<1> QED BY <1>2, <1>4 DEF T

\* The elements that g sends to y.
Group(S, g, y) == {x \in S : g[x] = y}

\* What S sums up to, it sums up to in groups.
LEMMA SumGrouped ==
  ASSUME NEW w, NEW S, IsFiniteSet(S), \A x \in S : w[x] \in Int,
         NEW T, IsFiniteSet(T), NEW g, \A x \in S : g[x] \in T,
         NEW v, \A y \in T : v[y] = SumFunctionOnSet(w, Group(S, g, y))
  PROVE  SumFunctionOnSet(v, T) = SumFunctionOnSet(w, S)
<1> DEFINE In(t) == {x \in S : g[x] \in t}
           K == {t \in SUBSET T : SumFunctionOnSet(v, t) = SumFunctionOnSet(w, In(t))}
<1>1. {} \in K
  <2>1. In({}) = {}
    OBVIOUS
  <2> QED BY <2>1, SumNone
<1>2. ASSUME NEW t \in K, NEW y \in T \ t PROVE t \cup {y} \in K
  <2> DEFINE here == Group(S, g, y)
  <2>1. IsFiniteSet(t) /\ IsFiniteSet(In(t)) /\ IsFiniteSet(here)
    BY <1>2, FS_Subset DEF Group
  <2>2. In(t \cup {y}) = In(t) \cup here /\ In(t) \cap here = {}
    BY <1>2 DEF Group
  <2>3. v[y] = SumFunctionOnSet(w, here) /\ \A z \in t : v[z] \in Int
    <3>1. ASSUME NEW z \in T PROVE v[z] \in Int
      <4>1. IsFiniteSet(Group(S, g, z)) /\ Group(S, g, z) \subseteq S
        BY FS_Subset DEF Group
      <4>2. SumFunctionOnSet(w, Group(S, g, z)) \in Int
        BY <4>1, SumInt
      <4> QED BY <4>2
    <3> QED BY <1>2, <3>1
  <2>4. SumFunctionOnSet(w, here) \in Int /\ SumFunctionOnSet(w, In(t)) \in Int
    <3>1. (\A x \in here : w[x] \in Int) /\ (\A x \in In(t) : w[x] \in Int)
      BY DEF Group
    <3> HIDE DEF here, In
    <3> QED BY <2>1, <3>1, SumInt
  <2>5. SumFunctionOnSet(v, t \cup {y}) = v[y] + SumFunctionOnSet(v, t)
    BY <1>2, <2>1, <2>3, <2>4, SumAdd
  <2>6. SumFunctionOnSet(w, In(t) \cup here) =
          SumFunctionOnSet(w, In(t)) + SumFunctionOnSet(w, here)
    BY <2>1, <2>2, SumJoin
  <2>7. SumFunctionOnSet(v, t) = SumFunctionOnSet(w, In(t))
    BY <1>2
  <2>8. SumFunctionOnSet(v, t \cup {y}) = SumFunctionOnSet(w, In(t \cup {y}))
    <3> DEFINE a == SumFunctionOnSet(w, In(t))
               b == SumFunctionOnSet(w, here)
    <3>1. a \in Int /\ b \in Int
      BY <2>4
    <3>2. SumFunctionOnSet(w, In(t \cup {y})) = a + b
      BY Zenon, <2>2, <2>6
    <3>3. SumFunctionOnSet(v, t \cup {y}) = b + a
      BY Zenon, <2>3, <2>5, <2>7
    <3> HIDE DEF In, here, a, b
    <3>4. a + b = b + a
      BY <3>1
    <3> QED BY Zenon, <3>2, <3>3, <3>4
  <2> QED BY <1>2, <2>8
<1>3. T \in K
  <2> HIDE DEF K
  <2> QED BY <1>1, <1>2, GrowingUp
<1>4. In(T) = S
  OBVIOUS
<1> QED BY <1>3, <1>4

\* The sum over a single element.
LEMMA SumOne ==
  ASSUME NEW w, NEW x, w[x] \in Int
  PROVE  SumFunctionOnSet(w, {x}) = w[x]
<1>1. IsFiniteSet({}) /\ {} \cup {x} = {x}
  BY FS_EmptySet
<1>2. SumFunctionOnSet(w, {} \cup {x}) = w[x] + SumFunctionOnSet(w, {})
  BY <1>1, SumAdd
<1> QED BY <1>1, <1>2, SumNone

\* A sum of zeros.
LEMMA SumZero ==
  ASSUME NEW w, NEW S, IsFiniteSet(S), \A x \in S : w[x] = 0
  PROVE  SumFunctionOnSet(w, S) = 0
<1> DEFINE K == {s \in SUBSET S : SumFunctionOnSet(w, s) = 0}
<1>1. {} \in K
  BY SumNone
<1>2. ASSUME NEW s \in K, NEW x \in S \ s PROVE s \cup {x} \in K
  <2>1. IsFiniteSet(s) /\ w[x] = 0 /\ \A y \in s : w[y] \in Int
    BY <1>2, FS_Subset
  <2>2. SumFunctionOnSet(w, s \cup {x}) = w[x] + SumFunctionOnSet(w, s)
    BY <1>2, <2>1, SumAdd
  <2> QED BY <1>2, <2>1, <2>2
<1> HIDE DEF K
<1>3. S \in K
  BY <1>1, <1>2, GrowingUp
<1> QED BY <1>3 DEF K

\* A finite set of rows has one with the highest bucket.
LEMMA HighestRow ==
  ASSUME NEW S, IsFiniteSet(S), S # {}, \A x \in S : x[2] \in Nat
  PROVE  \E x \in S : \A y \in S : y[2] <= x[2]
<1> DEFINE K == {s \in SUBSET S : s = {} \/ \E x \in s : \A y \in s : y[2] <= x[2]}
<1>1. {} \in K
  OBVIOUS
<1>2. ASSUME NEW s \in K, NEW z \in S \ s PROVE s \cup {z} \in K
  <2>1. CASE s = {}
    BY <2>1
  <2>2. CASE s # {}
    <3>1. PICK x \in s : \A y \in s : y[2] <= x[2]
      BY <1>2, <2>2
    <3>2. CASE z[2] <= x[2]
      BY <3>1, <3>2
    <3>3. CASE ~(z[2] <= x[2])
      <4>1. \A y \in s \cup {z} : y[2] <= z[2]
        BY <3>1, <3>3
      <4> QED BY <4>1
    <3> QED BY <3>2, <3>3
  <2> QED BY <2>1, <2>2
<1> HIDE DEF K
<1>3. S \in K
  BY <1>1, <1>2, GrowingUp
<1> QED BY <1>3 DEF K

\* The image of a finite set is finite.
LEMMA ImageFinite ==
  ASSUME NEW f, NEW S, IsFiniteSet(S)
  PROVE  IsFiniteSet({f[x] : x \in S})
<1> DEFINE K == {s \in SUBSET S : IsFiniteSet({f[x] : x \in s})}
<1>1. {} \in K
  <2>1. {f[x] : x \in {}} = {}
    OBVIOUS
  <2> QED BY <2>1, FS_EmptySet
<1>2. ASSUME NEW s \in K, NEW z \in S \ s PROVE s \cup {z} \in K
  <2>1. {f[x] : x \in s \cup {z}} = {f[x] : x \in s} \cup {f[z]}
    OBVIOUS
  <2> DEFINE I == {f[x] : x \in s}
  <2>2. IsFiniteSet(I)
    BY <1>2
  <2>3. IsFiniteSet(I \cup {f[z]})
    <3> HIDE DEF I
    <3> QED BY <2>2, FS_AddElement
  <2>4. s \cup {z} \in SUBSET S
    BY <1>2
  <2> QED BY <2>1, <2>3, <2>4
<1> HIDE DEF K
<1>3. S \in K
  BY <1>1, <1>2, GrowingUp
<1> QED BY <1>3 DEF K

-----------------------------------------------------------------------------
(* The shape of the state, and the rows of open holds. *)

\* Bucket lengths are positive, so bucket indexes are natural numbers.
LEMMA CeilPositive ==
  ASSUME NEW a \in Nat \ {0}, NEW b \in Nat \ {0}
  PROVE  (a + b - 1) \div b \in Nat \ {0}
<1> DEFINE q == (a + b - 1) \div b
           m == (a + b - 1) % b
<1>1. q \in Int /\ m \in 0..(b - 1) /\ a + b - 1 = b * q + m
  OBVIOUS
<1>2. ASSUME q <= 0 PROVE FALSE
  <2>1. b * q <= 0
    BY <1>1, <1>2
  <2> QED BY <1>1, <2>1
<1> QED BY <1>1, <1>2

\* The bucket a request is charged to.
LEMMA IndexNat ==
  ASSUME NEW in \in Inputs, NEW k \in DOMAIN in.scopes, NEW at \in Nat
  PROVE  BucketIndex(in.scopes[k].window, at) \in Nat
<1> DEFINE w == in.scopes[k].window
<1>1. w.ms \in Nat /\ w.buckets \in Nat \ {0}
  BY StoreAssumption
<1>2. BucketMs(w) \in Nat \ {0}
  BY <1>1, CeilPositive, StoreAssumption DEF BucketMs, IsLifetime
<1> HIDE DEF w
<1>3. BucketIndex(w, at) \in Nat
  BY <1>2 DEF BucketIndex
<1> QED BY <1>3 DEF w

\* Moving a record's counters keeps the shape of the history and adds the rows
\* the record is charged to.
LEMMA AddShape ==
  ASSUME ShapeOK, NEW rec, IsRecord(rec), NEW delta \in Int, Add(rec, delta)
  PROVE  /\ DOMAIN rows' = DOMAIN rows \cup ChargedRows(rec)
         /\ DOMAIN rows' \subseteq Keys \X Nat \X Models
         /\ totals' \in [Keys -> Int]
         /\ newest' \in [Keys -> Nat \cup {-1}]
<1>1. DOMAIN rec.charges \subseteq Keys /\ rec.in.model \in Models
  BY StoreAssumption DEF IsRecord
<1>2. ChargedRows(rec) \subseteq Keys \X Nat \X Models
  BY <1>1 DEF ChargedRows, IsRecord
<1>3. \A k \in DOMAIN rec.charges : rec.charges[k] \in Nat
  BY DEF IsRecord
<1>4. totals' \in [Keys -> Int]
  BY DEF Add, ShapeOK
<1>5. newest' \in [Keys -> Nat \cup {-1}]
  BY <1>3 DEF Add, ShapeOK
<1> QED BY <1>2, <1>4, <1>5 DEF Add, ShapeOK

\* Recording a request, or a new state of one, keeps the records well formed.
LEMMA PutShape ==
  ASSUME ShapeOK, NEW r \in Requests, NEW rec, IsRecord(rec), rec.id = r, Put(r, rec)
  PROVE  /\ DOMAIN requests' = DOMAIN requests \cup {r}
         /\ requests'[r] = rec
         /\ \A q \in DOMAIN requests : q # r => requests'[q] = requests[q]
         /\ DOMAIN requests' \subseteq Requests
         /\ \A q \in DOMAIN requests' :
              IsRecord(requests'[q]) /\ requests'[q].id = q
  BY DEF Put, ShapeOK

\* What settling or releasing a request does to the records and the history.
LEMMA ClosingShape ==
  ASSUME ShapeOK, NEW r, NEW actual \in Nat,
         Settling(r, actual) \/ Releasing(r)
  PROVE  /\ DOMAIN requests' = DOMAIN requests
         /\ \A q \in DOMAIN requests' :
              IsRecord(requests'[q]) /\ requests'[q].id = q
         /\ \A q \in DOMAIN requests' : requests'[q].state = "reserved"
              => requests[q] = requests'[q]
         /\ DOMAIN rows \subseteq DOMAIN rows'
         /\ DOMAIN rows' \subseteq Keys \X Nat \X Models
         /\ totals' \in [Keys -> Int]
         /\ newest' \in [Keys -> Nat \cup {-1}]
<1> DEFINE rec == requests[r]
<1>1. r \in DOMAIN requests /\ r \in Requests /\ IsRecord(rec) /\ rec.id = r
  BY DEF Settling, Releasing, Recorded, ShapeOK
<1>2. rec.in.est \in Nat
  BY <1>1, StoreAssumption DEF IsRecord
<1>3. CASE Settling(r, actual)
  <2> DEFINE new == [rec EXCEPT !.state = "settled", !.actual = actual]
  <2>1. Add(rec, actual - rec.in.est) /\ Put(r, new)
    BY <1>3 DEF Settling
  <2>2. IsRecord(new) /\ new.id = r /\ new.state = "settled"
    BY <1>1 DEF IsRecord, States
  <2>3. actual - rec.in.est \in Int
    BY <1>2
  <2> HIDE DEF new, rec
  <2>4. /\ DOMAIN rows \subseteq DOMAIN rows'
        /\ DOMAIN rows' \subseteq Keys \X Nat \X Models
        /\ totals' \in [Keys -> Int]
        /\ newest' \in [Keys -> Nat \cup {-1}]
    BY <1>1, <2>1, <2>3, AddShape
  <2>5. QED
    BY SMTT(20), <1>1, <2>1, <2>2, <2>4, PutShape
<1>4. CASE Releasing(r)
  <2> DEFINE new == [rec EXCEPT !.state = "released"]
  <2>1. Put(r, new) /\ (Add(rec, 0 - rec.in.est) \/ UNCHANGED history)
    BY <1>4 DEF Releasing
  <2>2. IsRecord(new) /\ new.id = r /\ new.state = "released"
    BY <1>1 DEF IsRecord, States
  <2>3. 0 - rec.in.est \in Int
    BY <1>2
  <2>4. /\ DOMAIN rows \subseteq DOMAIN rows'
        /\ DOMAIN rows' \subseteq Keys \X Nat \X Models
        /\ totals' \in [Keys -> Int]
        /\ newest' \in [Keys -> Nat \cup {-1}]
    <3> HIDE DEF rec, new
    <3>1. CASE Add(rec, 0 - rec.in.est)
      BY <3>1, <1>1, <2>3, AddShape
    <3>2. CASE UNCHANGED history
      BY <3>2 DEF history, ShapeOK
    <3> QED BY <2>1, <3>1, <3>2
  <2> HIDE DEF new, rec
  <2>5. QED
    BY SMTT(20), <1>1, <2>1, <2>2, <2>4, PutShape
<1> QED BY <1>3, <1>4

-----------------------------------------------------------------------------
\* The sweep's page is made of holds with an estimate.
LEMMA SweepOnShape ==
  ASSUME ShapeOK, sweep.on, NEW h, sweep' = SweepOn(h)
  PROVE  /\ sweep'.on \in BOOLEAN
         /\ sweep'.on => /\ DOMAIN sweep' = SweepFields
                         /\ sweep'.page \subseteq sweep.page
  BY DEF SweepOn, NoSweep, ShapeOK, SweepFields

\* Records, rows, counters and the sweep keep their shape, whatever callers,
\* sweeps and prune do and however the clock moves.
THEOREM StoreShape == StoreSpec => []ShapeOK
<1>1. StoreInit => ShapeOK
  BY DEF StoreInit, ShapeOK, NoSweep
<1>2. ShapeOK /\ [StoreNext]_vars => ShapeOK'
  <2> SUFFICES ASSUME ShapeOK, [StoreNext]_vars PROVE ShapeOK'
    OBVIOUS
  <2>1. ASSUME NEW r \in Requests, NEW in \in Inputs, Reserve(r, in) PROVE ShapeOK'
    <3> DEFINE rec == [id |-> r, gen |-> Generation(r), in |-> in, at |-> now,
                       actual |-> 0,
                       state |-> IF Fits(in, now) THEN "reserved" ELSE "denied",
                       charges |-> [k \in DOMAIN in.scopes |->
                                      BucketIndex(in.scopes[k].window, now)]]
    <3>1. Put(r, rec) /\ (Add(rec, in.est) \/ UNCHANGED history)
      BY <2>1 DEF Reserve
    <3>2. /\ DOMAIN windows' = Keys
          /\ now' = now /\ sweep' = sweep /\ archive' = archive
      BY <2>1 DEF Reserve
    <3>3. IsRecord(rec)
      <4>1. now \in Nat
        BY DEF ShapeOK
      <4>2. [k \in DOMAIN in.scopes |-> BucketIndex(in.scopes[k].window, now)]
              \in [DOMAIN in.scopes -> Nat]
        BY <4>1, IndexNat
      <4> QED BY <4>1, <4>2 DEF IsRecord, States
    <3>4. rec.id = r /\ in.est \in Int
      BY StoreAssumption
    <3> HIDE DEF rec
    <3>5. CASE Add(rec, in.est)
      BY <3>1, <3>2, <3>3, <3>4, <3>5, AddShape, PutShape DEF ShapeOK
    <3>6. CASE UNCHANGED history
      BY <3>1, <3>2, <3>3, <3>4, <3>6, PutShape DEF ShapeOK, history
    <3> QED BY <3>1, <3>5, <3>6
  <2>2. ASSUME NEW r, NEW a \in Nat, Settling(r, a) \/ Releasing(r),
               now' = now, archive' = archive, windows' = windows,
               sweep' = sweep \/ (sweep.on /\ \E h : sweep' = SweepOn(h))
        PROVE ShapeOK'
    <3>1. /\ sweep'.on \in BOOLEAN
          /\ sweep'.on => /\ DOMAIN sweep' = SweepFields
                          /\ \A h \in sweep'.page : h.est \in Nat
      BY <2>2, SweepOnShape DEF ShapeOK
    <3> QED BY <2>2, <3>1, ClosingShape DEF ShapeOK
  <2>3. ASSUME NEW r \in Requests, NEW a \in Actuals, Settle(r, a) PROVE ShapeOK'
    BY <2>2, <2>3, StoreAssumption DEF Settle, ghosts
  <2>4. ASSUME NEW r \in Requests, Release(r) PROVE ShapeOK'
    <3>1. 0 \in Nat
      OBVIOUS
    <3> QED BY <2>2, <2>4, <3>1 DEF Release, ghosts
  <2>5. ASSUME NEW t \in PruneCutoffs, Prune(t) PROVE ShapeOK'
    BY <2>5 DEF Prune, ShapeOK, Folded, Forgotten
  <2>6. ASSUME NEW t \in SweepCutoffs, SweepBegin(t) PROVE ShapeOK'
    BY <2>6 DEF SweepBegin, SweepFields, ShapeOK, history, ghosts
  <2>7. ASSUME NEW t \in 0..MaxTime, Tick(t) PROVE ShapeOK'
    BY <2>7 DEF Tick, ShapeOK, history, ghosts
  <2>8. CASE SweepRead
    <3>1. \A h \in Holds(sweep.before, sweep.after) : h.est \in Nat
      <4>1. \A r \in DOMAIN requests : requests[r].in \in Inputs
        BY DEF ShapeOK, IsRecord
      <4>2. \A r \in DOMAIN requests : requests[r].in.est \in Nat
        BY <4>1, StoreAssumption
      <4>3. ASSUME NEW h \in Holds(sweep.before, sweep.after) PROVE h.est \in Nat
        <5>1. PICK r \in DOMAIN requests :
                h = [id |-> r, at |-> requests[r].at, est |-> requests[r].in.est]
          BY <4>3 DEF Holds
        <5> QED BY <5>1, <4>2
      <4> QED BY <4>3
    <3>2. /\ sweep'.on \in BOOLEAN
          /\ sweep'.on => /\ DOMAIN sweep' = SweepFields
                          /\ \A h \in sweep'.page : h.est \in Nat
      <4> DEFINE all == Holds(sweep.before, sweep.after)
                 size == IF sweep.left < SweepPage THEN sweep.left ELSE SweepPage
                 page == {h \in all : Cardinality({g \in all : HoldBefore(g, h)}) < size}
                 full == (Cardinality(page) = size)
                 last == Latest(page)
      <4>1. sweep.on /\ (sweep' = NoSweep \/
              sweep' = [sweep EXCEPT !.reading = FALSE, !.page = page,
                                     !.full = full, !.after = last])
        BY <2>8 DEF SweepRead
      <4>2. page \subseteq all
        OBVIOUS
      <4>3. sweep.on => DOMAIN sweep = SweepFields
        BY DEF ShapeOK
      <4> HIDE DEF page, full, last
      <4>4. CASE sweep' = NoSweep
        BY <4>4 DEF NoSweep
      <4>5. CASE sweep' = [sweep EXCEPT !.reading = FALSE, !.page = page,
                                        !.full = full, !.after = last]
        <5>1. DOMAIN sweep' = SweepFields /\ sweep'.page = page /\ sweep'.on = TRUE
          BY <4>1, <4>3, <4>5 DEF SweepFields, ShapeOK
        <5> QED BY <5>1, <4>2, <3>1
      <4> QED BY <4>1, <4>4, <4>5
    <3> QED BY <2>8, <3>2 DEF SweepRead, ShapeOK, history, ghosts
  <2>9. ASSUME NEW how \in Resolutions, NEW a \in Actuals, SweepClose(how, a)
        PROVE ShapeOK'
    <3>1. sweep.on /\ now' = now /\ windows' = windows /\ archive' = archive
      BY <2>9 DEF SweepClose, ghosts
    <3>2. PICK hold \in sweep.page :
            /\ sweep' = SweepOn(hold)
            /\ \/ UNCHANGED <<requests, history>>
               \/ Releasing(hold.id)
               \/ Settling(hold.id, IF how = "custom" THEN a ELSE hold.est)
      BY <2>9 DEF SweepClose
    <3>3. (IF how = "custom" THEN a ELSE hold.est) \in Nat
      BY <3>1, StoreAssumption DEF ShapeOK
    <3>4. CASE UNCHANGED <<requests, history>>
      <4>1. /\ sweep'.on \in BOOLEAN
            /\ sweep'.on => /\ DOMAIN sweep' = SweepFields
                          /\ \A h \in sweep'.page : h.est \in Nat
        BY <3>1, <3>2, SweepOnShape DEF ShapeOK
      <4> QED BY <3>1, <3>4, <4>1 DEF ShapeOK, history
    <3> QED BY <2>2, <3>1, <3>2, <3>3, <3>4
  <2>10. CASE UNCHANGED vars
    BY <2>10 DEF ShapeOK, vars
  <2> QED BY <2>1, <2>3, <2>4, <2>5, <2>6, <2>7, <2>8, <2>9, <2>10 DEF StoreNext
<1> QED BY <1>1, <1>2, PTL DEF StoreSpec

-----------------------------------------------------------------------------
\* Prune keeps the rows an open hold is charged to.
LEMMA PruneKeepsHeldRows ==
  ASSUME ShapeOK, NEW before, Prune(before),
         NEW r \in DOMAIN requests, requests[r].state = "reserved"
  PROVE  ChargedRows(requests[r]) \cap FoldedAway(before) = {}
<1> SUFFICES ASSUME NEW x \in ChargedRows(requests[r]), x \in FoldedAway(before)
             PROVE FALSE
  OBVIOUS
<1>1. PICK k \in DOMAIN requests[r].charges :
        x = <<k, requests[r].charges[k], requests[r].in.model>>
  BY DEF ChargedRows
<1>2. <<k, requests[r].charges[k]>> \in HeldBuckets
  BY DEF HeldBuckets
<1>3. x \in FoldableRows(x[1], x[3], before)
  BY DEF FoldedAway
<1>4. <<x[1], x[2]>> \notin HeldBuckets
  BY <1>3 DEF FoldableRows
<1> QED BY <1>1, <1>2, <1>4

\* An open hold keeps the history rows its settlement adjusts, whatever prune
\* folds and whoever else charges or closes.
THEOREM StoreHeldRows == StoreSpec => []HeldRowsKept
<1>1. StoreInit => HeldRowsKept
  BY DEF StoreInit, HeldRowsKept
<1>2. ShapeOK /\ HeldRowsKept /\ [StoreNext]_vars => HeldRowsKept'
  <2> SUFFICES ASSUME ShapeOK, HeldRowsKept, [StoreNext]_vars PROVE HeldRowsKept'
    OBVIOUS
  <2>1. ASSUME NEW r \in Requests, NEW in \in Inputs, Reserve(r, in) PROVE HeldRowsKept'
    <3> DEFINE rec == [id |-> r, gen |-> Generation(r), in |-> in, at |-> now,
                       actual |-> 0,
                       state |-> IF Fits(in, now) THEN "reserved" ELSE "denied",
                       charges |-> [k \in DOMAIN in.scopes |->
                                      BucketIndex(in.scopes[k].window, now)]]
    <3>1. /\ Put(r, rec) /\ r \notin DOMAIN requests
          /\ \/ Add(rec, in.est)
             \/ ~Fits(in, now) /\ UNCHANGED history
      BY <2>1 DEF Reserve, Recorded
    <3>2. ~Fits(in, now) => rec.state # "reserved"
      OBVIOUS
    <3> HIDE DEF rec
    <3>3. /\ DOMAIN requests' = DOMAIN requests \cup {r}
          /\ requests'[r] = rec
          /\ \A q \in DOMAIN requests : requests'[q] = requests[q]
      BY <3>1 DEF Put
    <3>4. DOMAIN rows \subseteq DOMAIN rows'
      BY <3>1 DEF Add, history
    <3>5. rec.state = "reserved" => ChargedRows(rec) \subseteq DOMAIN rows'
      BY <3>1, <3>2 DEF Add
    <3> QED BY <3>3, <3>4, <3>5 DEF HeldRowsKept, ChargedRows
  <2>2. ASSUME NEW r, NEW a \in Nat, Settling(r, a) \/ Releasing(r) PROVE HeldRowsKept'
    BY <2>2, ClosingShape DEF HeldRowsKept, ChargedRows
  <2>3. ASSUME UNCHANGED <<requests, history>> PROVE HeldRowsKept'
    BY <2>3 DEF HeldRowsKept, ChargedRows, history
  <2>4. ASSUME NEW r \in Requests, NEW a \in Actuals, Settle(r, a) PROVE HeldRowsKept'
    BY <2>2, <2>4, StoreAssumption DEF Settle
  <2>5. ASSUME NEW r \in Requests, Release(r) PROVE HeldRowsKept'
    <3>1. 0 \in Nat
      OBVIOUS
    <3> QED BY <2>2, <2>5, <3>1 DEF Release
  <2>6. ASSUME NEW t \in PruneCutoffs, Prune(t) PROVE HeldRowsKept'
    <3>1. /\ DOMAIN rows' = DOMAIN rows \ FoldedAway(t)
          /\ DOMAIN requests' \subseteq DOMAIN requests
          /\ \A r \in DOMAIN requests' : requests'[r] = requests[r]
      BY <2>6 DEF Prune, Folded
    <3> QED BY <2>6, <3>1, PruneKeepsHeldRows DEF HeldRowsKept, ChargedRows
  <2>7. ASSUME NEW how \in Resolutions, NEW a \in Actuals, SweepClose(how, a)
        PROVE HeldRowsKept'
    <3>1. sweep.on
      BY <2>7 DEF SweepClose
    <3>2. PICK hold \in sweep.page :
            \/ UNCHANGED <<requests, history>>
            \/ Releasing(hold.id)
            \/ Settling(hold.id, IF how = "custom" THEN a ELSE hold.est)
      BY <2>7 DEF SweepClose
    <3>3. (IF how = "custom" THEN a ELSE hold.est) \in Nat
      BY <3>1, StoreAssumption DEF ShapeOK
    <3> QED BY <2>2, <2>3, <3>2, <3>3
  <2>8. ASSUME NEW t, SweepBegin(t) \/ Tick(t) \/ SweepRead \/ UNCHANGED vars
        PROVE HeldRowsKept'
    BY <2>3, <2>8 DEF SweepBegin, Tick, SweepRead, vars, history
  <2> QED BY <2>1, <2>4, <2>5, <2>6, <2>7, <2>8 DEF StoreNext
<1> QED BY <1>1, <1>2, StoreShape, PTL DEF StoreSpec

-----------------------------------------------------------------------------
(* What a set of records owes. *)

Owes(S, t) ==
  t = [s \in SUBSET S |-> IF s = {} THEN 0 ELSE Amount(First(s)) + t[s \ {First(s)}]]

\* What a set of records owes, computed one record at a time.
LEMMA OwedChoose ==
  ASSUME NEW S
  PROVE  Owed(S) = (CHOOSE t : Owes(S, t))[S]
BY Zenon DEF Owed, MapThenSumSet, MapThenFoldSet, Owes, First

\* It is the sum of their amounts.
LEMMA OwedIs ==
  ASSUME NEW S, NEW w, \A rec \in S : w[rec] = Amount(rec)
  PROVE  Owed(S) = SumFunctionOnSet(w, S)
<1>1. ASSUME NEW t PROVE Owes(S, t) <=> Totals(w, S, t)
  <2> DEFINE f(s) == IF s = {} THEN 0 ELSE Amount(First(s)) + t[s \ {First(s)}]
             g(s) == IF s = {} THEN 0 ELSE w[First(s)] + t[s \ {First(s)}]
  <2>1. ASSUME NEW s \in SUBSET S PROVE f(s) = g(s)
    <3>1. s # {} => First(s) \in S
      BY DEF First
    <3>2. s # {} => w[First(s)] = Amount(First(s))
      BY <3>1
    <3> QED BY <3>2, Zenon
  <2>2. [s \in SUBSET S |-> f(s)] = [s \in SUBSET S |-> g(s)]
    <3> HIDE DEF f, g
    <3> QED BY <2>1
  <2> QED BY <2>2, Zenon DEF Owes, Totals
<1>2. (CHOOSE t : Owes(S, t)) = (CHOOSE t : Totals(w, S, t))
  BY <1>1, Zenon
<1> QED BY <1>2, OwedChoose, SumIs, Zenon

\* No record owes nothing.
LEMMA OwedNone == Owed({}) = 0
<1> DEFINE w == [rec \in {} |-> 0]
<1>1. Owed({}) = SumFunctionOnSet(w, {})
  BY OwedIs
<1> QED BY <1>1, SumNone

\* What records owe is a natural number.
LEMMA OwedNat ==
  ASSUME NEW R, IsFiniteSet(R), \A rec \in R : Amount(rec) \in Nat
  PROVE  Owed(R) \in Nat
<1> DEFINE w == [rec \in R |-> Amount(rec)]
<1>1. \A rec \in R : w[rec] = Amount(rec) /\ w[rec] \in Nat
  OBVIOUS
<1> HIDE DEF w
<1> QED BY <1>1, OwedIs, SumNat

\* A record more.
LEMMA OwedAdd ==
  ASSUME NEW R, IsFiniteSet(R), \A rec \in R : Amount(rec) \in Nat,
         NEW new, new \notin R, Amount(new) \in Nat
  PROVE  Owed(R \cup {new}) = Amount(new) + Owed(R)
<1> DEFINE w == [rec \in R \cup {new} |-> Amount(rec)]
<1>1. /\ \A rec \in R : w[rec] = Amount(rec) /\ w[rec] \in Int
      /\ \A rec \in R \cup {new} : w[rec] = Amount(rec)
      /\ w[new] = Amount(new) /\ w[new] \in Int
  OBVIOUS
<1> HIDE DEF w
<1>2. SumFunctionOnSet(w, R \cup {new}) = w[new] + SumFunctionOnSet(w, R)
  BY <1>1, SumAdd
<1>3. Owed(R) = SumFunctionOnSet(w, R)
  BY <1>1, OwedIs
<1>4. Owed(R \cup {new}) = SumFunctionOnSet(w, R \cup {new})
  BY <1>1, OwedIs
<1> QED BY <1>1, <1>2, <1>3, <1>4

\* A record more: those of a kind owe what it is billed or holds more.
LEMMA OwedMore ==
  ASSUME NEW R, IsFiniteSet(R), \A rec \in R : Amount(rec) \in Nat,
         NEW new, new \notin R, Amount(new) \in Nat, NEW P
  PROVE  Owed((R \cup {new}) \cap P) =
           Owed(R \cap P) + IF new \in P THEN Amount(new) ELSE 0
<1> DEFINE T == R \cap P
<1>1. IsFiniteSet(T) /\ \A rec \in T : Amount(rec) \in Nat
  BY FS_Subset
<1>2. Owed(T) \in Nat
  BY <1>1, OwedNat
<1>3. CASE new \in P
  <2>1. (R \cup {new}) \cap P = T \cup {new} /\ new \notin T
    BY <1>3
  <2> HIDE DEF T
  <2>2. Owed(T \cup {new}) = Amount(new) + Owed(T)
    BY <1>1, <2>1, OwedAdd
  <2>3. Amount(new) + Owed(T) = Owed(T) + Amount(new)
    BY <1>2
  <2> QED BY <1>3, <2>1, <2>2, <2>3 DEF T
<1>4. CASE new \notin P
  <2>1. (R \cup {new}) \cap P = T
    BY <1>4
  <2>2. Owed(T) = Owed(T) + 0
    <3> HIDE DEF T
    <3> QED BY <1>2
  <2> QED BY <1>4, <2>1, <2>2
<1> QED BY <1>3, <1>4

-----------------------------------------------------------------------------
(* Counters and debts, for a history h and a set R of records. *)

\* The history of key k from bucket b on.
RowsFrom(h, k, b) == {x \in DOMAIN h : x[1] = k /\ b <= x[2]}
CountedFrom(h, k, b) == SumFunctionOnSet(h, RowsFrom(h, k, b))

\* The records charged to key k in bucket b or later.
ChargedFrom(R, k, b) == {rec \in R : k \in DOMAIN rec.charges /\ b <= rec.charges[k]}
DueFrom(R, k, b) == Owed(ChargedFrom(R, k, b))

\* The open holds charged to history row x.
HoldsOn(R, x) == {rec \in R : rec.state = "reserved" /\ x \in ChargedRows(rec)}
HeldOn(R, x) == Owed(HoldsOn(R, x))

\* Is key k of the record charged in bucket b or later?
In(rec, k, b) == k \in DOMAIN rec.charges /\ b <= rec.charges[k]
Part(P, n) == IF P THEN n ELSE 0

\* What a record holds open.
Grip(rec) == Part(rec.state = "reserved", Amount(rec))

Cell(h, x) == IF x \in DOMAIN h THEN h[x] ELSE 0

\* The history moved by delta in the rows of rec.
Moved(h, rec, delta) ==
  [x \in DOMAIN h \cup ChargedRows(rec) |->
     (IF x \in DOMAIN h THEN h[x] ELSE 0)
     + (IF x \in ChargedRows(rec) THEN delta ELSE 0)]

IsHistory(h) ==
  /\ IsFiniteSet(DOMAIN h)
  /\ DOMAIN h \subseteq Keys \X Nat \X Models
  /\ \A x \in DOMAIN h : h[x] \in Int

IsLedger(R) == IsFiniteSet(R) /\ \A rec \in R : IsRecord(rec)

\* A record is billed, or holds, a natural number.
LEMMA AmountNat ==
  ASSUME NEW rec, IsRecord(rec)
  PROVE  Amount(rec) \in Nat
<1>1. rec.in.est \in Nat /\ rec.actual \in Nat
  BY StoreAssumption DEF IsRecord
<1> QED BY <1>1 DEF Amount

\* A record more is due in its keys, from its bucket down.
LEMMA DueMore ==
  ASSUME NEW R, IsLedger(R), NEW new, new \notin R, IsRecord(new), NEW k, NEW b
  PROVE  DueFrom(R \cup {new}, k, b) =
           DueFrom(R, k, b) + Part(In(new, k, b), Amount(new))
<1> DEFINE P == ChargedFrom(R \cup {new}, k, b)
<1>1. /\ ChargedFrom(R, k, b) = R \cap P
      /\ P = (R \cup {new}) \cap P
      /\ new \in P <=> In(new, k, b)
  BY DEF ChargedFrom, In
<1>2. IsFiniteSet(R) /\ (\A rec \in R : Amount(rec) \in Nat) /\ Amount(new) \in Nat
  BY AmountNat DEF IsLedger
<1> HIDE DEF P
<1>3. Owed((R \cup {new}) \cap P) =
           Owed(R \cap P) + IF new \in P THEN Amount(new) ELSE 0
  BY <1>2, OwedMore
<1> QED BY <1>1, <1>3 DEF DueFrom, P, Part

\* A record more holds the rows it is charged to, if it is open.
LEMMA HeldMore ==
  ASSUME NEW R, IsLedger(R), NEW new, new \notin R, IsRecord(new), NEW x
  PROVE  HeldOn(R \cup {new}, x) =
           HeldOn(R, x) + Part(x \in ChargedRows(new), Grip(new))
<1> DEFINE P == HoldsOn(R \cup {new}, x)
<1>1. /\ HoldsOn(R, x) = R \cap P
      /\ P = (R \cup {new}) \cap P
      /\ new \in P <=> new.state = "reserved" /\ x \in ChargedRows(new)
  BY DEF HoldsOn
<1>2. IsFiniteSet(R) /\ (\A rec \in R : Amount(rec) \in Nat) /\ Amount(new) \in Nat
  BY AmountNat DEF IsLedger
<1> HIDE DEF P
<1>3. Owed((R \cup {new}) \cap P) =
           Owed(R \cap P) + IF new \in P THEN Amount(new) ELSE 0
  BY <1>2, OwedMore
<1> QED BY <1>1, <1>3 DEF HeldOn, P, Part, Grip

\* Both are natural numbers.
LEMMA DebtsNat ==
  ASSUME NEW R, IsLedger(R), NEW k, NEW b, NEW x
  PROVE  DueFrom(R, k, b) \in Nat /\ HeldOn(R, x) \in Nat
<1>1. IsFiniteSet(ChargedFrom(R, k, b)) /\ IsFiniteSet(HoldsOn(R, x))
  BY FS_Subset DEF ChargedFrom, HoldsOn, IsLedger
<1>2. /\ \A rec \in ChargedFrom(R, k, b) : Amount(rec) \in Nat
      /\ \A rec \in HoldsOn(R, x) : Amount(rec) \in Nat
  BY AmountNat DEF ChargedFrom, HoldsOn, IsLedger
<1> QED BY <1>1, <1>2, OwedNat DEF DueFrom, HeldOn

\* Moving the rows of a record moves the counters of its keys, from its bucket
\* down, and no others.
LEMMA CountedMoved ==
  ASSUME NEW h, IsHistory(h), NEW rec, IsRecord(rec), NEW delta \in Int,
         IsFiniteSet(ChargedRows(rec)), NEW k, NEW b \in Int
  PROVE  CountedFrom(Moved(h, rec, delta), k, b) =
           CountedFrom(h, k, b) + Part(In(rec, k, b), delta)
<1> DEFINE all == DOMAIN h \cup ChargedRows(rec)
           v == Moved(h, rec, delta)
           u == [x \in all |-> IF x \in DOMAIN h THEN h[x] ELSE 0]
           S == {x \in all : x[1] = k /\ b <= x[2]}
           S0 == RowsFrom(h, k, b)
           new == S \ S0
<1>1. DOMAIN v = all /\ RowsFrom(v, k, b) = S
  BY DEF Moved, RowsFrom
<1>2. IsFiniteSet(all) /\ IsFiniteSet(S) /\ IsFiniteSet(S0) /\ IsFiniteSet(new)
  <2>1. IsFiniteSet(all)
    BY FS_Union DEF IsHistory
  <2> HIDE DEF all
  <2>2. IsFiniteSet(S)
    BY <2>1, FS_Subset
  <2>3. IsFiniteSet(S0)
    BY FS_Subset DEF IsHistory, RowsFrom
  <2> HIDE DEF S, S0
  <2>4. IsFiniteSet(new)
    BY <2>2, FS_Subset
  <2> QED BY <2>1, <2>2, <2>3, <2>4
<1>3. \A x \in all : u[x] \in Int
  BY DEF IsHistory
<1>4. S0 \subseteq S /\ S0 \cap new = {} /\ S = S0 \cup new
  BY DEF RowsFrom
<1>5. SumFunctionOnSet(u, S) = SumFunctionOnSet(h, S0)
  <2>1. \A x \in S0 : h[x] = u[x]
    BY DEF RowsFrom
  <2>2. \A x \in new : u[x] = 0
    BY DEF RowsFrom
  <2>3. \A x \in S0 \cup new : u[x] \in Int
    BY <1>3, <1>4
  <2> HIDE DEF S, S0, new, u
  <2>4. SumFunctionOnSet(u, S0 \cup new) = SumFunctionOnSet(u, S0) + SumFunctionOnSet(u, new)
    BY <1>2, <1>4, <2>3, SumJoin
  <2>5. SumFunctionOnSet(u, new) = 0
    BY <1>2, <2>2, SumZero
  <2>6. SumFunctionOnSet(u, S0) = SumFunctionOnSet(h, S0)
    BY <1>2, <2>1, SumSame
  <2>7. SumFunctionOnSet(u, S0) \in Int
    BY <1>2, <2>3, SumInt
  <2> QED BY <1>4, <2>4, <2>5, <2>6, <2>7
<1>6. SumFunctionOnSet(u, S) \in Int
  <2>1. \A x \in S : u[x] \in Int
    BY <1>3
  <2> HIDE DEF S, u
  <2> QED BY <1>2, <2>1, SumInt
<1>7. CASE In(rec, k, b)
  <2> DEFINE x0 == <<k, rec.charges[k], rec.in.model>>
  <2>1. x0 \in S /\ x0 \in ChargedRows(rec)
    BY <1>7 DEF ChargedRows, In
  <2>2. v[x0] = u[x0] + delta
    BY <2>1 DEF Moved
  <2>3. \A y \in S : y # x0 => v[y] = u[y]
    <3> SUFFICES ASSUME NEW y \in S, y # x0 PROVE v[y] = u[y]
      OBVIOUS
    <3>1. y \notin ChargedRows(rec)
      BY DEF ChargedRows
    <3>2. u[y] \in Int /\ v[y] = u[y] + 0
      BY <1>3, <3>1 DEF Moved
    <3> HIDE DEF u, v
    <3> QED BY <3>2
  <2>4. \A y \in S : u[y] \in Int
    BY <1>3
  <2> HIDE DEF S, u, v, x0
  <2>5. SumFunctionOnSet(v, S) = SumFunctionOnSet(u, S) + delta
    BY <1>2, <2>1, <2>2, <2>3, <2>4, SumMoved
  <2> QED BY <1>1, <1>5, <1>7, <2>5 DEF CountedFrom, v, S0, Part
<1>8. CASE ~In(rec, k, b)
  <2>1. \A y \in S : v[y] = u[y]
    <3> SUFFICES ASSUME NEW y \in S PROVE v[y] = u[y]
      OBVIOUS
    <3>1. y \notin ChargedRows(rec)
      BY <1>8 DEF ChargedRows, In
    <3>2. u[y] \in Int /\ v[y] = u[y] + 0
      BY <1>3, <3>1 DEF Moved
    <3> HIDE DEF u, v
    <3> QED BY <3>2
  <2> HIDE DEF S, u, v
  <2>2. SumFunctionOnSet(v, S) = SumFunctionOnSet(u, S)
    BY <1>2, <2>1, SumSame
  <2>3. SumFunctionOnSet(u, S) = SumFunctionOnSet(u, S) + 0
    BY <1>6
  <2> QED BY <1>1, <1>5, <1>8, <2>2, <2>3 DEF CountedFrom, v, S0, Part
<1> QED BY <1>7, <1>8

\* The row that stands for row x once prune has folded.
Home(before, x) ==
  LET S == FoldableRows(x[1], x[3], before) IN IF x \in S THEN FoldTarget(S) ELSE x

\* The home of a row is a row that stays, of the same key, no older.
LEMMA HomeIs ==
  ASSUME IsHistory(rows), NEW before, NEW x \in DOMAIN rows
  PROVE  /\ Home(before, x) \in DOMAIN rows \ FoldedAway(before)
         /\ Home(before, x)[1] = x[1]
         /\ x[2] <= Home(before, x)[2]
         /\ x \notin FoldableRows(x[1], x[3], before) => Home(before, x) = x
         /\ x \in FoldableRows(x[1], x[3], before) =>
              /\ Home(before, x) \in FoldableRows(x[1], x[3], before)
              /\ Home(before, x) = FoldTarget(FoldableRows(x[1], x[3], before))
<1> DEFINE S == FoldableRows(x[1], x[3], before)
           y == Home(before, x)
<1>1. \A z \in DOMAIN rows : z[2] \in Nat
  BY DEF IsHistory
<1>2. CASE x \notin S
  <2>1. y = x
    BY <1>2 DEF Home
  <2>2. x \notin FoldedAway(before)
    BY <1>2 DEF FoldedAway
  <2> QED BY <1>1, <1>2, <2>1, <2>2
<1>3. CASE x \in S
  <2>1. y = FoldTarget(S)
    BY <1>3 DEF Home
  <2>2. S \subseteq DOMAIN rows /\ \A z \in S : z[1] = x[1] /\ z[3] = x[3]
    BY DEF FoldableRows
  <2>3. y \in S /\ \A z \in S : z[2] <= y[2]
    <3> HIDE DEF S, y
    <3>1. IsFiniteSet(S) /\ S # {} /\ \A z \in S : z[2] \in Nat
      BY <1>1, <1>3, <2>2, FS_Subset DEF IsHistory
    <3>2. \E z \in S : \A q \in S : q[2] <= z[2]
      BY <3>1, HighestRow
    <3> QED BY Zenon, <2>1, <3>2 DEF FoldTarget
  <2>4. y[1] = x[1] /\ y[3] = x[3]
    BY <2>2, <2>3
  <2>5. y \notin FoldedAway(before)
    <3>1. FoldableRows(y[1], y[3], before) = S
      BY <2>4
    <3> HIDE DEF S, y
    <3> QED BY <2>1, <3>1 DEF FoldedAway
  <2> HIDE DEF y
  <2> QED BY <1>3, <2>1, <2>2, <2>3, <2>4, <2>5 DEF y
<1> QED BY <1>2, <1>3

\* A row that stays is the sum of those it stands for.
LEMMA FoldedSums ==
  ASSUME IsHistory(rows), NEW before, NEW y \in DOMAIN rows \ FoldedAway(before)
  PROVE  Folded(before)[y] =
           SumFunctionOnSet(rows, {x \in DOMAIN rows : Home(before, x) = y})
<1> DEFINE F(x) == FoldableRows(x[1], x[3], before)
           from == {x \in DOMAIN rows : Home(before, x) = y}
<1>1. Folded(before)[y] = IF y \in F(y) THEN SumFunctionOnSet(rows, F(y)) ELSE rows[y]
  BY DEF Folded
<1>2. \A x, z : x[1] = z[1] /\ x[3] = z[3] => F(x) = F(z)
  OBVIOUS
<1>3. \A x \in DOMAIN rows : F(x) \subseteq DOMAIN rows /\ \A z \in F(x) : F(z) = F(x)
  <2>1. \A x \in DOMAIN rows : F(x) \subseteq DOMAIN rows
          /\ \A z \in F(x) : z[1] = x[1] /\ z[3] = x[3]
    BY DEF FoldableRows
  <2> HIDE DEF F
  <2> QED BY <1>2, <2>1
<1>4. y \in F(y) => y = FoldTarget(F(y))
  BY DEF FoldedAway
<1>5. \A x \in DOMAIN rows :
        /\ x \notin F(x) => Home(before, x) = x
        /\ x \in F(x) => Home(before, x) \in F(x) /\ Home(before, x) = FoldTarget(F(x))
  BY HomeIs
<1> HIDE DEF F
<1>6. CASE y \in F(y)
  <2>1. ASSUME NEW x \in DOMAIN rows, Home(before, x) = y PROVE x \in F(y)
    <3>1. x \in F(x)
      BY <1>5, <1>6, <2>1
    <3> QED BY <1>3, <1>5, <2>1, <3>1
  <2>2. ASSUME NEW x \in F(y) PROVE x \in DOMAIN rows /\ Home(before, x) = y
    BY <1>3, <1>4, <1>5, <1>6, <2>2
  <2>3. from = F(y)
    BY <2>1, <2>2
  <2> QED BY <1>1, <1>6, <2>3
<1>7. CASE y \notin F(y)
  <2>1. ASSUME NEW x \in DOMAIN rows, Home(before, x) = y PROVE x = y
    BY <1>3, <1>5, <1>7, <2>1
  <2>2. Home(before, y) = y
    BY <1>5, <1>7
  <2>3. from = {y}
    BY <2>1, <2>2
  <2>4. rows[y] \in Int
    BY DEF IsHistory
  <2>5. SumFunctionOnSet(rows, {y}) = rows[y]
    BY <2>4, SumOne
  <2> QED BY <1>1, <1>7, <2>3, <2>5
<1> QED BY <1>6, <1>7

\* Folding counts each row of a key from the bucket of its home on.
LEMMA FoldedCounted ==
  ASSUME IsHistory(rows), NEW before, NEW k, NEW b \in Int
  PROVE  CountedFrom(Folded(before), k, b) =
           SumFunctionOnSet(rows,
             {x \in DOMAIN rows : x[1] = k /\ b <= Home(before, x)[2]})
<1> DEFINE h == Folded(before)
           T == RowsFrom(h, k, b)
           g == [x \in DOMAIN rows |-> Home(before, x)]
           S == {x \in DOMAIN rows : x[1] = k /\ b <= Home(before, x)[2]}
<1>1. DOMAIN h = DOMAIN rows \ FoldedAway(before)
  BY DEF Folded
<1>2. IsFiniteSet(S) /\ IsFiniteSet(T)
  <2>1. S \in SUBSET DOMAIN rows /\ T \in SUBSET DOMAIN rows
    BY <1>1 DEF RowsFrom
  <2> HIDE DEF S, T
  <2> QED BY <2>1, FS_Subset DEF IsHistory
<1>3. \A x \in S : rows[x] \in Int
  BY DEF IsHistory
<1>4. \A x \in DOMAIN rows : g[x] \in DOMAIN h /\ g[x][1] = x[1]
  BY <1>1, HomeIs
<1>5. \A x \in S : g[x] \in T
  BY <1>4 DEF RowsFrom
<1>6. ASSUME NEW y \in T PROVE h[y] = SumFunctionOnSet(rows, Group(S, g, y))
  <2>1. y \in DOMAIN h /\ y[1] = k /\ b <= y[2]
    BY DEF RowsFrom
  <2>2. Group(S, g, y) = {x \in DOMAIN rows : Home(before, x) = y}
    BY <1>4, <2>1 DEF Group
  <2>3. h[y] = SumFunctionOnSet(rows, {x \in DOMAIN rows : Home(before, x) = y})
    BY <1>1, <2>1, FoldedSums
  <2> HIDE DEF h, T, g, S
  <2> QED BY <2>2, <2>3
<1> HIDE DEF h, T, g, S
<1>7. SumFunctionOnSet(h, T) = SumFunctionOnSet(rows, S)
  BY <1>2, <1>3, <1>5, <1>6, SumGrouped
<1> QED BY <1>7 DEF h, T, S, CountedFrom

\* Folding never lowers what is counted of a key from a bucket on, as no row is
\* negative; and where no row passes the bucket, it leaves it.
LEMMA FoldedCounts ==
  ASSUME IsHistory(rows), \A x \in DOMAIN rows : 0 <= rows[x],
         NEW before, NEW k, NEW b \in Int
  PROVE  /\ CountedFrom(rows, k, b) <= CountedFrom(Folded(before), k, b)
         /\ (\A x \in DOMAIN rows : x[1] = k /\ x[2] < b => Home(before, x)[2] < b)
              => CountedFrom(Folded(before), k, b) = CountedFrom(rows, k, b)
<1> DEFINE S == {x \in DOMAIN rows : x[1] = k /\ b <= Home(before, x)[2]}
           S0 == RowsFrom(rows, k, b)
           D == {x \in DOMAIN rows : x[1] = k /\ x[2] < b /\ b <= Home(before, x)[2]}
<1>0. \A x \in DOMAIN rows :
        /\ x[2] \in Nat /\ Home(before, x)[2] \in Nat /\ x[2] <= Home(before, x)[2]
        /\ rows[x] \in Int /\ rows[x] \in Nat
  <2>1. \A x \in DOMAIN rows : x[2] \in Nat /\ rows[x] \in Int
    BY DEF IsHistory
  <2>2. \A x \in DOMAIN rows : Home(before, x) \in DOMAIN rows /\ x[2] <= Home(before, x)[2]
    BY HomeIs
  <2> QED BY <2>1, <2>2
<1>1. S0 \subseteq DOMAIN rows /\ D \subseteq DOMAIN rows /\ S0 \cap D = {} /\ S = S0 \cup D
  BY <1>0 DEF RowsFrom
<1>2. IsFiniteSet(S0) /\ IsFiniteSet(D)
  <2> HIDE DEF S0, D
  <2> QED BY <1>1, FS_Subset DEF IsHistory
<1>3. CountedFrom(Folded(before), k, b) = SumFunctionOnSet(rows, S)
  BY FoldedCounted
<1>4. CountedFrom(rows, k, b) = SumFunctionOnSet(rows, S0)
  BY DEF CountedFrom
<1>5. (\A x \in DOMAIN rows : x[1] = k /\ x[2] < b => Home(before, x)[2] < b) => D = {}
  BY <1>0
<1> HIDE DEF S, S0, D
<1>6. SumFunctionOnSet(rows, S0 \cup D) = SumFunctionOnSet(rows, S0) + SumFunctionOnSet(rows, D)
  BY <1>0, <1>1, <1>2, SumJoin
<1>7. SumFunctionOnSet(rows, D) \in Nat /\ SumFunctionOnSet(rows, S0) \in Int
  BY <1>0, <1>1, <1>2, SumNat, SumInt
<1>8. D = {} => SumFunctionOnSet(rows, D) = 0
  BY SumNone
<1> DEFINE p == SumFunctionOnSet(rows, S0)
           q == SumFunctionOnSet(rows, D)
<1>9. CountedFrom(Folded(before), k, b) = p + q
  BY Zenon, <1>1, <1>3, <1>6
<1> HIDE DEF p, q
<1>10. p \in Int /\ q \in Nat => p <= p + q /\ (q = 0 => p + q = p)
  OBVIOUS
<1> QED BY <1>4, <1>5, <1>7, <1>8, <1>9, <1>10 DEF p, q

\* Prune tells requests of one id apart: a recorded one is newer than all it
\* has forgotten, and it forgets no open hold.
Named ==
  /\ IsFiniteSet(archive) /\ IsFiniteSet(DOMAIN requests)
  /\ \A r \in DOMAIN requests : requests[r].gen = Generation(r)
  /\ \A a \in archive : /\ a.gen \in Nat /\ a.gen < Generation(a.id)
                        /\ a.state # "reserved"

\* A scope that has no window yet was never charged.
WindowsOK ==
  /\ prunedAt \in Nat
  /\ \A k \in Keys :
       \/ windows[k] # NoWindow /\ windows[k].ms \in Nat /\ windows[k].buckets \in Nat \ {0}
       \/ /\ windows[k] = NoWindow
          /\ \A x \in DOMAIN rows : x[1] # k
          /\ \A rec \in Records : k \notin DOMAIN rec.charges

RowsOK == IsHistory(rows) /\ \A x \in DOMAIN rows : x[2] <= newest[x[1]]

\* A row holds at least what the open holds charged to it do.
HeldOK == \A x \in Keys \X Nat \X Models : HeldOn(Records, x) <= Cell(rows, x)

TotalsOK ==
  \A k \in Keys : totals[k] = CountedFrom(rows, k, 0) /\ totals[k] = DueFrom(Records, k, 0)

\* The buckets of a window that opens after the last prune.
Exact(k, b) ==
  /\ windows[k] # NoWindow /\ ~IsLifetime(windows[k])
  /\ FirstCounted(windows[k], prunedAt) <= b

CountsOK ==
  \A k \in Keys, b \in Int :
    /\ DueFrom(Records, k, b) <= CountedFrom(rows, k, b)
    /\ Exact(k, b) => DueFrom(Records, k, b) = CountedFrom(rows, k, b)

Accounts == /\ Named /\ WindowsOK /\ RowsOK
            /\ HeldOK /\ TotalsOK /\ CountsOK

-----------------------------------------------------------------------------
\* The records, live and forgotten, are finitely many and well formed.
LEMMA LedgerOK ==
  ASSUME ShapeOK, Named
  PROVE  IsLedger(Records) /\ IsFiniteSet(Range(requests))
<1>1. IsFiniteSet({requests[r] : r \in DOMAIN requests})
  BY ImageFinite DEF Named
<1>2. Range(requests) = {requests[r] : r \in DOMAIN requests}
  BY DEF Range
<1>3. IsFiniteSet(Records)
  BY <1>1, <1>2, FS_Union DEF Records, Named
<1>4. \A rec \in Records : IsRecord(rec)
  BY <1>2 DEF Records, ShapeOK
<1> QED BY <1>1, <1>2, <1>3, <1>4 DEF IsLedger

\* A record is charged to finitely many rows.
LEMMA ChargedFinite ==
  ASSUME NEW rec, IsRecord(rec)
  PROVE  IsFiniteSet(ChargedRows(rec)) /\ ChargedRows(rec) \subseteq Keys \X Nat \X Models
<1> DEFINE f == [k \in DOMAIN rec.charges |-> <<k, rec.charges[k], rec.in.model>>]
<1>1. IsFiniteSet(DOMAIN rec.charges)
  BY StoreAssumption DEF IsRecord
<1>2. ChargedRows(rec) = {f[k] : k \in DOMAIN rec.charges}
  BY DEF ChargedRows
<1> HIDE DEF f
<1>3. IsFiniteSet(ChargedRows(rec))
  BY <1>1, <1>2, ImageFinite
<1>4. DOMAIN rec.charges \subseteq Keys /\ rec.in.model \in Models
  BY StoreAssumption DEF IsRecord
<1>5. \A k \in DOMAIN rec.charges : rec.charges[k] \in Nat
  BY DEF IsRecord
<1> QED BY <1>3, <1>4, <1>5 DEF ChargedRows

\* The counters that record rec is charged to have moved by delta.
CountersMoved(rec, delta) ==
  /\ IsHistory(rows')
  /\ \A x \in DOMAIN rows' : x[2] <= newest'[x[1]]
  /\ DOMAIN rows' \subseteq DOMAIN rows \cup ChargedRows(rec)
  /\ \A k \in Keys, b \in Int :
       CountedFrom(rows', k, b) = CountedFrom(rows, k, b) + Part(In(rec, k, b), delta)
  /\ \A x : Cell(rows', x) = Cell(rows, x) + Part(x \in ChargedRows(rec), delta)
  /\ \A k \in Keys : totals'[k] = totals[k] + Part(k \in DOMAIN rec.charges, delta)

\* What they owe has moved by delta, what they hold by grip.
DebtsMoved(rec, delta, grip) ==
  /\ \A r \in Records' : r \in Records \/ r.charges = rec.charges
  /\ \A k \in Keys, b \in Int :
       DueFrom(Records', k, b) = DueFrom(Records, k, b) + Part(In(rec, k, b), delta)
  /\ \A x : HeldOn(Records', x) = HeldOn(Records, x) + Part(x \in ChargedRows(rec), grip)

\* What a history counts is an integer.
LEMMA CountedInt ==
  ASSUME NEW h, IsHistory(h), NEW k, NEW b
  PROVE  CountedFrom(h, k, b) \in Int
<1>1. IsFiniteSet(RowsFrom(h, k, b)) /\ \A x \in RowsFrom(h, k, b) : h[x] \in Int
  BY FS_Subset DEF RowsFrom, IsHistory
<1> QED BY <1>1, SumInt DEF CountedFrom

\* Add moves the counters of the record by its delta.
LEMMA AddMoves ==
  ASSUME ShapeOK, RowsOK, NEW rec, IsRecord(rec), NEW delta \in Int, Add(rec, delta)
  PROVE  CountersMoved(rec, delta)
<1>1. rows' = Moved(rows, rec, delta)
  BY DEF Add, Moved
<1>2. IsFiniteSet(ChargedRows(rec)) /\ ChargedRows(rec) \subseteq Keys \X Nat \X Models
  BY ChargedFinite
<1>3. DOMAIN rows' = DOMAIN rows \cup ChargedRows(rec)
  BY <1>1 DEF Moved
<1>4. \A x \in DOMAIN rows' :
        rows'[x] = Cell(rows, x) + Part(x \in ChargedRows(rec), delta)
  BY <1>1 DEF Moved, Cell, Part
<1>5. \A x : Cell(rows, x) \in Int
  BY DEF Cell, RowsOK, IsHistory
<1>6. IsHistory(rows')
  <2>1. IsFiniteSet(DOMAIN rows')
    BY <1>2, <1>3, FS_Union DEF RowsOK, IsHistory
  <2>2. \A x \in DOMAIN rows' : rows'[x] \in Int
    BY <1>4, <1>5 DEF Part
  <2> QED BY <1>2, <1>3, <2>1, <2>2 DEF RowsOK, IsHistory
<1>7. \A x \in DOMAIN rows' : x[2] <= newest'[x[1]]
  <2>0. /\ \A k \in Keys : newest[k] \in Int
        /\ \A k \in DOMAIN rec.charges : rec.charges[k] \in Nat
    BY DEF ShapeOK, IsRecord
  <2>1. \A k \in Keys : /\ newest[k] <= newest'[k]
                        /\ k \in DOMAIN rec.charges => rec.charges[k] <= newest'[k]
                        /\ newest'[k] \in Int
    BY <2>0 DEF Add
  <2>2. ASSUME NEW x \in ChargedRows(rec) PROVE x[2] <= newest'[x[1]]
    BY <1>2, <2>1 DEF ChargedRows
  <2>3. ASSUME NEW x \in DOMAIN rows PROVE x[2] <= newest'[x[1]]
    <3>1. x[1] \in Keys /\ x[2] \in Nat /\ x[2] <= newest[x[1]]
      BY DEF RowsOK, IsHistory
    <3> QED BY <2>0, <2>1, <3>1
  <2> QED BY <1>3, <2>2, <2>3
<1>8. ASSUME NEW k \in Keys, NEW b \in Int
      PROVE CountedFrom(rows', k, b) = CountedFrom(rows, k, b) + Part(In(rec, k, b), delta)
  BY <1>1, <1>2, CountedMoved DEF RowsOK
<1>9. ASSUME NEW x PROVE Cell(rows', x) = Cell(rows, x) + Part(x \in ChargedRows(rec), delta)
  BY <1>3, <1>4 DEF Cell, Part
<1>10. \A k \in Keys : totals'[k] = totals[k] + Part(k \in DOMAIN rec.charges, delta)
  BY DEF Add, Part
<1> QED BY <1>3, <1>6, <1>7, <1>8, <1>9, <1>10 DEF CountersMoved

\* Leaving the history moves them by nothing.
LEMMA StillMoves ==
  ASSUME ShapeOK, RowsOK, UNCHANGED history, NEW rec
  PROVE  CountersMoved(rec, 0)
<1>1. \A k, b : CountedFrom(rows, k, b) \in Int
  BY CountedInt DEF RowsOK
<1>2. \A x : Cell(rows, x) \in Int
  BY DEF Cell, RowsOK, IsHistory
<1>3. \A k \in Keys : totals[k] \in Int
  BY DEF ShapeOK
<1>4. \A n \in Int : \A P : n = n + Part(P, 0)
  BY DEF Part
<1>5. rows' = rows /\ totals' = totals /\ newest' = newest
  BY DEF history
<1> QED BY <1>1, <1>2, <1>3, <1>4, <1>5 DEF CountersMoved, RowsOK

\* A request is recorded.
LEMMA RecordedMoves ==
  ASSUME IsLedger(Records), NEW new, IsRecord(new), new \notin Records,
         Records' = Records \cup {new}
  PROVE  DebtsMoved(new, Amount(new), Grip(new))
<1>1. \A k, b : DueFrom(Records', k, b) =
                  DueFrom(Records, k, b) + Part(In(new, k, b), Amount(new))
  BY DueMore
<1>2. \A x : HeldOn(Records', x) =
               HeldOn(Records, x) + Part(x \in ChargedRows(new), Grip(new))
  BY HeldMore
<1> QED BY <1>1, <1>2 DEF DebtsMoved

\* A request is closed: its record is replaced.
LEMMA ReplacedMoves ==
  ASSUME IsLedger(Records), NEW old \in Records, NEW new, IsRecord(new),
         new \notin Records \ {old}, new.charges = old.charges, new.in = old.in,
         Records' = (Records \ {old}) \cup {new}
  PROVE  DebtsMoved(old, Amount(new) - Amount(old), Grip(new) - Grip(old))
<1> DEFINE R == Records \ {old}
           a == Amount(new)
           c == Amount(old)
           p == Grip(new)
           q == Grip(old)
<1>1. IsLedger(R) /\ old \notin R /\ Records = R \cup {old} /\ IsRecord(old)
  BY FS_Subset DEF IsLedger
<1>2. new \notin R /\ Records' = R \cup {new}
  OBVIOUS
<1>3. ChargedRows(new) = ChargedRows(old) /\ \A k, b : In(new, k, b) <=> In(old, k, b)
  BY DEF ChargedRows, In
<1>4. a \in Nat /\ c \in Nat /\ p \in Nat /\ q \in Nat
  BY <1>1, AmountNat DEF Grip, Part
<1>5. ASSUME NEW k, NEW b
      PROVE  DueFrom(Records', k, b) = DueFrom(Records, k, b) + Part(In(old, k, b), a - c)
  <2> DEFINE d == DueFrom(R, k, b)
  <2>1. DueFrom(R \cup {old}, k, b) = d + Part(In(old, k, b), c)
    BY <1>1, DueMore
  <2>2. DueFrom(R \cup {new}, k, b) = d + Part(In(old, k, b), a)
    <3>1. DueFrom(R \cup {new}, k, b) = d + Part(In(new, k, b), a)
      BY <1>1, <1>2, DueMore
    <3>2. In(new, k, b) <=> In(old, k, b)
      BY <1>3
    <3> QED BY <3>1, <3>2 DEF Part
  <2>3. d \in Nat
    BY <1>1, DebtsNat
  <2> HIDE DEF d, a, c
  <2>4. d + Part(In(old, k, b), a) = d + Part(In(old, k, b), c) + Part(In(old, k, b), a - c)
    BY <1>4, <2>3 DEF Part
  <2> HIDE DEF R
  <2> QED BY <1>1, <1>2, <2>1, <2>2, <2>4
<1>6. ASSUME NEW x
      PROVE  HeldOn(Records', x) = HeldOn(Records, x) + Part(x \in ChargedRows(old), p - q)
  <2> DEFINE d == HeldOn(R, x)
  <2>1. HeldOn(R \cup {old}, x) = d + Part(x \in ChargedRows(old), q)
    BY <1>1, HeldMore
  <2>2. HeldOn(R \cup {new}, x) = d + Part(x \in ChargedRows(old), p)
    BY <1>1, <1>2, <1>3, HeldMore
  <2>3. d \in Nat
    BY <1>1, DebtsNat
  <2> HIDE DEF d, p, q
  <2>4. d + Part(x \in ChargedRows(old), p) =
          d + Part(x \in ChargedRows(old), q) + Part(x \in ChargedRows(old), p - q)
    BY <1>4, <2>3 DEF Part
  <2> HIDE DEF R
  <2> QED BY <1>1, <1>2, <2>1, <2>2, <2>4
<1> QED BY <1>5, <1>6 DEF DebtsMoved

\* Where nothing was charged, nothing is counted or owed.
LEMMA UnusedIsEmpty ==
  ASSUME NEW k, \A x \in DOMAIN rows : x[1] # k, \A rec \in Records : k \notin DOMAIN rec.charges,
         NEW b
  PROVE  CountedFrom(rows, k, b) = 0 /\ DueFrom(Records, k, b) = 0
<1>1. RowsFrom(rows, k, b) = {} /\ ChargedFrom(Records, k, b) = {}
  BY DEF RowsFrom, ChargedFrom
<1> QED BY <1>1, SumNone, OwedNone DEF CountedFrom, DueFrom

\* When the counters move by what the debts do, the accounts still agree.
LEMMA MovedTogether ==
  ASSUME ShapeOK, Accounts, Named', NEW rec, IsRecord(rec),
         NEW delta \in Int, NEW grip \in Int, grip <= delta,
         CountersMoved(rec, delta), DebtsMoved(rec, delta, grip),
         prunedAt' = prunedAt,
         \A k \in Keys : \/ windows'[k] = windows[k]
                         \/ windows[k] = NoWindow /\ k \in DOMAIN rec.charges,
         \A k \in DOMAIN rec.charges :
           windows'[k] # NoWindow /\ windows'[k].ms \in Nat /\ windows'[k].buckets \in Nat \ {0}
  PROVE  Accounts'
<1>1. IsLedger(Records)
  BY LedgerOK DEF Accounts
<1>2. WindowsOK'
  <2> SUFFICES ASSUME NEW k \in Keys
               PROVE  \/ windows'[k] # NoWindow /\ windows'[k].ms \in Nat
                           /\ windows'[k].buckets \in Nat \ {0}
                      \/ /\ windows'[k] = NoWindow
                         /\ \A x \in DOMAIN rows' : x[1] # k
                         /\ \A r \in Records' : k \notin DOMAIN r.charges
    BY DEF WindowsOK, Accounts
  <2>1. CASE k \in DOMAIN rec.charges
    BY <2>1
  <2>2. CASE k \notin DOMAIN rec.charges
    <3>1. windows'[k] = windows[k]
      BY <2>2
    <3>2. \A x \in ChargedRows(rec) : x[1] # k
      BY <2>2 DEF ChargedRows
    <3> QED BY <2>2, <3>1, <3>2 DEF WindowsOK, Accounts, CountersMoved, DebtsMoved
  <2> QED BY <2>1, <2>2
<1>3. RowsOK'
  BY DEF CountersMoved, RowsOK
<1>4. HeldOK'
  <2> SUFFICES ASSUME NEW x \in Keys \X Nat \X Models
               PROVE  HeldOn(Records', x) <= Cell(rows', x)
    BY DEF HeldOK
  <2>1. HeldOn(Records, x) <= Cell(rows, x) /\ Cell(rows, x) \in Int
    BY DEF HeldOK, Accounts, Cell, RowsOK, IsHistory
  <2>2. HeldOn(Records, x) \in Nat
    BY <1>1, DebtsNat
  <2>3. /\ HeldOn(Records', x) = HeldOn(Records, x) + Part(x \in ChargedRows(rec), grip)
        /\ Cell(rows', x) = Cell(rows, x) + Part(x \in ChargedRows(rec), delta)
    BY DEF CountersMoved, DebtsMoved
  <2> QED BY <2>1, <2>2, <2>3 DEF Part
<1>5. ASSUME NEW k \in Keys, NEW b \in Int
      PROVE /\ CountedFrom(rows, k, b) \in Int /\ DueFrom(Records, k, b) \in Int
            /\ CountedFrom(rows', k, b) = CountedFrom(rows, k, b) + Part(In(rec, k, b), delta)
            /\ DueFrom(Records', k, b) = DueFrom(Records, k, b) + Part(In(rec, k, b), delta)
  <2>1. CountedFrom(rows, k, b) \in Int
    BY CountedInt DEF Accounts, RowsOK
  <2>2. DueFrom(Records, k, b) \in Int
    BY <1>1, DebtsNat
  <2>3. CountedFrom(rows', k, b) = CountedFrom(rows, k, b) + Part(In(rec, k, b), delta)
    BY DEF CountersMoved
  <2>4. DueFrom(Records', k, b) = DueFrom(Records, k, b) + Part(In(rec, k, b), delta)
    BY DEF DebtsMoved
  <2> QED BY <2>1, <2>2, <2>3, <2>4
<1>6. TotalsOK'
  <2> SUFFICES ASSUME NEW k \in Keys
               PROVE  totals'[k] = CountedFrom(rows', k, 0) /\ totals'[k] = DueFrom(Records', k, 0)
    BY DEF TotalsOK
  <2>1. In(rec, k, 0) <=> k \in DOMAIN rec.charges
    BY DEF In, IsRecord
  <2>2. totals'[k] = totals[k] + Part(In(rec, k, 0), delta)
    BY <2>1 DEF CountersMoved, Part
  <2>3. totals[k] = CountedFrom(rows, k, 0) /\ totals[k] = DueFrom(Records, k, 0)
    BY DEF TotalsOK, Accounts
  <2> QED BY <1>5, <2>2, <2>3
<1>7. CountsOK'
  <2> SUFFICES ASSUME NEW k \in Keys, NEW b \in Int
               PROVE  /\ DueFrom(Records', k, b) <= CountedFrom(rows', k, b)
                      /\ Exact(k, b)' => DueFrom(Records', k, b) = CountedFrom(rows', k, b)
    BY DEF CountsOK
  <2>1. CASE windows'[k] = windows[k]
    <3>1. Exact(k, b)' <=> Exact(k, b)
      BY <2>1 DEF Exact
    <3>2. /\ DueFrom(Records, k, b) <= CountedFrom(rows, k, b)
          /\ Exact(k, b) => DueFrom(Records, k, b) = CountedFrom(rows, k, b)
      BY DEF CountsOK, Accounts
    <3> QED BY <1>5, <3>1, <3>2 DEF Part
  <2>2. CASE windows[k] = NoWindow
    <3>1. CountedFrom(rows, k, b) = 0 /\ DueFrom(Records, k, b) = 0
      BY <2>2, UnusedIsEmpty DEF WindowsOK, Accounts
    <3>2. Part(In(rec, k, b), delta) \in Int
      BY DEF Part
    <3>3. DueFrom(Records', k, b) = CountedFrom(rows', k, b) /\ DueFrom(Records', k, b) \in Int
      BY <1>5, <3>1, <3>2
    <3> QED BY <3>3
  <2> QED BY <2>1, <2>2
<1> QED BY <1>2, <1>3, <1>4, <1>6, <1>7 DEF Accounts

\* A new request is told apart from all recorded and forgotten ones.
LEMMA NewRecord ==
  ASSUME ShapeOK, Named, NEW r, r \notin DOMAIN requests, NEW rec,
         rec.id = r, rec.gen = Generation(r), Put(r, rec), archive' = archive
  PROVE  Named' /\ rec \notin Records /\ Records' = Records \cup {rec}
<1>1. /\ DOMAIN requests' = DOMAIN requests \cup {r}
      /\ requests'[r] = rec
      /\ \A q \in DOMAIN requests : requests'[q] = requests[q]
  BY DEF Put
<1>2. \A q : Generation(q)' = Generation(q)
  BY DEF Generation
<1>3. IsFiniteSet(DOMAIN requests')
  BY <1>1, FS_AddElement DEF Named
<1>4. \A q \in DOMAIN requests' : requests'[q].gen = Generation(q)
  BY <1>1 DEF Named
<1>5. Named'
  BY <1>2, <1>3, <1>4 DEF Named
<1>6. rec \notin archive
  <2>1. ASSUME NEW a \in archive, a = rec PROVE FALSE
    <3>1. a.gen \in Nat /\ a.gen < Generation(a.id) /\ a.gen = Generation(a.id)
      BY <2>1 DEF Named
    <3> QED BY <3>1
  <2> QED BY <2>1
<1>7. rec \notin Range(requests)
  BY DEF Range, ShapeOK
<1>8. Range(requests') = Range(requests) \cup {rec}
  BY <1>1 DEF Range
<1> QED BY <1>5, <1>6, <1>7, <1>8 DEF Records

\* So is a recorded one, as it changes.
LEMMA ChangedRecord ==
  ASSUME ShapeOK, Named, NEW r \in DOMAIN requests, NEW new,
         new.id = r, new.gen = requests[r].gen, Put(r, new), archive' = archive
  PROVE  /\ Named' /\ requests[r] \in Records /\ new \notin Records \ {requests[r]}
         /\ Records' = (Records \ {requests[r]}) \cup {new}
<1> DEFINE old == requests[r]
           others == {requests[q] : q \in DOMAIN requests \ {r}}
<1>1. /\ DOMAIN requests' = DOMAIN requests
      /\ requests'[r] = new
      /\ \A q \in DOMAIN requests : q # r => requests'[q] = requests[q]
  BY DEF Put
<1>2. \A q : Generation(q)' = Generation(q)
  BY DEF Generation
<1>3. old.id = r /\ old.gen = Generation(r)
  BY DEF ShapeOK, Named
<1>4. \A q \in DOMAIN requests' : requests'[q].gen = Generation(q)
  BY <1>1, <1>3 DEF Named
<1>5. Named'
  BY <1>1, <1>2, <1>4 DEF Named
<1>6. new \notin archive /\ old \notin archive
  <2>1. ASSUME NEW a \in archive, a.gen = Generation(a.id) PROVE FALSE
    <3>1. a.gen \in Nat /\ a.gen < Generation(a.id)
      BY DEF Named
    <3> QED BY <2>1, <3>1
  <2> QED BY <1>3, <2>1
<1>7. new \notin others /\ old \notin others
  BY <1>3 DEF ShapeOK
<1>8. Range(requests') = others \cup {new} /\ Range(requests) = others \cup {old}
  BY <1>1 DEF Range
<1> HIDE DEF old, others
<1>9. /\ Records = (others \cup archive) \cup {old}
      /\ Records' = (others \cup archive) \cup {new}
      /\ Records \ {old} = others \cup archive
  BY <1>6, <1>7, <1>8 DEF Records
<1>10. old \in Records /\ new \notin Records \ {old} /\ Records' = (Records \ {old}) \cup {new}
  BY <1>6, <1>7, <1>9
<1> QED BY <1>5, <1>10 DEF old

-----------------------------------------------------------------------------
\* Settling and releasing keep the accounts.
LEMMA ClosingKeepsAccounts ==
  ASSUME ShapeOK, Accounts, NEW r, NEW actual \in Nat,
         Settling(r, actual) \/ Releasing(r),
         archive' = archive, windows' = windows, prunedAt' = prunedAt
  PROVE  Accounts'
<1> DEFINE old == requests[r]
<1>0. r \in DOMAIN requests /\ IsRecord(old) /\ old.id = r /\ IsLedger(Records)
  BY LedgerOK DEF Settling, Releasing, Recorded, ShapeOK, Accounts
<1>1. \E new : \E delta \in Int :
        /\ Put(r, new) /\ IsRecord(new) /\ new.id = r /\ new.gen = old.gen
        /\ new.charges = old.charges /\ new.in = old.in
        /\ delta = Amount(new) - Amount(old)
        /\ Grip(new) - Grip(old) <= delta
        /\ CountersMoved(old, delta)
  <2>0. old.in.est \in Nat /\ old.actual \in Nat
    BY <1>0, StoreAssumption DEF IsRecord
  <2>1. CASE Settling(r, actual)
    <3> DEFINE new == [old EXCEPT !.state = "settled", !.actual = actual]
    <3>1. /\ Put(r, new) /\ Add(old, actual - old.in.est)
          /\ SettlePlan(old, actual) = "apply"
      BY <2>1 DEF Settling
    <3>2. old.state = "reserved"
      <4>1. old.state \in States
        BY <1>0 DEF IsRecord
      <4> QED BY <3>1, <4>1 DEF SettlePlan, States
    <3>3. /\ IsRecord(new) /\ new.id = r /\ new.gen = old.gen
          /\ new.charges = old.charges /\ new.in = old.in
          /\ new.state = "settled" /\ new.actual = actual
      BY <1>0 DEF IsRecord, States
    <3>4. Amount(new) = actual /\ Grip(new) = 0
      BY <3>3 DEF Amount, Grip, Part
    <3>5. Amount(old) = old.in.est /\ Grip(old) = old.in.est
      BY <3>2 DEF Amount, Grip, Part
    <3> DEFINE delta == actual - old.in.est
    <3>6. delta \in Int /\ 0 - old.in.est <= delta
      BY <2>0
    <3>7. CountersMoved(old, delta)
      BY <1>0, <3>1, <3>6, AddMoves DEF Accounts
    <3> HIDE DEF old, new
    <3> QED BY <3>1, <3>3, <3>4, <3>5, <3>6, <3>7
  <2>2. CASE Releasing(r)
    <3> DEFINE new == [old EXCEPT !.state = "released"]
    <3>1. /\ Put(r, new) /\ ReleasePlan(old) = "apply"
          /\ IF old.state = "reserved" THEN Add(old, 0 - old.in.est) ELSE UNCHANGED history
      BY <2>2 DEF Releasing
    <3>3. /\ IsRecord(new) /\ new.id = r /\ new.gen = old.gen
          /\ new.charges = old.charges /\ new.in = old.in
          /\ new.state = "released"
      BY <1>0 DEF IsRecord, States
    <3>4. Amount(new) = 0 /\ Grip(new) = 0
      BY <3>3 DEF Amount, Grip, Part
    <3>5. CASE old.state = "reserved"
      <4>1. Amount(old) = old.in.est /\ Grip(old) = old.in.est
        BY <3>5 DEF Amount, Grip, Part
      <4> DEFINE delta == 0 - old.in.est
      <4>2. delta \in Int /\ 0 - old.in.est <= delta
        BY <2>0
      <4>3. CountersMoved(old, delta)
        BY <1>0, <3>1, <3>5, <4>2, AddMoves DEF Accounts
      <4> HIDE DEF old, new
      <4> QED BY <3>1, <3>3, <3>4, <4>1, <4>2, <4>3
    <3>6. CASE old.state # "reserved"
      <4>1. Amount(old) = 0 /\ Grip(old) = 0
        <5>1. old.state \in States
          BY <1>0 DEF IsRecord
        <5>2. old.state = "settled" => old.actual = 0
          BY <2>0, <3>1 DEF ReleasePlan
        <5> QED BY <3>6, <5>1, <5>2 DEF Amount, Grip, Part, States
      <4>2. CountersMoved(old, 0)
        BY <3>1, <3>6, StillMoves DEF Accounts
      <4> HIDE DEF old, new
      <4> QED BY <3>1, <3>3, <3>4, <4>1, <4>2
    <3> QED BY <3>5, <3>6
  <2> QED BY <2>1, <2>2
<1>2. PICK new : \E delta \in Int :
        /\ Put(r, new) /\ IsRecord(new) /\ new.id = r /\ new.gen = old.gen
        /\ new.charges = old.charges /\ new.in = old.in
        /\ delta = Amount(new) - Amount(old)
        /\ Grip(new) - Grip(old) <= delta
        /\ CountersMoved(old, delta)
  BY <1>1
<1> DEFINE delta == Amount(new) - Amount(old)
<1>2a. delta \in Int /\ Grip(new) - Grip(old) <= delta /\ CountersMoved(old, delta)
  BY <1>2
<1>3. /\ Named' /\ old \in Records /\ new \notin Records \ {old}
      /\ Records' = (Records \ {old}) \cup {new}
  BY <1>0, <1>2, ChangedRecord DEF Accounts
<1>4. DebtsMoved(old, delta, Grip(new) - Grip(old))
  <2> HIDE DEF old
  <2> QED BY <1>0, <1>2, <1>3, ReplacedMoves
<1>5. Grip(new) - Grip(old) \in Int
  BY <1>0, <1>2, AmountNat DEF Grip, Part
<1>6. \A k \in DOMAIN old.charges :
        windows'[k] # NoWindow /\ windows'[k].ms \in Nat /\ windows'[k].buckets \in Nat \ {0}
  <2>1. DOMAIN old.charges \subseteq Keys
    BY <1>0, StoreAssumption DEF IsRecord
  <2> QED BY <1>3, <2>1 DEF Accounts, WindowsOK
<1> HIDE DEF old, delta
<1> QED BY <1>0, <1>2a, <1>3, <1>4, <1>5, <1>6, MovedTogether

\* A new request charges the counters it names, or is denied and charges none.
LEMMA ReserveKeepsAccounts ==
  ASSUME ShapeOK, Accounts, NEW r \in Requests, NEW in \in Inputs, Reserve(r, in)
  PROVE  Accounts'
<1> DEFINE fits == Fits(in, now)
           rec == [id |-> r, gen |-> Generation(r), in |-> in, at |-> now,
                   actual |-> 0,
                   state |-> IF fits THEN "reserved" ELSE "denied",
                   charges |-> [k \in DOMAIN in.scopes |->
                                  BucketIndex(in.scopes[k].window, now)]]
<1>1. /\ r \notin DOMAIN requests /\ Put(r, rec)
      /\ IF fits THEN Add(rec, in.est) ELSE UNCHANGED history
      /\ archive' = archive /\ prunedAt' = prunedAt
      /\ \A k \in DOMAIN in.scopes : windows[k] \in {NoWindow, in.scopes[k].window}
      /\ windows' = [k \in Keys |-> IF k \in DOMAIN in.scopes
                                    THEN in.scopes[k].window ELSE windows[k]]
  BY DEF Reserve, Recorded
<1>2. IsRecord(rec)
  <2>1. now \in Nat
    BY DEF ShapeOK
  <2>2. [k \in DOMAIN in.scopes |-> BucketIndex(in.scopes[k].window, now)]
          \in [DOMAIN in.scopes -> Nat]
    BY <2>1, IndexNat
  <2> QED BY <2>1, <2>2 DEF IsRecord, States
<1> HIDE DEF fits
<1>3. /\ rec.id = r /\ rec.gen = Generation(r) /\ rec.in = in
      /\ rec.state = IF fits THEN "reserved" ELSE "denied"
      /\ DOMAIN rec.charges = DOMAIN in.scopes
  OBVIOUS
<1>4. in.est \in Nat /\ DOMAIN in.scopes \subseteq Keys
  BY StoreAssumption
<1> HIDE DEF rec
<1>5. Named' /\ rec \notin Records /\ Records' = Records \cup {rec}
  BY <1>1, <1>3, NewRecord DEF Accounts
<1>6. IsLedger(Records)
  BY LedgerOK DEF Accounts
<1>7. DebtsMoved(rec, Amount(rec), Grip(rec))
  BY <1>2, <1>5, <1>6, RecordedMoves
<1>8. CountersMoved(rec, Amount(rec)) /\ Grip(rec) = Amount(rec)
  <2>1. CASE fits
    <3>1. Amount(rec) = in.est /\ Grip(rec) = in.est
      BY <1>3, <2>1 DEF Amount, Grip, Part
    <3> QED BY <1>1, <1>2, <1>4, <2>1, <3>1, AddMoves DEF Accounts
  <2>2. CASE ~fits
    <3>1. Amount(rec) = 0 /\ Grip(rec) = 0
      BY <1>3, <2>2 DEF Amount, Grip, Part
    <3> QED BY <1>1, <2>2, <3>1, StillMoves DEF Accounts
  <2> QED BY <2>1, <2>2
<1>9. /\ \A k \in DOMAIN rec.charges :
           windows'[k] # NoWindow /\ windows'[k].ms \in Nat /\ windows'[k].buckets \in Nat \ {0}
      /\ \A k \in Keys : \/ windows'[k] = windows[k]
                         \/ windows[k] = NoWindow /\ k \in DOMAIN rec.charges
  <2>1. \A k \in DOMAIN in.scopes :
          /\ windows'[k] = in.scopes[k].window
          /\ in.scopes[k].window.ms \in Nat /\ in.scopes[k].window.buckets \in Nat \ {0}
    BY <1>1, <1>4, StoreAssumption
  <2>2. NoWindow.ms = -1
    BY DEF NoWindow
  <2>3. \A k \in Keys : k \notin DOMAIN in.scopes => windows'[k] = windows[k]
    BY <1>1
  <2> HIDE DEF NoWindow
  <2> QED BY <1>1, <1>3, <1>4, <2>1, <2>2, <2>3
<1>10. Amount(rec) \in Int /\ Amount(rec) <= Amount(rec)
  BY <1>2, AmountNat
<1> QED BY <1>1, <1>2, <1>5, <1>7, <1>8, <1>9, <1>10, MovedTogether

-----------------------------------------------------------------------------
(* Bucket arithmetic. *)

\* What fits into t whole buckets is at most the index of t.
LEMMA DivAbove ==
  ASSUME NEW i \in Int, NEW t \in Nat, NEW B \in Nat \ {0}, i * B <= t
  PROVE  i <= t \div B
<1> DEFINE q == t \div B
           m == t % B
<1>1. q \in Int /\ m \in 0..(B - 1) /\ t = B * q + m
  OBVIOUS
<1> HIDE DEF q, m
<1>2. ASSUME q + 1 <= i PROVE FALSE
  <2>1. (q + 1) * B <= i * B
    BY <1>1, <1>2, SMTT(60)
  <2>2. (q + 1) * B = B * q + B
    BY <1>1
  <2> QED BY <1>1, <2>1, <2>2
<1>3. i <= q
  BY <1>1, <1>2
<1> QED BY <1>3 DEF q

\* Bucket indexes grow with time.
LEMMA DivGrows ==
  ASSUME NEW s \in Nat, NEW t \in Nat, NEW B \in Nat \ {0}, s <= t
  PROVE  s \div B <= t \div B
<1> DEFINE q == s \div B
           m == s % B
<1>1. q \in Int /\ m \in 0..(B - 1) /\ s = B * q + m
  OBVIOUS
<1> HIDE DEF q, m
<1>2. q * B <= t
  <2>1. q * B = B * q
    BY <1>1
  <2> QED BY <1>1, <2>1
<1>3. q <= t \div B
  BY <1>1, <1>2, DivAbove
<1> QED BY <1>3 DEF q

\* A bucket lasts.
LEMMA BucketMsNat ==
  ASSUME NEW w, w.ms \in Nat, w.buckets \in Nat \ {0}
  PROVE  BucketMs(w) \in Nat \ {0}
BY CeilPositive, StoreAssumption DEF BucketMs, IsLifetime

\* The window moves on with time, and a row that may fold has left it.
LEMMA WindowMovesOn ==
  ASSUME NEW w, w.ms \in Nat, w.buckets \in Nat \ {0}, NEW s \in Nat, NEW t \in Nat
  PROVE  /\ FirstCounted(w, s) \in Int
         /\ s <= t => FirstCounted(w, s) <= FirstCounted(w, t)
         /\ \A i \in Nat : \A before : ~IsLifetime(w) /\ IsFoldable(w, i, before, t)
              => i < FirstCounted(w, t)
<1> DEFINE B == BucketMs(w)
<1>1. B \in Nat \ {0}
  BY BucketMsNat
<1> HIDE DEF B
<1>2. s \div B \in Int /\ t \div B \in Int
  BY <1>1
<1>3. s <= t => s \div B <= t \div B
  BY <1>1, DivGrows
<1>4. ASSUME NEW i \in Nat, NEW before, ~IsLifetime(w), IsFoldable(w, i, before, t)
      PROVE  i + w.buckets <= t \div B
  <2>1. (i + w.buckets) * B <= t
    BY <1>4 DEF IsFoldable, B
  <2>2. i + w.buckets \in Int
    OBVIOUS
  <2> QED BY <1>1, <2>1, <2>2, DivAbove
<1>5. /\ FirstCounted(w, s) = (s \div B) - w.buckets + 1
      /\ FirstCounted(w, t) = (t \div B) - w.buckets + 1
  BY DEF FirstCounted, BucketIndex, B
<1>6. \A i \in Nat : \A before : ~IsLifetime(w) /\ IsFoldable(w, i, before, t)
              => i < FirstCounted(w, t)
  <2> TAKE i \in Nat
  <2> TAKE before
  <2> HAVE ~IsLifetime(w) /\ IsFoldable(w, i, before, t)
  <2>1. i + w.buckets <= t \div B
    BY <1>4
  <2> QED BY <1>2, <1>5, <2>1
<1> QED BY <1>2, <1>3, <1>5, <1>6

\* Prune names what it forgets apart from what it forgot before.
LEMMA ForgettingNames ==
  ASSUME ShapeOK, Named, NEW before, Prune(before)
  PROVE  Named' /\ Records' = Records
<1> DEFINE gone == Forgotten(before)
           of(q) == {a \in archive : a.id = q}
<1>1. /\ DOMAIN requests' = DOMAIN requests \ gone
      /\ \A q \in DOMAIN requests' : requests'[q] = requests[q]
      /\ archive' = archive \cup {requests[r] : r \in gone}
      /\ gone \subseteq DOMAIN requests
      /\ \A q \in gone : requests[q].state # "reserved"
  BY DEF Prune, Forgotten
<1>2. IsFiniteSet(DOMAIN requests') /\ IsFiniteSet(gone)
  BY <1>1, FS_Subset DEF Named
<1>3. IsFiniteSet(archive')
  <2>1. IsFiniteSet({requests[r] : r \in gone})
    <3> HIDE DEF gone
    <3> QED BY <1>2, ImageFinite
  <2> HIDE DEF gone
  <2> QED BY <1>1, <2>1, FS_Union DEF Named
<1>4. \A q \in DOMAIN requests :
        requests[q].id = q /\ requests[q].gen = Generation(q)
  BY DEF ShapeOK, Named
<1>5. \A q : IsFiniteSet(of(q)) /\ Generation(q) = Cardinality(of(q)) /\ Generation(q) \in Nat
  BY FS_Subset, FS_CardinalityType DEF Generation, Named
<1>6. \A q : Generation(q)' = Cardinality({a \in archive' : a.id = q})
  BY DEF Generation
<1>7. ASSUME NEW q \in gone PROVE Generation(q)' = Generation(q) + 1
  <2>1. {a \in archive' : a.id = q} = of(q) \cup {requests[q]}
    BY <1>1, <1>4
  <2>2. requests[q] \notin of(q)
    <3>1. ASSUME NEW a \in archive, a = requests[q] PROVE FALSE
      <4>1. a.gen \in Nat /\ a.gen < Generation(a.id) /\ a.gen = Generation(a.id)
        BY <1>1, <1>4, <3>1 DEF Named
      <4> QED BY <4>1
    <3> QED BY <3>1
  <2> HIDE DEF of
  <2>3. Cardinality(of(q) \cup {requests[q]}) = Cardinality(of(q)) + 1
    BY <1>5, <2>2, FS_AddElement
  <2> QED BY <1>5, <1>6, <2>1, <2>3
<1>8. ASSUME NEW q, q \notin gone PROVE Generation(q)' = Generation(q)
  <2>1. {a \in archive' : a.id = q} = of(q)
    BY <1>1, <1>4, <1>8
  <2> HIDE DEF of
  <2> QED BY <1>5, <1>6, <2>1
<1> HIDE DEF gone, of
<1>9. ASSUME NEW q \in DOMAIN requests' PROVE requests'[q].gen = Generation(q)'
  BY <1>1, <1>4, <1>8
<1>10. ASSUME NEW a \in archive'
       PROVE  a.gen \in Nat /\ a.gen < Generation(a.id)' /\ a.state # "reserved"
  <2>1. CASE a \in archive
    <3>1. a.gen \in Nat /\ a.gen < Generation(a.id) /\ a.state # "reserved"
      BY <2>1 DEF Named
    <3>2. Generation(a.id)' = Generation(a.id) \/ Generation(a.id)' = Generation(a.id) + 1
      BY <1>7, <1>8
    <3>3. Generation(a.id) \in Nat
      BY <1>5
    <3> QED BY <3>1, <3>2, <3>3
  <2>2. CASE a \notin archive
    <3>1. PICK q \in gone : a = requests[q]
      BY <1>1, <2>2
    <3>2. a.id = q /\ a.gen = Generation(q) /\ a.state # "reserved"
      BY <1>1, <1>4, <3>1
    <3>3. Generation(q)' = Generation(q) + 1 /\ Generation(q) \in Nat
      BY <1>5, <1>7
    <3> QED BY <3>2, <3>3
  <2> QED BY <2>1, <2>2
<1>11. Named'
  BY <1>2, <1>3, <1>9, <1>10 DEF Named
<1>12. Records' = Records
  <2>1. Range(requests') \cup {requests[r] : r \in gone} = Range(requests)
    BY <1>1 DEF Range
  <2> QED BY <1>1, <2>1 DEF Records
<1> QED BY <1>11, <1>12

\* The later of two times.
LEMMA MaxOfTwo ==
  ASSUME NEW a \in Nat, NEW b \in Nat
  PROVE  Max({a, b}) \in Nat /\ a <= Max({a, b}) /\ b <= Max({a, b})
<1>1. \E x \in {a, b} : \A y \in {a, b} : x >= y
  OBVIOUS
<1>2. Max({a, b}) \in {a, b} /\ \A y \in {a, b} : Max({a, b}) >= y
  BY <1>1, Zenon DEF Max
<1> QED BY <1>2

\* Folding a row into its home never lowers a row that stays.
LEMMA FoldedCells ==
  ASSUME IsHistory(rows), \A x \in DOMAIN rows : 0 <= rows[x], NEW before
  PROVE  /\ IsHistory(Folded(before))
         /\ DOMAIN Folded(before) = DOMAIN rows \ FoldedAway(before)
         /\ \A y \in DOMAIN rows \ FoldedAway(before) : rows[y] <= Folded(before)[y]
<1>1. DOMAIN Folded(before) = DOMAIN rows \ FoldedAway(before)
  BY DEF Folded
<1>2. ASSUME NEW y \in DOMAIN rows \ FoldedAway(before)
      PROVE  Folded(before)[y] \in Int /\ rows[y] <= Folded(before)[y]
  <2> DEFINE from == {x \in DOMAIN rows : Home(before, x) = y}
             rest == from \ {y}
  <2>1. Folded(before)[y] = SumFunctionOnSet(rows, from)
    BY FoldedSums
  <2>2. Home(before, y) = y
    <3> DEFINE F == FoldableRows(y[1], y[3], before)
    <3>1. y \in F => y = FoldTarget(F)
      BY DEF FoldedAway
    <3>2. y \in F => Home(before, y) = FoldTarget(F)
      BY HomeIs
    <3>3. y \notin F => Home(before, y) = y
      BY HomeIs
    <3> QED BY <3>1, <3>2, <3>3
  <2>3. y \in from /\ from \subseteq DOMAIN rows /\ rest \subseteq DOMAIN rows
    BY <2>2
  <2>4. \A x \in DOMAIN rows : rows[x] \in Int /\ rows[x] \in Nat
    BY DEF IsHistory
  <2>5. IsFiniteSet(from) /\ IsFiniteSet(rest)
    <3> HIDE DEF from, rest
    <3> QED BY <2>3, FS_Subset DEF IsHistory
  <2>6. SumFunctionOnSet(rows, from) = rows[y] + SumFunctionOnSet(rows, rest)
    <3> HIDE DEF from
    <3> QED BY <2>3, <2>4, <2>5, SumRemove
  <2>7. SumFunctionOnSet(rows, rest) \in Nat
    <3> HIDE DEF rest
    <3> QED BY <2>3, <2>4, <2>5, SumNat
  <2> HIDE DEF from, rest
  <2> QED BY <2>1, <2>4, <2>6, <2>7
<1>3. IsFiniteSet(DOMAIN Folded(before))
  BY <1>1, FS_Subset DEF IsHistory
<1> QED BY <1>1, <1>2, <1>3 DEF IsHistory

\* Prune keeps the accounts: it moves no amount across keys, and across buckets
\* only below the window that admission counts.
LEMMA PruneKeepsAccounts ==
  ASSUME ShapeOK, Accounts, NEW before, Prune(before)
  PROVE  Accounts'
<1>1. /\ rows' = Folded(before) /\ totals' = totals /\ newest' = newest
      /\ windows' = windows /\ prunedAt' = Max({prunedAt, now})
  BY DEF Prune
<1>2. Named' /\ Records' = Records
  BY ForgettingNames DEF Accounts
<1>3. IsLedger(Records) /\ IsHistory(rows)
  BY LedgerOK DEF Accounts, RowsOK
<1>4. prunedAt' \in Nat /\ prunedAt <= prunedAt' /\ now <= prunedAt' /\ prunedAt \in Nat /\ now \in Nat
  BY <1>1, MaxOfTwo DEF ShapeOK, Accounts, WindowsOK
<1>5. \A x \in DOMAIN rows : 0 <= rows[x]
  <2> TAKE x \in DOMAIN rows
  <2>1. x \in Keys \X Nat \X Models /\ Cell(rows, x) = rows[x] /\ rows[x] \in Int
    BY <1>3 DEF IsHistory, Cell
  <2>2. HeldOn(Records, x) <= Cell(rows, x)
    BY <2>1 DEF Accounts, HeldOK
  <2>3. HeldOn(Records, x) \in Nat
    BY <1>3, DebtsNat
  <2> QED BY <2>1, <2>2, <2>3
<1>6. /\ IsHistory(rows')
      /\ DOMAIN rows' = DOMAIN rows \ FoldedAway(before)
      /\ \A y \in DOMAIN rows' : rows[y] <= rows'[y]
  BY <1>1, <1>3, <1>5, FoldedCells
<1>7. WindowsOK'
  BY <1>1, <1>2, <1>4, <1>6 DEF Accounts, WindowsOK
<1>8. RowsOK'
  BY <1>1, <1>6 DEF Accounts, RowsOK
<1>9. HeldOK'
  <2> SUFFICES ASSUME NEW x \in Keys \X Nat \X Models
               PROVE  HeldOn(Records, x) <= Cell(rows', x)
    BY <1>2 DEF HeldOK
  <2>1. HeldOn(Records, x) <= Cell(rows, x) /\ HeldOn(Records, x) \in Nat
    BY <1>3, DebtsNat DEF Accounts, HeldOK
  <2>2. CASE x \in DOMAIN rows'
    <3>1. Cell(rows, x) = rows[x] /\ Cell(rows', x) = rows'[x]
      BY <1>6, <2>2 DEF Cell
    <3>2. rows[x] <= rows'[x] /\ rows[x] \in Int /\ rows'[x] \in Int
      BY <1>3, <1>6, <2>2 DEF IsHistory
    <3> QED BY <2>1, <3>1, <3>2
  <2>3. CASE x \in FoldedAway(before)
    <3>1. Cell(rows', x) = 0
      BY <1>6, <2>3 DEF Cell
    <3>2. <<x[1], x[2]>> \notin HeldBuckets
      BY <2>3 DEF FoldedAway, FoldableRows
    <3>3. HoldsOn(Records, x) = {}
      <4> SUFFICES ASSUME NEW rec \in Records, rec.state = "reserved", x \in ChargedRows(rec)
                   PROVE  FALSE
        BY DEF HoldsOn
      <4>1. PICK r \in DOMAIN requests : rec = requests[r]
        BY DEF Records, Range, Accounts, Named
      <4>2. PICK k \in DOMAIN rec.charges : x = <<k, rec.charges[k], rec.in.model>>
        BY DEF ChargedRows
      <4>3. <<k, rec.charges[k]>> \in HeldBuckets
        BY <4>1 DEF HeldBuckets
      <4> QED BY <3>2, <4>2, <4>3
    <3> QED BY <3>1, <3>3, OwedNone DEF HeldOn
  <2>4. CASE x \notin DOMAIN rows
    <3>1. Cell(rows', x) = Cell(rows, x)
      BY <1>6, <2>4 DEF Cell
    <3> QED BY <2>1, <3>1
  <2> QED BY <1>6, <2>2, <2>3, <2>4
<1>10. TotalsOK'
  <2> SUFFICES ASSUME NEW k \in Keys PROVE CountedFrom(rows', k, 0) = CountedFrom(rows, k, 0)
    BY <1>1, <1>2 DEF TotalsOK, Accounts
  <2>1. \A x \in DOMAIN rows : ~(x[2] < 0)
    BY <1>3 DEF IsHistory
  <2> QED BY <1>1, <1>3, <1>5, <2>1, FoldedCounts
<1>11. CountsOK'
  <2> SUFFICES ASSUME NEW k \in Keys, NEW b \in Int
               PROVE  /\ DueFrom(Records, k, b) <= CountedFrom(rows', k, b)
                      /\ Exact(k, b)' => DueFrom(Records, k, b) = CountedFrom(rows', k, b)
    BY <1>2 DEF CountsOK
  <2>1. /\ DueFrom(Records, k, b) <= CountedFrom(rows, k, b)
        /\ Exact(k, b) => DueFrom(Records, k, b) = CountedFrom(rows, k, b)
    BY DEF CountsOK, Accounts
  <2>2. CountedFrom(rows, k, b) <= CountedFrom(rows', k, b)
    BY <1>1, <1>3, <1>5, FoldedCounts
  <2>3. /\ DueFrom(Records, k, b) \in Int /\ CountedFrom(rows, k, b) \in Int
        /\ CountedFrom(rows', k, b) \in Int
    BY <1>3, <1>6, CountedInt, DebtsNat
  <2>4. ASSUME Exact(k, b)' PROVE CountedFrom(rows', k, b) = CountedFrom(rows, k, b) /\ Exact(k, b)
    <3> DEFINE w == windows[k]
    <3>1. /\ w # NoWindow /\ ~IsLifetime(w) /\ FirstCounted(w, prunedAt') <= b
          /\ w.ms \in Nat /\ w.buckets \in Nat \ {0}
      BY <1>1, <2>4 DEF Exact, Accounts, WindowsOK
    <3>2. /\ FirstCounted(w, prunedAt) <= FirstCounted(w, prunedAt')
          /\ FirstCounted(w, now) <= FirstCounted(w, prunedAt')
          /\ FirstCounted(w, prunedAt) \in Int /\ FirstCounted(w, now) \in Int
          /\ FirstCounted(w, prunedAt') \in Int
      BY <1>4, <3>1, WindowMovesOn
    <3>3. Exact(k, b)
      BY <3>1, <3>2 DEF Exact
    <3>4. ASSUME NEW x \in DOMAIN rows, x[1] = k, x[2] < b PROVE Home(before, x)[2] < b
      <4> DEFINE F == FoldableRows(x[1], x[3], before)
                 y == Home(before, x)
      <4>1. CASE x \notin F
        BY <1>3, <3>4, <4>1, HomeIs
      <4>2. CASE x \in F
        <5>1. y \in F /\ y \in DOMAIN rows
          BY <1>3, <4>2, HomeIs
        <5>2. IsFoldable(w, y[2], before, now) /\ y[2] \in Nat
          BY <1>3, <3>4, <5>1 DEF FoldableRows, IsHistory
        <5> HIDE DEF w, y, F
        <5>3. y[2] < FirstCounted(w, now)
          BY <1>4, <3>1, <5>2, WindowMovesOn
        <5>4. y[2] < b
          BY <3>1, <3>2, <5>2, <5>3
        <5> QED BY <5>4 DEF y
      <4> QED BY <4>1, <4>2
    <3>5. CountedFrom(rows', k, b) = CountedFrom(rows, k, b)
      BY <1>1, <1>3, <1>5, <3>4, FoldedCounts
    <3> QED BY <3>3, <3>5
  <2> QED BY <2>1, <2>2, <2>3, <2>4
<1> QED BY <1>2, <1>7, <1>8, <1>9, <1>10, <1>11 DEF Accounts

\* A step that leaves what the accounts speak of leaves them.
LEMMA StillKeepsAccounts ==
  ASSUME Accounts, UNCHANGED <<requests, history, windows, archive, prunedAt>>
  PROVE  Accounts'
<1>1. /\ requests' = requests /\ rows' = rows /\ totals' = totals /\ newest' = newest
      /\ windows' = windows /\ archive' = archive /\ prunedAt' = prunedAt
  BY DEF history
<1>2. Records' = Records
  BY <1>1 DEF Records
<1>3. Named'
  BY <1>1 DEF Named, Generation, Accounts
<1>4. WindowsOK' /\ RowsOK'
  BY <1>1, <1>2 DEF WindowsOK, RowsOK, Accounts
<1>5. HeldOK' /\ TotalsOK'
  BY <1>1, <1>2 DEF HeldOK, TotalsOK, Accounts
<1>6. CountsOK'
  BY <1>1, <1>2 DEF CountsOK, Exact, Accounts
<1> QED BY <1>3, <1>4, <1>5, <1>6 DEF Accounts

\* The counters and the records agree in every reachable state: by row, by key and
\* by window, and each row covers the open holds that will adjust it.
THEOREM StoreAccounts == StoreSpec => []Accounts
<1>1. StoreInit => Accounts
  <2> SUFFICES ASSUME StoreInit PROVE Accounts
    OBVIOUS
  <2>1. DOMAIN rows = {} /\ DOMAIN requests = {} /\ archive = {} /\ prunedAt = 0
    BY DEF StoreInit
  <2>2. Records = {}
    BY <2>1 DEF Records, Range
  <2>3. IsFiniteSet({})
    BY FS_EmptySet
  <2>4. Named
    BY <2>1, <2>3 DEF Named
  <2>5. WindowsOK
    BY <2>1, <2>2 DEF StoreInit, WindowsOK
  <2>6. RowsOK
    BY <2>1, <2>3 DEF RowsOK, IsHistory
  <2>7. \A x : HeldOn(Records, x) = 0 /\ Cell(rows, x) = 0
    <3>1. \A x : HoldsOn(Records, x) = {}
      BY <2>2 DEF HoldsOn
    <3> QED BY <2>1, <3>1, OwedNone DEF HeldOn, Cell
  <2>8. \A k, b : CountedFrom(rows, k, b) = 0 /\ DueFrom(Records, k, b) = 0
    BY <2>1, <2>2, UnusedIsEmpty
  <2>9. HeldOK /\ TotalsOK /\ CountsOK
    BY <2>7, <2>8 DEF StoreInit, HeldOK, TotalsOK, CountsOK
  <2> QED BY <2>4, <2>5, <2>6, <2>9 DEF Accounts
<1>2. ShapeOK /\ Accounts /\ [StoreNext]_vars => Accounts'
  <2> SUFFICES ASSUME ShapeOK, Accounts, [StoreNext]_vars PROVE Accounts'
    OBVIOUS
  <2>1. ASSUME NEW r \in Requests, NEW in \in Inputs, Reserve(r, in) PROVE Accounts'
    BY <2>1, ReserveKeepsAccounts
  <2>2. ASSUME NEW r \in Requests, NEW a \in Actuals, Settle(r, a) PROVE Accounts'
    BY <2>2, ClosingKeepsAccounts, StoreAssumption DEF Settle, ghosts
  <2>3. ASSUME NEW r \in Requests, Release(r) PROVE Accounts'
    <3>1. 0 \in Nat
      OBVIOUS
    <3> QED BY <2>3, <3>1, ClosingKeepsAccounts DEF Release, ghosts
  <2>4. ASSUME NEW t \in PruneCutoffs, Prune(t) PROVE Accounts'
    BY <2>4, PruneKeepsAccounts
  <2>5. ASSUME NEW how \in Resolutions, NEW a \in Actuals, SweepClose(how, a)
        PROVE Accounts'
    <3>1. /\ sweep.on /\ windows' = windows /\ archive' = archive /\ prunedAt' = prunedAt
      BY <2>5 DEF SweepClose, ghosts
    <3>2. PICK hold \in sweep.page :
            \/ UNCHANGED <<requests, history>>
            \/ Releasing(hold.id)
            \/ Settling(hold.id, IF how = "custom" THEN a ELSE hold.est)
      BY <2>5 DEF SweepClose
    <3>3. (IF how = "custom" THEN a ELSE hold.est) \in Nat
      BY <3>1, StoreAssumption DEF ShapeOK
    <3>4. CASE UNCHANGED <<requests, history>>
      BY <3>1, <3>4, StillKeepsAccounts
    <3> QED BY <3>1, <3>2, <3>3, <3>4, ClosingKeepsAccounts
  <2>6. ASSUME NEW t, SweepBegin(t) \/ Tick(t) \/ SweepRead \/ UNCHANGED vars
        PROVE Accounts'
    BY <2>6, StillKeepsAccounts DEF SweepBegin, Tick, SweepRead, vars, ghosts, history
  <2> QED BY <2>1, <2>2, <2>3, <2>4, <2>5, <2>6 DEF StoreNext
<1> QED BY <1>1, <1>2, StoreShape, PTL DEF StoreSpec

\* However holds are charged, settled, released, folded and forgotten, the total
\* of a key is the sum of its history, and what its records owe.
THEOREM StoreTotals == StoreSpec => []TotalsMatchHistory
<1>1. ShapeOK /\ Accounts => TotalsMatchHistory
  <2> SUFFICES ASSUME ShapeOK, Accounts, NEW k \in Keys
               PROVE  totals[k] = SumFunctionOnSet(rows, RowsOf(k)) /\ totals[k] = Owed(ChargedTo(k))
    BY DEF TotalsMatchHistory
  <2>1. RowsOf(k) = RowsFrom(rows, k, 0)
    BY DEF RowsOf, RowsFrom, Accounts, RowsOK, IsHistory
  <2>2. ChargedTo(k) = ChargedFrom(Records, k, 0)
    <3>1. IsLedger(Records)
      BY LedgerOK DEF Accounts
    <3> QED BY <3>1 DEF ChargedTo, ChargedFrom, IsLedger, IsRecord
  <2> QED BY <2>1, <2>2 DEF Accounts, TotalsOK, CountedFrom, DueFrom
<1> QED BY <1>1, StoreShape, StoreAccounts, PTL

-----------------------------------------------------------------------------
\* Walking the window by index or walking the history counts the same rows.
LEMMA CommittedIs ==
  ASSUME ShapeOK, Accounts, NEW k \in Keys, NEW w, ~IsLifetime(w), NEW at,
         FirstCounted(w, at) \in Int
  PROVE  Committed(k, w, at) = CountedFrom(rows, k, FirstCounted(w, at))
<1> DEFINE first == FirstCounted(w, at)
           last == IF newest[k] = -1 THEN first ELSE newest[k]
           short == {x \in RowsOf(k) : first <= x[2] /\ x[2] <= last}
           long == {x \in RowsOf(k) : first <= x[2]}
<1>1. \A x \in RowsOf(k) : x[2] \in Nat /\ x[2] <= newest[k]
  BY DEF RowsOf, Accounts, RowsOK, IsHistory
<1>2. newest[k] \in Nat \cup {-1}
  BY DEF ShapeOK
<1>3. \A x \in RowsOf(k) : x[2] <= last
  BY <1>1, <1>2
<1>4. short = long
  BY <1>3
<1>5. long = RowsFrom(rows, k, first)
  BY DEF RowsOf, RowsFrom
<1>6. \E P \in BOOLEAN : Committed(k, w, at) = SumFunctionOnSet(rows, IF P THEN short ELSE long)
  BY Zenon DEF Committed
<1> HIDE DEF short, long
<1>7. Committed(k, w, at) = SumFunctionOnSet(rows, long)
  BY <1>4, <1>6
<1> QED BY <1>5, <1>7 DEF CountedFrom

\* What admission counts in a scope is no less than what the records owe in its
\* window, and the same from the last prune on.
LEMMA CommittedCovers ==
  ASSUME ShapeOK, Accounts, NEW k \in Keys, windows[k] # NoWindow, NEW at \in Nat
  PROVE  /\ Committed(k, windows[k], at) \in Int /\ OwedIn(k, windows[k], at) \in Int
         /\ OwedIn(k, windows[k], at) <= Committed(k, windows[k], at)
         /\ prunedAt <= at => Committed(k, windows[k], at) = OwedIn(k, windows[k], at)
<1> DEFINE w == windows[k]
<1>0. IsLedger(Records) /\ w.ms \in Nat /\ w.buckets \in Nat \ {0} /\ prunedAt \in Nat
  BY LedgerOK DEF Accounts, WindowsOK
<1>1. CASE IsLifetime(w)
  <2>1. Committed(k, w, at) = totals[k]
    BY <1>1 DEF Committed
  <2>2. {rec \in ChargedTo(k) : IsLifetime(w) \/ FirstCounted(w, at) <= rec.charges[k]}
          = ChargedFrom(Records, k, 0)
    BY <1>0, <1>1 DEF ChargedTo, ChargedFrom, IsLedger, IsRecord
  <2>3. OwedIn(k, w, at) = DueFrom(Records, k, 0)
    BY <2>2 DEF OwedIn, DueFrom
  <2>4. totals[k] = DueFrom(Records, k, 0) /\ totals[k] \in Int
    BY DEF Accounts, TotalsOK, ShapeOK
  <2> HIDE DEF w
  <2>5. Committed(k, w, at) = OwedIn(k, w, at) /\ OwedIn(k, w, at) \in Int
    BY <2>1, <2>3, <2>4
  <2> QED BY <2>5 DEF w
<1>2. CASE ~IsLifetime(w)
  <2> DEFINE first == FirstCounted(w, at)
  <2>1. first \in Int /\ (prunedAt <= at => FirstCounted(w, prunedAt) <= first)
    BY <1>0, WindowMovesOn
  <2>2. Committed(k, w, at) = CountedFrom(rows, k, first)
    BY <1>2, <2>1, CommittedIs
  <2>3. {rec \in ChargedTo(k) : IsLifetime(w) \/ FirstCounted(w, at) <= rec.charges[k]}
          = ChargedFrom(Records, k, first)
    BY <1>2 DEF ChargedTo, ChargedFrom
  <2>4. OwedIn(k, w, at) = DueFrom(Records, k, first)
    BY <2>3 DEF OwedIn, DueFrom
  <2>5. prunedAt <= at => Exact(k, first)
    BY <1>2, <2>1 DEF Exact
  <2>6. /\ DueFrom(Records, k, first) <= CountedFrom(rows, k, first)
        /\ Exact(k, first) => DueFrom(Records, k, first) = CountedFrom(rows, k, first)
    BY <2>1 DEF Accounts, CountsOK
  <2>7. CountedFrom(rows, k, first) \in Int /\ DueFrom(Records, k, first) \in Int
    BY <1>0, CountedInt, DebtsNat DEF Accounts, RowsOK
  <2> HIDE DEF w, first
  <2>8. /\ Committed(k, w, at) \in Int /\ OwedIn(k, w, at) \in Int
        /\ OwedIn(k, w, at) <= Committed(k, w, at)
        /\ prunedAt <= at => Committed(k, w, at) = OwedIn(k, w, at)
    BY <2>2, <2>4, <2>5, <2>6, <2>7
  <2> QED BY <2>8 DEF w
<1> QED BY <1>1, <1>2

\* "Usage totals and admission do not change" when prune forgets and folds.
THEOREM StoreAdmission == StoreSpec => []AdmissionCountsWhatIsOwed
<1>1. ShapeOK /\ Accounts => AdmissionCountsWhatIsOwed
  <2> SUFFICES ASSUME ShapeOK, Accounts, NEW k \in Keys, windows[k] # NoWindow,
                      NEW at \in 0..MaxTime
               PROVE  LET counted == Committed(k, windows[k], at)
                          owed    == OwedIn(k, windows[k], at)
                      IN counted >= owed /\ (at >= prunedAt => counted = owed)
    BY DEF AdmissionCountsWhatIsOwed
  <2>1. at \in Nat /\ prunedAt \in Nat
    BY StoreAssumption DEF Accounts, WindowsOK
  <2> QED BY <2>1, CommittedCovers
<1> QED BY <1>1, StoreShape, StoreAccounts, PTL

-----------------------------------------------------------------------------
\* A request is admitted only if, with what the records of each of its scopes
\* owe in the scope's window, it stays within the scope's limit: a hold counts
\* from its admission to the end, whatever was settled, folded or forgotten.
AdmitsWithinLimits ==
  [][\A r \in Requests, in \in Inputs :
       Reserve(r, in) /\ requests'[r].state = "reserved" =>
         \A k \in DOMAIN in.scopes :
           LET s == in.scopes[k] IN
           s.limit # NoLimit => OwedIn(k, s.window, now) + in.est <= s.limit]_vars

\* Reserve admits nothing beyond a limit of any of its scopes, counting what is
\* really owed and not what the counters happen to hold.
THEOREM StoreWithinLimits == StoreSpec => AdmitsWithinLimits
<1>1. ASSUME ShapeOK, Accounts, NEW r \in Requests, NEW in \in Inputs, Reserve(r, in),
             requests'[r].state = "reserved", NEW k \in DOMAIN in.scopes,
             in.scopes[k].limit # NoLimit
      PROVE  OwedIn(k, in.scopes[k].window, now) + in.est <= in.scopes[k].limit
  <2> DEFINE w == in.scopes[k].window
             rec == [id |-> r, gen |-> Generation(r), in |-> in, at |-> now,
                     actual |-> 0,
                     state |-> IF Fits(in, now) THEN "reserved" ELSE "denied",
                     charges |-> [j \in DOMAIN in.scopes |->
                                    BucketIndex(in.scopes[j].window, now)]]
  <2>1. Put(r, rec) /\ windows[k] \in {NoWindow, w}
    BY <1>1 DEF Reserve
  <2>2. requests'[r] = rec
    <3> HIDE DEF rec
    <3> QED BY <2>1 DEF Put
  <2>3. Fits(in, now)
    BY <1>1, <2>2
  <2>4. k \in Keys /\ in.est \in Nat /\ in.scopes[k].limit \in Nat /\ now \in Nat
        /\ w.ms \in Nat /\ w.buckets \in Nat \ {0}
    BY <1>1, StoreAssumption DEF ShapeOK
  <2>5. Committed(k, w, now) + in.est <= in.scopes[k].limit
    BY <1>1, <2>3 DEF Fits
  <2>6. CASE windows[k] = w /\ windows[k] # NoWindow
    BY <1>1, <2>4, <2>5, <2>6, CommittedCovers
  <2>7. CASE windows[k] = NoWindow
    <3>1. /\ \A x \in DOMAIN rows : x[1] # k
          /\ \A q \in Records : k \notin DOMAIN q.charges
      BY <1>1, <2>4, <2>7 DEF Accounts, WindowsOK
    <3>2. {q \in ChargedTo(k) : IsLifetime(w) \/ FirstCounted(w, now) <= q.charges[k]} = {}
      BY <3>1 DEF ChargedTo
    <3>3. OwedIn(k, w, now) = 0
      BY <3>2, OwedNone DEF OwedIn
    <3>4. Committed(k, w, now) = 0
      <4>1. CASE IsLifetime(w)
        <5>1. Committed(k, w, now) = totals[k]
          BY <4>1 DEF Committed
        <5>2. totals[k] = CountedFrom(rows, k, 0)
          BY <1>1, <2>4 DEF Accounts, TotalsOK
        <5> QED BY <3>1, <5>1, <5>2, UnusedIsEmpty
      <4>2. CASE ~IsLifetime(w)
        <5>1. FirstCounted(w, now) \in Int
          BY <2>4, WindowMovesOn
        <5>2. Committed(k, w, now) = CountedFrom(rows, k, FirstCounted(w, now))
          BY <1>1, <2>4, <4>2, <5>1, CommittedIs
        <5> QED BY <3>1, <5>2, UnusedIsEmpty
      <4> QED BY <4>1, <4>2
    <3> QED BY <2>5, <3>3, <3>4
  <2> QED BY <2>1, <2>6, <2>7
<1>2. ShapeOK /\ Accounts /\ [StoreNext]_vars =>
        [\A r \in Requests, in \in Inputs :
           Reserve(r, in) /\ requests'[r].state = "reserved" =>
             \A k \in DOMAIN in.scopes :
               LET s == in.scopes[k] IN
               s.limit # NoLimit => OwedIn(k, s.window, now) + in.est <= s.limit]_vars
  BY <1>1
<1> QED BY <1>2, StoreShape, StoreAccounts, PTL DEF StoreSpec, AdmitsWithinLimits

-----------------------------------------------------------------------------
\* A closed request's bill stands: neither its late caller, nor a sweep, nor the
\* reservations and closings of others change it.
THEOREM StoreClosed == StoreSpec => ClosedIsFinal
<1> DEFINE Final == \A r \in DOMAIN requests \cap DOMAIN requests' :
             requests[r].state # "reserved" => Amount(requests'[r]) = Amount(requests[r])
<1>1. ASSUME ShapeOK, NEW r, NEW a \in Nat, Settling(r, a) \/ Releasing(r) PROVE Final
  <2> DEFINE old == requests[r]
  <2>0. r \in DOMAIN requests /\ IsRecord(old)
    BY <1>1 DEF Settling, Releasing, Recorded, ShapeOK
  <2>1. old.state \in States /\ old.actual \in Nat /\ DOMAIN old = {"id", "gen", "in", "at", "actual", "state", "charges"}
    BY <2>0 DEF IsRecord
  <2>2. CASE Settling(r, a)
    <3>1. SettlePlan(old, a) = "apply" /\ \E new : Put(r, new)
      BY <2>2 DEF Settling
    <3>2. old.state = "reserved"
      BY <2>1, <3>1 DEF SettlePlan, States
    <3>3. \A q \in DOMAIN requests : q # r => requests'[q] = requests[q]
      BY <3>1 DEF Put
    <3> QED BY <3>2, <3>3
  <2>3. CASE Releasing(r)
    <3> DEFINE new == [old EXCEPT !.state = "released"]
    <3>1. ReleasePlan(old) = "apply" /\ Put(r, new)
      BY <2>3 DEF Releasing
    <3>2. new.state = "released"
      BY <2>1
    <3> HIDE DEF new
    <3>3. requests'[r] = new /\ \A q \in DOMAIN requests : q # r => requests'[q] = requests[q]
      BY <3>1 DEF Put
    <3>4. Amount(new) = 0
      BY <3>2 DEF Amount
    <3>5. old.state # "reserved" => Amount(old) = 0
      BY <2>1, <3>1 DEF ReleasePlan, Amount, States
    <3> QED BY <3>3, <3>4, <3>5
  <2> QED BY <1>1, <2>2, <2>3
<1>2. ASSUME requests' = requests PROVE Final
  BY <1>2
<1>3. ShapeOK /\ [StoreNext]_vars => [Final]_vars
  <2> SUFFICES ASSUME ShapeOK, StoreNext PROVE Final
    OBVIOUS
  <2> HIDE DEF Final
  <2>1. ASSUME NEW r \in Requests, NEW in \in Inputs, Reserve(r, in) PROVE Final
    <3>1. r \notin DOMAIN requests /\ \E new : Put(r, new)
      BY <2>1 DEF Reserve, Recorded
    <3> QED BY <3>1 DEF Put, Final
  <2>2. ASSUME NEW r \in Requests, NEW a \in Actuals, Settle(r, a) PROVE Final
    BY <1>1, <2>2, StoreAssumption DEF Settle
  <2>3. ASSUME NEW r \in Requests, Release(r) PROVE Final
    <3>1. 0 \in Nat
      OBVIOUS
    <3> QED BY <1>1, <2>3, <3>1 DEF Release
  <2>4. ASSUME NEW t \in PruneCutoffs, Prune(t) PROVE Final
    BY <2>4 DEF Prune, Final
  <2>5. ASSUME NEW how \in Resolutions, NEW a \in Actuals, SweepClose(how, a) PROVE Final
    <3>1. sweep.on
      BY <2>5 DEF SweepClose
    <3>2. PICK hold \in sweep.page :
            \/ UNCHANGED <<requests, history>>
            \/ Releasing(hold.id)
            \/ Settling(hold.id, IF how = "custom" THEN a ELSE hold.est)
      BY <2>5 DEF SweepClose
    <3>3. (IF how = "custom" THEN a ELSE hold.est) \in Nat
      BY <3>1, StoreAssumption DEF ShapeOK
    <3> QED BY <1>1, <1>2, <3>2, <3>3
  <2>6. ASSUME NEW t, SweepBegin(t) \/ Tick(t) \/ SweepRead PROVE Final
    BY <1>2, <2>6 DEF SweepBegin, Tick, SweepRead
  <2> QED BY <2>1, <2>2, <2>3, <2>4, <2>5, <2>6 DEF StoreNext
<1> QED BY <1>3, StoreShape, PTL DEF StoreSpec, ClosedIsFinal
=============================================================================
