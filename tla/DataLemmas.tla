----------------------------- MODULE DataLemmas -----------------------------
(***************************************************************************)
(* What the proofs need of the data the models compute with: sums over     *)
(* finite sets, sequences that are joined, quotients.                      *)
(*                                                                         *)
(* The sums of the community modules are folds over finite sets in an      *)
(* order nobody knows: a minimal set on which a law fails cannot exist.    *)
(***************************************************************************)
EXTENDS Integers, Sequences, SequencesExt, Functions, FiniteSets, FiniteSetTheorems, SequenceTheorems,
        WellFoundedInduction, TLAPS

LEMMA Least ==
  ASSUME NEW T, T \subseteq Nat, T # {}
  PROVE  \E x \in T : \A y \in T : x <= y
<1>1. \A x \in Nat, y \in Nat : y < x => <<y, x>> \in OpToRel(<, Nat)
  BY DEF OpToRel
<1>2. PICK x \in T : \A y \in T : ~ (<<y, x>> \in OpToRel(<, Nat))
  BY NatLessThanWellFounded, WFMin
<1>3. \A y \in T : ~ (y < x)
  BY <1>1, <1>2
<1> QED BY <1>3

\* Of the subsets of a finite set that fail something, one has no smaller that fails.
LEMMA LeastSet ==
  ASSUME NEW S, IsFiniteSet(S), NEW C, C \subseteq SUBSET S, C # {}
  PROVE  \E s \in C : IsFiniteSet(s) /\ \A x \in s : s \ {x} \notin C
<1> DEFINE sizes == {Cardinality(u) : u \in C}
<1>1. \A u \in C : IsFiniteSet(u) /\ Cardinality(u) \in Nat
  BY FS_Subset, FS_CardinalityType
<1>2. sizes \subseteq Nat /\ sizes # {}
  BY <1>1
<1>3. \A u \in C : Cardinality(u) \in sizes
  OBVIOUS
<1>4. \A n \in sizes : \E u \in C : n = Cardinality(u)
  OBVIOUS
<1> HIDE DEF sizes
<1>5. PICK n \in sizes : \A k \in sizes : n <= k
  BY <1>2, Least
<1>6. PICK s \in C : n = Cardinality(s)
  BY <1>4
<1>7. ASSUME NEW x \in s, s \ {x} \in C PROVE FALSE
  <2>1. Cardinality(s \ {x}) = n - 1 /\ n \in Nat
    BY <1>1, <1>6, <1>7, FS_RemoveElement
  <2>2. n <= n - 1
    BY <1>3, <1>5, <1>7, <2>1
  <2> QED BY <2>1, <2>2
<1> QED BY <1>1, <1>6, <1>7

Some(s) == CHOOSE x \in s : TRUE
Small(S, n) == {s \in SUBSET S : Cardinality(s) <= n}

\* A sum over each set of U, one element after another.
Adds(it, f, U) == it = [s \in U |-> IF s = {} THEN 0 ELSE f[Some(s)] + it[s \ {Some(s)}]]

\* Sums over sets of up to n elements from those of one element less.
LEMMA SmallerExists ==
  ASSUME NEW S, IsFiniteSet(S), NEW f, NEW n \in Nat \ {0}, NEW it, Adds(it, f, Small(S, n - 1))
  PROVE  \E to : Adds(to, f, Small(S, n))
<1> DEFINE to == [s \in Small(S, n) |-> IF s = {} THEN 0 ELSE f[Some(s)] + it[s \ {Some(s)}]]
<1>1. \A s \in SUBSET S : IsFiniteSet(s) /\ Cardinality(s) \in Nat
  BY FS_Subset, FS_CardinalityType
<1>2. ASSUME NEW s \in Small(S, n), s # {}
      PROVE  s \ {Some(s)} \in Small(S, n - 1) /\ s \ {Some(s)} \in Small(S, n)
  <2>1. Some(s) \in s /\ s \in SUBSET S /\ Cardinality(s) <= n
    BY <1>2 DEF Some, Small
  <2>2. Cardinality(s \ {Some(s)}) = Cardinality(s) - 1 /\ Cardinality(s) \in Nat
    BY <1>1, <2>1, FS_RemoveElement
  <2> QED BY <2>1, <2>2 DEF Small
<1>3. ASSUME NEW u \in Small(S, n - 1), u \in Small(S, n) PROVE it[u] = to[u]
  BY <1>3 DEF Adds
<1>4. ASSUME NEW s \in Small(S, n)
      PROVE  to[s] = IF s = {} THEN 0 ELSE f[Some(s)] + to[s \ {Some(s)}]
  <2>1. CASE s = {}
    BY <2>1
  <2>2. CASE s # {}
    <3>1. to[s] = f[Some(s)] + it[s \ {Some(s)}]
      BY <2>2
    <3> QED BY <1>2, <1>3, <2>2, <3>1
  <2> QED BY <2>1, <2>2
<1>5. to = [s \in Small(S, n) |-> IF s = {} THEN 0 ELSE f[Some(s)] + to[s \ {Some(s)}]]
  BY <1>4
<1> QED BY <1>5 DEF Adds

\* So the recursion that folds a function has a solution on a finite set.
LEMMA AddsExist ==
  ASSUME NEW S, IsFiniteSet(S), NEW f
  PROVE  \E it : Adds(it, f, SUBSET S)
<1> DEFINE Bad == {n \in Nat : ~ \E it : Adds(it, f, Small(S, n))}
<1>1. \E it : Adds(it, f, Small(S, 0))
  <2>1. \A s \in Small(S, 0) : s = {}
    BY FS_Subset, FS_CardinalityType, FS_EmptySet DEF Small
  <2>2. Adds([s \in Small(S, 0) |-> 0], f, Small(S, 0))
    BY <2>1 DEF Adds
  <2> QED BY <2>2
<1>2. Bad = {}
  <2> SUFFICES ASSUME Bad # {} PROVE FALSE
    OBVIOUS
  <2>1. Bad \subseteq Nat
    OBVIOUS
  <2>2. PICK n \in Bad : \A k \in Bad : n <= k
    BY <2>1, Least
  <2>3. n \in Nat \ {0}
    BY <1>1
  <2>4. n - 1 \in Nat /\ n - 1 \notin Bad
    BY <2>2, <2>3
  <2>5. PICK it : Adds(it, f, Small(S, n - 1))
    BY <2>4
  <2> QED BY <2>3, <2>5, SmallerExists
<1>3. Small(S, Cardinality(S)) = SUBSET S
  BY FS_Subset DEF Small
<1>4. PICK c \in Nat : c = Cardinality(S)
  BY FS_CardinalityType
<1>5. \E it : Adds(it, f, Small(S, c))
  BY <1>2
<1> QED BY <1>3, <1>4, <1>5

\* A sum of the library is that solution, at the whole set.
LEMMA SumIsAdded ==
  ASSUME NEW S, IsFiniteSet(S), NEW f
  PROVE  \E it : Adds(it, f, SUBSET S) /\ SumFunctionOnSet(f, S) = it[S]
<1> DEFINE it == CHOOSE it : Adds(it, f, SUBSET S)
<1>1. Adds(it, f, SUBSET S)
  BY AddsExist
<1>2. SumFunctionOnSet(f, S) = it[S]
  BY DEF SumFunctionOnSet, FoldFunctionOnSet, MapThenFoldSet, Adds, Some
<1> QED BY <1>1, <1>2

\* Solutions on a set and on a larger one agree.
LEMMA AddsAgree ==
  ASSUME NEW T, NEW S \in SUBSET T, IsFiniteSet(S), NEW f,
         NEW it, Adds(it, f, SUBSET S), NEW to, Adds(to, f, SUBSET T)
  PROVE  it[S] = to[S]
<1> DEFINE C == {s \in SUBSET S : it[s] # to[s]}
<1> SUFFICES ASSUME C # {} PROVE FALSE
  OBVIOUS
<1>1. PICK s \in C : \A x \in s : s \ {x} \notin C
  BY LeastSet
<1>2. s \in SUBSET S /\ s \in SUBSET T /\ it[s] # to[s]
  OBVIOUS
<1>3. s # {}
  BY <1>2 DEF Adds
<1>4. Some(s) \in s
  BY <1>3 DEF Some
<1>5. it[s \ {Some(s)}] = to[s \ {Some(s)}]
  BY <1>1, <1>2, <1>4
<1>6. it[s] = f[Some(s)] + it[s \ {Some(s)}] /\ to[s] = f[Some(s)] + to[s \ {Some(s)}]
  BY <1>2, <1>3 DEF Adds
<1> QED BY <1>2, <1>4, <1>5, <1>6

\* Any element can be the one that is added last.
LEMMA AnyOrder ==
  ASSUME NEW S, IsFiniteSet(S), NEW f, \A x \in S : f[x] \in Nat, NEW it, Adds(it, f, SUBSET S)
  PROVE  \A s \in SUBSET S : it[s] \in Nat /\ \A x \in s : it[s] = f[x] + it[s \ {x}]
<1> DEFINE C == {s \in SUBSET S : it[s] \notin Nat}
           D == {s \in SUBSET S : \E x \in s : it[s] # f[x] + it[s \ {x}]}
<1>1. \A s \in SUBSET S : s # {} => Some(s) \in s /\ it[s] = f[Some(s)] + it[s \ {Some(s)}]
  BY DEF Adds, Some
<1>2. it[{}] = 0
  BY DEF Adds
<1>3. C = {}
  <2> SUFFICES ASSUME C # {} PROVE FALSE
    OBVIOUS
  <2>1. PICK s \in C : \A x \in s : s \ {x} \notin C
    BY LeastSet
  <2>2. s \in SUBSET S /\ it[s] \notin Nat /\ s # {}
    <3>1. s \in SUBSET S /\ it[s] \notin Nat
      OBVIOUS
    <3>2. it[{}] \in Nat
      BY <1>2
    <3> HIDE DEF C
    <3> QED BY <3>1, <3>2, Zenon
  <2>3. it[s \ {Some(s)}] \in Nat /\ f[Some(s)] \in Nat
    BY <1>1, <2>1, <2>2
  <2> QED BY <1>1, <2>2, <2>3
<1>4. \A s \in SUBSET S : it[s] \in Nat
  BY <1>3
<1>5. D = {}
  <2> SUFFICES ASSUME D # {} PROVE FALSE
    OBVIOUS
  <2>1. PICK s \in D : \A x \in s : s \ {x} \notin D
    BY LeastSet
  <2>2. PICK x \in s : it[s] # f[x] + it[s \ {x}]
    OBVIOUS
  <2>3. PICK c \in s : c = Some(s) /\ it[s] = f[c] + it[s \ {c}] /\ c # x
    BY <1>1, <2>2
  <2>4. s \ {c} \in SUBSET S /\ s \ {c} \notin D /\ s \ {x} \in SUBSET S /\ s \ {x} \notin D
    BY <2>1
  <2>5. it[s \ {c}] = f[x] + it[(s \ {c}) \ {x}] /\ it[s \ {x}] = f[c] + it[(s \ {x}) \ {c}]
    BY <2>3, <2>4
  <2>6. PICK u \in SUBSET S : u = (s \ {c}) \ {x} /\ u = (s \ {x}) \ {c}
    OBVIOUS
  <2>7. f[x] \in Nat /\ f[c] \in Nat /\ it[u] \in Nat
    BY <1>4
  <2>8. it[s] = f[c] + (f[x] + it[u]) /\ it[s \ {x}] = f[c] + it[u]
    BY <2>3, <2>5, <2>6
  <2> HIDE DEF C, D
  <2> QED BY <2>2, <2>7, <2>8
<1> QED BY <1>4, <1>5

(***************************************************************************)
(* What a sum is: nothing for nothing, and otherwise any element and the   *)
(* sum of the others.                                                      *)
(***************************************************************************)
LEMMA SumNone ==
  ASSUME NEW f
  PROVE  SumFunctionOnSet(f, {}) = 0
<1>1. IsFiniteSet({}) /\ {} \in SUBSET {}
  BY FS_EmptySet
<1>2. PICK it : Adds(it, f, SUBSET {}) /\ SumFunctionOnSet(f, {}) = it[{}]
  BY <1>1, SumIsAdded
<1>3. it[{}] = 0
  BY <1>1, <1>2 DEF Adds
<1> QED BY <1>2, <1>3

LEMMA SumTakes ==
  ASSUME NEW S, IsFiniteSet(S), NEW f, \A x \in S : f[x] \in Nat
  PROVE  /\ SumFunctionOnSet(f, S) \in Nat
         /\ \A x \in S : SumFunctionOnSet(f, S) = f[x] + SumFunctionOnSet(f, S \ {x})
<1>1. PICK it : Adds(it, f, SUBSET S) /\ SumFunctionOnSet(f, S) = it[S]
  BY SumIsAdded
<1>2. it[S] \in Nat /\ \A x \in S : it[S] = f[x] + it[S \ {x}]
  BY <1>1, AnyOrder
<1>3. ASSUME NEW x \in S PROVE SumFunctionOnSet(f, S \ {x}) = it[S \ {x}]
  <2>1. PICK T : T = S \ {x}
    OBVIOUS
  <2>2. IsFiniteSet(T) /\ T \subseteq S
    BY <2>1, FS_RemoveElement
  <2>3. PICK to : Adds(to, f, SUBSET T) /\ SumFunctionOnSet(f, T) = to[T]
    BY <2>2, SumIsAdded
  <2>4. to[T] = it[T]
    <3>1. Adds(it, f, SUBSET S) /\ Adds(to, f, SUBSET T) /\ T \in SUBSET S
      BY <1>1, <2>2, <2>3
    <3> QED BY <2>2, <3>1, AddsAgree
  <2> QED BY <2>1, <2>3, <2>4
<1> QED BY <1>1, <1>2, <1>3

(***************************************************************************)
(* Sums are added element by element.                                      *)
(***************************************************************************)
LEMMA SumPlus ==
  ASSUME NEW S, IsFiniteSet(S), NEW f, NEW g, NEW h,
         \A x \in S : f[x] \in Nat /\ g[x] \in Nat /\ h[x] = f[x] + g[x]
  PROVE  SumFunctionOnSet(h, S) = SumFunctionOnSet(f, S) + SumFunctionOnSet(g, S)
<1> DEFINE C == {s \in SUBSET S :
                   SumFunctionOnSet(h, s) # SumFunctionOnSet(f, s) + SumFunctionOnSet(g, s)}
<1> SUFFICES ASSUME C # {} PROVE FALSE
  OBVIOUS
<1>1. PICK s \in C : IsFiniteSet(s) /\ \A x \in s : s \ {x} \notin C
  BY LeastSet
<1>2. s \in SUBSET S /\ SumFunctionOnSet(h, s) # SumFunctionOnSet(f, s) + SumFunctionOnSet(g, s)
  OBVIOUS
<1>3. \A u \in SUBSET S : u \notin C =>
        SumFunctionOnSet(h, u) = SumFunctionOnSet(f, u) + SumFunctionOnSet(g, u)
  OBVIOUS
<1> HIDE DEF C
<1>4. PICK x \in s : TRUE
  BY <1>2, SumNone
<1>5. PICK u \in SUBSET S : u = s \ {x} /\ u \notin C /\ IsFiniteSet(u)
  BY <1>1, <1>2, FS_RemoveElement
<1>6. /\ SumFunctionOnSet(h, s) = h[x] + SumFunctionOnSet(h, u)
      /\ SumFunctionOnSet(f, s) = f[x] + SumFunctionOnSet(f, u)
      /\ SumFunctionOnSet(g, s) = g[x] + SumFunctionOnSet(g, u)
      /\ SumFunctionOnSet(f, u) \in Nat /\ SumFunctionOnSet(g, u) \in Nat
  <2>1. \A y \in s : f[y] \in Nat /\ g[y] \in Nat /\ h[y] \in Nat
    BY <1>2
  <2>2. \A y \in u : f[y] \in Nat /\ g[y] \in Nat
    BY <1>5
  <2>3. SumFunctionOnSet(f, u) \in Nat /\ SumFunctionOnSet(g, u) \in Nat
    BY <1>5, <2>2, SumTakes
  <2> QED BY <1>1, <1>5, <2>1, <2>3, SumTakes
<1>7. h[x] = f[x] + g[x] /\ f[x] \in Nat /\ g[x] \in Nat
  BY <1>2
<1> QED BY <1>2, <1>3, <1>5, <1>6, <1>7

\* Zeros add up to zero.
LEMMA SumZero ==
  ASSUME NEW S, IsFiniteSet(S), NEW f, \A x \in S : f[x] = 0
  PROVE  SumFunctionOnSet(f, S) = 0
<1>1. SumFunctionOnSet(f, S) = SumFunctionOnSet(f, S) + SumFunctionOnSet(f, S)
  BY SumPlus
<1>2. PICK n \in Nat : n = SumFunctionOnSet(f, S)
  BY SumTakes
<1>3. \A k \in Nat : k = k + k => k = 0
  OBVIOUS
<1>4. n = n + n
  BY <1>1, <1>2
<1>5. n = 0
  BY <1>3, <1>4, Zenon
<1> QED BY <1>2, <1>5

\* Equal functions have equal sums,
LEMMA SumSame ==
  ASSUME NEW S, IsFiniteSet(S), NEW f, NEW g, \A x \in S : f[x] \in Nat /\ f[x] = g[x]
  PROVE  SumFunctionOnSet(f, S) = SumFunctionOnSet(g, S)
<1> DEFINE zero == [x \in S |-> 0]
<1>1. \A x \in S : f[x] \in Nat /\ zero[x] \in Nat /\ zero[x] = 0 /\ g[x] = f[x] + zero[x]
  OBVIOUS
<1> HIDE DEF zero
<1>2. SumFunctionOnSet(g, S) = SumFunctionOnSet(f, S) + SumFunctionOnSet(zero, S)
  BY <1>1, SumPlus
<1>3. SumFunctionOnSet(zero, S) = 0 /\ SumFunctionOnSet(f, S) \in Nat
  BY <1>1, SumZero, SumTakes
<1> QED BY <1>2, <1>3

\* and smaller ones smaller sums.
LEMMA SumMost ==
  ASSUME NEW S, IsFiniteSet(S), NEW f, NEW g, \A x \in S : f[x] \in Nat /\ g[x] \in Nat /\ f[x] <= g[x]
  PROVE  SumFunctionOnSet(f, S) <= SumFunctionOnSet(g, S)
<1> DEFINE more == [x \in S |-> g[x] - f[x]]
<1>1. \A x \in S : f[x] \in Nat /\ more[x] \in Nat /\ g[x] = f[x] + more[x]
  OBVIOUS
<1> HIDE DEF more
<1>2. SumFunctionOnSet(g, S) = SumFunctionOnSet(f, S) + SumFunctionOnSet(more, S)
  BY <1>1, SumPlus
<1>3. SumFunctionOnSet(more, S) \in Nat /\ SumFunctionOnSet(f, S) \in Nat
  BY <1>1, SumTakes
<1> QED BY <1>2, <1>3

(***************************************************************************)
(* A sum changes by what one element changes.                              *)
(***************************************************************************)
LEMMA SumChanges ==
  ASSUME NEW S, IsFiniteSet(S), NEW c \in S, NEW f, NEW g,
         \A x \in S : f[x] \in Nat /\ g[x] \in Nat /\ (x # c => f[x] = g[x])
  PROVE  SumFunctionOnSet(g, S) + f[c] = SumFunctionOnSet(f, S) + g[c]
<1> DEFINE T == S \ {c}
<1>1. T = S \ {c} /\ IsFiniteSet(T) /\ \A x \in T : f[x] \in Nat /\ f[x] = g[x]
  BY FS_RemoveElement
<1> HIDE DEF T
<1>2. SumFunctionOnSet(f, T) = SumFunctionOnSet(g, T) /\ SumFunctionOnSet(f, T) \in Nat
  BY <1>1, SumSame, SumTakes
<1>3. /\ SumFunctionOnSet(f, S) = f[c] + SumFunctionOnSet(f, T)
      /\ SumFunctionOnSet(g, S) = g[c] + SumFunctionOnSet(g, T)
  BY <1>1, SumTakes
<1> QED BY <1>2, <1>3

(***************************************************************************)
(* A sum over fewer elements is the sum with nothing for the others.       *)
(***************************************************************************)
LEMMA SumWithin ==
  ASSUME NEW S, IsFiniteSet(S), NEW f, \A x \in S : f[x] \in Nat, NEW T, T \subseteq S
  PROVE  /\ SumFunctionOnSet(f, T) <= SumFunctionOnSet(f, S)
         /\ (\A x \in S \ T : f[x] = 0) => SumFunctionOnSet(f, T) = SumFunctionOnSet(f, S)
<1> DEFINE masked == [x \in S |-> IF x \in T THEN f[x] ELSE 0]
           C == {s \in SUBSET S : SumFunctionOnSet(f, s \cap T) # SumFunctionOnSet(masked, s)}
<1>1. \A x \in S : /\ masked[x] \in Nat /\ f[x] \in Nat /\ masked[x] <= f[x]
                   /\ x \in T => masked[x] = f[x]
                   /\ x \notin T => masked[x] = 0
  OBVIOUS
<1> HIDE DEF masked
<1>2. C = {}
  <2> SUFFICES ASSUME C # {} PROVE FALSE
    OBVIOUS
  <2>1. PICK s \in C : IsFiniteSet(s) /\ \A x \in s : s \ {x} \notin C
    BY LeastSet
  <2>2. s \in SUBSET S /\ SumFunctionOnSet(f, s \cap T) # SumFunctionOnSet(masked, s)
    OBVIOUS
  <2>3. \A u \in SUBSET S : u \notin C => SumFunctionOnSet(f, u \cap T) = SumFunctionOnSet(masked, u)
    OBVIOUS
  <2> HIDE DEF C
  <2>4. PICK x \in s : TRUE
    <3>1. {} \cap T = {}
      OBVIOUS
    <3> QED BY <2>2, <3>1, SumNone
  <2>5. PICK u \in SUBSET S : u = s \ {x} /\ u \notin C /\ IsFiniteSet(u)
    BY <2>1, <2>2, FS_RemoveElement
  <2>6. /\ SumFunctionOnSet(masked, s) = masked[x] + SumFunctionOnSet(masked, u)
        /\ SumFunctionOnSet(masked, u) \in Nat
    <3>1. (\A y \in s : masked[y] \in Nat) /\ \A y \in u : masked[y] \in Nat
      BY <1>1, <2>2, <2>5
    <3> QED BY <2>1, <2>5, <3>1, SumTakes
  <2>7. CASE x \in T
    <3>1. PICK v : v = s \cap T /\ IsFiniteSet(v) /\ x \in v /\ v \ {x} = u \cap T
                   /\ \A y \in v : f[y] \in Nat
      BY <1>1, <2>1, <2>2, <2>5, <2>7, FS_Subset
    <3>2. SumFunctionOnSet(f, v) = f[x] + SumFunctionOnSet(f, u \cap T)
      BY <3>1, SumTakes
    <3>3. SumFunctionOnSet(f, u \cap T) = SumFunctionOnSet(masked, u) /\ masked[x] = f[x]
      BY <1>1, <2>2, <2>3, <2>5, <2>7
    <3> QED BY <2>2, <2>6, <3>1, <3>2, <3>3
  <2>8. CASE x \notin T
    <3>1. s \cap T = u \cap T
      BY <2>5, <2>8
    <3>2. SumFunctionOnSet(f, u \cap T) = SumFunctionOnSet(masked, u) /\ masked[x] = 0
      BY <1>1, <2>2, <2>3, <2>5, <2>8
    <3>3. SumFunctionOnSet(masked, s) = SumFunctionOnSet(masked, u)
      BY <2>6, <3>2
    <3> QED BY <2>2, <3>1, <3>2, <3>3
  <2> QED BY <2>7, <2>8
<1>3. SumFunctionOnSet(f, T) = SumFunctionOnSet(masked, S)
  <2>1. S \cap T = T
    OBVIOUS
  <2>2. SumFunctionOnSet(f, S \cap T) = SumFunctionOnSet(masked, S)
    BY <1>2
  <2> QED BY <2>1, <2>2
<1>4. SumFunctionOnSet(masked, S) <= SumFunctionOnSet(f, S)
  BY <1>1, SumMost
<1>5. ASSUME \A x \in S \ T : f[x] = 0 PROVE SumFunctionOnSet(masked, S) = SumFunctionOnSet(f, S)
  <2>1. \A x \in S : masked[x] \in Nat /\ masked[x] = f[x]
    BY <1>1, <1>5
  <2> QED BY <2>1, SumSame
<1> QED BY <1>3, <1>4, <1>5

(***************************************************************************)
(* Sums that are counted only up to a limit, and counts of disjoint sets.  *)
(***************************************************************************)
UpToLimit(n, limit) == IF n < limit THEN n ELSE limit

LEMMA SumLimited ==
  ASSUME NEW S, IsFiniteSet(S), NEW f, NEW g, NEW limit \in Nat,
         \A x \in S : f[x] \in Nat /\ g[x] = UpToLimit(f[x], limit)
  PROVE  UpToLimit(SumFunctionOnSet(g, S), limit) = UpToLimit(SumFunctionOnSet(f, S), limit)
<1>1. \A x \in S : f[x] \in Nat /\ g[x] \in Nat
  BY DEF UpToLimit
<1>2. CASE \A x \in S : f[x] < limit
  <2>1. \A x \in S : f[x] \in Nat /\ f[x] = g[x]
    BY <1>2 DEF UpToLimit
  <2>2. SumFunctionOnSet(f, S) = SumFunctionOnSet(g, S)
    BY <2>1, SumSame
  <2> QED BY <2>2
<1>3. CASE \E x \in S : ~ (f[x] < limit)
  <2>1. PICK x \in S : f[x] >= limit /\ g[x] = limit
    BY <1>3 DEF UpToLimit
  <2>2. IsFiniteSet(S \ {x}) /\ (\A y \in S \ {x} : f[y] \in Nat) /\ (\A y \in S \ {x} : g[y] \in Nat)
    BY <1>1, FS_RemoveElement
  <2>3. SumFunctionOnSet(f, S \ {x}) \in Nat /\ SumFunctionOnSet(g, S \ {x}) \in Nat
    BY <2>2, SumTakes
  <2>4. /\ SumFunctionOnSet(f, S) = f[x] + SumFunctionOnSet(f, S \ {x})
        /\ SumFunctionOnSet(g, S) = g[x] + SumFunctionOnSet(g, S \ {x})
    BY <1>1, SumTakes
  <2> QED BY <1>1, <2>1, <2>3, <2>4 DEF UpToLimit
<1> QED BY <1>2, <1>3

\* A union of disjoint sets has as many elements as they have together.
LEMMA UnionSum ==
  ASSUME NEW S, IsFiniteSet(S), NEW F, \A x \in S : IsFiniteSet(F[x]),
         \A x, y \in S : x # y => F[x] \cap F[y] = {},
         NEW count, \A x \in S : count[x] = Cardinality(F[x])
  PROVE  /\ IsFiniteSet(UNION {F[x] : x \in S})
         /\ Cardinality(UNION {F[x] : x \in S}) = SumFunctionOnSet(count, S)
<1> DEFINE All(s) == UNION {F[x] : x \in s}
           C == {s \in SUBSET S : ~ (IsFiniteSet(All(s)) /\ Cardinality(All(s)) = SumFunctionOnSet(count, s))}
<1> SUFFICES ASSUME C # {} PROVE FALSE
  OBVIOUS
<1>1. PICK s \in C : IsFiniteSet(s) /\ \A x \in s : s \ {x} \notin C
  BY LeastSet
<1>2. s \in SUBSET S /\ ~ (IsFiniteSet(All(s)) /\ Cardinality(All(s)) = SumFunctionOnSet(count, s))
  OBVIOUS
<1>3. \A u \in SUBSET S : u \notin C => IsFiniteSet(All(u)) /\ Cardinality(All(u)) = SumFunctionOnSet(count, u)
  OBVIOUS
<1>4. All({}) = {}
  OBVIOUS
<1> HIDE DEF C
<1>5. s # {}
  BY <1>2, <1>4, FS_EmptySet, SumNone
<1>6. PICK x \in s : TRUE
  BY <1>5
<1>7. PICK u \in SUBSET S : u = s \ {x} /\ u \notin C /\ IsFiniteSet(u)
  BY <1>1, <1>2, FS_RemoveElement
<1>8. All(s) = All(u) \cup F[x] /\ All(u) \cap F[x] = {}
  BY <1>2, <1>6, <1>7
<1>9. IsFiniteSet(All(u)) /\ IsFiniteSet(F[x]) /\ Cardinality(All(u)) = SumFunctionOnSet(count, u)
  BY <1>2, <1>3, <1>7
<1>10. \A y \in S : count[y] \in Nat
  BY FS_CardinalityType
<1>11. SumFunctionOnSet(count, s) = count[x] + SumFunctionOnSet(count, u) /\ SumFunctionOnSet(count, u) \in Nat
  <2>1. (\A y \in s : count[y] \in Nat) /\ \A y \in u : count[y] \in Nat
    BY <1>2, <1>7, <1>10
  <2> QED BY <1>1, <1>7, <2>1, SumTakes
<1> HIDE DEF All
<1>12. IsFiniteSet(All(s)) /\ Cardinality(All(s)) = Cardinality(All(u)) + Cardinality(F[x]) - Cardinality({})
  BY <1>8, <1>9, FS_Union
<1>13. Cardinality({}) = 0 /\ count[x] = Cardinality(F[x]) /\ count[x] \in Nat
  BY <1>2, <1>10, FS_EmptySet
<1> QED BY <1>2, <1>9, <1>11, <1>12, <1>13

\* A set of numbers with a bound has a greatest.
LEMMA Greatest ==
  ASSUME NEW n \in Nat, NEW T, T \subseteq 0..n, T # {}
  PROVE  \E x \in T : \A y \in T : y <= x
<1> DEFINE U == {n - x : x \in T}
<1>1. U \subseteq Nat /\ U # {}
  <2>1. \A x \in T : n - x \in Nat
    OBVIOUS
  <2>2. PICK x \in T : n - x \in U
    OBVIOUS
  <2> QED BY <2>1, <2>2
<1>2. PICK u \in U : \A v \in U : u <= v
  BY <1>1, Least
<1>3. PICK x \in T : u = n - x
  OBVIOUS
<1>4. \A y \in T : n - y \in U
  OBVIOUS
<1> HIDE DEF U
<1>5. \A y \in T : u <= n - y
  BY <1>2, <1>4
<1> QED BY <1>3, <1>5

(***************************************************************************)
(* What FlattenSeq joins.                                                  *)
(***************************************************************************)
Joins(F, p, n) == F = [i \in 1..n |-> IF i = 1 THEN p[i] ELSE F[i - 1] \o p[i]]

LEMMA JoinsExist ==
  ASSUME NEW p, NEW n \in Nat
  PROVE  \E F : Joins(F, p, n)
<1> DEFINE Bad == {m \in Nat : ~ \E F : Joins(F, p, m)}
<1> SUFFICES ASSUME Bad # {} PROVE FALSE
  OBVIOUS
<1>1. Bad \subseteq Nat
  OBVIOUS
<1>2. PICK m \in Bad : \A k \in Bad : m <= k
  BY <1>1, Least
<1>3. Joins([i \in 1..0 |-> 0], p, 0)
  BY DEF Joins
<1>4. m \in Nat \ {0} /\ ~ \E F : Joins(F, p, m)
  BY <1>3
<1>5. m - 1 \in Nat /\ m - 1 \notin Bad
  BY <1>2, <1>4
<1>6. PICK F : Joins(F, p, m - 1)
  BY <1>5
<1> DEFINE G == [i \in 1..m |-> IF i = 1 THEN p[i] ELSE F[i - 1] \o p[i]]
<1>7. \A i \in 1..(m - 1) : F[i] = G[i]
  <2>1. \A i \in 1..(m - 1) : F[i] = IF i = 1 THEN p[i] ELSE F[i - 1] \o p[i]
    BY <1>6 DEF Joins
  <2> QED BY <1>4, <2>1
<1>8. \A i \in 1..m : G[i] = IF i = 1 THEN p[i] ELSE G[i - 1] \o p[i]
  <2> TAKE i \in 1..m
  <2>1. CASE i = 1
    BY <2>1
  <2>2. CASE i # 1
    <3>1. i - 1 \in 1..(m - 1)
      BY <1>4, <2>2
    <3>2. F[i - 1] = G[i - 1]
      BY <1>7, <3>1
    <3> QED BY <2>2, <3>2
  <2> QED BY <2>1, <2>2
<1>9. Joins(G, p, m)
  BY <1>8 DEF Joins
<1> QED BY <1>4, <1>9

LEMMA FlattenJoins ==
  ASSUME NEW n \in Nat \ {0}, NEW S, NEW p \in [1..n -> S]
  PROVE  \E F : Joins(F, p, n) /\ FlattenSeq(p) = F[n]
<1> DEFINE F == CHOOSE F : Joins(F, p, n)
<1>1. Joins(F, p, n)
  BY JoinsExist
<1>2. Len(p) = n
  OBVIOUS
<1>3. FlattenSeq(p) = F[n]
  BY <1>2 DEF FlattenSeq, Joins
<1> QED BY <1>1, <1>3

\* What is joined of a sequence does not depend on what comes after.
Agree(F, G, n) == \A i \in 1..n : F[i] = G[i]

LEMMA JoinsAgree ==
  ASSUME NEW n \in Nat, NEW m \in Nat, n <= m, NEW p, NEW q, Agree(p, q, n),
         NEW F, Joins(F, p, n), NEW G, Joins(G, q, m)
  PROVE  Agree(F, G, n)
<1> USE DEF Agree
<1> DEFINE Off == {i \in 1..n : F[i] # G[i]}
<1> SUFFICES ASSUME Off # {} PROVE FALSE
  OBVIOUS
<1>0. Off \subseteq Nat
  OBVIOUS
<1>1. PICK i \in Off : \A k \in Off : i <= k
  BY <1>0, Least
<1>6. \A k \in 1..n : F[k] = IF k = 1 THEN p[k] ELSE F[k - 1] \o p[k]
  BY DEF Joins
<1>7. \A k \in 1..m : G[k] = IF k = 1 THEN q[k] ELSE G[k - 1] \o q[k]
  BY DEF Joins
<1>8. \A k \in 1..n : k \in 1..m
  OBVIOUS
<1>2. /\ \A k \in 1..n : F[k] = IF k = 1 THEN p[k] ELSE F[k - 1] \o p[k]
      /\ \A k \in 1..n : G[k] = IF k = 1 THEN q[k] ELSE G[k - 1] \o q[k]
  BY <1>6, <1>7, <1>8
<1>3. i \in 1..n /\ F[i] # G[i]
  OBVIOUS
<1>4. i # 1 /\ i - 1 \in 1..n /\ i - 1 \notin Off
  BY <1>1, <1>2, <1>3
<1>5. F[i - 1] = G[i - 1]
  BY <1>4
<1> QED BY <1>2, <1>3, <1>4, <1>5

LEMMA JoinsOne ==
  ASSUME NEW S, NEW n \in Nat, NEW q \in [1..(n + 1) -> Seq(S)]
  PROVE  FlattenSeq(q) = FlattenSeq([i \in 1..n |-> q[i]]) \o q[n + 1]
<1> DEFINE p == [i \in 1..n |-> q[i]]
<1>1. n + 1 \in 1..(n + 1) /\ n + 1 \in Nat \ {0} /\ q[n + 1] \in Seq(S)
  OBVIOUS
<1>2. PICK G : Joins(G, q, n + 1) /\ FlattenSeq(q) = G[n + 1]
  BY <1>1, FlattenJoins
<1>3. G[n + 1] = IF n + 1 = 1 THEN q[n + 1] ELSE G[(n + 1) - 1] \o q[n + 1]
  BY <1>1, <1>2 DEF Joins
<1>4. CASE n = 0
  <2>1. p = <<>> /\ Len(p) = 0
    BY <1>4
  <2>2. FlattenSeq(p) = <<>>
    BY <2>1 DEF FlattenSeq
  <2>3. G[n + 1] = q[n + 1]
    BY <1>3, <1>4
  <2> QED BY <1>1, <1>2, <2>2, <2>3, ConcatEmptySeq
<1>5. CASE n # 0
  <2>1. p \in [1..n -> Seq(S)] /\ \A i \in 1..n : p[i] = q[i]
    OBVIOUS
  <2> HIDE DEF p
  <2>2. PICK F : Joins(F, p, n) /\ FlattenSeq(p) = F[n]
    BY <1>5, <2>1, FlattenJoins
  <2>3. n <= n + 1 /\ n \in 1..n /\ (n + 1) - 1 = n /\ n + 1 # 1
    BY <1>5
  <2>5. \A i \in 1..n : F[i] = G[i]
    <3> HIDE DEF p
    <3>1. PICK m \in Nat : m = n + 1
      OBVIOUS
    <3>2. Joins(F, p, n) /\ Joins(G, q, m) /\ n <= m
      BY <1>2, <2>2, <2>3, <3>1
    <3>3. Agree(p, q, n)
      BY <2>1 DEF Agree
    <3>4. Agree(F, G, n)
      BY <3>2, <3>3, JoinsAgree
    <3> QED BY <3>4 DEF Agree
  <2>4. F[n] = G[n]
    BY <2>3, <2>5
  <2> QED BY <1>2, <1>3, <2>2, <2>3, <2>4 DEF p
<1> QED BY <1>4, <1>5

(***************************************************************************)
(* Where the joined pieces end.                                            *)
(***************************************************************************)
End(F, i) == IF i = 0 THEN 0 ELSE Len(F[i])

Pieces(S) == Seq(S) \ {<<>>}

LEMMA PieceIs ==
  ASSUME NEW S, NEW p \in Pieces(S)
  PROVE  p \in Seq(S) /\ Len(p) \in Nat \ {0}
BY EmptySeq DEF Pieces

LEMMA EndsRise ==
  ASSUME NEW S, NEW n \in Nat \ {0}, NEW p \in [1..n -> Pieces(S)], NEW F, Joins(F, p, n)
  PROVE  /\ \A i \in 1..n : F[i] \in Seq(S)
         /\ \A i \in 0..n : End(F, i) \in Nat
         /\ \A i \in 1..n : /\ End(F, i) = End(F, i - 1) + Len(p[i])
                           /\ End(F, i - 1) < End(F, i)
<1>1. \A i \in 1..n : F[i] = IF i = 1 THEN p[i] ELSE F[i - 1] \o p[i]
  BY DEF Joins
<1>2. \A i \in 1..n : p[i] \in Seq(S) /\ Len(p[i]) \in Nat \ {0}
  BY PieceIs
<1>3. \A i \in 1..n : F[i] \in Seq(S)
  <2> DEFINE Off == {i \in 1..n : F[i] \notin Seq(S)}
  <2> SUFFICES ASSUME Off # {} PROVE FALSE
    OBVIOUS
  <2>1. Off \subseteq Nat
    OBVIOUS
  <2>2. PICK i \in Off : \A k \in Off : i <= k
    BY <2>1, Least
  <2>3. i \in 1..n /\ F[i] \notin Seq(S)
    OBVIOUS
  <2>4. i # 1
    BY <1>1, <1>2, <2>3
  <2>5. i - 1 \in 1..n /\ F[i - 1] \in Seq(S)
    BY <2>2, <2>3, <2>4
  <2>6. F[i] = F[i - 1] \o p[i]
    BY <1>1, <2>3, <2>4
  <2> QED BY <1>2, <2>3, <2>5, <2>6, ConcatProperties
<1>4. \A i \in 0..n : End(F, i) \in Nat
  <2> TAKE i \in 0..n
  <2>1. CASE i = 0
    BY <2>1 DEF End
  <2>2. CASE i # 0
    <3>1. F[i] \in Seq(S)
      BY <1>3, <2>2
    <3> QED BY <2>2, <3>1, LenProperties DEF End
  <2> QED BY <2>1, <2>2
<1>5. ASSUME NEW i \in 1..n PROVE End(F, i) = End(F, i - 1) + Len(p[i])
  <2>1. CASE i = 1
    BY <1>1, <1>2, <2>1 DEF End
  <2>2. CASE i # 1
    <3>1. i - 1 \in 1..n /\ i - 1 # 0 /\ F[i] = F[i - 1] \o p[i]
      <4>1. i - 1 \in 1..n /\ i - 1 # 0
        BY <2>2
      <4> QED BY <1>1, <2>2, <4>1
    <3>2. Len(F[i]) = Len(F[i - 1]) + Len(p[i])
      BY <1>2, <1>3, <3>1, ConcatProperties
    <3> QED BY <2>2, <3>1, <3>2 DEF End
  <2> QED BY <2>1, <2>2
<1>6. ASSUME NEW i \in 1..n PROVE End(F, i - 1) < End(F, i)
  <2>1. End(F, i) = End(F, i - 1) + Len(p[i]) /\ Len(p[i]) \in Nat \ {0}
    BY <1>2, <1>5
  <2>2. i - 1 \in 0..n
    OBVIOUS
  <2>3. End(F, i - 1) \in Nat
    BY <1>4, <2>2
  <2> QED BY <2>1, <2>3
<1> QED BY <1>3, <1>4, <1>5, <1>6

LEMMA EndsRank ==
  ASSUME NEW S, NEW n \in Nat \ {0}, NEW p \in [1..n -> Pieces(S)], NEW F, Joins(F, p, n)
  PROVE  \A i, j \in 0..n : i < j => End(F, i) < End(F, j)
<1> DEFINE Off == {j \in 0..n : \E i \in 0..n : i < j /\ ~ (End(F, i) < End(F, j))}
<1> SUFFICES ASSUME Off # {} PROVE FALSE
  OBVIOUS
<1>1. Off \subseteq Nat
  OBVIOUS
<1>2. PICK j \in Off : \A k \in Off : j <= k
  BY <1>1, Least
<1>3. PICK i \in 0..n : i < j /\ ~ (End(F, i) < End(F, j))
  OBVIOUS
<1>4. j \in 1..n /\ j - 1 \in 0..n /\ j - 1 \notin Off
  BY <1>2, <1>3
<1>5. i < j - 1 => End(F, i) < End(F, j - 1)
  BY <1>4
<1> HIDE DEF Off
<1>6. End(F, j - 1) < End(F, j)
  BY <1>4, EndsRise
<1>7. End(F, i) \in Nat /\ End(F, j) \in Nat /\ End(F, j - 1) \in Nat
  BY <1>4, EndsRise
<1>8. CASE i = j - 1
  BY <1>3, <1>6, <1>8
<1>9. CASE i < j - 1
  BY <1>3, <1>5, <1>6, <1>7, <1>9
<1> QED BY <1>3, <1>4, <1>8, <1>9

\* What is joined first stays where it is.
LEMMA PrefixStays ==
  ASSUME NEW S, NEW n \in Nat \ {0}, NEW p \in [1..n -> Pieces(S)], NEW F, Joins(F, p, n), NEW i \in 1..n
  PROVE  \A j \in i..n, k \in 1..End(F, i) : F[j][k] = F[i][k]
<1> DEFINE Off == {j \in i..n : \E k \in 1..End(F, i) : F[j][k] # F[i][k]}
<1> SUFFICES ASSUME Off # {} PROVE FALSE
  OBVIOUS
<1>1. Off \subseteq Nat
  OBVIOUS
<1>2. PICK j \in Off : \A h \in Off : j <= h
  BY <1>1, Least
<1>3. PICK k \in 1..End(F, i) : F[j][k] # F[i][k]
  OBVIOUS
<1>4. j \in (i + 1)..n /\ j - 1 \in i..n /\ j - 1 \in 1..n /\ j # 1 /\ j \in 1..n /\ j - 1 \notin Off
  BY <1>2, <1>3
<1>5. F[j - 1][k] = F[i][k]
  BY <1>4
<1> HIDE DEF Off
<1>6. F[j] = F[j - 1] \o p[j]
  BY <1>4 DEF Joins
<1>7. F[j - 1] \in Seq(S) /\ p[j] \in Seq(S) /\ Len(p[j]) \in Nat
  <2>1. p[j] \in Pieces(S)
    BY <1>4
  <2> QED BY <1>4, <2>1, EndsRise, PieceIs, LenProperties
<1>8. End(F, i) <= End(F, j - 1) /\ End(F, i) \in Nat /\ End(F, j - 1) \in Nat
  <2>1. i \in 0..n /\ j - 1 \in 0..n
    BY <1>4
  <2>2. End(F, i) \in Nat /\ End(F, j - 1) \in Nat
    BY <2>1, EndsRise
  <2>3. i < j - 1 => End(F, i) < End(F, j - 1)
    BY <2>1, EndsRank
  <2> QED BY <1>4, <2>2, <2>3
<1>9. End(F, j - 1) = Len(F[j - 1])
  BY <1>4 DEF End
<1>10. F[j][k] = F[j - 1][k]
  <2>1. PICK u \in Nat : u = End(F, i)
    BY <1>8
  <2>2. PICK v \in Nat : v = Len(F[j - 1]) /\ u <= v
    BY <1>8, <1>9, <2>1
  <2>3. PICK w \in Nat : w = Len(p[j])
    BY <1>7
  <2>5. k \in 1..u
    BY <2>1
  <2>4. k \in 1..v + w /\ k <= v
    BY <2>2, <2>5
  <2> QED BY <1>6, <1>7, <2>2, <2>3, <2>4, ConcatProperties
<1> QED BY <1>3, <1>5, <1>10

LEMMA PieceStays ==
  ASSUME NEW S, NEW n \in Nat \ {0}, NEW p \in [1..n -> Pieces(S)], NEW F, Joins(F, p, n), NEW i \in 1..n
  PROVE  SubSeq(F[n], End(F, i - 1) + 1, End(F, i)) = p[i]
<1>1. PICK a \in Nat : a = End(F, i - 1)
  <2>1. i - 1 \in 0..n
    OBVIOUS
  <2> QED BY <2>1, EndsRise
<1>2. PICK b \in Nat : b = End(F, i) /\ b = a + Len(p[i]) /\ b = Len(F[i])
  <2>1. i \in 0..n /\ i # 0
    OBVIOUS
  <2>2. /\ \A k \in 1..n : F[k] \in Seq(S)
        /\ \A k \in 0..n : End(F, k) \in Nat
        /\ \A k \in 1..n : /\ End(F, k) = End(F, k - 1) + Len(p[k])
                          /\ End(F, k - 1) < End(F, k)
    BY EndsRise, Zenon
  <2>4. End(F, i) = End(F, i - 1) + Len(p[i])
    BY <2>2, Zenon
  <2>3. \A k \in 0..n : End(F, k) \in Nat
    BY EndsRise
  <2> QED BY <1>1, <2>1, <2>3, <2>4 DEF End
<1>3. p[i] \in Seq(S) /\ Len(p[i]) \in Nat /\ F[i] \in Seq(S) /\ F[n] \in Seq(S) /\ n \in i..n
  <2>1. n \in 1..n /\ n \in i..n /\ p[i] \in Pieces(S)
    OBVIOUS
  <2>2. p[i] \in Seq(S)
    BY <2>1, PieceIs
  <2> QED BY <2>1, <2>2, EndsRise, PieceIs, LenProperties
<1>4. \A k \in 1..Len(p[i]) : F[i][a + k] = p[i][k]
  <2> TAKE k \in 1..Len(p[i])
  <2>1. CASE i = 1
    <3>1. a = 0 /\ F[i] = p[i]
      BY <1>1, <2>1 DEF End, Joins
    <3> QED BY <3>1
  <2>2. CASE i # 1
    <3>1. i - 1 \in 1..n /\ i - 1 # 0
      BY <2>2
    <3>2. F[i] = F[i - 1] \o p[i] /\ F[i - 1] \in Seq(S) /\ a = Len(F[i - 1])
      BY <1>1, <2>2, <3>1, EndsRise DEF Joins, End
    <3>3. a + k \in 1..Len(F[i - 1]) + Len(p[i]) /\ ~ (a + k <= a) /\ (a + k) - a = k
      BY <1>1, <1>3, <3>2
    <3> QED BY <1>3, <3>2, <3>3, ConcatProperties
  <2> QED BY <2>1, <2>2
<1>5. \A k \in 1..b : F[n][k] = F[i][k]
  <2>1. \A j \in i..n, k \in 1..End(F, i) : F[j][k] = F[i][k]
    BY PrefixStays
  <2> QED BY <1>2, <1>3, <2>1
<1>6. b <= Len(F[n]) /\ Len(F[n]) \in Nat
  <2>1. End(F, n) = Len(F[n]) /\ i \in 0..n /\ n \in 0..n
    BY DEF End
  <2>2. i < n => End(F, i) < End(F, n)
    BY <2>1, EndsRank
  <2>3. End(F, n) \in Nat
    BY <2>1, EndsRise
  <2> QED BY <1>2, <2>1, <2>2, <2>3
<1>7. \A k \in (a + 1)..b : F[n][k] \in S
  BY <1>3, <1>6
<1> DEFINE w == SubSeq(F[n], a + 1, b)
<1>8. w \in Seq(S) /\ Len(w) = Len(p[i]) /\ \A k \in 1..Len(p[i]) : w[k] = F[n][a + k]
  <2>1. /\ w \in Seq(S) /\ Len(w) = IF a + 1 <= b THEN b - (a + 1) + 1 ELSE 0
        /\ \A k \in 1..b - (a + 1) + 1 : w[k] = F[n][(a + 1) + k - 1]
    BY <1>7, SubSeqProperties
  <2>2. b - (a + 1) + 1 = Len(p[i])
    BY <1>2, <1>3
  <2>3. \A k \in 1..Len(p[i]) : (a + 1) + k - 1 = a + k
    BY <1>3
  <2>4. a + 1 <= b \/ Len(p[i]) = 0
    BY <1>2, <1>3
  <2> HIDE DEF w
  <2>5. Len(w) = Len(p[i])
    BY <1>2, <1>3, <2>1, <2>2, <2>4
  <2> QED BY <2>1, <2>2, <2>3, <2>5
<1>9. \A k \in 1..Len(p[i]) : w[k] = p[i][k]
  <2> HIDE DEF w
  <2> TAKE k \in 1..Len(p[i])
  <2>1. a + k \in 1..b
    BY <1>2, <1>3
  <2> QED BY <1>4, <1>5, <1>8, <2>1
<1> HIDE DEF w
<1>10. w = p[i]
  BY <1>3, <1>8, <1>9, SeqEqual
<1> QED BY <1>1, <1>2, <1>10 DEF w

(***************************************************************************)
(* Quotients and products.                                                 *)
(***************************************************************************)
LEMMA Quotient ==
  ASSUME NEW n \in Nat \ {0}, NEW v \in Nat
  PROVE  /\ v \div n \in Nat /\ v % n \in 0..(n - 1)
         /\ v = (v \div n) * n + (v % n)
OBVIOUS

LEMMA Times ==
  ASSUME NEW n \in Nat \ {0}, NEW a \in Nat, NEW b \in Nat
  PROVE  /\ a * n \in Nat
         /\ a < b => a * n + n <= b * n
<1>1. a * n \in Nat /\ b * n \in Nat
  OBVIOUS
<1>2. ASSUME a < b PROVE a * n + n <= b * n
  <2>1. PICK d \in Nat : b = a + 1 + d
    <3>1. b - a - 1 \in Nat /\ b = a + 1 + (b - a - 1)
      BY <1>2
    <3> QED BY <3>1, Zenon
  <2>2. b * n = a * n + n + d * n /\ d * n \in Nat
    BY <2>1
  <2> QED BY <1>1, <2>2
<1> QED BY <1>1, <1>2
=============================================================================
