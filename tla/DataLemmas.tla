----------------------------- MODULE DataLemmas -----------------------------
(***************************************************************************)
(* Lemmas about data that the proofs about several components rest on: the *)
(* least number of a set, induction on a finite set, and the sums of the   *)
(* community module Functions.  The fold that defines a sum is a recursive *)
(* function on sets; that it exists and does not depend on the order is    *)
(* proved from the least cardinality at which it would fail.               *)
(***************************************************************************)
EXTENDS Integers, FiniteSets, Functions, FiniteSetTheorems,
        WellFoundedInduction, TLAPS

\* A set of natural numbers that is not empty has a least element.
LEMMA LeastNat ==
  ASSUME NEW T, T \subseteq Nat, T # {}
  PROVE  \E m \in T : \A k \in T : m <= k
<1>1. OpToRel(<, Nat) = {ss \in Nat \X Nat : ss[1] < ss[2]}
  BY DEF OpToRel
<1> DEFINE R == {ss \in Nat \X Nat : ss[1] < ss[2]}
<1>2. IsWellFoundedOn(R, Nat)
  BY <1>1, NatLessThanWellFounded
<1>3. \A f, g \in Nat : g < f => <<g, f>> \in R
  OBVIOUS
<1>4. \A f, g \in Nat : ~ (g < f) => f <= g
  OBVIOUS
<1> HIDE DEF R
<1>5. \E m \in T : \A k \in T : ~ (<<k, m>> \in R)
  BY <1>2, WFMin
<1> QED BY <1>3, <1>4, <1>5

-----------------------------------------------------------------------------
(* The fold exists.                                                        *)

Chosen(s) == CHOOSE x \in s : TRUE

\* One step of the fold.
Turn(g, f, s) == IF s = {} THEN 0 ELSE f[Chosen(s)] + g[s \ {Chosen(s)}]

IsFold(g, f, S) == g = [s \in SUBSET S |-> Turn(g, f, s)]

\* The fold of the sets of up to n elements.
IsFoldUpTo(g, f, S, n) ==
  g = [s \in SUBSET S |-> IF Cardinality(s) <= n THEN Turn(g, f, s) ELSE 0]

LEMMA SumIs ==
  ASSUME NEW f, NEW S
  PROVE  SumFunctionOnSet(f, S) = (CHOOSE g : IsFold(g, f, S))[S]
BY DEF SumFunctionOnSet, FoldFunctionOnSet, MapThenFoldSet, IsFold, Turn, Chosen

LEMMA ChosenOut ==
  ASSUME NEW s, IsFiniteSet(s), s # {}
  PROVE  /\ Chosen(s) \in s /\ IsFiniteSet(s \ {Chosen(s)})
         /\ Cardinality(s) \in Nat
         /\ Cardinality(s \ {Chosen(s)}) = Cardinality(s) - 1
BY FS_RemoveElement, FS_CardinalityType DEF Chosen

LEMMA FoldUpToNext ==
  ASSUME NEW f, NEW S, IsFiniteSet(S), NEW n \in Nat, NEW g, IsFoldUpTo(g, f, S, n)
  PROVE  \E h : IsFoldUpTo(h, f, S, n + 1)
<1> DEFINE h == [s \in SUBSET S |->
                   IF Cardinality(s) <= n + 1 THEN Turn(g, f, s) ELSE 0]
<1>1. ASSUME NEW s \in SUBSET S, Cardinality(s) <= n + 1
      PROVE  Turn(g, f, s) = Turn(h, f, s)
  <2>1. CASE s = {}
    BY <2>1 DEF Turn
  <2>2. CASE s # {}
    <3> DEFINE t == s \ {Chosen(s)}
    <3>1. t \in SUBSET S /\ Cardinality(t) <= n /\ Cardinality(t) \in Nat
      BY <1>1, <2>2, ChosenOut, FS_Subset, FS_CardinalityType
    <3>2. g[t] = Turn(g, f, t)
      BY <3>1 DEF IsFoldUpTo
    <3>3. h[t] = Turn(g, f, t)
      BY <3>1
    <3> QED BY <2>2, <3>2, <3>3 DEF Turn
  <2> QED BY <2>1, <2>2
<1>2. h = [s \in SUBSET S |-> IF Cardinality(s) <= n + 1 THEN Turn(h, f, s) ELSE 0]
  <2> HIDE DEF h
  <2>1. h = [s \in SUBSET S |-> IF Cardinality(s) <= n + 1 THEN Turn(g, f, s) ELSE 0]
    BY DEF h
  <2> QED BY <1>1, <2>1
<1> QED BY <1>2 DEF IsFoldUpTo

LEMMA FoldUpTo ==
  ASSUME NEW f, NEW S, IsFiniteSet(S)
  PROVE  \A n \in Nat : \E g : IsFoldUpTo(g, f, S, n)
<1> DEFINE T == {n \in Nat : ~ \E g : IsFoldUpTo(g, f, S, n)}
<1> SUFFICES ASSUME T # {} PROVE FALSE
  OBVIOUS
<1>1. PICK m \in T : \A k \in T : m <= k
  BY LeastNat
<1>2. CASE m = 0
  <2> DEFINE g == [s \in SUBSET S |-> 0]
  <2>1. ASSUME NEW s \in SUBSET S, Cardinality(s) <= 0 PROVE Turn(g, f, s) = 0
    BY <2>1, FS_EmptySet, FS_Subset, FS_CardinalityType DEF Turn
  <2>2. g = [s \in SUBSET S |-> IF Cardinality(s) <= 0 THEN Turn(g, f, s) ELSE 0]
    BY <2>1
  <2> QED BY <1>2, <2>2 DEF IsFoldUpTo
<1>3. CASE m # 0
  <2>1. m - 1 \in Nat /\ m - 1 \notin T
    BY <1>1, <1>3
  <2>2. PICK g : IsFoldUpTo(g, f, S, m - 1)
    BY <2>1
  <2>3. \E h : IsFoldUpTo(h, f, S, (m - 1) + 1)
    BY <2>1, <2>2, FoldUpToNext
  <2>4. (m - 1) + 1 = m
    OBVIOUS
  <2> QED BY <2>3, <2>4
<1> QED BY <1>2, <1>3

LEMMA FoldExists ==
  ASSUME NEW f, NEW S, IsFiniteSet(S)
  PROVE  \E g : IsFold(g, f, S)
<1>1. Cardinality(S) \in Nat
  BY FS_CardinalityType
<1>2. PICK g : IsFoldUpTo(g, f, S, Cardinality(S))
  BY <1>1, FoldUpTo
<1>3. \A s \in SUBSET S : Cardinality(s) <= Cardinality(S)
  BY FS_Subset
<1>4. g = [s \in SUBSET S |-> Turn(g, f, s)]
  BY <1>2, <1>3 DEF IsFoldUpTo
<1> QED BY <1>4 DEF IsFold

-----------------------------------------------------------------------------
(* Sums of finite sets.                                                    *)

\* Induction on a finite set, the claim being membership in a set G of sets.
LEMMA SetInduction ==
  ASSUME NEW S, IsFiniteSet(S), NEW G, {} \in G,
         \A s \in SUBSET S : s # {} /\ s \ {Chosen(s)} \in G => s \in G
  PROVE  S \in G
<1> DEFINE T == {n \in Nat : \E s \in SUBSET S : s \notin G /\ Cardinality(s) = n}
<1> SUFFICES ASSUME S \notin G PROVE FALSE
  OBVIOUS
<1>1. T # {} /\ T \subseteq Nat
  BY FS_CardinalityType
<1>2. PICK m \in T : \A k \in T : m <= k
  BY <1>1, LeastNat
<1>3. PICK s \in SUBSET S : s \notin G /\ Cardinality(s) = m
  BY <1>2
<1>4. s # {} /\ IsFiniteSet(s)
  BY <1>3, FS_Subset
<1>5. Cardinality(s \ {Chosen(s)}) = m - 1 /\ m - 1 \in Nat /\ s \ {Chosen(s)} \in SUBSET S
  <2>1. /\ Chosen(s) \in s /\ IsFiniteSet(s \ {Chosen(s)})
        /\ Cardinality(s \ {Chosen(s)}) = Cardinality(s) - 1
    BY <1>4, ChosenOut
  <2>2. Cardinality(s \ {Chosen(s)}) \in Nat
    BY <2>1, FS_CardinalityType
  <2> QED BY <1>3, <2>1, <2>2
<1>6. s \ {Chosen(s)} \in G
  BY <1>2, <1>5
<1> QED BY <1>3, <1>4, <1>6

LEMMA FoldsAgree ==
  ASSUME NEW S, IsFiniteSet(S), NEW T, IsFiniteSet(T), NEW f, NEW e, NEW g, NEW h,
         IsFold(g, f, S), IsFold(h, e, T),
         NEW U, U \subseteq S, U \subseteq T, \A x \in U : f[x] = e[x]
  PROVE  g[U] = h[U]
<1> DEFINE G == {s \in SUBSET U : g[s] = h[s]}
<1>1. \A s \in SUBSET U : g[s] = Turn(g, f, s) /\ h[s] = Turn(h, e, s)
  BY DEF IsFold
<1>2. {} \in G
  BY <1>1 DEF Turn
<1>3. ASSUME NEW s \in SUBSET U, s # {}, s \ {Chosen(s)} \in G PROVE s \in G
  <2>1. Chosen(s) \in s
    BY <1>3 DEF Chosen
  <2> QED BY <1>1, <1>3, <2>1 DEF Turn
<1>4. IsFiniteSet(U)
  BY FS_Subset
<1> HIDE DEF G
<1>5. U \in G
  BY <1>2, <1>3, <1>4, SetInduction
<1> QED BY <1>5 DEF G

LEMMA SumFold ==
  ASSUME NEW f, NEW S, IsFiniteSet(S)
  PROVE  \E g : IsFold(g, f, S) /\ SumFunctionOnSet(f, S) = g[S]
BY FoldExists, SumIs

LEMMA SumEmpty ==
  ASSUME NEW f
  PROVE  SumFunctionOnSet(f, {}) = 0
<1>1. PICK g : IsFold(g, f, {}) /\ SumFunctionOnSet(f, {}) = g[{}]
  BY SumFold, FS_EmptySet
<1> QED BY <1>1 DEF IsFold, Turn

LEMMA SumSame ==
  ASSUME NEW f, NEW e, NEW S, IsFiniteSet(S), \A x \in S : f[x] = e[x]
  PROVE  SumFunctionOnSet(f, S) = SumFunctionOnSet(e, S)
<1>1. PICK g : IsFold(g, f, S) /\ SumFunctionOnSet(f, S) = g[S]
  BY SumFold
<1>2. PICK h : IsFold(h, e, S) /\ SumFunctionOnSet(e, S) = h[S]
  BY SumFold
<1> QED BY <1>1, <1>2, FoldsAgree

\* One turn of the fold.
LEMMA SumTurn ==
  ASSUME NEW f, NEW S, IsFiniteSet(S), S # {}
  PROVE  SumFunctionOnSet(f, S) = f[Chosen(S)] + SumFunctionOnSet(f, S \ {Chosen(S)})
<1> DEFINE R == S \ {Chosen(S)}
<1>1. PICK g : IsFold(g, f, S) /\ SumFunctionOnSet(f, S) = g[S]
  BY SumFold
<1>2. IsFiniteSet(R) /\ R \subseteq S
  BY ChosenOut
<1>3. PICK h : IsFold(h, f, R) /\ SumFunctionOnSet(f, R) = h[R]
  BY <1>2, SumFold
<1>4. g[R] = h[R]
  <2> HIDE DEF R
  <2> QED BY <1>1, <1>2, <1>3, FoldsAgree
<1>5. g[S] = f[Chosen(S)] + g[R]
  BY <1>1 DEF IsFold, Turn
<1> QED BY <1>1, <1>3, <1>4, <1>5

LEMMA SumInt ==
  ASSUME NEW f, NEW S, IsFiniteSet(S), \A x \in S : f[x] \in Int
  PROVE  SumFunctionOnSet(f, S) \in Int
<1> DEFINE G == {s \in SUBSET S : SumFunctionOnSet(f, s) \in Int}
<1>1. {} \in G
  BY SumEmpty
<1>2. ASSUME NEW s \in SUBSET S, s # {}, s \ {Chosen(s)} \in G PROVE s \in G
  <2>1. IsFiniteSet(s) /\ f[Chosen(s)] \in Int
    BY <1>2, FS_Subset, ChosenOut
  <2>2. SumFunctionOnSet(f, s) = f[Chosen(s)] + SumFunctionOnSet(f, s \ {Chosen(s)})
    BY <1>2, <2>1, SumTurn
  <2> QED BY <1>2, <2>1, <2>2
<1> HIDE DEF G
<1>3. S \in G
  BY <1>1, <1>2, SetInduction
<1> QED BY <1>3 DEF G

\* The order does not matter: any element may be taken out first.
LEMMA SumOut ==
  ASSUME NEW f, NEW S, IsFiniteSet(S), \A x \in S : f[x] \in Int, NEW y \in S
  PROVE  SumFunctionOnSet(f, S) = f[y] + SumFunctionOnSet(f, S \ {y})
<1> DEFINE Sum(s) == SumFunctionOnSet(f, s)
           Out(s) == \A x \in s : Sum(s) = f[x] + Sum(s \ {x})
           Bad == {n \in Nat : \E s \in SUBSET S : ~ Out(s) /\ Cardinality(s) = n}
<1> HIDE DEF Sum, Out
<1> SUFFICES ASSUME ~ Out(S) PROVE FALSE
  BY DEF Sum, Out
<1>1. Bad # {} /\ Bad \subseteq Nat
  BY FS_CardinalityType
<1>2. PICK m \in Bad : \A k \in Bad : m <= k
  BY <1>1, LeastNat
<1>3. PICK s \in SUBSET S : ~ Out(s) /\ Cardinality(s) = m
  BY <1>2
<1>4. PICK x \in s : Sum(s) # f[x] + Sum(s \ {x})
  BY <1>3 DEF Out
<1>5. IsFiniteSet(s)
  BY FS_Subset
\* The sets with one element less are summed in any order.
<1>6. ASSUME NEW z \in s PROVE Out(s \ {z})
  <2>1. IsFiniteSet(s \ {z}) /\ Cardinality(s \ {z}) = m - 1
    BY <1>3, <1>5, FS_RemoveElement
  <2>2. m - 1 \in Nat
    BY <2>1, FS_CardinalityType
  <2> QED BY <1>2, <2>1, <2>2
<1> DEFINE c == Chosen(s)
<1>7. c \in s /\ Sum(s) = f[c] + Sum(s \ {c})
  BY <1>4, <1>5, SumTurn, ChosenOut DEF Sum
<1>8. x # c
  BY <1>4, <1>7
<1> HIDE DEF c
<1> DEFINE q == s \ {c, x}
<1>9. Sum(s \ {c}) = f[x] + Sum(q)
  <2>1. (s \ {c}) \ {x} = q /\ x \in s \ {c}
    BY <1>8
  <2> QED BY <1>6, <1>7, <2>1 DEF Out
<1>10. Sum(s \ {x}) = f[c] + Sum(q)
  <2>1. (s \ {x}) \ {c} = q /\ c \in s \ {x}
    BY <1>7, <1>8
  <2> QED BY <1>6, <2>1 DEF Out
<1>11. f[c] \in Int /\ f[x] \in Int /\ Sum(q) \in Int
  BY <1>7, SumInt, FS_Subset DEF Sum
<1> HIDE DEF q
<1> QED BY <1>4, <1>7, <1>9, <1>10, <1>11

\* The sum of a set is that of a part and that of the rest.
LEMMA SumParts ==
  ASSUME NEW f, NEW S, IsFiniteSet(S), \A x \in S : f[x] \in Int, NEW A, A \subseteq S
  PROVE  SumFunctionOnSet(f, S) = SumFunctionOnSet(f, A) + SumFunctionOnSet(f, S \ A)
<1> DEFINE Sum(s) == SumFunctionOnSet(f, s)
           G == {s \in SUBSET S : Sum(s) = Sum(s \cap A) + Sum(s \ A)}
<1>1. \A s \in SUBSET S : IsFiniteSet(s) /\ Sum(s) \in Int
  BY SumInt, FS_Subset, SMTT(30)
<1>2. \A s \in SUBSET S : \A x \in s : Sum(s) = f[x] + Sum(s \ {x})
  BY <1>1, SumOut, ZenonT(30)
<1>3. Sum({}) = 0
  BY SumEmpty
<1> HIDE DEF Sum
<1>4. {} \in G
  <2>1. {} \cap A = {} /\ {} \ A = {}
    OBVIOUS
  <2> QED BY <1>3, <2>1
<1>5. ASSUME NEW s \in SUBSET S, s # {}, s \ {Chosen(s)} \in G PROVE s \in G
  <2> DEFINE c == Chosen(s)
             r == s \ {c}
  <2>1. c \in s
    BY <1>5 DEF Chosen
  <2>2. Sum(s) = f[c] + Sum(r) /\ Sum(r) = Sum(r \cap A) + Sum(r \ A)
    BY <1>2, <1>5, <2>1
  <2> HIDE DEF c
  <2>3. /\ Sum(r \cap A) \in Int /\ Sum(r \ A) \in Int /\ f[c] \in Int
        /\ Sum(s \cap A) \in Int /\ Sum(s \ A) \in Int
    BY <1>1, <2>1
  <2>4. CASE c \in A
    <3>1. s \cap A \in SUBSET S /\ c \in s \cap A
      BY <2>1, <2>4
    <3>2. Sum(s \cap A) = f[c] + Sum((s \cap A) \ {c})
      BY <1>2, <3>1
    <3>3. (s \cap A) \ {c} = r \cap A /\ s \ A = r \ A
      BY <2>4
    <3>4. Sum(s \cap A) = f[c] + Sum(r \cap A) /\ Sum(s \ A) = Sum(r \ A)
      BY <3>2, <3>3, Zenon
    <3>5. Sum(s) = Sum(s \cap A) + Sum(s \ A)
      BY <2>2, <2>3, <3>4
    <3> QED BY <3>5
  <2>5. CASE c \notin A
    <3>1. s \ A \in SUBSET S /\ c \in s \ A
      BY <2>1, <2>5
    <3>2. Sum(s \ A) = f[c] + Sum((s \ A) \ {c})
      BY <1>2, <3>1
    <3>3. (s \ A) \ {c} = r \ A /\ s \cap A = r \cap A
      BY <2>5
    <3>4. Sum(s \ A) = f[c] + Sum(r \ A) /\ Sum(s \cap A) = Sum(r \cap A)
      BY <3>2, <3>3, Zenon
    <3>5. Sum(s) = Sum(s \cap A) + Sum(s \ A)
      BY <2>2, <2>3, <3>4
    <3> QED BY <3>5
  <2> QED BY <2>4, <2>5
<1> HIDE DEF G
<1>6. S \in G
  BY <1>4, <1>5, SetInduction
<1>7. S \cap A = A
  OBVIOUS
<1> QED BY <1>6, <1>7 DEF G, Sum

LEMMA SumMonotone ==
  ASSUME NEW f, NEW e, NEW S, IsFiniteSet(S),
         \A x \in S : f[x] \in Int /\ e[x] \in Int /\ f[x] <= e[x]
  PROVE  SumFunctionOnSet(f, S) <= SumFunctionOnSet(e, S)
<1> DEFINE F(s) == SumFunctionOnSet(f, s)
           E(s) == SumFunctionOnSet(e, s)
           G == {s \in SUBSET S : F(s) <= E(s)}
<1>1. \A s \in SUBSET S : IsFiniteSet(s) /\ F(s) \in Int /\ E(s) \in Int
  BY SumInt, FS_Subset
<1>2. ASSUME NEW s \in SUBSET S, NEW x \in s
      PROVE  F(s) = f[x] + F(s \ {x}) /\ E(s) = e[x] + E(s \ {x})
  BY <1>1, SumOut
<1>3. F({}) = 0 /\ E({}) = 0
  BY SumEmpty
<1> HIDE DEF F, E
<1>4. {} \in G
  BY <1>3
<1>5. ASSUME NEW s \in SUBSET S, s # {}, s \ {Chosen(s)} \in G PROVE s \in G
  <2>1. Chosen(s) \in s
    BY <1>5 DEF Chosen
  <2> QED BY <1>1, <1>2, <1>5, <2>1
<1> HIDE DEF G
<1>6. S \in G
  BY <1>4, <1>5, SetInduction
<1> QED BY <1>6 DEF G, F, E

LEMMA SumPlus ==
  ASSUME NEW f, NEW e, NEW g, NEW S, IsFiniteSet(S),
         \A x \in S : f[x] \in Int /\ e[x] \in Int /\ g[x] = f[x] + e[x]
  PROVE  SumFunctionOnSet(g, S) = SumFunctionOnSet(f, S) + SumFunctionOnSet(e, S)
<1> DEFINE F(s) == SumFunctionOnSet(f, s)
           E(s) == SumFunctionOnSet(e, s)
           H(s) == SumFunctionOnSet(g, s)
           G == {s \in SUBSET S : H(s) = F(s) + E(s)}
<1>1. \A s \in SUBSET S : IsFiniteSet(s) /\ F(s) \in Int /\ E(s) \in Int
  BY SumInt, FS_Subset
<1>2. ASSUME NEW s \in SUBSET S, NEW x \in s
      PROVE  /\ F(s) = f[x] + F(s \ {x}) /\ E(s) = e[x] + E(s \ {x})
             /\ H(s) = g[x] + H(s \ {x})
  <2>1. \A y \in s : f[y] \in Int /\ e[y] \in Int /\ g[y] \in Int
    OBVIOUS
  <2> QED BY <1>1, <2>1, SumOut
<1>3. F({}) = 0 /\ E({}) = 0 /\ H({}) = 0
  BY SumEmpty
<1> HIDE DEF F, E, H
<1>4. {} \in G
  BY <1>3
<1>5. ASSUME NEW s \in SUBSET S, s # {}, s \ {Chosen(s)} \in G PROVE s \in G
  <2>1. Chosen(s) \in s
    BY <1>5 DEF Chosen
  <2> QED BY <1>1, <1>2, <1>5, <2>1
<1> HIDE DEF G
<1>6. S \in G
  BY <1>4, <1>5, SetInduction
<1> QED BY <1>6 DEF G, F, E, H

LEMMA SumConstant ==
  ASSUME NEW f, NEW b \in Int, NEW S, IsFiniteSet(S), \A x \in S : f[x] = b
  PROVE  SumFunctionOnSet(f, S) = Cardinality(S) * b
<1> DEFINE F(s) == SumFunctionOnSet(f, s)
           G == {s \in SUBSET S : F(s) = Cardinality(s) * b}
<1>1. \A s \in SUBSET S : IsFiniteSet(s)
  BY FS_Subset
<1>2. ASSUME NEW s \in SUBSET S, NEW x \in s PROVE F(s) = b + F(s \ {x})
  BY <1>1, SumOut
<1>3. F({}) = 0 /\ Cardinality({}) = 0
  BY SumEmpty, FS_EmptySet
<1> HIDE DEF F
<1>4. {} \in G
  BY <1>3
<1>5. ASSUME NEW s \in SUBSET S, s # {}, s \ {Chosen(s)} \in G PROVE s \in G
  <2>1. /\ Chosen(s) \in s /\ Cardinality(s) \in Nat
        /\ Cardinality(s \ {Chosen(s)}) = Cardinality(s) - 1
    BY <1>1, <1>5, ChosenOut
  <2>2. F(s) = b + (Cardinality(s) - 1) * b
    BY <1>2, <1>5, <2>1
  <2>3. \A n \in Nat : b + (n - 1) * b = n * b
    OBVIOUS
  <2> QED BY <2>1, <2>2, <2>3
<1> HIDE DEF G
<1>6. S \in G
  BY <1>4, <1>5, SetInduction
<1> QED BY <1>6 DEF G, F

=============================================================================
