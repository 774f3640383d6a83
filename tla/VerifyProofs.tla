---------------------------- MODULE VerifyProofs ----------------------------
(***************************************************************************)
(* Proofs about Verify, for every number of stars, every geometry, quad    *)
(* and set of log-odds: no filter loses or repeats a star, no reference    *)
(* star has two matches, the matches of the result name the right stars,   *)
(* and the log-odds kept star by star are those of the matches.            *)
(***************************************************************************)
EXTENDS Verify, DataLemmas

-----------------------------------------------------------------------------
(* Lists without repetitions, and how a filter in place keeps them.        *)

\* The first n elements of f are those of S, each once.
Lists(f, n, S) ==
  /\ \A k \in 0..n - 1 : f[k] \in S
  /\ \A k, l \in 0..n - 1 : k # l => f[k] # f[l]
  /\ \A x \in S : \E k \in 0..n - 1 : f[k] = x

\* A list in the middle of a filter that has looked at j elements and kept g: with
\* what was put by copied in behind what was kept.
View(perm, bad, g, j) ==
  [k \in DOMAIN perm |-> IF g <= k /\ k < j THEN bad[k - g] ELSE perm[k]]

LEMMA ListsSame ==
  ASSUME NEW f, NEW h, NEW n \in Nat, NEW S, Lists(f, n, S),
         \A k \in 0..n - 1 : h[k] = f[k]
  PROVE  Lists(h, n, S)
  BY DEF Lists

\* to is a permutation of n positions.
Permutes(to, n) ==
  /\ to \in [0..n - 1 -> 0..n - 1]
  /\ \A k, l \in 0..n - 1 : k # l => to[k] # to[l]
  /\ \A k \in 0..n - 1 : \E l \in 0..n - 1 : to[l] = k

ReadThrough(h, f, to, n) == \A k \in 0..n - 1 : h[k] = f[to[k]]

\* A list read through a permutation of its positions.
LEMMA ListsPermuted ==
  ASSUME NEW f, NEW h, NEW n \in Nat, NEW S, Lists(f, n, S),
         NEW to, Permutes(to, n), ReadThrough(h, f, to, n)
  PROVE  Lists(h, n, S)
<1> USE DEF Permutes, ReadThrough
<1>1. \A k \in 0..n - 1 : h[k] \in S
  BY DEF Lists
<1>2. ASSUME NEW k \in 0..n - 1, NEW l \in 0..n - 1, k # l
      PROVE  h[k] # h[l]
  <2>1. to[k] \in 0..n - 1 /\ to[l] \in 0..n - 1 /\ to[k] # to[l]
    BY <1>2
  <2>2. f[to[k]] # f[to[l]]
    BY <2>1 DEF Lists
  <2> QED BY <2>2
<1>3. ASSUME NEW x \in S  PROVE \E k \in 0..n - 1 : h[k] = x
  <2>1. PICK k \in 0..n - 1 : f[k] = x
    BY DEF Lists
  <2>2. PICK l \in 0..n - 1 : to[l] = k
    OBVIOUS
  <2> QED BY <2>1, <2>2
<1> QED BY <1>1, <1>2, <1>3 DEF Lists

Dropped(perm, bad, g, j) == [bad EXCEPT ![j - g] = perm[j]]

\* An element that is dropped stays where it is in the view.
LEMMA DropTurn ==
  ASSUME NEW N \in Nat, NEW V, NEW W, NEW perm \in [0..N - 1 -> V], NEW bad \in [0..N - 1 -> W],
         NEW n, NEW j \in 0..N - 1, NEW g \in 0..j, NEW S,
         Lists(View(perm, bad, g, j), n, S)
  PROVE  Lists(View(perm, Dropped(perm, bad, g, j), g, j + 1), n, S)
<1> USE DEF Dropped
<1> DEFINE old == View(perm, bad, g, j)
           new == View(perm, Dropped(perm, bad, g, j), g, j + 1)
<1>1. ASSUME NEW k \in 0..N - 1  PROVE new[k] = old[k]
  <2>1. CASE k = j  BY <2>1 DEF View
  <2>2. CASE k # j
    <3>1. CASE g <= k /\ k < j
      <4>1. k - g \in 0..N - 1 /\ k - g # j - g  BY <3>1
      <4> QED BY <3>1, <4>1 DEF View
    <3>2. CASE ~(g <= k /\ k < j)
      <4>1. ~(g <= k /\ k < j + 1)  BY <3>2, <2>2
      <4> QED BY <3>2, <4>1 DEF View
    <3> QED BY <3>1, <3>2
  <2> QED BY <2>1, <2>2
<1>2. new = old
  BY <1>1 DEF View
<1> QED BY <1>2

\* An element that is kept moves to the front of what was put by, which moves up by
\* one: the list is the same up to the order.
LEMMA KeepTurn ==
  ASSUME NEW N \in Nat, NEW V, NEW W, NEW perm \in [0..N - 1 -> V], NEW bad \in [0..N - 1 -> W],
         NEW n \in 0..N, NEW j \in 0..n - 1, NEW g \in 0..j, NEW S,
         Lists(View(perm, bad, g, j), n, S)
  PROVE  Lists(View([perm EXCEPT ![g] = perm[j]], bad, g + 1, j + 1), n, S)
<1> DEFINE old == View(perm, bad, g, j)
           new == View([perm EXCEPT ![g] = perm[j]], bad, g + 1, j + 1)
           to == [k \in 0..n - 1 |-> IF k = g THEN j ELSE IF g < k /\ k <= j THEN k - 1 ELSE k]
<1>1. to \in [0..n - 1 -> 0..n - 1]
  OBVIOUS
<1>2. \A k, l \in 0..n - 1 : k # l => to[k] # to[l]
  OBVIOUS
<1>3. ASSUME NEW k \in 0..n - 1  PROVE \E l \in 0..n - 1 : to[l] = k
  <2>1. CASE k = j  BY <2>1, SMTT(30)
  <2>2. CASE g <= k /\ k < j
    <3>1. k + 1 \in 0..n - 1 /\ to[k + 1] = k  BY <2>2
    <3> QED BY <3>1
  <2>3. CASE k < g \/ k > j  BY <2>3
  <2> QED BY <2>1, <2>2, <2>3
<1>4. ASSUME NEW k \in 0..n - 1  PROVE new[k] = old[to[k]]
  <2> k \in 0..N - 1 /\ g \in 0..N - 1 /\ j \in 0..N - 1
    OBVIOUS
  <2>1. CASE k = g
    <3>1. new[k] = perm[j]  BY <2>1 DEF View
    <3>2. to[k] = j  BY <2>1
    <3>3. old[j] = perm[j]  BY DEF View
    <3> QED BY <3>1, <3>2, <3>3
  <2>2. CASE g < k /\ k <= j
    <3>1. new[k] = bad[k - (g + 1)]  BY <2>2 DEF View
    <3>2. to[k] = k - 1 /\ k - 1 \in 0..N - 1  BY <2>2
    <3>3. old[k - 1] = bad[(k - 1) - g]  BY <2>2, <3>2 DEF View
    <3>4. k - (g + 1) = (k - 1) - g  OBVIOUS
    <3> QED BY <3>1, <3>2, <3>3, <3>4
  <2>3. CASE k < g \/ k > j
    <3>1. new[k] = perm[k]  BY <2>3 DEF View
    <3>2. to[k] = k /\ old[k] = perm[k]  BY <2>3 DEF View
    <3> QED BY <3>1, <3>2
  <2> QED BY <2>1, <2>2, <2>3
<1> HIDE DEF old, new, to
<1>5. n \in Nat /\ Lists(old, n, S)
  BY DEF old
<1>6. Permutes(to, n) /\ ReadThrough(new, old, to, n)
  BY <1>1, <1>2, <1>3, <1>4 DEF Permutes, ReadThrough
<1>7. Lists(new, n, S)
  BY <1>5, <1>6, ListsPermuted
<1> QED BY <1>7 DEF new

LEMMA ViewStart ==
  ASSUME NEW D, NEW V, NEW perm \in [D -> V], NEW bad, D \subseteq Int
  PROVE  View(perm, bad, 0, 0) = perm
<1>1. \A k \in D : View(perm, bad, 0, 0)[k] = perm[k]
  BY DEF View
<1> QED BY <1>1 DEF View

Distinct(f, n) == \A k, l \in 0..n - 1 : k # l => f[k] # f[l]

\* An injection of a finite range into itself reaches all of it.
LEMMA InjectionIsOnto ==
  ASSUME NEW n \in Nat, NEW p \in [0..n - 1 -> 0..n - 1], Distinct(p, n)
  PROVE  Permutes(p, n)
<1> USE DEF Distinct
<1>1. p \in Injection(0..n - 1, 0..n - 1)
  BY DEF Injection, IsInjective
<1>2. IsFiniteSet(0..n - 1)
  BY FS_Interval
<1>3. p \in Surjection(0..n - 1, 0..n - 1)
  BY <1>1, <1>2, FS_Injection
<1> QED BY <1>3 DEF Surjection, Permutes

-----------------------------------------------------------------------------
(* The invariant. *)

RefFilter == {"refQuad", "refRor"}
TestFilter == {"testQuad", "testRor"}

\* The lists that the filters work on.
RefList == IF pc \in RefFilter THEN View(refperm, badguys, igood, i) ELSE refperm
TestList == IF pc \in TestFilter THEN View(testperm, tbadguys, igood, i) ELSE testperm

\* No star is lost and none is repeated.
Permuted ==
  /\ pc # "start" => Lists(RefList, NRimage, inside)
  /\ Lists(TestList, NTall, Test)

\* The stars of the quad are dropped by the first filters, and stay out.
OffQuad ==
  ~fake =>
    /\ pc = "refQuad" => /\ keep \cap QuadStars = {}
                         /\ \A k \in 0..igood - 1 : refperm[k] \in keep
    /\ pc \notin {"start", "refQuad"} => \A k \in 0..NR - 1 : refperm[k] \notin QuadStars
    /\ pc = "testQuad" => /\ keep \cap QuadTests = {}
                          /\ \A k \in 0..igood - 1 : testperm[k] \in keep
    /\ pc \in {"uniformize", "testRor", "refRor", "match", "judge", "accepted"} =>
         \A k \in 0..NT - 1 : testperm[k] \notin QuadTests

\* A test star that has a match has that of a reference star that points back to
\* it, and was found next to it.
Linking ==
  \A k \in 0..i - 1 : theta[k] >= 0 =>
    /\ \E r \in 0..NR - 1 : rmatches[r] = k /\ refperm[r] = theta[k]
    /\ near[testperm[k]] = theta[k]

Linked ==
  /\ pc = "match" => i < NT
  /\ pc \in {"match", "judge", "accepted"} => Linking

Result ==
  /\ pc \notin {"accepted", "sorted"} => refstarid = [r \in Ref |-> r]
  /\ pc \in {"accepted", "sorted"} =>
       \A s, t \in Test : s # t /\ etheta[s] >= 0 => etheta[s] # etheta[t]
  /\ pc = "accepted" /\ ~fake => \A p \in Quad : fixup_theta(p[1]) = FILTERED
  /\ ThetaNames

IInv == TypeInv /\ Permuted /\ OffQuad /\ Linked /\ Result

USE DEF Ref, Test, None, DISTRACTOR, CONFLICT, FILTERED, BAILEDOUT, STOPPEDLOOKING, Theta,
        RefFilter, TestFilter

LEMMA Sizes == NRall \in Nat /\ NTall \in Nat
  BY VerifyAssumption DEF VerifyAssumption

THEOREM InitInvariant == Init => IInv
<1> SUFFICES ASSUME Init PROVE IInv
  OBVIOUS
<1>1. TypeInv
  <2> USE Sizes DEF Init
  <2>1. refperm \in [Ref -> Ref \cup {None}] /\ badguys \in [Ref -> Ref \cup {None}]
    OBVIOUS
  <2>2. testperm \in [Test -> Test] /\ tbadguys \in [Test -> Test \cup {None}]
    OBVIOUS
  <2>3. theta \in [Test -> Theta] /\ etheta \in [Test -> Theta]
    OBVIOUS
  <2>4. /\ rmatches \in [Ref -> Test \cup {None}] /\ rprobs \in [Ref -> Int]
        /\ refstarid \in [Ref -> Ref] /\ sorted \in [Ref -> Ref]
        /\ near \in [Test -> Ref \cup {None}]
    OBVIOUS
  <2>5. pc = "start" /\ fake \in BOOLEAN /\ inside \subseteq Ref /\ skewed \in BOOLEAN
    OBVIOUS
  <2>7. /\ NR \in 0..NRimage /\ NRimage \in 0..NRall /\ NT \in 0..NTall
        /\ i \in Nat /\ igood \in 0..i /\ mu \in Nat /\ besti \in Test \cup {None}
    OBVIOUS
  <2>6. /\ pc \in {"refQuad", "refRor"} => i <= NR
        /\ pc \in {"testQuad", "testRor", "match", "judge"} => i <= NT
    BY <2>5
  <2> QED BY <2>1, <2>2, <2>3, <2>4, <2>5, <2>6, <2>7 DEF TypeInv
<1>2. Permuted
  BY Sizes DEF Init, Permuted, TestList, Lists
<1>3. OffQuad /\ Linked
  BY DEF Init, OffQuad, Linked
<1>4. Result
  BY DEF Init, Result, ThetaNames
<1> QED BY <1>1, <1>2, <1>3, <1>4 DEF IInv

\* At the start of a filter, and outside of it, the list is the array itself.
LEMMA RefListPlain ==
  ASSUME refperm' \in [Ref -> Ref \cup {None}], pc' \in RefFilter => i' = 0 /\ igood' = 0
  PROVE  RefList' = refperm'
<1>1. CASE pc' \in RefFilter
  <2>1. View(refperm', badguys', 0, 0) = refperm'
    BY ViewStart, Ref \subseteq Int, Sizes
  <2> QED BY <1>1, <2>1 DEF RefList
<1>2. CASE pc' \notin RefFilter
  BY <1>2 DEF RefList
<1> QED BY <1>1, <1>2

LEMMA TestListPlain ==
  ASSUME testperm' \in [Test -> Test], pc' \in TestFilter => i' = 0 /\ igood' = 0
  PROVE  TestList' = testperm'
<1>1. CASE pc' \in TestFilter
  <2>1. View(testperm', tbadguys', 0, 0) = testperm'
    BY ViewStart, Test \subseteq Int, Sizes
  <2> QED BY <1>1, <2>1 DEF TestList
<1>2. CASE pc' \notin TestFilter
  BY <1>2 DEF TestList
<1> QED BY <1>1, <1>2

\* What a step that does not touch the result keeps.
LEMMA ResultEarly ==
  ASSUME Result, pc \notin {"accepted", "sorted"}, pc' \notin {"accepted", "sorted"},
         UNCHANGED refstarid
  PROVE  Result'
  BY DEF Result, ThetaNames

-----------------------------------------------------------------------------
(* The filters keep the invariant. *)

LEMMA FindRefsKeeps == IInv /\ FindRefs => IInv'
<1> SUFFICES ASSUME IInv, FindRefs PROVE IInv'
  OBVIOUS
<1>1. PICK S \in Insides : \E n \in 0..NRall : \E p \in SortedBySweep(S, n) :
        /\ inside' = S /\ NR' = n /\ NRimage' = n
        /\ refperm' = [k \in Ref |-> IF k < n THEN p[k] ELSE None]
  BY DEF FindRefs
<1>2. PICK n \in 0..NRall : \E p \in SortedBySweep(S, n) :
        /\ inside' = S /\ NR' = n /\ NRimage' = n
        /\ refperm' = [k \in Ref |-> IF k < n THEN p[k] ELSE None]
  BY <1>1
<1>3. PICK p \in SortedBySweep(S, n) :
        /\ inside' = S /\ NR' = n /\ NRimage' = n
        /\ refperm' = [k \in Ref |-> IF k < n THEN p[k] ELSE None]
  BY <1>2
<1>4. S \subseteq Ref
  BY VerifyAssumption DEF VerifyAssumption
<1>5. /\ p \in [0..n - 1 -> S]
      /\ \A x \in S : \E k \in 0..n - 1 : p[k] = x
      /\ \A k, l \in 0..n - 1 : k # l => p[k] # p[l]
  <2>1. \A k, l \in 0..n - 1 : k < l => p[k] # p[l]
    BY DEF SortedBySweep
  <2>2. \A k, l \in 0..n - 1 : k # l => k < l \/ l < k
    BY Sizes
  <2> QED BY <2>1, <2>2 DEF SortedBySweep
<1>6. /\ pc = "start" /\ pc' \in {"refQuad", "bailed", "testQuad"}
      /\ ~fake' => pc' = "refQuad" /\ keep' = Ref \ QuadStars
      /\ (i' = 0 /\ igood' = 0) \/ (pc' = "bailed" /\ UNCHANGED <<i, igood>>)
  BY DEF FindRefs, StartFilter, filter
<1>7. UNCHANGED <<fake, badguys, testperm, NT, tbadguys, theta, rmatches, rprobs, mu, logodds,
                  besti, best, etheta, refstarid, near, skewed, sorted>>
  BY DEF FindRefs, tests, matches, odds, result, history
<1>8. TypeInv'
  <2>1. refperm' \in [Ref -> Ref \cup {None}]
    <3>1. ASSUME NEW k \in Ref, k < n  PROVE p[k] \in Ref
      <4>1. k \in 0..n - 1
        BY <3>1, Sizes
      <4>2. p[k] \in S
        BY <1>5, <4>1
      <4> QED BY <1>4, <4>2
    <3> QED BY <1>3, <3>1
  <2>2. inside' \subseteq Ref /\ NR' \in 0..NRimage' /\ NRimage' \in 0..NRall
    BY <1>3, <1>4, Sizes
  <2>3. i' \in Nat /\ igood' \in 0..i'
    BY <1>6 DEF IInv, TypeInv
  <2>4. /\ pc' \in {"refQuad", "refRor"} => i' <= NR'
        /\ pc' \in {"testQuad", "testRor", "match", "judge"} => i' <= NT'
    BY <1>6, <1>7, <2>2, Sizes DEF IInv, TypeInv
  <2> QED BY <1>6, <1>7, <2>1, <2>2, <2>3, <2>4 DEF IInv, TypeInv
<1>9. Permuted'
  <2>1. \A k \in 0..n - 1 : refperm'[k] = p[k]
    BY <1>3, Sizes
  <2>2. Lists(p, n, S)
    BY <1>5 DEF Lists
  <2>3. n \in Nat
    BY Sizes
  <2>4. Lists(refperm', n, S)
    BY <2>1, <2>2, <2>3, ListsSame
  <2>5. RefList' = refperm'
    BY <1>6, <1>8, RefListPlain DEF TypeInv
  <2>6. TestList' = testperm'
    BY <1>6, <1>8, TestListPlain DEF TypeInv
  <2>7. Lists(testperm', NTall, Test)
    BY <1>6, <1>7 DEF IInv, Permuted, TestList
  <2> QED BY <1>3, <2>4, <2>5, <2>6, <2>7 DEF Permuted
<1>10. OffQuad'
  <2>1. ~fake' => /\ pc' = "refQuad" /\ igood' = 0
                  /\ keep' \cap QuadStars = {}
    BY <1>6
  <2> QED BY <2>1 DEF OffQuad
<1>11. Linked' /\ Result'
  BY <1>6, <1>7, ResultEarly DEF IInv, Linked
<1> QED BY <1>8, <1>9, <1>10, <1>11 DEF IInv

LEMMA RefTurnKeeps == IInv /\ RefTurn => IInv'
<1> SUFFICES ASSUME IInv, RefTurn PROVE IInv'
  OBVIOUS
<1>1. /\ pc \in RefFilter /\ i < NR /\ i' = i + 1
      /\ UNCHANGED <<pc, fake, inside, NR, NRimage, testperm, NT, tbadguys, keep, theta, rmatches,
                     rprobs, mu, logodds, besti, best, etheta, refstarid, near, skewed, sorted>>
  BY DEF RefTurn, tests, matches, odds, result, history
<1>2. \/ /\ refperm[i] \in keep /\ refperm' = [refperm EXCEPT ![igood] = refperm[i]]
         /\ igood' = igood + 1 /\ badguys' = badguys
      \/ /\ badguys' = [badguys EXCEPT ![i - igood] = refperm[i]]
         /\ refperm' = refperm /\ igood' = igood
  BY DEF RefTurn
<1>3. /\ refperm \in [Ref -> Ref \cup {None}] /\ badguys \in [Ref -> Ref \cup {None}]
      /\ NRimage \in 0..NRall /\ i \in 0..NRimage - 1 /\ igood \in 0..i /\ i \in Ref
      /\ NR \in 0..NRimage
  BY <1>1, Sizes DEF IInv, TypeInv
<1>4. TypeInv'
  <2>1. refperm' \in [Ref -> Ref \cup {None}] /\ badguys' \in [Ref -> Ref \cup {None}]
    BY <1>2, <1>3
  <2>2. i' \in Nat /\ igood' \in 0..i' /\ i' <= NR'
    BY <1>1, <1>2, <1>3, Sizes
  <2>3. pc' \notin {"testQuad", "testRor", "match", "judge"}
    BY <1>1
  <2> QED BY <1>1, <2>1, <2>2, <2>3 DEF IInv, TypeInv
<1>5. Permuted'
  <2>1. Lists(View(refperm, badguys, igood, i), NRimage, inside)
    BY <1>1 DEF IInv, Permuted, RefList
  <2>2. Lists(View(refperm', badguys', igood', i + 1), NRimage, inside)
    <3>1. CASE refperm' = [refperm EXCEPT ![igood] = refperm[i]] /\ igood' = igood + 1
               /\ badguys' = badguys
      BY <1>3, <2>1, <3>1, Sizes, KeepTurn
    <3>2. CASE badguys' = [badguys EXCEPT ![i - igood] = refperm[i]] /\ refperm' = refperm
               /\ igood' = igood
      <4>1. /\ i \in 0..NRall - 1 /\ igood \in 0..i /\ NRall \in Nat
            /\ refperm \in [0..NRall - 1 -> Ref \cup {None}] /\ badguys \in [0..NRall - 1 -> Ref \cup {None}]
        BY <1>3, Sizes
      <4>2. Lists(View(refperm, Dropped(refperm, badguys, igood, i), igood, i + 1), NRimage, inside)
        BY <4>1, <2>1, DropTurn
      <4> QED BY <3>2, <4>2 DEF Dropped
    <3> QED BY <1>2, <3>1, <3>2
  <2>3. RefList' = View(refperm', badguys', igood', i + 1)
    BY <1>1 DEF RefList
  <2>4. TestList' = TestList
    BY <1>1 DEF TestList
  <2> QED BY <1>1, <2>2, <2>3, <2>4 DEF IInv, Permuted
<1>6. OffQuad'
  <2> SUFFICES ASSUME ~fake' PROVE OffQuad'
    BY DEF OffQuad
  <2>1. ASSUME pc = "refQuad"
        PROVE  keep \cap QuadStars = {} /\ \A k \in 0..igood' - 1 : refperm'[k] \in keep
    <3>1. keep \cap QuadStars = {} /\ \A k \in 0..igood - 1 : refperm[k] \in keep
      BY <1>1, <2>1 DEF IInv, OffQuad
    <3>2. CASE refperm[i] \in keep /\ refperm' = [refperm EXCEPT ![igood] = refperm[i]]
               /\ igood' = igood + 1
      <4>1. ASSUME NEW k \in 0..igood' - 1  PROVE refperm'[k] \in keep
        <5>1. k \in Ref /\ (k = igood \/ k \in 0..igood - 1)
          BY <1>3, <3>2, Sizes
        <5>2. refperm'[k] = IF k = igood THEN refperm[i] ELSE refperm[k]
          BY <1>3, <3>2, <5>1
        <5> QED BY <3>1, <3>2, <5>1, <5>2
      <4> QED BY <3>1, <4>1
    <3>3. CASE refperm' = refperm /\ igood' = igood
      BY <3>1, <3>3
    <3> QED BY <1>2, <3>1, <3>2, <3>3
  <2>2. ASSUME pc = "refRor"
        PROVE  \A k \in 0..NR - 1 : refperm'[k] \notin QuadStars
    <3>1. \A k \in 0..NR - 1 : refperm[k] \notin QuadStars
      BY <1>1, <2>2 DEF IInv, OffQuad
    <3>2. i \in 0..NR - 1 /\ \A k \in 0..NR - 1 : k \in Ref
      BY <1>1, <1>3, Sizes
    <3>3. \A k \in 0..NR - 1 : refperm'[k] = refperm[k] \/ refperm'[k] = refperm[i]
      BY <1>2, <1>3, <3>2
    <3> QED BY <3>1, <3>2, <3>3
  <2>3. pc = "refRor" => \A k \in 0..NT - 1 : testperm[k] \notin QuadTests
    BY <1>1 DEF IInv, OffQuad
  <2> QED BY <1>1, <2>1, <2>2, <2>3 DEF OffQuad
<1>7. Linked' /\ Result'
  BY <1>1, ResultEarly DEF IInv, Linked
<1> QED BY <1>4, <1>5, <1>6, <1>7 DEF IInv

LEMMA RefEndKeeps == IInv /\ RefEnd => IInv'
<1> SUFFICES ASSUME IInv, RefEnd PROVE IInv'
  OBVIOUS
<1>1. /\ pc \in RefFilter /\ i = NR /\ NR' = igood
      /\ refperm' = View(refperm, badguys, igood, i)
      /\ UNCHANGED <<fake, inside, NRimage, badguys, testperm, NT, tbadguys, theta, rmatches,
                     rprobs, mu, logodds, besti, best, etheta, refstarid, near, skewed, sorted>>
  BY DEF RefEnd, Rejoin, View, tests, matches, odds, result, history
<1>2. \/ pc' = "bailed" /\ UNCHANGED <<i, igood>>
      \/ pc' = "bailed" /\ i' = 0 /\ igood' = 0
      \/ pc' = "match" /\ pc = "refRor" /\ i' = 0 /\ igood' = 0 /\ NT # 0
      \/ pc' = "testQuad" /\ i' = 0 /\ igood' = 0 /\ keep' \cap QuadTests = {}
  BY DEF RefEnd, StartMatching, StartFilter, filter
<1>3. /\ refperm \in [Ref -> Ref \cup {None}] /\ badguys \in [Ref -> Ref \cup {None}]
      /\ NRimage \in 0..NRall /\ i \in 0..NRimage /\ igood \in 0..i
      /\ testperm \in [Test -> Test] /\ NT \in 0..NTall
  BY <1>1, Sizes DEF IInv, TypeInv
<1>4. TypeInv'
  <2>1. refperm' \in [Ref -> Ref \cup {None}]
    <3>1. ASSUME NEW k \in Ref, igood <= k, k < i  PROVE badguys[k - igood] \in Ref \cup {None}
      <4>1. k - igood \in Ref
        BY <1>3, <3>1, Sizes
      <4> QED BY <1>3, <4>1
    <3> QED BY <1>1, <1>3, <3>1 DEF View
  <2>2. NR' \in 0..NRimage' /\ i' \in Nat /\ igood' \in 0..i'
    BY <1>1, <1>2, <1>3, Sizes
  <2>3. /\ pc' \in {"refQuad", "refRor"} => i' <= NR'
        /\ pc' \in {"testQuad", "testRor", "match", "judge"} => i' <= NT'
    BY <1>1, <1>2, <1>3, Sizes
  <2>4. pc' \in {"bailed", "match", "testQuad"}
    BY <1>2
  <2> QED BY <1>1, <2>1, <2>2, <2>3, <2>4 DEF IInv, TypeInv
<1>5. Permuted'
  <2>1. RefList' = RefList
    BY <1>1, <1>2 DEF RefList
  <2>2. TestList' = testperm'
    BY <1>1, <1>2, <1>3, TestListPlain
  <2>3. TestList = testperm
    BY <1>1 DEF TestList
  <2> QED BY <1>1, <2>1, <2>2, <2>3 DEF IInv, Permuted
<1>6. OffQuad'
  <2> SUFFICES ASSUME ~fake' PROVE OffQuad'
    BY DEF OffQuad
  <2>1. ASSUME NEW k \in 0..NR' - 1  PROVE refperm'[k] \notin QuadStars
    <3>1. k \in Ref /\ k \in 0..igood - 1 /\ k \in 0..NR - 1
      BY <1>1, <1>3, Sizes
    <3>2. refperm'[k] = refperm[k]
      BY <1>1, <1>3, <3>1, Sizes DEF View
    <3>3. CASE pc = "refQuad"
      BY <1>1, <3>1, <3>2, <3>3 DEF IInv, OffQuad
    <3>4. CASE pc = "refRor"
      BY <1>1, <3>1, <3>2, <3>4 DEF IInv, OffQuad
    <3> QED BY <1>1, <3>3, <3>4
  <2>2. pc' = "testQuad" => keep' \cap QuadTests = {} /\ igood' = 0
    BY <1>2
  <2>3. pc' = "match" => \A k \in 0..NT' - 1 : testperm'[k] \notin QuadTests
    BY <1>1, <1>2 DEF IInv, OffQuad
  <2> QED BY <1>2, <2>1, <2>2, <2>3 DEF OffQuad
<1>7. Linked'
  <2>1. pc' = "match" => i' = 0 /\ i' < NT'
    BY <1>1, <1>2, <1>3, Sizes
  <2>2. pc' \notin {"judge", "accepted"}
    BY <1>2
  <2> QED BY <2>1, <2>2 DEF Linked, Linking
<1>8. Result'
  BY <1>1, <1>2, ResultEarly DEF IInv
<1> QED BY <1>4, <1>5, <1>6, <1>7, <1>8 DEF IInv

LEMMA TestTurnKeeps == IInv /\ TestTurn => IInv'
<1> SUFFICES ASSUME IInv, TestTurn PROVE IInv'
  OBVIOUS
<1>1. /\ pc \in TestFilter /\ i < NT /\ i' = i + 1
      /\ UNCHANGED <<pc, fake, inside, refperm, NR, NRimage, badguys, NT, keep, theta, rmatches,
                     rprobs, mu, logodds, besti, best, etheta, refstarid, near, skewed, sorted>>
  BY DEF TestTurn, refs, matches, odds, result, history
<1>2. \/ /\ testperm[i] \in keep /\ testperm' = [testperm EXCEPT ![igood] = testperm[i]]
         /\ igood' = igood + 1 /\ tbadguys' = tbadguys
      \/ /\ tbadguys' = [tbadguys EXCEPT ![i - igood] = testperm[i]]
         /\ testperm' = testperm /\ igood' = igood
  BY DEF TestTurn
<1>3. /\ testperm \in [Test -> Test] /\ tbadguys \in [Test -> Test \cup {None}]
      /\ i \in 0..NTall - 1 /\ igood \in 0..i /\ i \in Test
      /\ NT \in 0..NTall
  BY <1>1, Sizes DEF IInv, TypeInv
<1>4. TypeInv'
  <2>1. testperm' \in [Test -> Test] /\ tbadguys' \in [Test -> Test \cup {None}]
    BY <1>2, <1>3
  <2>2. i' \in Nat /\ igood' \in 0..i' /\ i' <= NT'
    <3>1. i' = i + 1 /\ (igood' = igood + 1 \/ igood' = igood) /\ NT' = NT
      BY <1>1, <1>2
    <3> QED BY <1>1, <1>3, <3>1, Sizes
  <2>3. pc' \notin {"refQuad", "refRor"}
    BY <1>1
  <2> QED BY <1>1, <2>1, <2>2, <2>3 DEF IInv, TypeInv
<1>5. Permuted'
  <2>1. Lists(View(testperm, tbadguys, igood, i), NTall, Test)
    BY <1>1 DEF IInv, Permuted, TestList
  <2>2. Lists(View(testperm', tbadguys', igood', i + 1), NTall, Test)
    <3>1. CASE testperm' = [testperm EXCEPT ![igood] = testperm[i]] /\ igood' = igood + 1
               /\ tbadguys' = tbadguys
      <4>1. NTall \in 0..NTall
        BY Sizes
      <4> QED BY <1>3, <2>1, <3>1, <4>1, Sizes, KeepTurn
    <3>2. CASE tbadguys' = [tbadguys EXCEPT ![i - igood] = testperm[i]] /\ testperm' = testperm
               /\ igood' = igood
      <4>1. /\ i \in 0..NTall - 1 /\ igood \in 0..i /\ NTall \in Nat
            /\ testperm \in [0..NTall - 1 -> Test] /\ tbadguys \in [0..NTall - 1 -> Test \cup {None}]
        BY <1>3, Sizes
      <4>2. Lists(View(testperm, Dropped(testperm, tbadguys, igood, i), igood, i + 1), NTall, Test)
        BY <4>1, <2>1, DropTurn
      <4> QED BY <3>2, <4>2 DEF Dropped
    <3> QED BY <1>2, <3>1, <3>2
  <2>3. TestList' = View(testperm', tbadguys', igood', i + 1)
    BY <1>1 DEF TestList
  <2>4. RefList' = RefList /\ pc # "start"
    BY <1>1 DEF RefList
  <2> QED BY <1>1, <2>2, <2>3, <2>4 DEF IInv, Permuted
<1>6. OffQuad'
  <2> SUFFICES ASSUME ~fake' PROVE OffQuad'
    BY DEF OffQuad
  <2>1. ASSUME pc = "testQuad"
        PROVE  keep \cap QuadTests = {} /\ \A k \in 0..igood' - 1 : testperm'[k] \in keep
    <3>1. keep \cap QuadTests = {} /\ \A k \in 0..igood - 1 : testperm[k] \in keep
      BY <1>1, <2>1 DEF IInv, OffQuad
    <3>2. CASE testperm[i] \in keep /\ testperm' = [testperm EXCEPT ![igood] = testperm[i]]
               /\ igood' = igood + 1
      <4>1. ASSUME NEW k \in 0..igood' - 1  PROVE testperm'[k] \in keep
        <5>1. k \in Test /\ (k = igood \/ k \in 0..igood - 1)
          BY <1>3, <3>2, Sizes
        <5>2. testperm'[k] = IF k = igood THEN testperm[i] ELSE testperm[k]
          BY <1>3, <3>2, <5>1
        <5> QED BY <3>1, <3>2, <5>1, <5>2
      <4> QED BY <3>1, <4>1
    <3>3. CASE testperm' = testperm /\ igood' = igood
      BY <3>1, <3>3
    <3> QED BY <1>2, <3>1, <3>2, <3>3
  <2>2. ASSUME pc = "testRor"
        PROVE  \A k \in 0..NT - 1 : testperm'[k] \notin QuadTests
    <3>1. \A k \in 0..NT - 1 : testperm[k] \notin QuadTests
      BY <1>1, <2>2 DEF IInv, OffQuad
    <3>2. i \in 0..NT - 1 /\ \A k \in 0..NT - 1 : k \in Test
      BY <1>1, <1>3, Sizes
    <3>3. \A k \in 0..NT - 1 : testperm'[k] = testperm[k] \/ testperm'[k] = testperm[i]
      BY <1>2, <1>3, <3>2
    <3> QED BY <3>1, <3>2, <3>3
  <2>3. \A k \in 0..NR - 1 : refperm[k] \notin QuadStars
    BY <1>1 DEF IInv, OffQuad
  <2> QED BY <1>1, <2>1, <2>2, <2>3 DEF OffQuad
<1>7. Linked' /\ Result'
  BY <1>1, ResultEarly DEF IInv, Linked
<1> QED BY <1>4, <1>5, <1>6, <1>7 DEF IInv

LEMMA TestEndKeeps == IInv /\ TestEnd => IInv'
<1> SUFFICES ASSUME IInv, TestEnd PROVE IInv'
  OBVIOUS
<1>1. /\ pc \in TestFilter /\ i = NT /\ NT' = igood
      /\ testperm' = View(testperm, tbadguys, igood, i)
      /\ UNCHANGED <<fake, inside, refperm, NR, NRimage, badguys, tbadguys, theta, rmatches,
                     rprobs, mu, logodds, besti, best, etheta, refstarid, near, skewed, sorted>>
  BY DEF TestEnd, Rejoin, View, refs, matches, odds, result, history
<1>2. \/ pc' = "bailed" /\ i' = 0 /\ igood' = 0
      \/ pc' = "match" /\ fake /\ i' = 0 /\ igood' = 0 /\ NT' # 0
      \/ pc' = "uniformize" /\ UNCHANGED <<i, igood>> /\ pc = "testQuad"
      \/ pc' = "refRor" /\ i' = 0 /\ igood' = 0 /\ pc = "testRor"
  BY <1>1 DEF TestEnd, StartMatching, StartFilter, filter
<1>3. /\ testperm \in [Test -> Test] /\ tbadguys \in [Test -> Test \cup {None}]
      /\ i \in 0..NTall /\ igood \in 0..i
      /\ refperm \in [Ref -> Ref \cup {None}] /\ NR \in Nat
  BY <1>1, Sizes, SMTT(30) DEF IInv, TypeInv
<1>4. Lists(testperm', NTall, Test)
  <2>1. testperm' = TestList
    BY <1>1 DEF TestList
  <2> QED BY <2>1 DEF IInv, Permuted
<1>5. TypeInv'
  <2>1. testperm' \in [Test -> Test]
    <3>1. DOMAIN testperm' = Test /\ testperm' = [k \in Test |-> testperm'[k]]
      BY <1>1, <1>3 DEF View
    <3>2. \A k \in Test : testperm'[k] \in Test
      BY <1>4 DEF Lists
    <3> QED BY <3>1, <3>2
  <2>2. NT' \in 0..NTall /\ i' \in Nat /\ igood' \in 0..i'
    BY <1>1, <1>2, <1>3, Sizes
  <2>3. /\ pc' \in {"refQuad", "refRor"} => i' <= NR'
        /\ pc' \in {"testQuad", "testRor", "match", "judge"} => i' <= NT'
    BY <1>1, <1>2, <1>3, <2>2, Sizes
  <2>4. pc' \in {"bailed", "match", "uniformize", "refRor"}
    BY <1>2
  <2> QED BY <1>1, <2>1, <2>2, <2>3, <2>4 DEF IInv, TypeInv
<1>6. Permuted'
  <2>1. TestList' = testperm'
    BY <1>1, <1>2 DEF TestList
  <2>2. RefList' = refperm'
    BY <1>1, <1>2, <1>3, RefListPlain
  <2>3. RefList = refperm /\ pc # "start"
    BY <1>1 DEF RefList
  <2> QED BY <1>1, <1>4, <2>1, <2>2, <2>3 DEF IInv, Permuted
<1>7. OffQuad'
  <2> SUFFICES ASSUME ~fake' PROVE OffQuad'
    BY DEF OffQuad
  <2>1. ASSUME NEW k \in 0..NT' - 1  PROVE testperm'[k] \notin QuadTests
    <3>1. k \in Test /\ k \in 0..igood - 1 /\ k \in 0..NT - 1
      BY <1>1, <1>3, Sizes
    <3>2. testperm'[k] = testperm[k]
      BY <1>1, <1>3, <3>1, Sizes DEF View
    <3>3. CASE pc = "testQuad"
      BY <1>1, <3>1, <3>2, <3>3 DEF IInv, OffQuad
    <3>4. CASE pc = "testRor"
      BY <1>1, <3>1, <3>2, <3>4 DEF IInv, OffQuad
    <3> QED BY <1>1, <3>3, <3>4
  <2>2. \A k \in 0..NR' - 1 : refperm'[k] \notin QuadStars
    BY <1>1 DEF IInv, OffQuad
  <2> QED BY <1>2, <2>1, <2>2 DEF OffQuad
<1>8. Linked'
  <2>1. pc' = "match" => i' = 0 /\ i' < NT'
    BY <1>1, <1>2, <1>3, Sizes
  <2>2. pc' \notin {"judge", "accepted"}
    BY <1>2
  <2> QED BY <2>1, <2>2 DEF Linked, Linking
<1>9. Result'
  BY <1>1, <1>2, ResultEarly DEF IInv
<1> QED BY <1>5, <1>6, <1>7, <1>8, <1>9 DEF IInv

LEMMA UniformizeKeeps == IInv /\ verify_uniformize_field => IInv'
<1> SUFFICES ASSUME IInv, verify_uniformize_field PROVE IInv'
  OBVIOUS
<1>1. PICK p \in [0..NT - 1 -> 0..NT - 1] :
        /\ \A k, l \in 0..NT - 1 : k # l => p[k] # p[l]
        /\ testperm' = [k \in Test |-> IF k < NT THEN testperm[p[k]] ELSE testperm[k]]
  BY DEF verify_uniformize_field
<1>2. /\ pc = "uniformize"
      /\ UNCHANGED <<fake, inside, refperm, NR, NRimage, badguys, NT, tbadguys, theta, rmatches,
                     rprobs, mu, logodds, besti, best, etheta, refstarid, near, skewed, sorted>>
      /\ i' = 0 /\ igood' = 0
      /\ \/ pc' \in {"testRor", "bailed"}
         \/ pc' = "match" /\ NT # 0
  BY DEF verify_uniformize_field, StartMatching, StartFilter, refs, matches, odds, result, history
<1>3. testperm \in [Test -> Test] /\ NT \in 0..NTall
  BY DEF IInv, TypeInv
<1>4. Permutes(p, NT)
  <2>1. Distinct(p, NT)
    BY <1>1 DEF Distinct
  <2>2. NT \in Nat
    BY <1>3
  <2> QED BY <2>1, <2>2, InjectionIsOnto
<1> DEFINE to == [k \in Test |-> IF k < NT THEN p[k] ELSE k]
<1>5. Permutes(to, NTall)
  <2>1. to \in [0..NTall - 1 -> 0..NTall - 1]
    BY <1>1, <1>3, Sizes
  <2>2. ASSUME NEW k \in 0..NTall - 1, NEW l \in 0..NTall - 1, k # l
        PROVE  to[k] # to[l]
    <3>1. k < NT => p[k] \in 0..NT - 1
      BY <1>1, <1>3, Sizes
    <3>2. l < NT => p[l] \in 0..NT - 1
      BY <1>1, <1>3, Sizes
    <3>3. k < NT /\ l < NT => p[k] # p[l]
      BY <1>1, <1>3, <2>2, Sizes
    <3> QED BY <1>3, <2>2, <3>1, <3>2, <3>3, Sizes
  <2>3. ASSUME NEW k \in 0..NTall - 1  PROVE \E l \in 0..NTall - 1 : to[l] = k
    <3>1. CASE k < NT
      <4>1. PICK l \in 0..NT - 1 : p[l] = k
        BY <1>3, <1>4, <3>1, Sizes DEF Permutes
      <4>2. l \in 0..NTall - 1 /\ to[l] = k
        BY <1>3, <4>1, Sizes
      <4> QED BY <4>2
    <3>2. CASE k >= NT
      <4>1. to[k] = k
        BY <1>3, <3>2, Sizes
      <4> QED BY <4>1
    <3> QED BY <1>3, <3>1, <3>2, Sizes
  <2> QED BY <2>1, <2>2, <2>3 DEF Permutes
<1>6. Lists(testperm', NTall, Test)
  <2>1. Lists(testperm, NTall, Test)
    BY <1>2 DEF IInv, Permuted, TestList
  <2>2. ReadThrough(testperm', testperm, to, NTall)
    BY <1>1, <1>3, Sizes DEF ReadThrough
  <2> HIDE DEF to
  <2> QED BY <1>5, <2>1, <2>2, Sizes, ListsPermuted
<1>7. TypeInv'
  <2>1. testperm' \in [Test -> Test]
    <3>1. \A k \in Test : testperm'[k] \in Test
      BY <1>6 DEF Lists
    <3> QED BY <1>1, <3>1
  <2>2. i' \in Nat /\ igood' \in 0..i' /\ i' <= NT'
    BY <1>2, <1>3
  <2>3. pc' \in {"testRor", "match", "bailed"}
    BY <1>2
  <2> QED BY <1>2, <2>1, <2>2, <2>3 DEF IInv, TypeInv
<1>8. Permuted'
  <2>1. TestList' = testperm'
    BY <1>2, <1>7, TestListPlain DEF TypeInv
  <2>2. RefList' = RefList
    BY <1>2 DEF RefList
  <2> QED BY <1>2, <1>6, <2>1, <2>2 DEF IInv, Permuted
<1>9. OffQuad'
  <2> SUFFICES ASSUME ~fake' PROVE OffQuad'
    BY DEF OffQuad
  <2>1. ASSUME NEW k \in 0..NT' - 1  PROVE testperm'[k] \notin QuadTests
    <3>1. k \in Test /\ k \in 0..NT - 1 /\ p[k] \in 0..NT - 1
      BY <1>1, <1>2, <1>3, Sizes
    <3>2. testperm'[k] = testperm[p[k]]
      BY <1>1, <1>3, <3>1, Sizes
    <3> QED BY <1>2, <3>1, <3>2 DEF IInv, OffQuad
  <2>2. \A k \in 0..NR' - 1 : refperm'[k] \notin QuadStars
    BY <1>2 DEF IInv, OffQuad
  <2> QED BY <1>2, <2>1, <2>2 DEF OffQuad
<1>10. Linked'
  <2>1. pc' = "match" => i' = 0 /\ i' < NT'
    BY <1>2, <1>3, Sizes
  <2>2. pc' \notin {"judge", "accepted"}
    BY <1>2
  <2> QED BY <2>1, <2>2 DEF Linked, Linking
<1>11. Result'
  BY <1>2, ResultEarly DEF IInv
<1> QED BY <1>7, <1>8, <1>9, <1>10, <1>11 DEF IInv

-----------------------------------------------------------------------------
(* The matching keeps the invariant. *)

\* While the test stars are matched, and after, nothing is lost from the lists.
LEMMA ListsInMatching ==
  ASSUME IInv, pc \in {"match", "judge", "accepted"}
  PROVE  /\ \A r \in 0..NRimage - 1 : refperm[r] \in inside
         /\ \A r, q \in 0..NRimage - 1 : r # q => refperm[r] # refperm[q]
         /\ \A k, l \in Test : k # l => testperm[k] # testperm[l]
         /\ inside \subseteq Ref /\ NRimage \in 0..NRall /\ NR \in 0..NRimage
<1>1. Lists(refperm, NRimage, inside) /\ Lists(testperm, NTall, Test)
  BY DEF IInv, Permuted, RefList, TestList
<1> QED BY <1>1 DEF Lists, IInv, TypeInv

LEMMA ScoreSteps ==
  ASSUME NEW change, Score(change)
  PROVE  /\ i' = i + 1 /\ pc' \in {"match", "judge"} /\ (pc' = "match" => i + 1 # NT)
         /\ (besti' = besti \/ besti' = i)
  BY DEF Score

\* What every turn of the matching loop does besides its match.
MatchTurn ==
  /\ pc = "match" /\ pc' \in {"match", "judge"} /\ (pc' = "match" => i + 1 # NT)
  /\ i' = i + 1 /\ (besti' = besti \/ besti' = i)
  /\ UNCHANGED <<fake, inside, refperm, NR, NRimage, badguys, testperm, NT, tbadguys, igood,
                 keep, etheta, refstarid, sorted>>

MatchTypes ==
  /\ theta \in [Test -> Theta] /\ rmatches \in [Ref -> Test \cup {None}]
  /\ rprobs \in [Ref -> Int] /\ mu \in Nat
  /\ near \in [Test -> Ref \cup {None}] /\ skewed \in BOOLEAN

LEMMA MatchTurnKeeps == IInv /\ MatchTurn /\ MatchTypes' /\ Linking' => IInv'
<1> SUFFICES ASSUME IInv, MatchTurn, MatchTypes', Linking' PROVE IInv'
  OBVIOUS
<1>1. i \in Nat /\ i < NT /\ NT \in 0..NTall /\ i \in Test
  BY Sizes DEF IInv, TypeInv, Linked, MatchTurn
<1>2. TypeInv'
  <2>1. i' \in Nat /\ igood' \in 0..i' /\ i' <= NT'
    BY <1>1, Sizes DEF IInv, TypeInv, MatchTurn
  <2>2. besti' \in Test \cup {None}
    BY <1>1 DEF IInv, TypeInv, MatchTurn
  <2>3. pc' \in {"match", "judge"}
    BY DEF MatchTurn
  <2> QED BY <2>1, <2>2, <2>3 DEF IInv, TypeInv, MatchTurn, MatchTypes
<1>3. Permuted'
  BY DEF IInv, Permuted, RefList, TestList, MatchTurn
<1>4. OffQuad'
  BY DEF IInv, OffQuad, MatchTurn
<1>5. Linked'
  <2>1. pc' = "match" => i' < NT'
    BY <1>1, Sizes DEF MatchTurn
  <2> QED BY <2>1 DEF Linked
<1>6. Result'
  BY ResultEarly DEF IInv, MatchTurn
<1> QED BY <1>2, <1>3, <1>4, <1>5, <1>6 DEF IInv

LEMMA DistractorKeeps == IInv /\ Distractor => IInv'
<1> SUFFICES ASSUME IInv, Distractor PROVE IInv'
  OBVIOUS
<1>1. /\ MatchTurn /\ theta' = [theta EXCEPT ![i] = DISTRACTOR]
      /\ UNCHANGED <<rmatches, rprobs, mu, near, skewed>>
  BY ScoreSteps DEF Distractor, MatchTurn, refs, tests, result, history
<1>2. MatchTypes'
  <2>1. theta' \in [Test -> Theta]
    BY <1>1 DEF IInv, TypeInv
  <2> QED BY <1>1, <2>1 DEF IInv, TypeInv, MatchTypes
<1>3. Linking'
  <2> SUFFICES ASSUME NEW k \in 0..i' - 1, theta'[k] >= 0
               PROVE  /\ \E r \in 0..NR' - 1 : rmatches'[r] = k /\ refperm'[r] = theta'[k]
                      /\ near'[testperm'[k]] = theta'[k]
    BY DEF Linking
  <2>1. theta \in [Test -> Theta] /\ i \in Nat /\ i < NT /\ NT \in 0..NTall
    BY <1>1 DEF IInv, TypeInv, Linked, MatchTurn
  <2>2. k \in Test /\ (k = i \/ k \in 0..i - 1)
    BY <1>1, <2>1, Sizes DEF MatchTurn
  <2>3. k # i
    BY <1>1, <2>1, <2>2
  <2>4. theta'[k] = theta[k] /\ k \in 0..i - 1
    BY <1>1, <2>1, <2>2, <2>3
  <2> QED BY <1>1, <2>4 DEF IInv, Linked, Linking, MatchTurn
<1> QED BY <1>1, <1>2, <1>3, MatchTurnKeeps

LEMMA NewMatchKeeps == IInv /\ NewMatch => IInv'
<1> SUFFICES ASSUME IInv, NewMatch PROVE IInv'
  OBVIOUS
<1>1. PICK r \in 0..NR - 1, fg \in LogFg :
        /\ rmatches[r] = None
        /\ theta' = [theta EXCEPT ![i] = refperm[r]]
        /\ near' = [near EXCEPT ![testperm[i]] = refperm[r]]
        /\ rmatches' = [rmatches EXCEPT ![r] = i]
        /\ rprobs' = [rprobs EXCEPT ![r] = fg]
        /\ Score(fg)
  BY DEF NewMatch
<1>2. MatchTurn /\ mu' = mu + 1 /\ UNCHANGED skewed
  <2>1. /\ i' = i + 1 /\ pc' \in {"match", "judge"} /\ (pc' = "match" => i + 1 # NT)
        /\ (besti' = besti \/ besti' = i)
    BY <1>1, ScoreSteps
  <2> QED BY <2>1 DEF NewMatch, MatchTurn, refs, tests, result
<1>3. /\ theta \in [Test -> Theta] /\ rmatches \in [Ref -> Test \cup {None}]
      /\ near \in [Test -> Ref \cup {None}] /\ rprobs \in [Ref -> Int] /\ mu \in Nat
      /\ testperm \in [Test -> Test] /\ skewed \in BOOLEAN
      /\ i \in Nat /\ i < NT /\ NT \in 0..NTall
  BY <1>2 DEF IInv, TypeInv, Linked, MatchTurn
<1>4. /\ r \in Ref /\ refperm[r] \in Ref /\ i \in Test
      /\ \A k, l \in Test : k # l => testperm[k] # testperm[l]
  <2>1. /\ \A q \in 0..NRimage - 1 : refperm[q] \in inside
        /\ \A k, l \in Test : k # l => testperm[k] # testperm[l]
        /\ inside \subseteq Ref /\ NRimage \in 0..NRall /\ NR \in 0..NRimage
    BY <1>2, ListsInMatching DEF MatchTurn
  <2>2. r \in 0..NRimage - 1 /\ r \in Ref
    BY <1>1, <2>1, Sizes
  <2>3. i \in Test
    BY <1>3, Sizes
  <2> QED BY <2>1, <2>2, <2>3
<1>5. MatchTypes'
  <2>1. theta' \in [Test -> Theta] /\ near' \in [Test -> Ref \cup {None}]
    BY <1>1, <1>3, <1>4
  <2>2. rmatches' \in [Ref -> Test \cup {None}]
    BY <1>1, <1>3, <1>4
  <2>3. rprobs' \in [Ref -> Int]
    <3>1. fg \in Int
      BY <1>1, VerifyAssumption DEF VerifyAssumption
    <3> QED BY <1>1, <1>3, <3>1
  <2> QED BY <1>2, <1>3, <2>1, <2>2, <2>3 DEF MatchTypes
<1>6. Linking'
  <2> SUFFICES ASSUME NEW k \in 0..i' - 1, theta'[k] >= 0
               PROVE  /\ \E q \in 0..NR' - 1 : rmatches'[q] = k /\ refperm'[q] = theta'[k]
                      /\ near'[testperm'[k]] = theta'[k]
    BY DEF Linking
  <2>1. k \in Test /\ (k = i \/ k \in 0..i - 1)
    BY <1>2, <1>3, Sizes, SMTT(30) DEF MatchTurn
  <2>2. UNCHANGED <<refperm, testperm, NR>>
    BY <1>2 DEF MatchTurn
  <2>3. CASE k = i
    <3>1. rmatches'[r] = k /\ refperm'[r] = theta'[k]
      BY <1>1, <1>3, <1>4, <2>2, <2>3
    <3>2. near'[testperm'[k]] = theta'[k]
      BY <1>1, <1>3, <1>4, <2>2, <2>3
    <3> QED BY <1>1, <2>2, <3>1, <3>2
  <2>4. CASE k \in 0..i - 1 /\ k # i
    <3>1. theta'[k] = theta[k]
      BY <1>1, <1>3, <2>1, <2>4
    <3>2. PICK q \in 0..NR - 1 : rmatches[q] = k /\ refperm[q] = theta[k]
      BY <1>2, <2>4, <3>1 DEF IInv, Linked, Linking, MatchTurn
    <3>3. near[testperm[k]] = theta[k]
      BY <1>2, <2>4, <3>1 DEF IInv, Linked, Linking, MatchTurn
    <3>4. q # r /\ q \in Ref
      BY <1>1, <1>2, <2>1, <3>2, ListsInMatching, Sizes DEF MatchTurn
    <3>5. rmatches'[q] = k
      BY <1>1, <1>3, <3>2, <3>4
    <3>6. testperm[k] # testperm[i] /\ testperm[k] \in Test
      BY <1>3, <1>4, <2>1, <2>4
    <3>7. near'[testperm[k]] = near[testperm[k]]
      BY <1>1, <1>3, <3>6
    <3> QED BY <2>2, <3>1, <3>2, <3>3, <3>5, <3>7
  <2>5. i \notin 0..i - 1
    BY <1>3
  <2> QED BY <2>1, <2>3, <2>4, <2>5
<1> QED BY <1>2, <1>5, <1>6, MatchTurnKeeps

LEMMA ConflictKeeps == IInv /\ Conflict => IInv'
<1> SUFFICES ASSUME IInv, Conflict PROVE IInv'
  OBVIOUS
<1>1. PICK r \in 0..NR - 1, fg \in LogFg :
        /\ rmatches[r] # None
        /\ near' = [near EXCEPT ![testperm[i]] = refperm[r]]
        /\ IF switchfg(r, fg) > LogD[mu]
             THEN /\ theta' = [theta EXCEPT ![rmatches[r]] = CONFLICT, ![i] = refperm[r]]
                  /\ rmatches' = [rmatches EXCEPT ![r] = i]
                  /\ rprobs' = [rprobs EXCEPT ![r] = fg]
                  /\ skewed' = (skewed \/ \E j \in rmatches[r]..i - 1 : theta[j] < 0)
                  /\ Score(switchfg(r, fg))
             ELSE /\ theta' = [theta EXCEPT ![i] = CONFLICT]
                  /\ Score(LogD[mu]) /\ UNCHANGED <<rmatches, rprobs, skewed>>
  BY DEF Conflict
<1>2. MatchTurn /\ UNCHANGED mu
  <2>1. /\ i' = i + 1 /\ pc' \in {"match", "judge"} /\ (pc' = "match" => i + 1 # NT)
        /\ (besti' = besti \/ besti' = i)
    BY <1>1, ScoreSteps
  <2> QED BY <2>1 DEF Conflict, MatchTurn, refs, tests, result
<1>3. /\ theta \in [Test -> Theta] /\ rmatches \in [Ref -> Test \cup {None}]
      /\ near \in [Test -> Ref \cup {None}] /\ rprobs \in [Ref -> Int] /\ mu \in Nat
      /\ testperm \in [Test -> Test] /\ skewed \in BOOLEAN
      /\ i \in Nat /\ i < NT /\ NT \in 0..NTall
  BY <1>2 DEF IInv, TypeInv, Linked, MatchTurn
<1>4. /\ r \in Ref /\ refperm[r] \in Ref /\ i \in Test
      /\ \A k, l \in Test : k # l => testperm[k] # testperm[l]
  <2>1. /\ \A q \in 0..NRimage - 1 : refperm[q] \in inside
        /\ \A k, l \in Test : k # l => testperm[k] # testperm[l]
        /\ inside \subseteq Ref /\ NRimage \in 0..NRall /\ NR \in 0..NRimage
    BY <1>2, ListsInMatching DEF MatchTurn
  <2>2. r \in 0..NRimage - 1 /\ r \in Ref
    BY <1>1, <2>1, Sizes
  <2>3. i \in Test
    BY <1>3, Sizes
  <2> QED BY <2>1, <2>2, <2>3
<1> DEFINE old == rmatches[r]
<1>5. old \in Test
  BY <1>1, <1>3, <1>4
<1>6. near' \in [Test -> Ref \cup {None}]
  BY <1>1, <1>3, <1>4
<1>7. ASSUME NEW k \in 0..i - 1, theta[k] >= 0
      PROVE  /\ \E q \in 0..NR - 1 : rmatches[q] = k /\ refperm[q] = theta[k]
             /\ near'[testperm[k]] = theta[k]
  <2>1. k \in Test /\ k # i
    BY <1>3, <1>7, Sizes
  <2>2. testperm[k] # testperm[i] /\ testperm[k] \in Test
    BY <1>3, <1>4, <2>1
  <2>3. near'[testperm[k]] = near[testperm[k]]
    BY <1>1, <1>3, <2>2
  <2> QED BY <1>2, <1>7, <2>3 DEF IInv, Linked, Linking, MatchTurn
<1>8. CASE switchfg(r, fg) > LogD[mu]
  <2>1. /\ theta' = [theta EXCEPT ![old] = CONFLICT, ![i] = refperm[r]]
        /\ rmatches' = [rmatches EXCEPT ![r] = i]
        /\ rprobs' = [rprobs EXCEPT ![r] = fg]
        /\ skewed' = (skewed \/ \E j \in rmatches[r]..i - 1 : theta[j] < 0)
    BY <1>1, <1>8
  <2>2. MatchTypes'
    <3>1. theta' \in [Test -> Theta]
      BY <1>3, <1>4, <2>1
    <3>2. rmatches' \in [Ref -> Test \cup {None}]
      BY <1>3, <1>4, <2>1
    <3>3. fg \in Int
      BY <1>1, VerifyAssumption DEF VerifyAssumption
    <3>4. rprobs' \in [Ref -> Int]
      BY <1>3, <2>1, <3>3
    <3>5. skewed' \in BOOLEAN
      BY <2>1
    <3> QED BY <1>2, <1>3, <1>6, <3>1, <3>2, <3>4, <3>5 DEF MatchTypes
  <2>3. Linking'
    <3> SUFFICES ASSUME NEW k \in 0..i' - 1, theta'[k] >= 0
                 PROVE  /\ \E q \in 0..NR' - 1 : rmatches'[q] = k /\ refperm'[q] = theta'[k]
                        /\ near'[testperm'[k]] = theta'[k]
      BY DEF Linking
    <3>1. k \in Test /\ (k = i \/ k \in 0..i - 1)
      BY <1>2, <1>3, Sizes, SMTT(30) DEF MatchTurn
    <3>2. UNCHANGED <<refperm, testperm, NR>>
      BY <1>2 DEF MatchTurn
    <3>3. CASE k = i
      <4>1. rmatches'[r] = k /\ refperm'[r] = theta'[k]
        BY <1>3, <1>4, <2>1, <3>2, <3>3
      <4>2. near'[testperm'[k]] = theta'[k]
        BY <1>1, <1>3, <1>4, <2>1, <3>2, <3>3
      <4> QED BY <1>1, <3>2, <4>1, <4>2
    <3>4. CASE k \in 0..i - 1 /\ k # i
      <4>1. k # old /\ theta'[k] = theta[k]
        BY <1>3, <1>5, <2>1, <3>1, <3>4
      <4>2. PICK q \in 0..NR - 1 : rmatches[q] = k /\ refperm[q] = theta[k]
        BY <1>7, <3>4, <4>1
      <4>3. near'[testperm[k]] = theta[k]
        BY <1>7, <3>4, <4>1
      <4>4. rmatches'[q] = rmatches[q]
        BY <1>3, <1>4, <2>1, <4>1, <4>2
      <4> QED BY <3>2, <4>1, <4>2, <4>3, <4>4
    <3>5. i \notin 0..i - 1
      BY <1>3
    <3> QED BY <3>1, <3>3, <3>4, <3>5
  <2> QED BY <1>2, <2>2, <2>3, MatchTurnKeeps
<1>9. CASE ~(switchfg(r, fg) > LogD[mu])
  <2>1. theta' = [theta EXCEPT ![i] = CONFLICT] /\ UNCHANGED <<rmatches, rprobs, skewed>>
    BY <1>1, <1>9
  <2>2. MatchTypes'
    <3>1. theta' \in [Test -> Theta]
      BY <1>3, <1>4, <2>1
    <3> QED BY <1>2, <1>3, <1>6, <2>1, <3>1 DEF MatchTypes
  <2>3. Linking'
    <3> SUFFICES ASSUME NEW k \in 0..i' - 1, theta'[k] >= 0
                 PROVE  /\ \E q \in 0..NR' - 1 : rmatches'[q] = k /\ refperm'[q] = theta'[k]
                        /\ near'[testperm'[k]] = theta'[k]
      BY DEF Linking
    <3>1. k \in Test /\ (k = i \/ k \in 0..i - 1)
      BY <1>2, <1>3, Sizes, SMTT(30) DEF MatchTurn
    <3>2. theta'[i] = CONFLICT
      BY <1>3, <1>4, <2>1
    <3>3. k \in 0..i - 1 /\ theta'[k] = theta[k]
      BY <1>3, <2>1, <3>1, <3>2
    <3> QED BY <1>2, <1>7, <2>1, <3>3 DEF MatchTurn
  <2> QED BY <1>2, <2>2, <2>3, MatchTurnKeeps
<1> QED BY <1>8, <1>9

-----------------------------------------------------------------------------
(* The result. *)

\* Where an element is in a list.
LEMMA PlaceOf ==
  ASSUME NEW f, NEW n \in Nat, NEW S, Lists(f, n, S), NEW x \in S
  PROVE  /\ (CHOOSE k \in 0..n - 1 : f[k] = x) \in 0..n - 1
         /\ f[CHOOSE k \in 0..n - 1 : f[k] = x] = x
<1>1. \E k \in 0..n - 1 : f[k] = x
  BY DEF Lists
<1> QED BY <1>1

LEMMA RejectKeeps == IInv /\ Reject => IInv'
<1> SUFFICES ASSUME IInv, Reject PROVE IInv'
  OBVIOUS
<1>1. /\ pc = "judge" /\ pc' = "bailed"
      /\ UNCHANGED <<fake, refs, tests, filter, matches, odds, result, history>>
  BY DEF Reject
<1>2. TypeInv'
  BY <1>1 DEF IInv, TypeInv, refs, tests, filter, matches, odds, result, history
<1>3. Permuted'
  BY <1>1 DEF IInv, Permuted, RefList, TestList, refs, tests
<1>4. OffQuad'
  BY <1>1 DEF IInv, OffQuad, refs, tests
<1>5. Linked' /\ Result'
  BY <1>1, ResultEarly DEF IInv, Linked, result
<1> QED BY <1>2, <1>3, <1>4, <1>5 DEF IInv

\* The place of a test star among those tried.
at(t) == CHOOSE k \in Test : testperm[k] = t

LEMMA AtPlace ==
  ASSUME IInv, pc = "judge", NEW t \in Test
  PROVE  at(t) \in Test /\ testperm[at(t)] = t
<1>1. Lists(testperm, NTall, Test)
  BY DEF IInv, Permuted, TestList
<1>2. \E k \in Test : testperm[k] = t
  BY <1>1 DEF Lists
<1> QED BY <1>2 DEF at

\* A match that fixup_theta renumbers names, in the reordered arrays, the star it
\* named before; and a star of the quad has none.
LEMMA FixupNames ==
  ASSUME IInv, pc = "judge", NEW t \in Test, fixup_theta(t) >= 0
  PROVE  /\ fixup_theta(t) \in 0..NRimage - 1
         /\ refperm[fixup_theta(t)] = theta[at(t)] /\ theta[at(t)] = near[t]
         /\ at(t) \in 0..i - 1 /\ theta[at(t)] >= 0
         /\ ~fake => theta[at(t)] \notin QuadStars
<1>1. at(t) \in Test /\ testperm[at(t)] = t
  BY AtPlace
<1>2. theta \in [Test -> Theta] /\ i \in Nat /\ NT \in Nat /\ NR \in 0..NRimage /\ NRimage \in Nat
  BY Sizes DEF IInv, TypeInv
<1>3. at(t) < NT /\ at(t) < i /\ theta[at(t)] >= 0 /\ fixup_theta(t) = invrperm(theta[at(t)])
  <2>1. Unreached \in Int /\ Unreached < 0
    BY DEF Unreached
  <2>2. fixup_theta(t) = IF at(t) >= NT THEN FILTERED
                         ELSE IF at(t) >= i THEN Unreached
                         ELSE IF theta[at(t)] < 0 THEN theta[at(t)]
                         ELSE invrperm(theta[at(t)])
    BY DEF fixup_theta, at
  <2>3. theta[at(t)] \in Int /\ at(t) \in Int
    BY <1>1, <1>2, Sizes
  <2> HIDE DEF Unreached, at, invrperm, fixup_theta
  <2>4. at(t) < NT
    BY <1>2, <2>2, <2>3
  <2>5. at(t) < i
    BY <1>2, <2>1, <2>2, <2>3, <2>4
  <2>6. theta[at(t)] >= 0
    BY <1>2, <2>2, <2>3, <2>4, <2>5
  <2> QED BY <1>2, <2>2, <2>3, <2>4, <2>5, <2>6
<1>4. at(t) \in 0..i - 1
  BY <1>1, <1>2, <1>3
<1>5. PICK r \in 0..NR - 1 : rmatches[r] = at(t) /\ refperm[r] = theta[at(t)]
  BY <1>3, <1>4 DEF IInv, Linked, Linking
<1>6. near[t] = theta[at(t)]
  BY <1>1, <1>3, <1>4 DEF IInv, Linked, Linking
<1>7. Lists(refperm, NRimage, inside)
  BY DEF IInv, Permuted, RefList
<1>8. theta[at(t)] \in inside
  <2>1. r \in 0..NRimage - 1
    BY <1>2, <1>5
  <2> QED BY <1>5, <1>7, <2>1 DEF Lists
<1>9. invrperm(theta[at(t)]) \in 0..NRimage - 1 /\ refperm[invrperm(theta[at(t)])] = theta[at(t)]
  BY <1>2, <1>7, <1>8, PlaceOf DEF invrperm
<1>10. ~fake => theta[at(t)] \notin QuadStars
  BY <1>5 DEF IInv, OffQuad
<1> QED BY <1>3, <1>4, <1>6, <1>9, <1>10

\* A match of the quad that is put back.
LEMMA ReinsertNames ==
  ASSUME NEW th, NEW ids, NEW t \in Test,
         \E p \in Quad : p[1] = t /\ \E k \in 0..NRimage - 1 : ids[k] = p[2]
  PROVE  /\ Reinsert(th, ids)[t] \in 0..NRimage - 1
         /\ <<t, ids[Reinsert(th, ids)[t]]>> \in Quad
<1>1. PICK p \in Quad : p[1] = t /\ \E k \in 0..NRimage - 1 : ids[k] = p[2]
  OBVIOUS
<1>2. PICK k \in 0..NRimage - 1 : ids[k] = p[2]
  BY <1>1
<1>3. p = <<t, ids[k]>>
  BY <1>1, <1>2, VerifyAssumption DEF VerifyAssumption
<1>4. Reinsert(th, ids)[t] = CHOOSE q \in 0..NRimage - 1 : <<t, ids[q]>> \in Quad
  BY DEF Reinsert
<1>5. \E q \in 0..NRimage - 1 : <<t, ids[q]>> \in Quad
  BY <1>2, <1>3
<1> QED BY <1>4, <1>5

LEMMA FixupTyped ==
  ASSUME IInv, pc = "judge", NEW t \in Test
  PROVE  fixup_theta(t) \in Theta
<1>1. at(t) \in Test /\ theta \in [Test -> Theta]
  BY AtPlace DEF IInv, TypeInv
<1>2. CASE fixup_theta(t) >= 0
  <2>1. fixup_theta(t) \in 0..NRimage - 1 /\ NRimage \in 0..NRall
    BY <1>2, FixupNames DEF IInv, TypeInv
  <2> QED BY <2>1, Sizes
<1>3. CASE ~(fixup_theta(t) >= 0)
  <2>1. fixup_theta(t) = IF at(t) >= NT THEN FILTERED
                         ELSE IF at(t) >= i THEN Unreached
                         ELSE IF theta[at(t)] < 0 THEN theta[at(t)]
                         ELSE invrperm(theta[at(t)])
    BY DEF fixup_theta, at
  <2>2. Unreached \in Theta
    BY DEF Unreached
  <2>3. CASE at(t) >= NT \/ at(t) >= i \/ theta[at(t)] < 0
    <3> HIDE DEF at, fixup_theta, Unreached, invrperm
    <3> QED BY <1>1, <2>1, <2>2, <2>3
  <2>4. CASE ~(at(t) >= NT \/ at(t) >= i \/ theta[at(t)] < 0)
    <3>1. fixup_theta(t) = invrperm(theta[at(t)])
      BY <2>1, <2>4
    <3>2. theta[at(t)] >= 0 /\ at(t) \in 0..i - 1
      <4>1. i \in Nat /\ NT \in Nat
        BY Sizes DEF IInv, TypeInv
      <4>2. theta[at(t)] \in Int /\ at(t) \in Nat
        <5>1. theta[at(t)] \in Theta
          BY <1>1
        <5> QED BY <1>1, <5>1, Sizes
      <4> QED BY <2>4, <4>1, <4>2
    <3>3. PICK r \in 0..NR - 1 : refperm[r] = theta[at(t)]
      BY <3>2 DEF IInv, Linked, Linking
    <3>4. Lists(refperm, NRimage, inside)
      BY DEF IInv, Permuted, RefList
    <3>5. theta[at(t)] \in inside /\ NRimage \in Nat
      <4>1. NR \in 0..NRimage /\ NRimage \in Nat
        BY Sizes DEF IInv, TypeInv
      <4>2. r \in 0..NRimage - 1
        BY <3>3, <4>1
      <4> QED BY <3>3, <3>4, <4>1, <4>2 DEF Lists
    <3>6. (CHOOSE k \in 0..NRimage - 1 : refperm[k] = theta[at(t)]) \in 0..NRimage - 1
      BY <3>4, <3>5, PlaceOf
    <3>7. fixup_theta(t) \in 0..NRimage - 1
      BY <3>1, <3>6 DEF invrperm
    <3> QED BY <1>3, <3>5, <3>7
  <2> QED BY <2>3, <2>4
<1> QED BY <1>2, <1>3

LEMMA AcceptHitKeeps == IInv /\ AcceptHit => IInv'
<1> SUFFICES ASSUME IInv, AcceptHit PROVE IInv'
  OBVIOUS
<1> DEFINE th == [t \in Test |-> fixup_theta(t)]
           QuadHit(t) == /\ ~fake
                         /\ \E p \in Quad : p[1] = t
                              /\ \E k \in 0..NRimage - 1 : refstarid'[k] = p[2]
<1>1. /\ pc = "judge" /\ pc' = "accepted"
      /\ refstarid' = [k \in Ref |-> IF k < NRimage THEN refstarid[refperm[k]] ELSE refstarid[k]]
      /\ etheta' = IF fake THEN th ELSE Reinsert(th, refstarid')
  BY DEF AcceptHit
<1>2. UNCHANGED <<fake, inside, refperm, NR, NRimage, badguys, testperm, NT, tbadguys, i, igood,
                  keep, theta, rmatches, rprobs, mu, logodds, besti, best, near, skewed, sorted>>
  BY DEF AcceptHit, refs, tests, filter, matches, odds, history
<1>3. /\ \A r \in 0..NRimage - 1 : refperm[r] \in inside
      /\ \A r, q \in 0..NRimage - 1 : r # q => refperm[r] # refperm[q]
      /\ \A k, l \in Test : k # l => testperm[k] # testperm[l]
      /\ inside \subseteq Ref /\ NRimage \in 0..NRall /\ NR \in 0..NRimage
  BY <1>1, ListsInMatching
<1>4. refstarid' \in [Ref -> Ref] /\ \A k \in 0..NRimage - 1 : k \in Ref /\ refstarid'[k] = refperm[k]
  <2>1. refstarid = [r \in Ref |-> r]
    BY <1>1 DEF IInv, Result
  <2>2. ASSUME NEW k \in Ref, k < NRimage  PROVE k \in 0..NRimage - 1 /\ refperm[k] \in Ref
    <3>1. k \in 0..NRimage - 1
      BY <1>3, <2>2, Sizes
    <3> QED BY <1>3, <3>1
  <2>3. \A k \in 0..NRimage - 1 : k \in Ref /\ k < NRimage
    BY <1>3, Sizes
  <2>4. \A k \in Ref : refstarid'[k] = IF k < NRimage THEN refperm[k] ELSE k
    BY <1>1, <2>1, <2>2
  <2> QED BY <1>1, <2>2, <2>3, <2>4
<1>5. ASSUME NEW t \in Test, QuadHit(t)
      PROVE  etheta'[t] \in 0..NRimage - 1 /\ <<t, refstarid'[etheta'[t]]>> \in Quad
  <2>1. etheta' = Reinsert(th, refstarid')
    BY <1>1, <1>5
  <2> HIDE DEF th
  <2> QED BY <1>5, <2>1, ReinsertNames
<1>6. ASSUME NEW t \in Test, ~QuadHit(t)
      PROVE  etheta'[t] = fixup_theta(t)
  BY <1>1, <1>6 DEF Reinsert
<1>7. ASSUME NEW t \in Test, ~QuadHit(t), etheta'[t] >= 0
      PROVE  /\ etheta'[t] \in 0..NRimage - 1
             /\ refstarid'[etheta'[t]] = near[t] /\ near[t] = theta[at(t)]
             /\ at(t) \in 0..i - 1 /\ theta[at(t)] >= 0
             /\ ~fake => theta[at(t)] \notin QuadStars
  <2>1. fixup_theta(t) >= 0 /\ etheta'[t] = fixup_theta(t)
    BY <1>6, <1>7
  <2>2. /\ fixup_theta(t) \in 0..NRimage - 1
        /\ refperm[fixup_theta(t)] = theta[at(t)] /\ theta[at(t)] = near[t]
        /\ at(t) \in 0..i - 1 /\ theta[at(t)] >= 0
        /\ ~fake => theta[at(t)] \notin QuadStars
    <3> HIDE DEF QuadHit, th
    <3> QED BY <1>1, <2>1, FixupNames
  <2> QED BY <1>4, <2>1, <2>2
<1> HIDE DEF QuadHit, th
<1>8. TypeInv'
  <2>1. etheta' \in [Test -> Theta]
    <3>1. \A t \in Test : etheta'[t] \in Theta
      <4> TAKE t \in Test
      <4>1. CASE QuadHit(t)
        BY <1>3, <1>4, <1>5, <4>1
      <4>2. CASE ~QuadHit(t)
        BY <1>1, <1>6, <4>2, FixupTyped
      <4> QED BY <4>1, <4>2
    <3>2. etheta' = [t \in Test |-> etheta'[t]]
      <4>1. Reinsert(th, refstarid') = [t \in Test |-> Reinsert(th, refstarid')[t]]
        BY DEF Reinsert
      <4>2. th = [t \in Test |-> th[t]]
        BY DEF th
      <4> QED BY <1>1, <4>1, <4>2
    <3> QED BY <3>1, <3>2
  <2> QED BY <1>1, <1>2, <1>4, <2>1 DEF IInv, TypeInv
<1>9. Permuted'
  BY <1>1, <1>2 DEF IInv, Permuted, RefList, TestList
<1>10. OffQuad'
  BY <1>1, <1>2 DEF IInv, OffQuad
<1>11. Linked'
  BY <1>1, <1>2 DEF IInv, Linked, Linking
<1>12. ASSUME NEW u \in Test, NEW t \in Test, u # t, etheta'[u] >= 0
       PROVE  etheta'[u] # etheta'[t]
  <2> SUFFICES ASSUME etheta'[u] = etheta'[t] PROVE FALSE
    OBVIOUS
  <2>1. CASE QuadHit(u) /\ QuadHit(t)
    <3>1. <<u, refstarid'[etheta'[u]]>> \in Quad /\ <<t, refstarid'[etheta'[u]]>> \in Quad
      BY <1>5, <2>1
    <3>2. \A p, q \in Quad : (p[1] = q[1]) <=> (p[2] = q[2])
      BY VerifyAssumption DEF VerifyAssumption
    <3> QED BY <1>12, <3>1, <3>2
  <2>2. CASE ~QuadHit(u) /\ ~QuadHit(t)
    <3>1. /\ at(u) \in 0..i - 1 /\ at(t) \in 0..i - 1
          /\ theta[at(u)] = theta[at(t)] /\ theta[at(u)] >= 0 /\ theta[at(t)] >= 0
      BY <1>7, <1>12, <2>2
    <3>2. at(u) # at(t)
      BY <1>1, <1>12, AtPlace
    <3>3. PICK q \in 0..NR - 1 : rmatches[q] = at(u) /\ refperm[q] = theta[at(u)]
      BY <1>1, <3>1 DEF IInv, Linked, Linking
    <3>4. PICK r \in 0..NR - 1 : rmatches[r] = at(t) /\ refperm[r] = theta[at(t)]
      BY <1>1, <3>1 DEF IInv, Linked, Linking
    <3>5. q \in 0..NRimage - 1 /\ r \in 0..NRimage - 1
      BY <1>3, <3>3, <3>4, Sizes
    <3>6. q = r
      BY <1>3, <3>1, <3>3, <3>4, <3>5
    <3> QED BY <3>2, <3>3, <3>4, <3>6
  <2>3. ASSUME NEW v \in Test, NEW w \in Test, QuadHit(v), ~QuadHit(w), etheta'[v] = etheta'[w],
               etheta'[w] >= 0
        PROVE  FALSE
    <3>1. ~fake
      BY <2>3 DEF QuadHit
    <3>2. <<v, refstarid'[etheta'[v]]>> \in Quad
      BY <1>5, <2>3
    <3>3. refstarid'[etheta'[v]] \in QuadStars
      BY <3>2 DEF QuadStars
    <3>4. refstarid'[etheta'[w]] \notin QuadStars
      BY <1>7, <2>3, <3>1
    <3> QED BY <2>3, <3>3, <3>4
  <2> QED BY <1>12, <2>1, <2>2, <2>3
<1>13. Named'
  <2> SUFFICES ASSUME NEW t \in Test, etheta'[t] >= 0
               PROVE  \/ refstarid'[etheta'[t]] = near'[t]
                      \/ ~fake' /\ <<t, refstarid'[etheta'[t]]>> \in Quad
    BY DEF Named
  <2>1. CASE QuadHit(t)
    <3>1. ~fake
      BY <2>1 DEF QuadHit
    <3> QED BY <1>2, <1>5, <2>1, <3>1
  <2>2. CASE ~QuadHit(t)
    BY <1>2, <1>7, <2>2
  <2> QED BY <2>1, <2>2
<1>14. ASSUME ~fake', NEW p \in Quad  PROVE fixup_theta(p[1])' = FILTERED
  <2>1. p[1] \in Test
    BY VerifyAssumption DEF VerifyAssumption
  <2>2. at(p[1]) \in Test /\ testperm[at(p[1])] = p[1]
    BY <1>1, <2>1, AtPlace
  <2>3. p[1] \in QuadTests
    BY DEF QuadTests
  <2>4. at(p[1]) \notin 0..NT - 1
    BY <1>1, <1>2, <1>14, <2>2, <2>3 DEF IInv, OffQuad
  <2>5. at(p[1]) >= NT
    BY <2>2, <2>4, Sizes DEF IInv, TypeInv
  <2>6. at(p[1])' = at(p[1])
    BY <1>2 DEF at
  <2>7. fixup_theta(p[1])' = IF at(p[1])' >= NT' THEN FILTERED
                             ELSE IF at(p[1])' >= i' THEN Unreached'
                             ELSE IF theta'[at(p[1])'] < 0 THEN theta'[at(p[1])']
                             ELSE invrperm(theta[at(p[1])])'
    BY DEF fixup_theta, at
  <2> QED BY <1>2, <2>5, <2>6, <2>7
<1>15. Result'
  BY <1>1, <1>12, <1>13, <1>14 DEF Result, ThetaNames
<1> QED BY <1>8, <1>9, <1>10, <1>11, <1>15 DEF IInv

LEMMA SortRdlsKeeps == IInv /\ sort_rdls => IInv'
<1> SUFFICES ASSUME IInv, sort_rdls PROVE IInv'
  OBVIOUS
<1>1. PICK p \in Permutations(NRimage) :
        /\ sorted' = p
        /\ refstarid' = [k \in Ref |-> refstarid[p[k]]]
        /\ etheta' = [t \in Test |-> IF etheta[t] < 0 THEN etheta[t] ELSE p[etheta[t]]]
  BY DEF sort_rdls
<1>2. /\ pc = "accepted" /\ pc' = "sorted"
      /\ UNCHANGED <<fake, refs, tests, filter, matches, odds, near, skewed>>
  BY DEF sort_rdls
<1>3. p \in [Ref -> Ref] /\ \A k, l \in Ref : k # l => p[k] # p[l]
  BY <1>1 DEF Permutations
<1>4. etheta \in [Test -> Theta] /\ refstarid \in [Ref -> Ref]
  BY DEF IInv, TypeInv
<1>5. ASSUME NEW t \in Test
      PROVE  /\ etheta[t] < 0 => etheta'[t] = etheta[t] /\ etheta[t] \in Theta
             /\ ~(etheta[t] < 0) => etheta[t] \in Ref /\ etheta'[t] = p[etheta[t]]
                                    /\ etheta'[t] \in Ref
  <2>1. etheta[t] \in Theta
    BY <1>4
  <2>2. ~(etheta[t] < 0) => etheta[t] \in Ref
    BY <2>1
  <2> QED BY <1>1, <1>3, <2>1, <2>2
<1>6. TypeInv'
  <2>1. etheta' \in [Test -> Theta]
    BY <1>1, <1>5
  <2>2. refstarid' \in [Ref -> Ref] /\ sorted' \in [Ref -> Ref]
    BY <1>1, <1>3, <1>4
  <2> QED BY <1>2, <2>1, <2>2 DEF IInv, TypeInv, refs, tests, filter, matches, odds
<1>7. Permuted'
  BY <1>2 DEF IInv, Permuted, RefList, TestList, refs, tests
<1>8. OffQuad'
  BY <1>2 DEF IInv, OffQuad, refs, tests
<1>9. ASSUME NEW u \in Test, NEW t \in Test, u # t, etheta'[u] >= 0
      PROVE  etheta'[u] # etheta'[t]
  <2>1. etheta[u] \in Ref /\ etheta'[u] = p[etheta[u]] /\ etheta'[u] \in Ref /\ etheta[u] >= 0
    BY <1>5, <1>9, Sizes
  <2>2. etheta[u] # etheta[t]
    BY <1>2, <1>9, <2>1 DEF IInv, Result
  <2>3. CASE etheta[t] < 0
    BY <1>5, <2>1, <2>3, Sizes
  <2>4. CASE ~(etheta[t] < 0)
    BY <1>3, <1>5, <2>1, <2>2, <2>4
  <2> QED BY <2>3, <2>4
<1>10. ASSUME \A r \in Ref : sorted'[sorted'[r]] = r  PROVE Named'
  <2> SUFFICES ASSUME NEW t \in Test, etheta'[t] >= 0
               PROVE  \/ refstarid'[etheta'[t]] = near'[t]
                      \/ ~fake' /\ <<t, refstarid'[etheta'[t]]>> \in Quad
    BY DEF Named
  <2>1. etheta[t] \in Ref /\ etheta'[t] = p[etheta[t]] /\ etheta'[t] \in Ref /\ etheta[t] >= 0
    BY <1>5, Sizes
  <2>2. p[etheta'[t]] = etheta[t]
    BY <1>1, <1>10, <2>1
  <2>3. refstarid'[etheta'[t]] = refstarid[etheta[t]]
    BY <1>1, <2>1, <2>2
  <2>4. \/ refstarid[etheta[t]] = near[t]
        \/ ~fake /\ <<t, refstarid[etheta[t]]>> \in Quad
    BY <1>2, <2>1 DEF IInv, Result, ThetaNames, Named
  <2> QED BY <1>2, <2>3, <2>4
<1>11. Linked'
  BY <1>2 DEF Linked
<1>12. Result'
  BY <1>2, <1>9, <1>10 DEF Result, ThetaNames
<1> QED BY <1>6, <1>7, <1>8, <1>11, <1>12 DEF IInv

LEMMA StutterKeeps == IInv /\ UNCHANGED vars => IInv'
<1> SUFFICES ASSUME IInv, UNCHANGED vars PROVE IInv'
  OBVIOUS
<1> USE DEF vars, refs, tests, filter, matches, odds, result, history
<1>1. TypeInv'
  BY DEF IInv, TypeInv
<1>2. Permuted' /\ OffQuad'
  BY DEF IInv, Permuted, OffQuad, RefList, TestList
<1>3. Linked'
  BY DEF IInv, Linked, Linking
<1>4. ASSUME NEW t  PROVE fixup_theta(t)' = fixup_theta(t)
  <2>1. at(t)' = at(t)
    BY DEF at
  <2>2. invrperm(theta[at(t)])' = invrperm(theta[at(t)])
    <3>1. theta'[at(t)'] = theta[at(t)]
      BY <2>1
    <3> QED BY <3>1 DEF invrperm
  <2>3. fixup_theta(t)' = IF at(t)' >= NT' THEN FILTERED
                          ELSE IF at(t)' >= i' THEN Unreached'
                          ELSE IF theta'[at(t)'] < 0 THEN theta'[at(t)']
                          ELSE invrperm(theta[at(t)])'
    BY DEF fixup_theta, at
  <2>4. fixup_theta(t) = IF at(t) >= NT THEN FILTERED
                         ELSE IF at(t) >= i THEN Unreached
                         ELSE IF theta[at(t)] < 0 THEN theta[at(t)]
                         ELSE invrperm(theta[at(t)])
    BY DEF fixup_theta, at
  <2>5. Unreached' = Unreached
    BY DEF Unreached
  <2> QED BY <2>1, <2>2, <2>3, <2>4, <2>5
<1>5. Result'
  BY <1>4 DEF IInv, Result, ThetaNames, Named
<1> QED BY <1>1, <1>2, <1>3, <1>5 DEF IInv

-----------------------------------------------------------------------------
(* The log-odds. *)

\* What test star k is worth, given the matches so far.
Worth(k) ==
  IF theta[k] >= 0
    THEN rprobs[CHOOSE r \in 0..NR - 1 : rmatches[r] = k]
    ELSE LogD[Matched(theta, k)]

Turned == 0..i - 1      \* the test stars that had their turn

\* Before the matching there are no matches.
NoneYet ==
  pc \in {"start", "uniformize"} \cup RefFilter \cup TestFilter =>
    /\ rmatches = [r \in Ref |-> None] /\ mu = 0 /\ logodds = 0 /\ skewed = FALSE

\* A good reference star that has a match is the match of that test star.
Backed ==
  \A r \in 0..NR - 1 : rmatches[r] # None =>
    rmatches[r] \in Turned /\ theta[rmatches[r]] = refperm[r]

Scored ==
  /\ logodds \in Int
  /\ NoneYet
  /\ pc \in {"match", "judge"} => Backed /\ mu = Matched(theta, i)
  /\ OddsExact

LEMMA LikelihoodIs == Likelihood = SumFunctionOnSet([k \in Turned |-> Worth(k)], Turned)
  BY DEF Likelihood, SumFunction, Worth, Turned

(* How many of the first test stars have a match. *)

LEMMA MatchedNat ==
  ASSUME NEW th, NEW n \in Nat
  PROVE  /\ IsFiniteSet({k \in 0..n - 1 : th[k] >= 0})
         /\ Matched(th, n) \in Nat
<1> DEFINE S == {k \in 0..n - 1 : th[k] >= 0}
<1>1. S \subseteq 0..n - 1 /\ IsFiniteSet(0..n - 1)
  BY FS_Interval
<1>2. IsFiniteSet(S)
  BY <1>1, FS_Subset
<1>3. Cardinality(S) \in Nat
  BY <1>2, FS_CardinalityType
<1> QED BY <1>2, <1>3 DEF Matched

LEMMA MatchedSame ==
  ASSUME NEW th, NEW uh, NEW n \in Nat, \A k \in 0..n - 1 : th[k] = uh[k]
  PROVE  Matched(th, n) = Matched(uh, n)
<1>1. {k \in 0..n - 1 : th[k] >= 0} = {k \in 0..n - 1 : uh[k] >= 0}
  OBVIOUS
<1> QED BY <1>1 DEF Matched

LEMMA MatchedNext ==
  ASSUME NEW th, NEW n \in Nat
  PROVE  Matched(th, n + 1) = IF th[n] >= 0 THEN Matched(th, n) + 1 ELSE Matched(th, n)
<1> DEFINE S == {k \in 0..n - 1 : th[k] >= 0}
           T == {k \in 0..(n + 1) - 1 : th[k] >= 0}
<1>1. T = IF th[n] >= 0 THEN S \cup {n} ELSE S
  <2>1. 0..(n + 1) - 1 = (0..n - 1) \cup {n}
    OBVIOUS
  <2>2. \A k : k \in T <=> k \in S \/ (k = n /\ th[n] >= 0)
    BY <2>1
  <2> HIDE DEF S, T
  <2> QED BY <2>2
<1>2. n \notin S /\ IsFiniteSet(S)
  <2>1. n \notin S
    OBVIOUS
  <2>2. IsFiniteSet(S)
    BY MatchedNat
  <2> QED BY <2>1, <2>2
<1> HIDE DEF S, T
<1>3. Cardinality(S \cup {n}) = Cardinality(S) + 1
  BY <1>2, FS_AddElement
<1>4. Cardinality(T) = IF th[n] >= 0 THEN Cardinality(S) + 1 ELSE Cardinality(S)
  BY <1>1, <1>3
<1> QED BY <1>4 DEF Matched, S, T

LEMMA MatchedDrop ==
  ASSUME NEW th, NEW uh, NEW n \in Nat, NEW j \in 0..n - 1, th[j] >= 0, ~ (uh[j] >= 0),
         \A k \in 0..n - 1 : k # j => uh[k] = th[k]
  PROVE  Matched(uh, n) = Matched(th, n) - 1 /\ Matched(th, n) > 0
<1> DEFINE S == {k \in 0..n - 1 : th[k] >= 0}
           T == {k \in 0..n - 1 : uh[k] >= 0}
<1>1. T = S \ {j} /\ j \in S
  OBVIOUS
<1>2. IsFiniteSet(S) /\ Cardinality(S) \in Nat /\ Cardinality(T) \in Nat
  BY MatchedNat DEF Matched
<1> HIDE DEF S, T
<1>3. Cardinality(T) = Cardinality(S) - 1
  BY <1>1, <1>2, FS_RemoveElement
<1>4. Cardinality(S) > 0
  BY <1>2, <1>3
<1> QED BY <1>3, <1>4 DEF Matched, S, T

\* What the matching may rely on.
LEMMA InMatching ==
  ASSUME IInv, pc \in {"match", "judge"}
  PROVE  /\ i \in Nat /\ NT \in 0..NTall /\ i <= NT /\ Turned \subseteq Test
         /\ NR \in Nat /\ NR <= NRall /\ 0..NR - 1 \subseteq Ref
         /\ theta \in [Test -> Theta] /\ rmatches \in [Ref -> Test \cup {None}]
         /\ rprobs \in [Ref -> Int] /\ Linking
         /\ \A r, q \in 0..NR - 1 : r # q => refperm[r] # refperm[q]
         /\ \A r \in 0..NR - 1 : refperm[r] \in Ref
<1>1. /\ i \in Nat /\ NT \in 0..NTall /\ i <= NT /\ NR \in 0..NRimage /\ NRimage \in 0..NRall
      /\ theta \in [Test -> Theta] /\ rmatches \in [Ref -> Test \cup {None}]
      /\ rprobs \in [Ref -> Int] /\ Linking
  BY DEF IInv, TypeInv, Linked
<1>2. 0..NR - 1 \subseteq 0..NRimage - 1 /\ 0..NR - 1 \subseteq Ref /\ Turned \subseteq Test
      /\ NR \in Nat /\ NR <= NRall
  BY <1>1, Sizes DEF Turned
<1>3. /\ \A r \in 0..NRimage - 1 : refperm[r] \in inside
      /\ \A r, q \in 0..NRimage - 1 : r # q => refperm[r] # refperm[q]
      /\ inside \subseteq Ref
  BY ListsInMatching
<1> QED BY <1>1, <1>2, <1>3

\* Test stars with a match have different reference stars.
LEMMA OneStarEach ==
  ASSUME IInv, pc \in {"match", "judge"}, Backed, NEW r \in 0..NR - 1, NEW q \in 0..NR - 1,
         rmatches[r] # None, rmatches[r] = rmatches[q]
  PROVE  r = q
<1>1. theta[rmatches[r]] = refperm[r] /\ theta[rmatches[q]] = refperm[q]
  BY DEF Backed
<1> QED BY <1>1, InMatching

\* The reference star of a test star that has a match.
LEMMA StarOf ==
  ASSUME IInv, pc \in {"match", "judge"}, Backed, NEW k \in Turned, theta[k] >= 0
  PROVE  \E r \in 0..NR - 1 :
           /\ rmatches[r] = k /\ Worth(k) = rprobs[r]
           /\ \A q \in 0..NR - 1 : rmatches[q] = k => q = r
<1>1. PICK r \in 0..NR - 1 : rmatches[r] = k
  BY InMatching DEF Linking, Turned
<1>2. k # None
  BY InMatching DEF Turned
<1>3. \A q \in 0..NR - 1 : rmatches[q] = k => q = r
  BY <1>1, <1>2, OneStarEach
<1>4. (CHOOSE q \in 0..NR - 1 : rmatches[q] = k) = r
  BY <1>1, <1>3
<1> QED BY <1>1, <1>3, <1>4 DEF Worth

\* There are no more matches than good reference stars, so LogD has a value for
\* each number of them and for the next.
LEMMA MatchedBound ==
  ASSUME IInv, pc \in {"match", "judge"}, Backed, NEW n \in 0..i
  PROVE  Matched(theta, n) \in 0..NRall /\ LogD[Matched(theta, n)] \in Int
<1> DEFINE S == {k \in 0..n - 1 : theta[k] >= 0}
           f == [k \in S |-> CHOOSE r \in 0..NR - 1 : rmatches[r] = k]
<1>1. n \in Nat /\ n <= i /\ i \in Nat /\ NR \in Nat /\ NR <= NRall /\ NRall \in Nat
  BY InMatching, Sizes
<1>2. ASSUME NEW k \in S PROVE f[k] \in 0..NR - 1 /\ rmatches[f[k]] = k
  <2>1. k \in Turned /\ theta[k] >= 0
    BY <1>1 DEF Turned
  <2>2. \E r \in 0..NR - 1 : rmatches[r] = k
    BY <2>1, StarOf
  <2> QED BY <2>2
<1>3. f \in Injection(S, 0..NR - 1)
  <2>1. f \in [S -> 0..NR - 1]
    BY <1>2
  <2>2. \A k, l \in S : f[k] = f[l] => k = l
    BY <1>2
  <2> QED BY <2>1, <2>2 DEF Injection, IsInjective
<1>4. IsFiniteSet(0..NR - 1) /\ Cardinality(0..NR - 1) = NR
  BY <1>1, FS_Interval
<1> HIDE DEF S, f
<1>5. Cardinality(S) <= NR
  BY <1>3, <1>4, FS_Injection
<1>6. Matched(theta, n) \in 0..NRall
  <2>1. Matched(theta, n) = Cardinality(S) /\ Matched(theta, n) \in Nat
    BY <1>1, MatchedNat DEF Matched, S
  <2> QED BY <1>1, <1>5, <2>1
<1>7. LogD \in [0..NRall + 1 -> Int]
  BY VerifyAssumption
<1> QED BY <1>1, <1>6, <1>7

LEMMA WorthInt ==
  ASSUME IInv, pc \in {"match", "judge"}, Backed, NEW k \in Turned
  PROVE  Worth(k) \in Int
<1>1. CASE theta[k] >= 0
  <2>1. PICK r \in 0..NR - 1 : Worth(k) = rprobs[r]
    BY <1>1, StarOf
  <2> QED BY <2>1, InMatching
<1>2. CASE ~ (theta[k] >= 0)
  <2>1. k \in 0..i
    BY InMatching DEF Turned
  <2> QED BY <1>2, <2>1, MatchedBound DEF Worth
<1> QED BY <1>1, <1>2

LEMMA LikelihoodInt ==
  ASSUME IInv, pc \in {"match", "judge"}, Backed
  PROVE  Likelihood \in Int
<1>1. IsFiniteSet(Turned)
  BY InMatching, FS_Interval DEF Turned
<1>2. \A k \in Turned : [l \in Turned |-> Worth(l)][k] \in Int
  BY WorthInt
<1> QED BY <1>1, <1>2, SumInt, LikelihoodIs

LEMMA LikelihoodNext ==
  Likelihood' = SumFunctionOnSet([k \in Turned' |-> Worth(k)'], Turned')
  BY DEF Likelihood, SumFunction, Worth, Turned

\* One more test star: what the others are worth may change by d.
LEMMA LikelihoodTurn ==
  ASSUME IInv, pc = "match", Backed, i' = i + 1, NEW n, n = i,
         NEW d, \A k \in Turned : d[k] \in Int /\ Worth(k)' = Worth(k) + d[k],
         Worth(n)' \in Int
  PROVE  Likelihood' = Likelihood + SumFunctionOnSet(d, Turned) + Worth(n)'
<1> DEFINE f == [k \in Turned |-> Worth(k)]
           g == [k \in Turned' |-> Worth(k)']
<1>1. i \in Nat /\ IsFiniteSet(Turned)
  BY InMatching, FS_Interval DEF Turned
<1>2. Turned' = Turned \cup {n} /\ n \notin Turned
  BY <1>1 DEF Turned
<1>3. IsFiniteSet(Turned') /\ n \in Turned' /\ Turned' \ {n} = Turned
  BY <1>1, <1>2, FS_AddElement
<1>4. \A k \in Turned : f[k] \in Int /\ g[k] = f[k] + d[k]
  BY <1>2, WorthInt
<1>5. \A k \in Turned' : g[k] \in Int
  BY <1>2, <1>4
<1>6. g[n] = Worth(n)'
  BY <1>3
<1> HIDE DEF f, g
<1>7. SumFunctionOnSet(g, Turned') = g[n] + SumFunctionOnSet(g, Turned)
  <2>1. SumFunctionOnSet(g, Turned') = g[n] + SumFunctionOnSet(g, Turned' \ {n})
    BY <1>3, <1>5, SumOut
  <2> QED BY <1>3, <2>1
<1>8. SumFunctionOnSet(g, Turned) = SumFunctionOnSet(f, Turned) + SumFunctionOnSet(d, Turned)
  BY <1>1, <1>4, SumPlus
<1>9. Likelihood = SumFunctionOnSet(f, Turned)
  BY LikelihoodIs DEF f
<1>10. Likelihood' = SumFunctionOnSet(g, Turned')
  BY LikelihoodNext DEF g
<1>11. SumFunctionOnSet(f, Turned) \in Int /\ SumFunctionOnSet(d, Turned) \in Int
  <2>1. SumFunctionOnSet(f, Turned) \in Int
    BY <1>1, <1>4, SumInt
  <2>2. SumFunctionOnSet(d, Turned) \in Int
    BY <1>1, SumInt
  <2> QED BY <2>1, <2>2
<1> QED BY <1>3, <1>6, <1>7, <1>8, <1>9, <1>10, <1>11

\* The others are worth what they were.
LEMMA LikelihoodAdds ==
  ASSUME IInv, pc = "match", Backed, i' = i + 1, NEW n, n = i,
         \A k \in Turned : Worth(k)' = Worth(k), Worth(n)' \in Int
  PROVE  Likelihood' = Likelihood + Worth(n)'
<1> DEFINE d == [k \in Turned |-> 0]
<1>1. IsFiniteSet(Turned)
  BY InMatching, FS_Interval DEF Turned
<1>2. \A k \in Turned : d[k] = 0 /\ d[k] \in Int /\ Worth(k)' = Worth(k) + d[k]
  BY WorthInt
<1> HIDE DEF d
<1>3. Likelihood' = Likelihood + SumFunctionOnSet(d, Turned) + Worth(n)'
  BY <1>2, LikelihoodTurn
<1>4. SumFunctionOnSet(d, Turned) = Cardinality(Turned) * 0
  BY <1>1, <1>2, SumConstant
<1>5. Cardinality(Turned) \in Nat
  BY <1>1, FS_CardinalityType
<1> QED BY <1>3, <1>4, <1>5, LikelihoodInt

\* A test star with its match in the next state.
LEMMA WorthNext ==
  ASSUME NEW k, NEW q \in 0..NR - 1, NR' = NR, theta'[k] >= 0, rmatches'[q] = k,
         \A s \in 0..NR - 1 : rmatches'[s] = k => s = q
  PROVE  Worth(k)' = rprobs'[q]
<1>1. Worth(k)' = rprobs'[CHOOSE s \in 0..NR - 1 : rmatches'[s] = k]
  BY DEF Worth
<1>2. (CHOOSE s \in 0..NR - 1 : rmatches'[s] = k) = q
  OBVIOUS
<1> QED BY <1>1, <1>2

\* Reference star r becomes the match of test star i.
LEMMA Taken ==
  ASSUME IInv, pc = "match", Backed, NEW r \in 0..NR - 1, NEW fg, NEW n, n = i, NR' = NR,
         rmatches' = [rmatches EXCEPT ![r] = i], rprobs' = [rprobs EXCEPT ![r] = fg],
         theta'[n] >= 0
  PROVE  /\ Worth(n)' = fg
         /\ \A k \in Turned :
              theta[k] >= 0 /\ theta'[k] >= 0 /\ rmatches[r] # k => Worth(k)' = Worth(k)
<1>1. /\ i \in Nat /\ 0..NR - 1 \subseteq Ref
      /\ rmatches \in [Ref -> Test \cup {None}] /\ rprobs \in [Ref -> Int]
  BY InMatching
<1>2. \A s \in 0..NR - 1 : rmatches'[s] = IF s = r THEN i ELSE rmatches[s]
  BY <1>1
<1>3. \A s \in 0..NR - 1 : rprobs'[s] = IF s = r THEN fg ELSE rprobs[s]
  BY <1>1
<1>4. \A s \in 0..NR - 1 : rmatches[s] # i
  BY <1>1 DEF Backed, Turned
<1>5. Worth(n)' = rprobs'[r]
  BY <1>2, <1>4, WorthNext
<1>6. ASSUME NEW k \in Turned, theta[k] >= 0, theta'[k] >= 0, rmatches[r] # k
      PROVE  Worth(k)' = Worth(k)
  <2>1. PICK q \in 0..NR - 1 : /\ rmatches[q] = k /\ Worth(k) = rprobs[q]
                               /\ \A s \in 0..NR - 1 : rmatches[s] = k => s = q
    BY <1>6, StarOf
  <2>2. q # r /\ k # i
    BY <1>1, <1>6, <2>1 DEF Turned
  <2>3. rmatches'[q] = k /\ \A s \in 0..NR - 1 : rmatches'[s] = k => s = q
    BY <1>2, <2>1, <2>2
  <2>4. Worth(k)' = rprobs'[q]
    BY <1>6, <2>3, WorthNext
  <2> QED BY <1>3, <2>1, <2>2, <2>4
<1> QED BY <1>3, <1>5, <1>6

\* The reference star that test star n takes points to it, the others to where
\* they did.
LEMMA TakenBacked ==
  ASSUME IInv, pc = "match", Backed, NEW r \in 0..NR - 1, NEW n, n = i, i' = i + 1,
         NR' = NR, refperm' = refperm, rmatches' = [rmatches EXCEPT ![r] = i],
         theta'[n] = refperm[r],
         \A k \in Turned : k # rmatches[r] => theta'[k] = theta[k]
  PROVE  Backed'
<1>1. i \in Nat /\ 0..NR - 1 \subseteq Ref /\ rmatches \in [Ref -> Test \cup {None}]
  BY InMatching
<1> SUFFICES ASSUME NEW s \in 0..NR - 1, rmatches'[s] # None
             PROVE  rmatches'[s] \in Turned' /\ theta'[rmatches'[s]] = refperm[s]
  BY DEF Backed
<1>2. rmatches'[s] = IF s = r THEN n ELSE rmatches[s]
  BY <1>1
<1>3. n \in Turned' /\ Turned \subseteq Turned'
  BY <1>1 DEF Turned
<1>4. CASE s # r
  <2>1. rmatches[s] \in Turned /\ theta[rmatches[s]] = refperm[s]
    BY <1>2, <1>4 DEF Backed
  <2>2. rmatches[s] # rmatches[r]
    BY <1>2, <1>4, OneStarEach
  <2> QED BY <1>2, <1>3, <1>4, <2>1, <2>2
<1> QED BY <1>2, <1>3, <1>4

\* The next test star gets no match.
LEMMA UnmatchedScored ==
  ASSUME IInv, Scored, pc = "match", NEW x \in {DISTRACTOR, CONFLICT},
         theta' = [theta EXCEPT ![i] = x], Score(LogD[mu]),
         UNCHANGED <<NR, refperm, rmatches, rprobs, mu, skewed>>
  PROVE  Scored'
<1>1. PICK n : n = i
  OBVIOUS
<1>2. /\ i \in Nat /\ NT \in 0..NTall /\ i <= NT /\ i < NT
      /\ theta \in [Test -> Theta]
  BY InMatching DEF IInv, Linked
<1>2a. n \in Nat /\ n \in 0..n /\ Turned = 0..n - 1 /\ Turned \subseteq 0..n
  BY <1>1, <1>2 DEF Turned
<1>3. Backed /\ mu = Matched(theta, i) /\ logodds \in Int
      /\ logodds >= Likelihood /\ (~skewed => logodds = Likelihood)
  BY DEF Scored, OddsExact
<1>4. /\ i' = i + 1 /\ logodds' = logodds + LogD[mu] /\ pc' \in {"match", "judge"}
  BY DEF Score
<1>5. i \in Test /\ theta'[n] = x /\ ~ (x >= 0) /\ \A k \in 0..n - 1 : theta'[k] = theta[k]
  BY <1>1, <1>2, Sizes
<1>6. \A k \in 0..n : Matched(theta', k) = Matched(theta, k)
  <2> SUFFICES ASSUME NEW k \in 0..n PROVE Matched(theta', k) = Matched(theta, k)
    OBVIOUS
  <2>1. k \in Nat /\ \A l \in 0..k - 1 : theta'[l] = theta[l]
    BY <1>1, <1>2, <1>5
  <2> QED BY <2>1, MatchedSame
<1>7. LogD[mu] \in Int /\ Likelihood \in Int
  <2>1. LogD[Matched(theta, n)] \in Int
    BY <1>1, <1>2, <1>3, MatchedBound
  <2> QED BY <1>1, <1>3, <2>1, LikelihoodInt
<1>8. Worth(n)' = LogD[mu]
  <2>1. Worth(n)' = LogD[Matched(theta', n)]
    BY <1>5 DEF Worth
  <2>2. Matched(theta', n) = mu
    BY <1>2a, <1>1, <1>3, <1>6
  <2> QED BY <2>1, <2>2
<1>9. \A k \in Turned : Worth(k)' = Worth(k)
  <2> SUFFICES ASSUME NEW k \in Turned PROVE Worth(k)' = Worth(k)
    OBVIOUS
  <2>1. theta'[k] = theta[k] /\ Matched(theta', k) = Matched(theta, k)
    BY <1>2a, <1>5, <1>6
  <2> QED BY <2>1 DEF Worth
<1>10. Likelihood' = Likelihood + LogD[mu]
  BY <1>1, <1>3, <1>4, <1>7, <1>8, <1>9, LikelihoodAdds
<1>11. OddsExact' /\ logodds' \in Int
  BY <1>3, <1>4, <1>7, <1>10 DEF OddsExact
<1>12. mu' = Matched(theta', i')
  <2>1. Matched(theta', n + 1) = Matched(theta', n)
    BY <1>1, <1>2, <1>5, MatchedNext
  <2>2. Matched(theta', n) = mu
    BY <1>2a, <1>1, <1>3, <1>6
  <2>3. n + 1 = i' /\ mu' = mu
    BY <1>1, <1>4
  <2> QED BY <2>1, <2>2, <2>3
<1>13. Backed'
  <2> SUFFICES ASSUME NEW r \in 0..NR - 1, rmatches[r] # None
               PROVE  rmatches[r] \in Turned' /\ theta'[rmatches[r]] = refperm[r]
    BY DEF Backed
  <2>1. rmatches[r] \in Turned /\ theta[rmatches[r]] = refperm[r]
    BY <1>3 DEF Backed
  <2> QED BY <1>1, <1>2, <1>4, <1>5, <2>1 DEF Turned
<1>14. NoneYet'
  BY <1>4 DEF NoneYet
<1> QED BY <1>11, <1>12, <1>13, <1>14 DEF Scored

LEMMA DistractorScored == IInv /\ Scored /\ Distractor => Scored'
<1> SUFFICES ASSUME IInv, Scored, Distractor PROVE Scored'
  OBVIOUS
<1>1. /\ pc = "match" /\ theta' = [theta EXCEPT ![i] = DISTRACTOR] /\ Score(LogD[mu])
      /\ UNCHANGED <<NR, refperm, rmatches, rprobs, mu, skewed>>
  BY DEF Distractor, refs, history
<1> QED BY <1>1, UnmatchedScored

LEMMA NewMatchScored == IInv /\ Scored /\ NewMatch => Scored'
<1> SUFFICES ASSUME IInv, Scored, NewMatch PROVE Scored'
  OBVIOUS
<1>1. PICK r \in 0..NR - 1, fg \in LogFg :
        /\ rmatches[r] = None
        /\ theta' = [theta EXCEPT ![i] = refperm[r]]
        /\ rmatches' = [rmatches EXCEPT ![r] = i]
        /\ rprobs' = [rprobs EXCEPT ![r] = fg]
        /\ Score(fg)
  BY DEF NewMatch
<1>2. /\ pc = "match" /\ mu' = mu + 1
      /\ UNCHANGED <<NR, refperm, skewed>>
  BY DEF NewMatch, refs
<1>3. PICK n : n = i
  OBVIOUS
<1>4. /\ i \in Nat /\ NT \in 0..NTall /\ i <= NT /\ i < NT /\ 0..NR - 1 \subseteq Ref
      /\ theta \in [Test -> Theta] /\ rmatches \in [Ref -> Test \cup {None}]
      /\ refperm[r] \in Ref
  BY <1>2, InMatching DEF IInv, Linked
<1>5. Backed /\ mu = Matched(theta, i) /\ logodds \in Int
      /\ logodds >= Likelihood /\ (~skewed => logodds = Likelihood)
  BY <1>2 DEF Scored, OddsExact
<1>6. /\ i' = i + 1 /\ logodds' = logodds + fg /\ pc' \in {"match", "judge"}
  BY <1>1 DEF Score
<1>7. fg \in Int
  BY VerifyAssumption DEF VerifyAssumption
<1>8. /\ i \in Test /\ theta'[n] = refperm[r] /\ refperm[r] >= 0
      /\ \A k \in 0..n - 1 : theta'[k] = theta[k]
  BY <1>1, <1>3, <1>4, Sizes
<1>9. \A k \in 0..n : Matched(theta', k) = Matched(theta, k)
  <2> SUFFICES ASSUME NEW k \in 0..n PROVE Matched(theta', k) = Matched(theta, k)
    OBVIOUS
  <2>1. k \in Nat /\ \A l \in 0..k - 1 : theta'[l] = theta[l]
    BY <1>3, <1>4, <1>8
  <2> QED BY <2>1, MatchedSame
<1>10. /\ Worth(n)' = fg
       /\ \A k \in Turned : theta[k] >= 0 /\ theta'[k] >= 0 => Worth(k)' = Worth(k)
  <2>1. \A k \in Turned : rmatches[r] # k
    BY <1>1, <1>4 DEF Turned
  <2> QED BY <1>1, <1>2, <1>3, <1>5, <1>8, <2>1, Taken
<1>11. \A k \in Turned : Worth(k)' = Worth(k)
  <2> SUFFICES ASSUME NEW k \in Turned PROVE Worth(k)' = Worth(k)
    OBVIOUS
  <2>1. theta'[k] = theta[k] /\ Matched(theta', k) = Matched(theta, k)
    BY <1>3, <1>4, <1>8, <1>9 DEF Turned
  <2>2. CASE ~ (theta[k] >= 0)
    BY <2>1, <2>2 DEF Worth
  <2> QED BY <1>10, <2>1, <2>2
<1>12. Likelihood \in Int /\ Likelihood' = Likelihood + fg
  BY <1>2, <1>3, <1>5, <1>6, <1>7, <1>10, <1>11, LikelihoodAdds, LikelihoodInt
<1>13. OddsExact' /\ logodds' \in Int
  BY <1>2, <1>5, <1>6, <1>7, <1>12 DEF OddsExact
<1>14. mu' = Matched(theta', i')
  <2>1. Matched(theta', n + 1) = Matched(theta', n) + 1
    BY <1>3, <1>4, <1>8, MatchedNext
  <2> QED BY <1>2, <1>3, <1>4, <1>5, <1>6, <1>9, <2>1
<1>15. Backed'
  <2>1. \A k \in Turned : theta'[k] = theta[k]
    BY <1>3, <1>8 DEF Turned
  <2>2. NR' = NR /\ refperm' = refperm
    BY <1>2
  <2> QED BY <1>1, <1>2, <1>3, <1>5, <1>6, <1>8, <2>1, <2>2, TakenBacked
<1>16. NoneYet'
  BY <1>6 DEF NoneYet
<1> QED BY <1>13, <1>14, <1>15, <1>16 DEF Scored

\* What test star old is worth, and each distractor since, when old loses its match,
\* and no more than what switchfg counts: LogD is concave.
LEMMA LosesMatch ==
  ASSUME IInv, pc = "match", Backed, NEW n, n = i, NEW old \in Turned, theta[old] >= 0,
         ~ (theta'[old] >= 0),
         \A k \in Turned : k # old => theta'[k] = theta[k]
  PROVE  /\ Worth(old)' = LogD[Matched(theta, old)]
         /\ \A k \in Turned : k < old /\ theta[k] < 0 => Worth(k)' = Worth(k)
         /\ \A k \in Turned : k >= old /\ theta[k] < 0 =>
              /\ Worth(k)' \in Int /\ Worth(k) \in Int
              /\ LogD[Matched(theta, k)] \in Int /\ LogD[Matched(theta, k) + 1] \in Int
              /\ Worth(k)' - Worth(k) <= LogD[Matched(theta, k)] - LogD[Matched(theta, k) + 1]
<1>1. i \in Nat /\ Turned = 0..i - 1 /\ theta \in [Test -> Theta] /\ Turned \subseteq Test
      /\ NRall \in Nat
  BY InMatching, Sizes DEF Turned
<1>2. \A k \in Turned : theta[k] < 0 <=> ~ (theta[k] >= 0)
  BY <1>1, Sizes
<1>3. ASSUME NEW k \in Turned, k <= old
      PROVE  Matched(theta', k) = Matched(theta, k)
  <2>1. k \in Nat /\ \A l \in 0..k - 1 : theta'[l] = theta[l]
    BY <1>1, <1>3
  <2> QED BY <2>1, MatchedSame
<1>4. Worth(old)' = LogD[Matched(theta, old)]
  <2>1. Worth(old)' = LogD[Matched(theta', old)]
    BY DEF Worth
  <2>2. old <= old
    BY <1>1
  <2> QED BY <1>3, <2>1, <2>2
<1>5. ASSUME NEW k \in Turned, k < old, theta[k] < 0
      PROVE  Worth(k)' = Worth(k)
  <2>1. theta'[k] = theta[k] /\ k <= old /\ ~ (theta[k] >= 0)
    BY <1>1, <1>2, <1>5
  <2>2. Worth(k) = LogD[Matched(theta, k)]
    BY <2>1 DEF Worth
  <2>3. Worth(k)' = LogD[Matched(theta', k)]
    BY <2>1 DEF Worth
  <2> QED BY <1>3, <2>1, <2>2, <2>3
<1>6. ASSUME NEW k \in Turned, k >= old, theta[k] < 0
      PROVE  /\ Worth(k)' \in Int /\ Worth(k) \in Int
             /\ LogD[Matched(theta, k)] \in Int /\ LogD[Matched(theta, k) + 1] \in Int
             /\ Worth(k)' - Worth(k) <= LogD[Matched(theta, k)] - LogD[Matched(theta, k) + 1]
  <2>1. k # old /\ k \in Nat /\ old \in 0..k - 1 /\ ~ (theta[k] >= 0) /\ k \in 0..i
    BY <1>1, <1>2, <1>6
  <2>2. theta'[k] = theta[k]
    BY <2>1
  <2>3. Matched(theta', k) = Matched(theta, k) - 1 /\ Matched(theta, k) > 0
    <3>1. \A l \in 0..k - 1 : l # old => theta'[l] = theta[l]
      BY <1>1, <2>1
    <3> QED BY <2>1, <3>1, MatchedDrop
  <2>4. Matched(theta, k) \in 0..NRall
    BY <2>1, MatchedBound
  <2> DEFINE m == Matched(theta, k)
  <2>5. Worth(k) = LogD[m]
    BY <2>1 DEF Worth
  <2>6. Worth(k)' = LogD[m - 1]
    <3>1. Worth(k)' = LogD[Matched(theta', k)]
      BY <2>1, <2>2 DEF Worth
    <3> QED BY <2>3, <3>1
  <2> HIDE DEF m
  <2>7. m \in 1..NRall
    BY <1>1, <2>3, <2>4 DEF m
  <2>8. LogD[m] - LogD[m - 1] >= LogD[m + 1] - LogD[m]
    BY <2>7, VerifyAssumption DEF VerifyAssumption
  <2>9. LogD[m - 1] \in Int /\ LogD[m] \in Int /\ LogD[m + 1] \in Int
    <3>1. LogD \in [0..NRall + 1 -> Int]
      BY VerifyAssumption DEF VerifyAssumption
    <3> QED BY <1>1, <2>7, <3>1
  <2>10. LogD[m - 1] - LogD[m] <= LogD[m] - LogD[m + 1]
    BY <2>8, <2>9
  <2> QED BY <2>5, <2>6, <2>9, <2>10 DEF m
<1> QED BY <1>4, <1>5, <1>6

\* Test star i takes over reference star r.
LEMMA SwitchScored ==
  ASSUME IInv, Scored, pc = "match", NEW r \in 0..NR - 1, NEW fg \in Int, rmatches[r] # None,
         theta' = [theta EXCEPT ![rmatches[r]] = CONFLICT, ![i] = refperm[r]],
         rmatches' = [rmatches EXCEPT ![r] = i], rprobs' = [rprobs EXCEPT ![r] = fg],
         skewed' = (skewed \/ \E j \in rmatches[r]..i - 1 : theta[j] < 0),
         Score(switchfg(r, fg)), UNCHANGED <<NR, refperm, mu>>
  PROVE  Scored'
<1>1. PICK n : n = i
  OBVIOUS
<1>2. /\ i \in Nat /\ NT \in 0..NTall /\ i <= NT /\ i < NT /\ 0..NR - 1 \subseteq Ref
      /\ theta \in [Test -> Theta] /\ rmatches \in [Ref -> Test \cup {None}]
      /\ rprobs \in [Ref -> Int] /\ refperm[r] \in Ref
  BY InMatching DEF IInv, Linked
<1>3. Backed /\ mu = Matched(theta, i) /\ logodds \in Int
      /\ logodds >= Likelihood /\ (~skewed => logodds = Likelihood)
  BY DEF Scored, OddsExact
<1>4. PICK old \in Turned : old = rmatches[r] /\ theta[old] = refperm[r]
  BY <1>3 DEF Backed
<1>5. /\ n \in Nat /\ Turned = 0..n - 1 /\ Turned \subseteq Test /\ n \in Test
      /\ old \in Nat /\ old < n /\ refperm[r] >= 0 /\ IsFiniteSet(Turned)
  <2>1. n \in Nat /\ Turned = 0..n - 1
    BY <1>1, <1>2 DEF Turned
  <2>2. IsFiniteSet(Turned)
    BY <2>1, FS_Interval
  <2>3. n \in Test /\ Turned \subseteq Test
    BY <1>1, <1>2, <2>1, Sizes
  <2>4. old \in Nat /\ old < n
    BY <1>4, <2>1
  <2>5. refperm[r] >= 0
    BY <1>2, Sizes
  <2> QED BY <2>1, <2>2, <2>3, <2>4, <2>5
<1>6. /\ theta'[n] = refperm[r] /\ theta'[old] = CONFLICT
      /\ \A k \in Turned : k # old => theta'[k] = theta[k]
  <2>1. theta' = [theta EXCEPT ![old] = CONFLICT, ![n] = refperm[r]]
    BY <1>1, <1>4
  <2>2. old \in Test /\ old # n /\ \A k \in Turned : k # n
    BY <1>5
  <2> QED BY <1>2, <1>5, <2>1, <2>2
<1>7. \A k \in Turned : theta[k] < 0 <=> ~ (theta[k] >= 0)
  <2> TAKE k \in Turned
  <2>1. theta[k] \in Theta
    BY <1>2, <1>5
  <2> QED BY <2>1, Sizes
<1> DEFINE later == {j \in old..n - 1 : theta[j] < 0}
           worse == [j \in later |-> LogD[Matched(theta, j)] - LogD[Matched(theta, j) + 1]]
           d == [k \in Turned |-> Worth(k)' - Worth(k)]
<1>8. /\ i' = i + 1 /\ pc' \in {"match", "judge"}
      /\ logodds' = logodds + switchfg(r, fg)
  BY DEF Score
<1>9. switchfg(r, fg) = fg + LogD[Matched(theta, old)] - rprobs[r] + SumFunctionOnSet(worse, later)
  BY <1>1, <1>4 DEF switchfg, SumFunction
<1>10. /\ Worth(n)' = fg
       /\ \A k \in Turned :
            theta[k] >= 0 /\ theta'[k] >= 0 /\ rmatches[r] # k => Worth(k)' = Worth(k)
  <2> HIDE DEF later, worse, d
  <2>1. theta'[n] >= 0
    BY <1>5, <1>6
  <2> QED BY <1>1, <1>3, <2>1, Taken
<1>11. /\ Worth(old)' = LogD[Matched(theta, old)]
       /\ \A k \in Turned : k < old /\ theta[k] < 0 => Worth(k)' = Worth(k)
       /\ \A k \in Turned : k >= old /\ theta[k] < 0 =>
            /\ Worth(k)' \in Int /\ Worth(k) \in Int
            /\ LogD[Matched(theta, k)] \in Int /\ LogD[Matched(theta, k) + 1] \in Int
            /\ Worth(k)' - Worth(k) <= LogD[Matched(theta, k)] - LogD[Matched(theta, k) + 1]
  <2>1. theta[old] >= 0 /\ ~ (theta'[old] >= 0)
    BY <1>4, <1>5, <1>6
  <2> QED BY <1>1, <1>3, <1>6, <2>1, LosesMatch
<1>12. Worth(old) = rprobs[r] /\ rprobs[r] \in Int /\ LogD[Matched(theta, old)] \in Int
  <2>1. PICK q \in 0..NR - 1 : rmatches[q] = old /\ Worth(old) = rprobs[q]
                               /\ \A s \in 0..NR - 1 : rmatches[s] = old => s = q
    BY <1>3, <1>4, <1>5, StarOf
  <2>2. q = r
    BY <1>4, <2>1
  <2>3. old \in 0..i
    BY <1>1, <1>5
  <2> QED BY <1>2, <1>3, <2>1, <2>2, <2>3, MatchedBound
<1>13. old \notin later /\ later \subseteq Turned \ {old}
  BY <1>4, <1>5, <1>7
<1>14. \A k \in Turned : k # old /\ k \notin later => Worth(k)' = Worth(k)
  <2> SUFFICES ASSUME NEW k \in Turned, k # old, k \notin later
               PROVE  Worth(k)' = Worth(k)
    OBVIOUS
  <2>1. CASE theta[k] >= 0
    BY <1>4, <1>6, <1>10, <2>1
  <2>2. CASE ~ (theta[k] >= 0)
    <3>1. k < old /\ theta[k] < 0
      BY <1>5, <1>7, <2>2
    <3> QED BY <1>11, <3>1
  <2> QED BY <2>1, <2>2
<1>15. \A k \in later : /\ k \in Turned /\ Worth(k)' \in Int /\ Worth(k) \in Int
                        /\ worse[k] \in Int /\ Worth(k)' - Worth(k) <= worse[k]
  <2> SUFFICES ASSUME NEW k \in later
               PROVE  /\ k \in Turned /\ Worth(k)' \in Int /\ Worth(k) \in Int
                      /\ worse[k] \in Int /\ Worth(k)' - Worth(k) <= worse[k]
    OBVIOUS
  <2>1. k \in Turned /\ k >= old /\ theta[k] < 0
    BY <1>5
  <2>2. worse[k] = LogD[Matched(theta, k)] - LogD[Matched(theta, k) + 1]
    OBVIOUS
  <2> HIDE DEF worse, later
  <2> QED BY <1>11, <2>1, <2>2
<1>16. later = {} <=> ~ \E j \in rmatches[r]..i - 1 : theta[j] < 0
  BY <1>1, <1>4
<1>17. \A k \in Turned : d[k] = Worth(k)' - Worth(k)
  OBVIOUS
<1> HIDE DEF later, worse, d
<1>18. ASSUME NEW k \in Turned PROVE d[k] \in Int /\ Worth(k)' = Worth(k) + d[k]
  <2>1. Worth(k) \in Int
    BY <1>3, WorthInt
  <2>2. Worth(k)' \in Int
    BY <1>11, <1>12, <1>14, <1>15, <2>1
  <2> QED BY <1>17, <2>1, <2>2
<1>19. Likelihood' = Likelihood + SumFunctionOnSet(d, Turned) + fg
  BY <1>1, <1>3, <1>8, <1>10, <1>18, LikelihoodTurn
<1> DEFINE rest == Turned \ {old}
<1>20. IsFiniteSet(rest) /\ IsFiniteSet(later) /\ IsFiniteSet(rest \ later)
  <2>1. rest \subseteq Turned /\ later \subseteq Turned /\ rest \ later \subseteq Turned
    BY <1>13
  <2> HIDE DEF rest
  <2> QED BY <1>5, <2>1, FS_Subset
<1>21. SumFunctionOnSet(d, Turned) = d[old] + SumFunctionOnSet(d, rest)
  <2>1. \A k \in Turned : d[k] \in Int
    BY <1>18
  <2>2. IsFiniteSet(Turned)
    BY <1>5
  <2> HIDE DEF rest
  <2> QED BY <2>1, <2>2, SumOut DEF rest
<1>22. SumFunctionOnSet(d, rest)
         = SumFunctionOnSet(d, later) + SumFunctionOnSet(d, rest \ later)
  <2>1. \A k \in rest : d[k] \in Int
    BY <1>18
  <2> HIDE DEF rest
  <2> QED BY <1>13, <1>20, <2>1, SumParts DEF rest
<1>23. SumFunctionOnSet(d, rest \ later) = 0
  <2>1. \A k \in rest \ later : d[k] = 0
    <3> SUFFICES ASSUME NEW k \in rest \ later PROVE d[k] = 0
      OBVIOUS
    <3>1. k \in Turned /\ Worth(k)' = Worth(k)
      BY <1>14
    <3>2. Worth(k) \in Int
      BY <1>3, <3>1, WorthInt
    <3> QED BY <1>17, <3>1, <3>2
  <2> HIDE DEF rest
  <2>2. SumFunctionOnSet(d, rest \ later) = Cardinality(rest \ later) * 0
    BY <1>20, <2>1, SumConstant
  <2>3. Cardinality(rest \ later) \in Nat
    BY <1>20, FS_CardinalityType
  <2> QED BY <2>2, <2>3
<1> HIDE DEF rest
<1>24. d[old] = LogD[Matched(theta, old)] - rprobs[r]
  BY <1>11, <1>12, <1>17
<1> DEFINE fall == SumFunctionOnSet(d, later)
           cost == SumFunctionOnSet(worse, later)
<1>25. fall \in Int /\ cost \in Int /\ fall <= cost /\ (later = {} => fall = cost)
  <2>1. \A k \in later : d[k] \in Int /\ worse[k] \in Int /\ d[k] <= worse[k]
    BY <1>15, <1>17
  <2>2. fall \in Int
    BY <1>20, <2>1, SumInt
  <2>3. cost \in Int
    BY <1>20, <2>1, SumInt
  <2>4. fall <= cost
    BY <1>20, <2>1, SumMonotone
  <2>5. later = {} => fall = cost
    BY SumEmpty
  <2> QED BY <2>2, <2>3, <2>4, <2>5
<1> HIDE DEF fall, cost
<1>26. Likelihood \in Int
  BY <1>3, LikelihoodInt
<1>27. Likelihood' = Likelihood + (LogD[Matched(theta, old)] - rprobs[r] + fall) + fg
  BY <1>19, <1>21, <1>22, <1>23, <1>24, <1>25, <1>12 DEF fall
<1>28. logodds' = logodds + (fg + LogD[Matched(theta, old)] - rprobs[r] + cost)
  BY <1>8, <1>9 DEF cost
<1>29. /\ logodds' \in Int /\ logodds' >= Likelihood'
       /\ (~skewed' => logodds' = Likelihood')
  <2>1. ~skewed' => ~skewed /\ later = {}
    BY <1>16
  <2> DEFINE m == LogD[Matched(theta, old)]
             p == rprobs[r]
  <2>2. /\ m \in Int /\ p \in Int
        /\ Likelihood' = Likelihood + (m - p + fall) + fg
        /\ logodds' = logodds + (fg + m - p + cost)
    BY <1>12, <1>27, <1>28
  <2> HIDE DEF m, p
  <2>3. logodds' \in Int /\ logodds' >= Likelihood'
    BY <1>3, <1>25, <1>26, <2>2
  <2>4. fall = cost /\ logodds = Likelihood => logodds' = Likelihood'
    BY <1>3, <1>25, <1>26, <2>2
  <2> QED BY <1>3, <1>25, <2>1, <2>3, <2>4
<1>30. mu' = Matched(theta', i')
  <2>1. Matched(theta', n) = Matched(theta, n) - 1 /\ Matched(theta, n) > 0
    <3>1. old \in 0..n - 1 /\ theta[old] >= 0 /\ ~ (theta'[old] >= 0)
      BY <1>4, <1>5, <1>6
    <3>2. \A k \in 0..n - 1 : k # old => theta'[k] = theta[k]
      BY <1>5, <1>6
    <3> QED BY <1>5, <3>1, <3>2, MatchedDrop
  <2>2. Matched(theta', n + 1) = Matched(theta', n) + 1
    BY <1>5, <1>6, MatchedNext
  <2>3. Matched(theta, n) \in Nat
    BY <1>5, MatchedNat
  <2>4. mu' = Matched(theta, n) /\ i' = n + 1
    BY <1>1, <1>3, <1>8
  <2> QED BY <2>1, <2>2, <2>3, <2>4
<1>31. Backed'
  BY <1>1, <1>3, <1>4, <1>6, <1>8, TakenBacked
<1>32. NoneYet'
  BY <1>8 DEF NoneYet
<1>33. OddsExact'
  BY <1>29 DEF OddsExact
<1> QED BY <1>29, <1>30, <1>31, <1>32, <1>33 DEF Scored

LEMMA ConflictScored == IInv /\ Scored /\ Conflict => Scored'
<1> SUFFICES ASSUME IInv, Scored, Conflict PROVE Scored'
  OBVIOUS
<1>1. PICK r \in 0..NR - 1, fg \in LogFg :
        /\ rmatches[r] # None
        /\ IF switchfg(r, fg) > LogD[mu]
             THEN /\ theta' = [theta EXCEPT ![rmatches[r]] = CONFLICT, ![i] = refperm[r]]
                  /\ rmatches' = [rmatches EXCEPT ![r] = i]
                  /\ rprobs' = [rprobs EXCEPT ![r] = fg]
                  /\ skewed' = (skewed \/ \E j \in rmatches[r]..i - 1 : theta[j] < 0)
                  /\ Score(switchfg(r, fg))
             ELSE /\ theta' = [theta EXCEPT ![i] = CONFLICT]
                  /\ Score(LogD[mu]) /\ UNCHANGED <<rmatches, rprobs, skewed>>
  BY DEF Conflict
<1>2. pc = "match" /\ UNCHANGED <<NR, refperm, mu>>
  BY DEF Conflict, refs
<1>3. fg \in Int
  BY VerifyAssumption DEF VerifyAssumption
<1>4. CASE switchfg(r, fg) > LogD[mu]
  BY <1>1, <1>2, <1>3, <1>4, SwitchScored
<1>5. CASE ~ (switchfg(r, fg) > LogD[mu])
  <2>1. /\ theta' = [theta EXCEPT ![i] = CONFLICT] /\ Score(LogD[mu])
        /\ UNCHANGED <<NR, refperm, rmatches, rprobs, mu, skewed>>
    BY <1>1, <1>2, <1>5
  <2> QED BY <1>2, <2>1, UnmatchedScored
<1> QED BY <1>4, <1>5

\* Outside the matching nothing is counted, and the matching starts with nothing.
LEMMA OutsideScored ==
  ASSUME IInv, IInv', Scored, UNCHANGED <<rmatches, mu, logodds, skewed>>,
         \/ pc' \notin {"match", "judge"} /\ NoneYet'
         \/ pc' = "match" /\ i' = 0
              /\ pc \in {"start", "uniformize"} \cup RefFilter \cup TestFilter
  PROVE  Scored'
<1>1. logodds' \in Int
  BY DEF Scored
<1>2. CASE pc' \notin {"match", "judge"} /\ NoneYet'
  BY <1>1, <1>2 DEF Scored, OddsExact
<1>3. CASE pc' = "match" /\ i' = 0
             /\ pc \in {"start", "uniformize"} \cup RefFilter \cup TestFilter
  <2>1. rmatches' = [r \in Ref |-> None] /\ mu' = 0 /\ logodds' = 0
    BY <1>3 DEF Scored, NoneYet
  <2>2. Turned' = {}
    BY <1>3 DEF Turned
  <2>3. Likelihood' = 0
    <3>1. Likelihood' = SumFunctionOnSet([k \in Turned' |-> Worth(k)'], {})
      BY <2>2, LikelihoodNext
    <3> QED BY <3>1, SumEmpty
  <2>4. OddsExact'
    BY <2>1, <2>3 DEF OddsExact
  <2>5. Backed'
    <3>1. NRall \in Nat /\ NR' \in 0..NRimage' /\ NRimage' \in 0..NRall
      BY Sizes DEF IInv, TypeInv
    <3>2. \A r \in 0..NR' - 1 : r \in Ref
      <4>1. PICK m : m = NR'
        OBVIOUS
      <4>2. m \in Int /\ m <= NRall
        BY <3>1, <4>1
      <4>3. \A r \in 0..m - 1 : r \in Ref
        BY <3>1, <4>2
      <4> QED BY <4>1, <4>3
    <3>3. \A r \in 0..NR' - 1 : rmatches'[r] = None
      BY <2>1, <3>2
    <3> QED BY <3>3 DEF Backed
  <2>6. mu' = Matched(theta', i')
    <3>1. {k \in 0..0 - 1 : theta'[k] >= 0} = {}
      OBVIOUS
    <3>2. Matched(theta', 0) = 0
      BY <3>1, FS_EmptySet DEF Matched
    <3> QED BY <1>3, <2>1, <3>2
  <2>7. NoneYet'
    BY <1>3 DEF NoneYet
  <2> QED BY <1>1, <2>4, <2>5, <2>6, <2>7 DEF Scored
<1> QED BY <1>2, <1>3

\* The filters.
LEMMA FiltersScored ==
  ASSUME IInv, IInv', Scored,
         \/ FindRefs \/ RefTurn \/ RefEnd \/ TestTurn \/ TestEnd \/ verify_uniformize_field
  PROVE  Scored'
<1>1. UNCHANGED <<rmatches, mu, logodds, skewed>>
  BY DEF FindRefs, RefTurn, RefEnd, TestTurn, TestEnd, verify_uniformize_field,
         matches, odds, history
<1>2. pc \in {"start", "uniformize"} \cup RefFilter \cup TestFilter
  BY DEF FindRefs, RefTurn, RefEnd, TestTurn, TestEnd, verify_uniformize_field
<1>3. \/ pc' \notin {"match", "judge"}
      \/ pc' = "match" /\ i' = 0
  <2>1. CASE FindRefs
    BY <2>1 DEF FindRefs
  <2>2. CASE RefTurn \/ TestTurn
    BY <2>2 DEF RefTurn, TestTurn
  <2>3. CASE RefEnd
    BY <2>3 DEF RefEnd, StartMatching, StartFilter
  <2>4. CASE TestEnd
    BY <2>4 DEF TestEnd, StartMatching, StartFilter
  <2>5. CASE verify_uniformize_field
    BY <2>5 DEF verify_uniformize_field, StartMatching, StartFilter
  <2> QED BY <2>1, <2>2, <2>3, <2>4, <2>5
<1>4. NoneYet'
  BY <1>1, <1>2 DEF Scored, NoneYet
<1> QED BY <1>1, <1>2, <1>3, <1>4, OutsideScored

LEMMA EndScored ==
  ASSUME IInv, IInv', Scored, Reject \/ AcceptHit \/ sort_rdls
  PROVE  Scored'
<1>1. UNCHANGED <<rmatches, mu, logodds, skewed>>
  BY DEF Reject, AcceptHit, sort_rdls, matches, odds, history
<1>2. pc' \in {"bailed", "accepted", "sorted"}
  BY DEF Reject, AcceptHit, sort_rdls
<1>3. NoneYet'
  BY <1>2 DEF NoneYet
<1> QED BY <1>1, <1>2, <1>3, OutsideScored

LEMMA StutterScored == Scored /\ UNCHANGED vars => Scored'
<1> SUFFICES ASSUME Scored, UNCHANGED vars PROVE Scored'
  OBVIOUS
<1> USE DEF vars, refs, tests, filter, matches, odds, history
<1>1. Backed' = Backed /\ NoneYet' = NoneYet
  BY DEF Backed, NoneYet, Turned
<1>2. Likelihood' = Likelihood
  BY DEF Likelihood
<1>3. OddsExact' = OddsExact
  BY <1>2 DEF OddsExact
<1> QED BY <1>1, <1>3 DEF Scored

LEMMA InitScored == Init => Scored
  BY DEF Init, Scored, NoneYet, OddsExact

-----------------------------------------------------------------------------
(* The theorems. *)

\* Every step of verify_hit keeps the invariant.
THEOREM StepInvariant == IInv /\ [Next]_vars => IInv'
  BY FindRefsKeeps, RefTurnKeeps, RefEndKeeps, TestTurnKeeps, TestEndKeeps, UniformizeKeeps,
     DistractorKeeps, NewMatchKeeps, ConflictKeeps, RejectKeeps, AcceptHitKeeps, SortRdlsKeeps,
     StutterKeeps DEF Next, Done

THEOREM Invariant == Spec => []IInv
  BY InitInvariant, StepInvariant, PTL DEF Spec

\* The variables of verify_hit keep their types: no index leaves its array.
THEOREM TypeCorrect == Spec => []TypeInv
<1>1. IInv => TypeInv
  BY DEF IInv
<1> QED BY <1>1, Invariant, PTL

\* verify.c: refperm "should remain a permutation array (ie, no duplicates)", and
\* check_permutation of testperm: the filters in place lose and repeat no star.
THEOREM PermutationsAreKept == Spec => []PermutationsKept
<1>1. IInv => PermutationsKept
  <2> SUFFICES ASSUME IInv PROVE PermutationsKept
    OBVIOUS
  <2>1. pc \notin {"start", "refQuad", "refRor"} => Lists(refperm, NRimage, inside)
    BY DEF IInv, Permuted, RefList
  <2>2. pc \notin {"testQuad", "testRor"} => Lists(testperm, NTall, Test)
    BY DEF IInv, Permuted, TestList
  <2> QED BY <2>1, <2>2 DEF PermutationsKept, Lists
<1> QED BY <1>1, Invariant, PTL

\* No reference star gets two matches, neither during the matching nor, with those
\* of the quad put back, in the result, and the quad's matches replace none.
THEOREM MatchesOneToOne == Spec => []OneToOne
<1>1. IInv => OneToOne
  <2> SUFFICES ASSUME IInv PROVE OneToOne
    OBVIOUS
  <2>1. ASSUME pc \in {"match", "judge"}, NEW k \in 0..i - 1, NEW l \in 0..i - 1, k # l,
               theta[k] >= 0
        PROVE  theta[k] # theta[l]
    <3> SUFFICES ASSUME theta[k] = theta[l] PROVE FALSE
      OBVIOUS
    <3>1. PICK q \in 0..NR - 1 : rmatches[q] = k /\ refperm[q] = theta[k]
      BY <2>1 DEF IInv, Linked, Linking
    <3>2. PICK r \in 0..NR - 1 : rmatches[r] = l /\ refperm[r] = theta[l]
      BY <2>1 DEF IInv, Linked, Linking
    <3>3. /\ \A x, y \in 0..NRimage - 1 : x # y => refperm[x] # refperm[y]
          /\ NRimage \in 0..NRall /\ NR \in 0..NRimage
      BY <2>1, ListsInMatching
    <3>4. q \in 0..NRimage - 1 /\ r \in 0..NRimage - 1
      BY <3>1, <3>2, <3>3, Sizes
    <3> QED BY <2>1, <3>1, <3>2, <3>3, <3>4
  <2> QED BY <2>1 DEF OneToOne, IInv, Result
<1> QED BY <1>1, Invariant, PTL

\* The matches of the result name the right reference stars, after fixup_theta
\* always, after sort_rdls if its permutation is its own inverse.
THEOREM ThetaNamesRight == Spec => []ThetaNames
<1>1. IInv => ThetaNames
  BY DEF IInv, Result
<1> QED BY <1>1, Invariant, PTL

\* The log-odds of the matching, which every star changes by what it adds, are those
\* of the matches: LogD need only be concave.  Matches that are taken over past a
\* distractor leave them too high, by what concavity costs, and never too low.
THEOREM OddsAreExact == Spec => []OddsExact
<1>1. Init => IInv /\ Scored
  BY InitInvariant, InitScored
<1>2. IInv /\ IInv' /\ Scored /\ [Next]_vars => Scored'
  BY FiltersScored, DistractorScored, NewMatchScored, ConflictScored, EndScored,
     StutterScored DEF Next, Done
<1>3. Scored => OddsExact
  BY DEF Scored
<1> QED BY <1>1, <1>2, <1>3, Invariant, PTL DEF Spec

=============================================================================
