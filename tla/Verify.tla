------------------------------- MODULE Verify -------------------------------
(***************************************************************************)
(* verify_hit (blind/verify.c): a proposed WCS is scored by matching the   *)
(* stars of the image ("test" stars) with those of the index ("reference"  *)
(* stars) it predicts.  The stars stay where they are; the int arrays      *)
(* refperm and testperm say which of them are in use, and every filter     *)
(* moves what it drops behind the part in use.  After the matching the     *)
(* reference arrays are reordered by refperm and the matches renumbered    *)
(* (fixup_theta), and blind.c may sort them once more (sort_rdls).         *)
(*                                                                         *)
(* Geometry is a choice among given sets, and log-odds are integers with   *)
(* the log of the background density as their zero.                        *)
(***************************************************************************)
EXTENDS Integers, FiniteSets, Functions

CONSTANTS
  NRall,        \* reference stars in the bounding circle of the image
  NTall,        \* test stars: those of the field
  Sweep,        \* the sweep number of each reference star
  Quad,         \* the matched quad, pairs <<test star, id of reference star>>
  Insides,      \* sets of reference stars that may lie inside the image
  Keepers,      \* sets of test stars that deduplication may leave
  NearRefs, NearTests,  \* stars that may lie in the radius of relevance
  LogFg,        \* values of the log-odds of a match
  LogD,         \* logd_at: log-odds of a distractor after so many matches
  Bail, Accept, Stop    \* logbail, logaccept, logstoplooking

Ref == 0..NRall - 1
Test == 0..NTall - 1
QuadTests == {p[1] : p \in Quad}
QuadStars == {p[2] : p \in Quad}

None == -1      \* an element not set, rmatches or a nearest star that is not there

\* The special values of theta.
DISTRACTOR == -1
CONFLICT == -2
FILTERED == -3
BAILEDOUT == -4
STOPPEDLOOKING == -5
Theta == Ref \cup {DISTRACTOR, CONFLICT, FILTERED, BAILEDOUT, STOPPEDLOOKING}

ASSUME VerifyAssumption ==
  /\ NRall \in Nat /\ NTall \in Nat
  /\ Sweep \in [Ref -> Nat]
  /\ Quad \subseteq Test \X Nat
  /\ \A p, q \in Quad : (p[1] = q[1]) <=> (p[2] = q[2])
  /\ Insides \subseteq SUBSET Ref /\ NearRefs \subseteq SUBSET Ref
  /\ Keepers \subseteq SUBSET Test /\ NearTests \subseteq SUBSET Test
  /\ LogFg \subseteq Int /\ LogD \in [0..NRall + 1 -> Int]
  /\ \A m \in 1..NRall : /\ LogD[m] >= LogD[m - 1]      \* a logarithm
                         /\ LogD[m] - LogD[m - 1] >= LogD[m + 1] - LogD[m]
  /\ Bail \in Int /\ Accept \in Int /\ Stop \in Int

VARIABLES
  pc, fake,             \* fake: the WCS does not come from a quad
  inside,               \* the reference stars inside the image
  refperm, NR, NRimage, badguys,
  testperm, NT, tbadguys,
  i, igood, keep,       \* a filter, and the stars that pass it
  theta, rmatches, rprobs, mu,
  logodds, besti, best, \* best: bestlogodds
  etheta, refstarid,    \* what the MatchObj gets
  near,                 \* history: the star each test star was found next to
  skewed,               \* history: was a match taken over past a distractor?
  sorted                \* history: the permutation of sort_rdls

refs == <<inside, refperm, NR, NRimage, badguys>>
tests == <<testperm, NT, tbadguys>>
filter == <<i, igood, keep>>
matches == <<theta, rmatches, rprobs, mu>>
odds == <<logodds, besti, best>>
result == <<etheta, refstarid>>
history == <<near, skewed, sorted>>
vars == <<pc, fake, refs, tests, filter, matches, odds, result, history>>

TypeInv ==
  /\ pc \in {"start", "refQuad", "testQuad", "uniformize", "testRor", "refRor",
             "match", "judge", "accepted", "bailed", "sorted"}
  /\ fake \in BOOLEAN /\ inside \subseteq Ref
  /\ refperm \in [Ref -> Ref \cup {None}] /\ badguys \in [Ref -> Ref \cup {None}]
  /\ NR \in 0..NRimage /\ NRimage \in 0..NRall
  /\ testperm \in [Test -> Test] /\ tbadguys \in [Test -> Test \cup {None}]
  /\ NT \in 0..NTall
  /\ i \in Nat /\ igood \in 0..i
  /\ pc \in {"refQuad", "refRor"} => i <= NR
  /\ pc \in {"testQuad", "testRor", "match", "judge"} => i <= NT
  /\ theta \in [Test -> Theta] /\ rmatches \in [Ref -> Test \cup {None}]
  /\ rprobs \in [Ref -> Int] /\ mu \in Nat /\ besti \in Test \cup {None}
  /\ etheta \in [Test -> Theta] /\ refstarid \in [Ref -> Ref]
  /\ near \in [Test -> Ref \cup {None}] /\ skewed \in BOOLEAN
  /\ sorted \in [Ref -> Ref]

Init ==
  /\ pc = "start" /\ fake \in BOOLEAN /\ inside = {}
  /\ refperm = [k \in Ref |-> None] /\ badguys = [k \in Ref |-> None]
  /\ NR = 0 /\ NRimage = 0
  /\ testperm = [k \in Test |-> k] /\ tbadguys = [k \in Test |-> None] /\ NT = NTall
  /\ i = 0 /\ igood = 0 /\ keep = {}
  /\ theta = [k \in Test |-> FILTERED] /\ rmatches = [r \in Ref |-> None]
  /\ rprobs = [r \in Ref |-> 0] /\ mu = 0
  /\ logodds = 0 /\ best = 0 /\ besti = None
  /\ etheta = [k \in Test |-> FILTERED] /\ refstarid = [r \in Ref |-> r]
  /\ near = [k \in Test |-> None] /\ skewed = FALSE /\ sorted = [r \in Ref |-> r]

-----------------------------------------------------------------------------
(* Reference and test stars are listed and filtered.                       *)

StartFilter(K) == i' = 0 /\ igood' = 0 /\ keep' = K

\* Enter the matching loop, or bail out if there is nothing to match.
StartMatching(nr, nt) ==
  /\ pc' = IF nr = 0 \/ nt = 0 THEN "bailed" ELSE "match"
  /\ StartFilter({})

\* permuted_sort by sweep number: any order that does not decrease.
SortedBySweep(S, n) ==
  {p \in [0..n - 1 -> S] :
     /\ \A x \in S : \E k \in 0..n - 1 : p[k] = x
     /\ \A k, l \in 0..n - 1 : k < l => p[k] # p[l] /\ Sweep[p[k]] <= Sweep[p[l]]}

\* The stars inside the image, by sweep number; for a fake match there is no
\* quad to remove.
FindRefs ==
  /\ pc = "start"
  /\ \E S \in Insides : \E n \in 0..NRall : \E p \in SortedBySweep(S, n) :
       /\ inside' = S /\ NR' = n /\ NRimage' = n
       /\ refperm' = [k \in Ref |-> IF k < n THEN p[k] ELSE None]
  /\ IF ~fake
       THEN pc' = "refQuad" /\ StartFilter(Ref \ QuadStars)
       ELSE IF NR' = 0
       THEN pc' = "bailed" /\ UNCHANGED filter
       ELSE pc' = "testQuad" /\ \E K \in Keepers : StartFilter(K)
  /\ UNCHANGED <<fake, badguys, tests, matches, odds, result, history>>

\* Mutant: the slot of what is dropped is not remembered.
RefTurn_Forgets ==
  /\ pc \in {"refQuad", "refRor"} /\ i < NR
  /\ IF refperm[i] \in keep
       THEN refperm' = [refperm EXCEPT ![igood] = refperm[i]] /\ igood' = igood + 1
       ELSE UNCHANGED <<refperm, igood>>
  /\ i' = i + 1
  /\ UNCHANGED <<pc, fake, inside, NR, NRimage, badguys, tests, keep, matches, odds, result, history>>

\* One turn of a filter of refperm: what passes moves to the front of the same
\* array, what does not is put by.
RefTurn ==
  /\ pc \in {"refQuad", "refRor"} /\ i < NR
  /\ IF refperm[i] \in keep
       THEN /\ refperm' = [refperm EXCEPT ![igood] = refperm[i]]
            /\ igood' = igood + 1 /\ UNCHANGED badguys
       ELSE /\ badguys' = [badguys EXCEPT ![i - igood] = refperm[i]]
            /\ UNCHANGED <<refperm, igood>>
  /\ i' = i + 1
  /\ UNCHANGED <<pc, fake, inside, NR, NRimage, tests, keep, matches, odds, result, history>>

\* refperm with what was put by copied in behind what passed: the memcpy.
Rejoin(perm, bad) ==
  [k \in DOMAIN perm |-> IF igood <= k /\ k < i THEN bad[k - igood] ELSE perm[k]]

\* The end of a filter of refperm.
RefEnd ==
  /\ pc \in {"refQuad", "refRor"} /\ i = NR
  /\ refperm' = Rejoin(refperm, badguys)
  /\ NR' = igood
  /\ IF pc = "refRor"
       THEN StartMatching(NR', NT)
       ELSE IF NR' = 0
       THEN pc' = "bailed" /\ UNCHANGED filter
       ELSE pc' = "testQuad" /\ \E K \in Keepers : StartFilter(K \ QuadTests)
  /\ UNCHANGED <<fake, inside, NRimage, badguys, tests, matches, odds, result, history>>

TestTurn ==
  /\ pc \in {"testQuad", "testRor"} /\ i < NT
  /\ IF testperm[i] \in keep
       THEN /\ testperm' = [testperm EXCEPT ![igood] = testperm[i]]
            /\ igood' = igood + 1 /\ UNCHANGED tbadguys
       ELSE /\ tbadguys' = [tbadguys EXCEPT ![i - igood] = testperm[i]]
            /\ UNCHANGED <<testperm, igood>>
  /\ i' = i + 1
  /\ UNCHANGED <<pc, fake, refs, NT, keep, matches, odds, result, history>>

\* The end of a filter of testperm; verify_apply_ror goes on with a match that
\* is not fake.
TestEnd ==
  /\ pc \in {"testQuad", "testRor"} /\ i = NT
  /\ testperm' = Rejoin(testperm, tbadguys)
  /\ NT' = igood
  /\ IF pc = "testRor"
       THEN pc' = "refRor" /\ \E K \in NearRefs : StartFilter(K)
       ELSE IF fake
       THEN StartMatching(NR, NT')
       ELSE pc' = "uniformize" /\ UNCHANGED filter
  /\ UNCHANGED <<fake, refs, tbadguys, matches, odds, result, history>>

\* verify_uniformize_field takes one star from each bin in turns, if the image
\* has bins; then the radius of relevance is applied, if asked for.
verify_uniformize_field ==
  /\ pc = "uniformize"
  /\ \E p \in [0..NT - 1 -> 0..NT - 1] :
       /\ \A k, l \in 0..NT - 1 : k # l => p[k] # p[l]
       /\ testperm' = [k \in Test |-> IF k < NT THEN testperm[p[k]] ELSE testperm[k]]
  /\ \/ pc' = "testRor" /\ \E K \in NearTests : StartFilter(K)
     \/ StartMatching(NR, NT)
  /\ UNCHANGED <<fake, refs, NT, tbadguys, matches, odds, result, history>>

-----------------------------------------------------------------------------
(* real_verify_star_lists: the test stars are matched one by one.          *)

\* How many of the first n test stars have a match.
Matched(th, n) == Cardinality({k \in 0..n - 1 : th[k] >= 0})

\* Mutant: the old match becomes a distractor of today's density.
switchfg_WrongDensity(r, fg) == fg + LogD[mu] - rprobs[r]

\* The change of the log-odds if test star i takes over reference star r (at
\* position r of the good ones) from test star oldj: the match of oldj becomes
\* a distractor, and so the distractors since count one match less.
switchfg(r, fg) ==
  LET oldj == rmatches[r]
      later == {j \in oldj..i - 1 : theta[j] < 0}
      worse == [j \in later |-> LogD[Matched(theta, j)] - LogD[Matched(theta, j) + 1]]
  IN  fg + LogD[Matched(theta, oldj)] - rprobs[r] + SumFunction(worse)

\* Mutant: the loop does not stop at the last test star.
Score_NoEnd(change) ==
  LET total == logodds + change
      better == total >= Bail /\ (besti = None \/ total > best)
  IN  /\ logodds' = total
      /\ best' = IF better THEN total ELSE best
      /\ besti' = IF better THEN i ELSE besti
      /\ i' = i + 1
      /\ pc' = IF total < Bail \/ total > Stop THEN "judge" ELSE "match"

\* The log-odds with one more test star, and whether to go on.
Score(change) ==
  LET total == logodds + change
      better == total >= Bail /\ (besti = None \/ total > best)
  IN  /\ logodds' = total
      /\ best' = IF better THEN total ELSE best
      /\ besti' = IF better THEN i ELSE besti
      /\ i' = i + 1
      /\ pc' = IF total < Bail \/ total > Stop \/ i + 1 = NT THEN "judge" ELSE "match"

\* No reference star is near, or none near enough to beat a distractor.
Distractor ==
  /\ pc = "match"
  /\ theta' = [theta EXCEPT ![i] = DISTRACTOR]
  /\ Score(LogD[mu])
  /\ UNCHANGED <<fake, refs, tests, igood, keep, rmatches, rprobs, mu, result, history>>

\* Mutant: theta gets the position in the packed list of good stars.
NewMatch_Packed ==
  /\ pc = "match"
  /\ \E r \in 0..NR - 1 : \E fg \in LogFg :
       /\ fg >= LogD[mu] /\ rmatches[r] = None
       /\ theta' = [theta EXCEPT ![i] = r]
       /\ near' = [near EXCEPT ![testperm[i]] = refperm[r]]
       /\ rmatches' = [rmatches EXCEPT ![r] = i]
       /\ rprobs' = [rprobs EXCEPT ![r] = fg]
       /\ Score(fg)
  /\ mu' = mu + 1
  /\ UNCHANGED <<fake, refs, tests, igood, keep, result, skewed, sorted>>

\* The nearest reference star has no match yet.
NewMatch ==
  /\ pc = "match"
  /\ \E r \in 0..NR - 1 : \E fg \in LogFg :
       /\ fg >= LogD[mu] /\ rmatches[r] = None
       /\ theta' = [theta EXCEPT ![i] = refperm[r]]
       /\ near' = [near EXCEPT ![testperm[i]] = refperm[r]]
       /\ rmatches' = [rmatches EXCEPT ![r] = i]
       /\ rprobs' = [rprobs EXCEPT ![r] = fg]
       /\ Score(fg)
  /\ mu' = mu + 1
  /\ UNCHANGED <<fake, refs, tests, igood, keep, result, skewed, sorted>>

\* Mutant: the test star that had the match is left with it.
Conflict_KeepsBoth ==
  /\ pc = "match"
  /\ \E r \in 0..NR - 1 : \E fg \in LogFg :
       /\ fg >= LogD[mu] /\ rmatches[r] # None
       /\ near' = [near EXCEPT ![testperm[i]] = refperm[r]]
       /\ IF switchfg(r, fg) > LogD[mu]
            THEN /\ theta' = [theta EXCEPT ![i] = refperm[r]]
                 /\ rmatches' = [rmatches EXCEPT ![r] = i]
                 /\ rprobs' = [rprobs EXCEPT ![r] = fg]
                 /\ skewed' = (skewed \/ \E j \in rmatches[r]..i - 1 : theta[j] < 0)
                 /\ Score(switchfg(r, fg))
            ELSE /\ theta' = [theta EXCEPT ![i] = CONFLICT]
                 /\ Score(LogD[mu]) /\ UNCHANGED <<rmatches, rprobs, skewed>>
  /\ UNCHANGED <<fake, refs, tests, igood, keep, mu, result, sorted>>

\* It has one: the new match takes over if that is the better account of all
\* test stars so far, and is a conflict otherwise.
Conflict ==
  /\ pc = "match"
  /\ \E r \in 0..NR - 1 : \E fg \in LogFg :
       /\ fg >= LogD[mu] /\ rmatches[r] # None
       /\ near' = [near EXCEPT ![testperm[i]] = refperm[r]]
       /\ IF switchfg(r, fg) > LogD[mu]
            THEN /\ theta' = [theta EXCEPT ![rmatches[r]] = CONFLICT, ![i] = refperm[r]]
                 /\ rmatches' = [rmatches EXCEPT ![r] = i]
                 /\ rprobs' = [rprobs EXCEPT ![r] = fg]
                 /\ skewed' = (skewed \/ \E j \in rmatches[r]..i - 1 : theta[j] < 0)
                 /\ Score(switchfg(r, fg))
            ELSE /\ theta' = [theta EXCEPT ![i] = CONFLICT]
                 /\ Score(LogD[mu]) /\ UNCHANGED <<rmatches, rprobs, skewed>>
  /\ UNCHANGED <<fake, refs, tests, igood, keep, mu, result, sorted>>

-----------------------------------------------------------------------------
(* The end of verify_hit, and sort_rdls.                                   *)

\* Test stars that were never reached.
Unreached == IF logodds < Bail THEN BAILEDOUT ELSE STOPPEDLOOKING

\* New position of a reference star: the inverse of refperm.
invrperm(x) == CHOOSE k \in 0..NRimage - 1 : refperm[k] = x

\* fixup_theta: the place of t among the test stars tried gives its match, as
\* a position in the reordered arrays.
fixup_theta(t) ==
  LET k == CHOOSE k \in Test : testperm[k] = t
  IN  IF k >= NT THEN FILTERED
      ELSE IF k >= i THEN Unreached
      ELSE IF theta[k] < 0 THEN theta[k]
      ELSE invrperm(theta[k])

\* The matches, with those of the quad put back.
Reinsert(th, ids) ==
  [t \in Test |->
     IF \E p \in Quad : p[1] = t /\ \E k \in 0..NRimage - 1 : ids[k] = p[2]
       THEN CHOOSE k \in 0..NRimage - 1 : <<t, ids[k]>> \in Quad
       ELSE th[t]]

\* The log-odds are not high enough.
Reject ==
  /\ pc = "judge" /\ (besti = None \/ best < Accept)
  /\ pc' = "bailed"
  /\ UNCHANGED <<fake, refs, tests, filter, matches, odds, result, history>>

\* They are.
AcceptHit ==
  /\ pc = "judge" /\ besti # None /\ best >= Accept
  /\ pc' = "accepted"
  /\ refstarid' = [k \in Ref |-> IF k < NRimage THEN refstarid[refperm[k]] ELSE refstarid[k]]
  /\ LET th == [t \in Test |-> fixup_theta(t)]
     IN  etheta' = IF fake THEN th ELSE Reinsert(th, refstarid')
  /\ UNCHANGED <<fake, refs, tests, filter, matches, odds, history>>

Permutations(n) ==
  {p \in [Ref -> Ref] : /\ \A k, l \in Ref : k # l => p[k] # p[l]
                        /\ \A k \in Ref : k >= n => p[k] = k}

\* blind.c sorts the reference stars of the result by a column of the index.
sort_rdls ==
  /\ pc = "accepted"
  /\ pc' = "sorted"
  /\ \E p \in Permutations(NRimage) :
       /\ sorted' = p
       /\ refstarid' = [k \in Ref |-> refstarid[p[k]]]
       /\ etheta' = [t \in Test |-> IF etheta[t] < 0 THEN etheta[t] ELSE p[etheta[t]]]
  /\ UNCHANGED <<fake, refs, tests, filter, matches, odds, near, skewed>>

Done == pc \in {"bailed", "sorted"} /\ UNCHANGED vars

Next ==
  \/ FindRefs \/ RefTurn \/ RefEnd \/ TestTurn \/ TestEnd
  \/ verify_uniformize_field
  \/ Distractor \/ NewMatch \/ Conflict
  \/ Reject \/ AcceptHit \/ sort_rdls
  \/ Done

Spec == Init /\ [][Next]_vars

-----------------------------------------------------------------------------
(* Properties. *)

\* "refperm" should remain a permutation array (ie, no duplicates)": between
\* filters, what is in use and what was filtered are the stars inside the image,
\* each once; testperm is complete, as check_permutation asserts.
PermutationsKept ==
  /\ pc \notin {"start", "refQuad", "refRor"} =>
       /\ \A k, l \in 0..NRimage - 1 : k # l => refperm[k] # refperm[l]
       /\ {refperm[k] : k \in 0..NRimage - 1} = inside
  /\ pc \notin {"testQuad", "testRor"} =>
       \A k, l \in Test : k # l => testperm[k] # testperm[l]

\* No reference star is matched with two test stars, neither among the test
\* stars tried so far nor, with those of the quad, in the result; and, as
\* assert(etheta[ti] == THETA_FILTERED) says, the matches of the quad that are
\* put back replace no match found for the same test stars.
OneToOne ==
  /\ pc \in {"match", "judge"} =>
       \A k, l \in 0..i - 1 : k # l /\ theta[k] >= 0 => theta[k] # theta[l]
  /\ pc \in {"accepted", "sorted"} =>
       \A s, t \in Test : s # t /\ etheta[s] >= 0 => etheta[s] # etheta[t]
  /\ pc = "accepted" /\ ~fake =>
       \A p \in Quad : fixup_theta(p[1]) = FILTERED

Named ==
  \A t \in Test : etheta[t] >= 0 =>
    \/ refstarid[etheta[t]] = near[t]
    \/ ~fake /\ <<t, refstarid[etheta[t]]>> \in Quad

\* A match of the result, through all the renumberings, names the reference star
\* that the test star was found next to, or that it has in the quad.  sort_rdls
\* renumbers with its permutation where the inverse is wanted: the matches stay
\* right only if it exchanges stars in pairs.
ThetaNames ==
  pc = "accepted" \/ (pc = "sorted" /\ \A r \in Ref : sorted[sorted[r]] = r) => Named

\* matchobj.h of theta: "theta[i] is the reference star that matched, as an
\* index in the "refxyz", "refxy", and "refstarid" arrays".
ThetaIndexesArrays == pc \in {"accepted", "sorted"} => Named

\* What the matches so far say of the log-odds: each match counts what it is
\* worth, each other test star as a distractor after the matches before it.
Likelihood ==
  LET worth == [k \in 0..i - 1 |->
                  IF theta[k] >= 0
                    THEN rprobs[CHOOSE r \in 0..NR - 1 : rmatches[r] = k]
                    ELSE LogD[Matched(theta, k)]]
  IN  SumFunction(worth)

\* The log-odds, kept up to date star by star, are those of the matches, as long
\* as no match was taken over past a distractor; then they are too high, never
\* too low (the density of distractors is a concave function of the matches).
OddsExact ==
  pc \in {"match", "judge"} =>
    /\ logodds >= Likelihood
    /\ ~skewed => logodds = Likelihood

\* "switchfg" incorporates the cost of adjusting the previous probabilities.
LogoddsIsLikelihood == pc \in {"match", "judge"} => logodds = Likelihood

=============================================================================
