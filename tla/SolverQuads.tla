----------------------------- MODULE SolverQuads ----------------------------
(***************************************************************************)
(* The order in which solver_run (blind/solver.c) builds quads of field    *)
(* stars and tries them with each index.  A quad has two stars A < B on    *)
(* its diagonal and a set of stars inside its circle; the loop takes one   *)
(* new star at a time, first as B and then as one of the stars inside.     *)
(* For each pair A, B the solver keeps which stars are inside the circle   *)
(* ("inbox"), filled in for the stars seen so far (the first "ninbox").    *)
(* A hit on any quad may end the search.                                   *)
(***************************************************************************)
EXTENDS Integers, FiniteSets

CONSTANTS
  NumObj,       \* objects of the field
  NIndex,       \* indexes the solver was given
  Dim,          \* for each index, the number of stars in its quads
  ScaleOk,      \* pairs whose distance check_scale accepts
  Fits,         \* for each index, the pairs whose distance suits it
  Circle        \* for each pair, the stars inside its circle

Obj == 0..NumObj - 1
Index == 1..NIndex
Pair == Obj \X Obj
Quad == Index \X Obj \X Obj \X SUBSET Obj

ASSUME QuadsAssumption ==
  /\ NumObj \in Nat /\ NIndex \in Nat
  /\ Dim \in [Index -> Nat] /\ \A i \in Index : Dim[i] >= 3
  /\ ScaleOk \subseteq Pair
  /\ Fits \in [Index -> SUBSET Pair]
  /\ Circle \in [Pair -> SUBSET Obj]

VARIABLES
  start, numxy,   \* the search takes stars from start up to numxy
  pc,
  n,              \* newpoint
  i, a, b,        \* the loops over indexes and over the stars of the pair
  scale_ok,       \* pairs whose scale was found to be right
  inbox, ninbox,  \* for each pair, the stars inside, of the first ninbox ones
  quit_now,       \* was the search told to end early?
  tried,          \* history: what was tried, <<index, A, B, inside>>
  again           \* history: was something tried a second time?

loops == <<n, i, a, b>>
pquads == <<scale_ok, inbox, ninbox>>
vars == <<start, numxy, pc, loops, pquads, quit_now, tried, again>>

TypeInv ==
  /\ start \in 0..NumObj /\ numxy \in 0..NumObj /\ start < numxy
  /\ pc \in {"prime", "new", "diagonal", "inside", "done"}
  /\ n \in start..numxy /\ i \in 1..NIndex + 1 /\ a \in 0..n /\ b \in Nat
  /\ pc \in {"diagonal", "inside"} => n < numxy
  /\ scale_ok \subseteq Pair
  /\ inbox \in [Pair -> SUBSET Obj] /\ ninbox \in [Pair -> 0..NumObj]
  /\ quit_now \in BOOLEAN /\ again \in BOOLEAN
  /\ tried \subseteq Quad

Init ==
  /\ numxy \in 1..NumObj /\ start \in 0..numxy - 1
  /\ pc = "prime" /\ n = start /\ i = 1 /\ a = 0 /\ b = 0
  /\ scale_ok = {}
  /\ inbox = [p \in Pair |-> {}] /\ ninbox = [p \in Pair |-> 0]
  /\ quit_now = FALSE /\ tried = {} /\ again = FALSE

-----------------------------------------------------------------------------
\* check_scale on each of the pairs P, and check_inbox up to k for those it suits.
MakePquads(P, k) ==
  LET good == P \cap ScaleOk
  IN  /\ scale_ok' = scale_ok \cup good
      /\ inbox' = [p \in Pair |-> IF p \in good
                     THEN {c \in Circle[p] : c < k} \ {p[1], p[2]} ELSE inbox[p]]
      /\ ninbox' = [p \in Pair |-> IF p \in good THEN k ELSE ninbox[p]]

\* The sets of stars inside that an index may ask for.
Inner(j) == {S \in SUBSET Obj : Cardinality(S) = Dim[j] - 2}

\* add_stars: the quads of pair p for index j that have the stars of C inside,
\* and otherwise stars of box.  It adds them in increasing order, so a quad is
\* the set of its stars inside.
add_stars(j, p, C, box) ==
  {<<j, p[1], p[2], S>> : S \in {T \in Inner(j) : C \subseteq T /\ T \subseteq C \cup box}}

\* Stars inside pair p that come before the new one.
Earlier(p) == {c \in inbox[p] : c < n}

\* What is tried for index i with the new star as B,
DiagonalQuads ==
  IF <<a, n>> \in scale_ok \cap Fits[i] THEN add_stars(i, <<a, n>>, {}, Earlier(<<a, n>>))
                                       ELSE {}

\* Mutant: add_stars does not keep the new star.
InsideQuads_AnyStars ==
  IF <<a, b>> \in scale_ok /\ n \in Circle[<<a, b>>]
  THEN UNION {add_stars(j, <<a, b>>, {}, Earlier(<<a, b>>) \cup {n}) :
              j \in {k \in Index : <<a, b>> \in Fits[k]}}
  ELSE {}

\* and for all indexes with the new star inside the circle of A, B.
InsideQuads ==
  IF <<a, b>> \in scale_ok /\ n \in Circle[<<a, b>>]
  THEN UNION {add_stars(j, <<a, b>>, {n}, Earlier(<<a, b>>)) :
              j \in {k \in Index : <<a, b>> \in Fits[k]}}
  ELSE {}

\* Quads are tried, all of Q or, if a hit or a limit tells the solver to quit,
\* some of them.
Try(Q, next) ==
  \/ /\ tried' = tried \cup Q
     /\ again' = (again \/ Q \cap tried # {})
     /\ pc' = next /\ UNCHANGED quit_now
  \/ \E T \in (SUBSET Q) \ {{}} :
       /\ tried' = tried \cup T
       /\ again' = (again \/ T \cap tried # {})
       /\ pc' = "done" /\ quit_now' = TRUE

\* Mutant: the triangle of pairs is one row short.
Prime_OneShort ==
  /\ pc = "prime"
  /\ MakePquads({p \in Pair : p[1] < p[2] /\ p[2] < start - 1}, start)
  /\ pc' = "new"
  /\ UNCHANGED <<start, numxy, loops, quit_now, tried, again>>

\* Mutant: the inbox is one star short.
Prime_ShortInbox ==
  /\ pc = "prime"
  /\ MakePquads({p \in Pair : p[1] < p[2] /\ p[2] < start}, start - 1)
  /\ pc' = "new"
  /\ UNCHANGED <<start, numxy, loops, quit_now, tried, again>>

\* With startobj, the pairs of all stars before it.
Prime ==
  /\ pc = "prime"
  /\ MakePquads({p \in Pair : p[1] < p[2] /\ p[2] < start}, start)
  /\ pc' = "new"
  /\ UNCHANGED <<start, numxy, loops, quit_now, tried, again>>

\* Mutant: one star too many.
NewStar_OneMore ==
  /\ pc = "new" /\ n <= numxy
  /\ MakePquads({p \in Pair : p[1] < n /\ p[2] = n}, n + 1)
  /\ pc' = "diagonal" /\ i' = 1 /\ a' = 0
  /\ UNCHANGED <<start, numxy, n, b, quit_now, tried, again>>

\* A new star: make the pairs that have it as B.
NewStar ==
  /\ pc = "new" /\ n < numxy
  /\ MakePquads({p \in Pair : p[1] < n /\ p[2] = n}, n + 1)
  /\ pc' = "diagonal" /\ i' = 1 /\ a' = 0
  /\ UNCHANGED <<start, numxy, n, b, quit_now, tried, again>>

\* The timer callback ends the search.
TimerStops ==
  /\ pc = "new" /\ n < numxy
  /\ pc' = "done" /\ quit_now' = TRUE
  /\ UNCHANGED <<start, numxy, loops, pquads, tried, again>>

AllDone ==
  /\ pc = "new" /\ n = numxy
  /\ pc' = "done"
  /\ UNCHANGED <<start, numxy, loops, pquads, quit_now, tried, again>>

TryDiagonal ==
  /\ pc = "diagonal" /\ i <= NIndex /\ a < n
  /\ Try(DiagonalQuads, "diagonal")
  /\ a' = a + 1
  /\ UNCHANGED <<start, numxy, n, i, b, pquads>>

NextIndex ==
  /\ pc = "diagonal" /\ i <= NIndex /\ a = n
  /\ i' = i + 1 /\ a' = 0
  /\ UNCHANGED <<start, numxy, pc, n, b, pquads, quit_now, tried, again>>

DiagonalEnd ==
  /\ pc = "diagonal" /\ i > NIndex
  /\ pc' = "inside" /\ a' = 0 /\ b' = 1
  /\ UNCHANGED <<start, numxy, n, i, pquads, quit_now, tried, again>>

\* Mutant: the new star is put inside every circle.
TryInside_NoCheck ==
  /\ pc = "inside" /\ a < n /\ b < n
  /\ IF <<a, b>> \in scale_ok
     THEN /\ inbox' = [inbox EXCEPT ![<<a, b>>] = @ \cup {n}]
          /\ ninbox' = [ninbox EXCEPT ![<<a, b>>] = n + 1]
     ELSE UNCHANGED <<inbox, ninbox>>
  /\ Try(InsideQuads, "inside")
  /\ b' = b + 1
  /\ UNCHANGED <<start, numxy, n, i, a, scale_ok>>

\* The new star inside the circle of A, B, if it is there.
TryInside ==
  /\ pc = "inside" /\ a < n /\ b < n
  /\ IF <<a, b>> \in scale_ok
     THEN /\ inbox' = [inbox EXCEPT ![<<a, b>>] = (@ \ {n}) \cup (Circle[<<a, b>>] \cap {n})]
          /\ ninbox' = [ninbox EXCEPT ![<<a, b>>] = n + 1]
     ELSE UNCHANGED <<inbox, ninbox>>
  /\ Try(InsideQuads, "inside")
  /\ b' = b + 1
  /\ UNCHANGED <<start, numxy, n, i, a, scale_ok>>

NextA ==
  /\ pc = "inside" /\ a < n /\ b >= n
  /\ a' = a + 1 /\ b' = a + 2
  /\ UNCHANGED <<start, numxy, pc, n, i, pquads, quit_now, tried, again>>

\* The star is done; maxquads or maxmatches may end the search here.
InsideEnd ==
  /\ pc = "inside" /\ a = n
  /\ n' = n + 1 /\ a' = 0
  /\ \/ pc' = "new" /\ UNCHANGED quit_now
     \/ pc' = "done" /\ quit_now' = TRUE
  /\ UNCHANGED <<start, numxy, i, b, pquads, tried, again>>

Finished == pc = "done" /\ UNCHANGED vars

Next ==
  \/ Prime \/ NewStar \/ TimerStops \/ AllDone
  \/ TryDiagonal \/ NextIndex \/ DiagonalEnd
  \/ TryInside \/ NextA \/ InsideEnd
  \/ Finished

Spec == Init /\ [][Next]_vars

-----------------------------------------------------------------------------
(* Properties. *)

\* A quad some index can hold: its pair suits the index, its other stars are in
\* the circle.
Valid(q) ==
  /\ q[2] < q[3]
  /\ <<q[2], q[3]>> \in ScaleOk \cap Fits[q[1]]
  /\ q[4] \in Inner(q[1])
  /\ q[4] \subseteq Circle[<<q[2], q[3]>>] \ {q[2], q[3]}

\* All stars of the quad come before star k.
Before(q, k) == q[3] < k /\ \A c \in q[4] : c < k

\* No quad is tried twice with the same index: the loop over quads with the new
\* star as B and the one over quads with it inside never build the same one, nor
\* one that an earlier star has completed.
TriedOnce == ~again

\* Only valid quads are tried, with their newest star in the depth range: so a
\* later search of the stars that follow repeats none of them.
TriedInRange == \A q \in tried : Valid(q) /\ Before(q, numxy) /\ ~Before(q, start)

\* A search that is not cut short has tried every valid quad of the depth range,
\* those whose pair was made while priming included.
TriedAll ==
  pc = "done" /\ ~quit_now =>
    \A q \in Quad : Valid(q) /\ Before(q, numxy) /\ ~Before(q, start) => q \in tried

\* While quads are tried, the inbox of each pair used is filled in for every star
\* before the new one: what lies past ninbox is uninitialised memory.
InboxCurrent ==
  pc \in {"diagonal", "inside"} => \A p \in scale_ok : ninbox[p] >= n

=============================================================================
