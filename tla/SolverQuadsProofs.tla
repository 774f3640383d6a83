-------------------------- MODULE SolverQuadsProofs -------------------------
(***************************************************************************)
(* Proofs about SolverQuads, for every number of objects and indexes,      *)
(* every geometry of the field and every depth range.                      *)
(***************************************************************************)
EXTENDS SolverQuads, TLAPS

\* Searching, before anything has told the solver to quit.
Searching == pc \in {"new", "diagonal", "inside"}

\* The pairs made so far: all whose stars have been taken and whose scale is right.
PairsMade ==
  /\ pc = "prime" => n = start /\ scale_ok = {} /\ tried = {}
  /\ Searching =>
       scale_ok = {p \in Pair : p \in ScaleOk /\ p[1] < p[2] /\
                     IF pc = "new" THEN p[2] < n ELSE p[2] <= n}

\* How many stars of each pair's inbox are filled in: one more for the pairs that
\* have the new star as B and for those the inner loop has passed.
Filled(p) ==
  IF \/ pc = "diagonal" /\ p[2] = n
     \/ pc = "inside" /\ (p[2] = n \/ p[1] < a \/ (p[1] = a /\ p[2] < b))
  THEN n + 1 ELSE n

InboxRight ==
  Searching => \A p \in scale_ok :
    /\ ninbox[p] = Filled(p)
    /\ inbox[p] = {c \in Circle[p] : c < Filled(p)} \ {p[1], p[2]}

\* The quads of the new star that have been tried.
Now(q) ==
  \/ /\ pc \in {"diagonal", "inside"} /\ q[3] = n /\ \A c \in q[4] : c < n
     /\ pc = "diagonal" => q[1] < i \/ (q[1] = i /\ q[2] < a)
  \/ /\ pc = "inside" /\ q[3] < n /\ n \in q[4] /\ \A c \in q[4] : c <= n
     /\ q[2] < a \/ (q[2] = a /\ q[3] < b)

\* What has been tried: the valid quads whose newest star lies in the range and
\* before the new star, and those of the new star the loops have passed.
TriedExactly ==
  Searching => \A q \in Quad :
    q \in tried <=> Valid(q) /\ ~Before(q, start) /\ (Before(q, n) \/ Now(q))

\* An unfinished search has not been told to quit; a finished one that has not
\* been told to quit has tried everything.
QuitInv ==
  /\ pc # "done" => ~quit_now
  /\ pc = "done" /\ ~quit_now =>
       \A q \in Quad : Valid(q) /\ Before(q, numxy) /\ ~Before(q, start) => q \in tried

IInv ==
  /\ TypeInv /\ PairsMade /\ InboxRight /\ TriedExactly /\ QuitInv
  /\ TriedOnce /\ TriedInRange

-----------------------------------------------------------------------------
(* What is tried, as conditions on one quad. *)

LEMMA InnerSets == \A j : Inner(j) \subseteq SUBSET Obj
  BY DEF Inner

LEMMA QuadIsTuple ==
  ASSUME NEW q \in Quad
  PROVE  /\ q = <<q[1], q[2], q[3], q[4]>>
         /\ q[1] \in Index /\ q[2] \in Obj /\ q[3] \in Obj /\ q[4] \in SUBSET Obj
  BY DEF Quad

LEMMA AddStars ==
  ASSUME NEW q \in Quad, NEW j, NEW x, NEW y, NEW C, NEW box
  PROVE  q \in add_stars(j, <<x, y>>, C, box) <=>
           /\ q[1] = j /\ q[2] = x /\ q[3] = y
           /\ q[4] \in Inner(j) /\ C \subseteq q[4] /\ q[4] \subseteq C \cup box
<1>1. ASSUME q \in add_stars(j, <<x, y>>, C, box)
      PROVE  /\ q[1] = j /\ q[2] = x /\ q[3] = y
             /\ q[4] \in Inner(j) /\ C \subseteq q[4] /\ q[4] \subseteq C \cup box
  <2>1. PICK S \in {T \in Inner(j) : C \subseteq T /\ T \subseteq C \cup box} :
                q = <<j, x, y, S>>
    BY <1>1 DEF add_stars
  <2> QED BY <2>1
<1>2. ASSUME q[1] = j, q[2] = x, q[3] = y,
             q[4] \in Inner(j), C \subseteq q[4], q[4] \subseteq C \cup box
      PROVE  q \in add_stars(j, <<x, y>>, C, box)
  <2>1. q = <<j, x, y, q[4]>>
    BY <1>2, QuadIsTuple
  <2> QED BY <1>2, <2>1 DEF add_stars
<1> QED BY <1>1, <1>2

LEMMA DiagonalIs ==
  ASSUME TypeInv, PairsMade, InboxRight, pc = "diagonal", i <= NIndex, a < n,
         NEW q \in Quad
  PROVE  q \in DiagonalQuads <=>
           /\ Valid(q) /\ q[1] = i /\ q[2] = a /\ q[3] = n
           /\ \A c \in q[4] : c < n
<1> DEFINE p == <<a, n>>
<1>0. /\ n \in Obj /\ a \in Obj /\ a < n /\ n \in Nat /\ p \in Pair /\ i \in Index
      /\ p[1] = a /\ p[2] = n
  BY QuadsAssumption DEF TypeInv, Obj, Pair, Index
<1>1. p \in scale_ok <=> p \in ScaleOk
  BY <1>0 DEF PairsMade, Searching
<1>2. ASSUME p \in scale_ok
      PROVE  Earlier(p) = {c \in Circle[p] : c < n} \ {a, n}
  <2>1. inbox[p] = {c \in Circle[p] : c < n + 1} \ {p[1], p[2]}
    BY <1>0, <1>2 DEF InboxRight, Searching, Filled
  <2>2. Circle[p] \subseteq Obj
    BY <1>0, QuadsAssumption
  <2> QED BY <1>0, <2>1, <2>2 DEF Earlier, Obj
<1>3. CASE p \in ScaleOk \cap Fits[i]
  <2>1. p \in scale_ok
    BY <1>1, <1>3
  <2>2. DiagonalQuads = add_stars(i, p, {}, Earlier(p))
    BY <1>3, <2>1 DEF DiagonalQuads
  <2>3. q \in DiagonalQuads <=> /\ q[1] = i /\ q[2] = a /\ q[3] = n
                                /\ q[4] \in Inner(i) /\ q[4] \subseteq Earlier(p)
    BY <2>2, AddStars
  <2>4. ASSUME q[1] = i, q[2] = a, q[3] = n
        PROVE  q[4] \subseteq Earlier(p) <=>
                  q[4] \subseteq Circle[p] \ {a, n} /\ \A c \in q[4] : c < n
    BY <1>2, <2>1
  <2> QED BY <1>0, <1>3, <2>3, <2>4 DEF Valid
<1>4. CASE p \notin ScaleOk \cap Fits[i]
  <2>1. q \notin DiagonalQuads
    BY <1>1, <1>4 DEF DiagonalQuads
  <2> QED BY <1>4, <2>1 DEF Valid
<1> QED BY <1>3, <1>4

LEMMA InsideIs ==
  ASSUME TypeInv, PairsMade, InboxRight, pc = "inside", a < n, b < n,
         NEW q \in Quad
  PROVE  q \in InsideQuads <=>
           /\ Valid(q) /\ q[2] = a /\ q[3] = b
           /\ n \in q[4] /\ \A c \in q[4] : c <= n
<1> DEFINE p == <<a, b>>
<1>0. /\ n \in Obj /\ a \in Obj /\ b \in Obj /\ n \in Nat /\ p \in Pair
      /\ p[1] = a /\ p[2] = b
  BY QuadsAssumption DEF TypeInv, Obj, Pair
<1>1. p \in scale_ok <=> p \in ScaleOk /\ a < b
  BY <1>0 DEF PairsMade, Searching
<1>2. ASSUME p \in scale_ok
      PROVE  Earlier(p) = {c \in Circle[p] : c < n} \ {a, b}
  <2>1. inbox[p] = {c \in Circle[p] : c < n} \ {p[1], p[2]}
    BY <1>0, <1>2 DEF InboxRight, Searching, Filled
  <2> QED BY <1>0, <2>1 DEF Earlier
<1>3. CASE p \in scale_ok /\ n \in Circle[p]
  <2>1. InsideQuads = UNION {add_stars(j, p, {n}, Earlier(p)) :
                              j \in {k \in Index : p \in Fits[k]}}
    BY <1>3 DEF InsideQuads
  <2>2. q \in InsideQuads <=>
          \E j \in Index : p \in Fits[j] /\ q \in add_stars(j, p, {n}, Earlier(p))
    BY <2>1
  <2>3. q \in InsideQuads <=>
          \E j \in Index : /\ p \in Fits[j] /\ q[1] = j /\ q[2] = a /\ q[3] = b
                           /\ q[4] \in Inner(j) /\ {n} \subseteq q[4]
                           /\ q[4] \subseteq {n} \cup Earlier(p)
    <3>1. \A j \in Index : q \in add_stars(j, <<a, b>>, {n}, Earlier(p)) <=>
                             /\ q[1] = j /\ q[2] = a /\ q[3] = b
                             /\ q[4] \in Inner(j) /\ {n} \subseteq q[4]
                             /\ q[4] \subseteq {n} \cup Earlier(p)
      BY AddStars
    <3> QED BY <2>2, <3>1
  <2>4. q[1] \in Index /\ q[4] \in SUBSET Obj
    BY QuadIsTuple
  <2>5. ASSUME {n} \subseteq q[4]
        PROVE  q[4] \subseteq {n} \cup Earlier(p) <=>
                 q[4] \subseteq Circle[p] \ {a, b} /\ \A c \in q[4] : c <= n
    <3>1. Earlier(p) = {c \in Circle[p] : c < n} \ {a, b} /\ n \in Circle[p]
      BY <1>2, <1>3
    <3> QED BY <1>0, <2>4, <3>1 DEF Obj
  <2>6. a < b
    BY <1>1, <1>3
  <2> QED BY <1>0, <1>1, <1>3, <2>3, <2>4, <2>5, <2>6 DEF Valid
<1>4. CASE ~(p \in scale_ok /\ n \in Circle[p])
  <2>1. q \notin InsideQuads
    BY <1>4 DEF InsideQuads
  <2>2. q[1] \in Index
    BY QuadIsTuple
  <2> QED BY <1>1, <1>4, <2>1, <2>2 DEF Valid
<1> QED BY <1>3, <1>4

LEMMA AddStarsType ==
  ASSUME NEW j \in Index, NEW x \in Obj, NEW y \in Obj, NEW C, NEW box
  PROVE  add_stars(j, <<x, y>>, C, box) \subseteq Quad
<1> SUFFICES ASSUME NEW q \in add_stars(j, <<x, y>>, C, box)
             PROVE  q \in Quad
  OBVIOUS
<1>1. PICK S \in {T \in Inner(j) : C \subseteq T /\ T \subseteq C \cup box} :
              q = <<j, x, y, S>>
  BY DEF add_stars
<1>2. S \in SUBSET Obj
  BY InnerSets
<1> QED BY <1>1, <1>2 DEF Quad

\* Whatever ends the search, only some of the quads at hand have been tried.
LEMMA TrySome ==
  ASSUME NEW Q, NEW next, Try(Q, next)
  PROVE  \/ /\ pc' = next /\ quit_now' = quit_now /\ tried' = tried \cup Q
            /\ again' = (again \/ Q \cap tried # {})
         \/ /\ pc' = "done" /\ quit_now' = TRUE
            /\ \E T \in SUBSET Q : /\ tried' = tried \cup T
                                   /\ again' = (again \/ T \cap tried # {})
  BY DEF Try

LEMMA TryType ==
  ASSUME TypeInv, NEW Q \in SUBSET Quad, NEW next, Try(Q, next)
  PROVE  /\ tried' \subseteq Quad /\ again' \in BOOLEAN /\ quit_now' \in BOOLEAN
         /\ pc' \in {next, "done"}
<1>1. tried \subseteq Quad /\ again \in BOOLEAN /\ quit_now \in BOOLEAN
  BY DEF TypeInv
<1>2. CASE /\ pc' = next /\ quit_now' = quit_now /\ tried' = tried \cup Q
           /\ again' = (again \/ Q \cap tried # {})
  BY <1>1, <1>2
<1>3. CASE /\ pc' = "done" /\ quit_now' = TRUE
           /\ \E T \in SUBSET Q : /\ tried' = tried \cup T
                                  /\ again' = (again \/ T \cap tried # {})
  BY <1>1, <1>3
<1> QED BY <1>2, <1>3, TrySome

-----------------------------------------------------------------------------
(* Types. *)

LEMMA MakePquadsType ==
  ASSUME TypeInv, NEW P \in SUBSET Pair, NEW k \in 0..NumObj, MakePquads(P, k)
  PROVE  /\ scale_ok' \subseteq Pair
         /\ inbox' \in [Pair -> SUBSET Obj] /\ ninbox' \in [Pair -> 0..NumObj]
<1>1. \A p \in Pair : {c \in Circle[p] : c < k} \ {p[1], p[2]} \in SUBSET Obj
  BY QuadsAssumption
<1> QED BY <1>1 DEF MakePquads, TypeInv

LEMMA TypeInit == Init => TypeInv
<1> SUFFICES ASSUME Init PROVE TypeInv
  OBVIOUS
<1>1. NumObj \in Nat /\ NIndex \in Nat
  BY QuadsAssumption
<1>2. /\ start \in 0..NumObj /\ numxy \in 0..NumObj /\ start < numxy
      /\ n \in start..numxy /\ i \in 1..NIndex + 1 /\ a \in 0..n /\ b \in Nat
  BY <1>1 DEF Init
<1>3. inbox \in [Pair -> SUBSET Obj] /\ ninbox \in [Pair -> 0..NumObj]
  BY <1>1 DEF Init
<1>4. /\ pc = "prime" /\ scale_ok = {} /\ tried = {}
      /\ quit_now = FALSE /\ again = FALSE
  BY DEF Init
<1> QED BY <1>2, <1>3, <1>4 DEF TypeInv

LEMMA TypeStep ==
  ASSUME TypeInv, [Next]_vars
  PROVE  TypeInv'
<1> USE QuadsAssumption
<1>1. CASE Prime
  <2>1. start \in 0..NumObj /\ {p \in Pair : p[1] < p[2] /\ p[2] < start} \in SUBSET Pair
    BY DEF TypeInv
  <2> QED BY <1>1, <2>1, MakePquadsType DEF TypeInv, Prime, loops
<1>2. CASE NewStar
  <2>1. n + 1 \in 0..NumObj /\ {p \in Pair : p[1] < n /\ p[2] = n} \in SUBSET Pair
    BY <1>2 DEF TypeInv, NewStar
  <2>2. /\ scale_ok' \subseteq Pair
        /\ inbox' \in [Pair -> SUBSET Obj] /\ ninbox' \in [Pair -> 0..NumObj]
    BY <1>2, <2>1, MakePquadsType DEF NewStar
  <2> QED BY <1>2, <2>2 DEF TypeInv, NewStar
<1>3. CASE TimerStops
  BY <1>3 DEF TypeInv, TimerStops, loops, pquads
<1>4. CASE AllDone
  BY <1>4 DEF TypeInv, AllDone, loops, pquads
<1>5. CASE TryDiagonal
  <2>1. i \in Index /\ a \in Obj /\ n \in Obj
    BY <1>5 DEF TypeInv, TryDiagonal, Index, Obj
  <2>2. DiagonalQuads \subseteq Quad
    BY <2>1, AddStarsType DEF DiagonalQuads
  <2>3. Try(DiagonalQuads, "diagonal")
    BY <1>5 DEF TryDiagonal
  <2>4. /\ tried' \subseteq Quad /\ again' \in BOOLEAN /\ quit_now' \in BOOLEAN
        /\ pc' \in {"diagonal", "done"}
    BY <2>2, <2>3, TryType
  <2> QED BY <1>5, <2>4 DEF TypeInv, TryDiagonal, pquads
<1>6. CASE NextIndex
  BY <1>6 DEF TypeInv, NextIndex, pquads
<1>7. CASE DiagonalEnd
  BY <1>7 DEF TypeInv, DiagonalEnd, pquads
<1>8. CASE TryInside
  <2>1. a \in Obj /\ b \in Obj /\ n \in Obj /\ <<a, b>> \in Pair
    BY <1>8 DEF TypeInv, TryInside, Obj, Pair
  <2>2. InsideQuads \subseteq Quad
    <3>1. \A j \in Index : add_stars(j, <<a, b>>, {n}, Earlier(<<a, b>>)) \subseteq Quad
      BY <2>1, AddStarsType
    <3> QED BY <3>1 DEF InsideQuads
  <2>3. Try(InsideQuads, "inside")
    BY <1>8 DEF TryInside
  <2>4. /\ tried' \subseteq Quad /\ again' \in BOOLEAN /\ quit_now' \in BOOLEAN
        /\ pc' \in {"inside", "done"}
    BY <2>2, <2>3, TryType
  <2>5. inbox' \in [Pair -> SUBSET Obj]
    BY <1>8, <2>1 DEF TypeInv, TryInside
  <2>6. ninbox' \in [Pair -> 0..NumObj]
    <3>1. n + 1 \in 0..NumObj
      BY <1>8 DEF TypeInv, TryInside
    <3> QED BY <1>8, <2>1, <3>1 DEF TypeInv, TryInside
  <2> QED BY <1>8, <2>4, <2>5, <2>6 DEF TypeInv, TryInside
<1>9. CASE NextA
  BY <1>9 DEF TypeInv, NextA, pquads
<1>10. CASE InsideEnd
  <2>1. /\ n' \in start'..numxy' /\ a' \in 0..n' /\ pc' \in {"new", "done"}
    BY <1>10 DEF TypeInv, InsideEnd
  <2>2. quit_now' \in BOOLEAN
    BY <1>10 DEF TypeInv, InsideEnd
  <2> QED BY <1>10, <2>1, <2>2 DEF TypeInv, InsideEnd, pquads
<1>11. CASE Finished \/ UNCHANGED vars
  BY <1>11 DEF TypeInv, Finished, vars, loops, pquads
<1> QED BY <1>1, <1>2, <1>3, <1>4, <1>5, <1>6, <1>7, <1>8, <1>9, <1>10, <1>11
        DEF Next

\* Every variable of the search has its type in every state: no loop index leaves
\* the stars of the field, for any field, indexes and depth range.
THEOREM QuadsTypeCorrect == Spec => []TypeInv
<1> QED BY TypeInit, TypeStep, PTL DEF Spec

-----------------------------------------------------------------------------
(* The pairs made and their inboxes. *)

LEMMA PairIsTuple ==
  ASSUME NEW p \in Pair
  PROVE  p = <<p[1], p[2]>> /\ p[1] \in Obj /\ p[2] \in Obj
  BY DEF Pair

LEMMA PairsStep ==
  ASSUME TypeInv, PairsMade, [Next]_vars
  PROVE  PairsMade'
<1>0. /\ n \in Nat /\ start \in Nat
      /\ \A p \in Pair : p[1] \in Nat /\ p[2] \in Nat
  BY PairIsTuple, QuadsAssumption DEF TypeInv, Obj
<1>1. CASE Prime
  BY <1>0, <1>1 DEF PairsMade, Searching, Prime, MakePquads, loops
<1>2. CASE NewStar
  BY <1>0, <1>2 DEF PairsMade, Searching, NewStar, MakePquads
<1>3. CASE TimerStops \/ AllDone
  BY <1>3 DEF PairsMade, Searching, TimerStops, AllDone
<1>4. CASE TryDiagonal
  <2>1. pc' \in {"diagonal", "done"}
    BY <1>4, TrySome DEF TryDiagonal
  <2> QED BY <1>4, <2>1 DEF PairsMade, Searching, TryDiagonal, pquads
<1>5. CASE NextIndex \/ DiagonalEnd \/ NextA
  BY <1>5 DEF PairsMade, Searching, NextIndex, DiagonalEnd, NextA, pquads
<1>6. CASE TryInside
  <2>1. pc' \in {"inside", "done"}
    BY <1>6, TrySome DEF TryInside
  <2> QED BY <1>6, <2>1 DEF PairsMade, Searching, TryInside
<1>7. CASE InsideEnd
  BY <1>0, <1>7 DEF PairsMade, Searching, InsideEnd, pquads
<1>8. CASE Finished \/ UNCHANGED vars
  BY <1>8 DEF PairsMade, Searching, Finished, vars, loops, pquads
<1> QED BY <1>1, <1>2, <1>3, <1>4, <1>5, <1>6, <1>7, <1>8 DEF Next

LEMMA InboxStep ==
  ASSUME TypeInv, PairsMade, InboxRight, [Next]_vars
  PROVE  InboxRight'
<1>0. /\ n \in Nat /\ start \in Nat /\ a \in Nat /\ b \in Nat /\ scale_ok \subseteq Pair
      /\ \A p \in Pair : p[1] \in Nat /\ p[2] \in Nat
      /\ \A p \in Pair : Circle[p] \subseteq Nat
  BY PairIsTuple, QuadsAssumption DEF TypeInv, Obj
<1>1. CASE Prime
  <2>1. scale_ok = {} /\ n' = start /\ pc' = "new"
    BY <1>1 DEF Prime, PairsMade, loops
  <2>2. ASSUME NEW p \in scale_ok'
        PROVE  /\ ninbox'[p] = start
               /\ inbox'[p] = {c \in Circle[p] : c < start} \ {p[1], p[2]}
    BY <1>1, <2>1 DEF Prime, MakePquads
  <2> QED BY <2>1, <2>2 DEF InboxRight, Filled
<1>2. CASE NewStar
  <2>1. pc = "new" /\ pc' = "diagonal" /\ n' = n
    BY <1>2 DEF NewStar
  <2>2. ASSUME NEW p \in scale_ok'
        PROVE  /\ ninbox'[p] = Filled(p)'
               /\ inbox'[p] = {c \in Circle[p] : c < Filled(p)'} \ {p[1], p[2]}
    <3> DEFINE good == {r \in Pair : r[1] < n /\ r[2] = n} \cap ScaleOk
    <3>1. CASE p \in good
      BY <1>2, <2>1, <3>1 DEF NewStar, MakePquads, Filled
    <3>2. CASE p \notin good
      <4>1. p \in scale_ok
        BY <1>2, <3>2 DEF NewStar, MakePquads
      <4>2. p \in Pair /\ p[2] < n
        BY <2>1, <4>1 DEF PairsMade, Searching
      <4>3. /\ ninbox[p] = n
            /\ inbox[p] = {c \in Circle[p] : c < n} \ {p[1], p[2]}
        BY <2>1, <4>1 DEF InboxRight, Searching, Filled
      <4>4. ninbox'[p] = ninbox[p] /\ inbox'[p] = inbox[p]
        BY <1>2, <3>2, <4>2 DEF NewStar, MakePquads
      <4> QED BY <1>0, <2>1, <4>2, <4>3, <4>4 DEF Filled
    <3> QED BY <3>1, <3>2
  <2> QED BY <2>2 DEF InboxRight
<1>3. CASE TimerStops \/ AllDone
  BY <1>3 DEF InboxRight, Searching, TimerStops, AllDone
<1>4. CASE TryDiagonal
  <2>1. pc = "diagonal" /\ pc' \in {"diagonal", "done"}
    BY <1>4, TrySome DEF TryDiagonal
  <2> QED BY <1>4, <2>1 DEF InboxRight, Searching, Filled, TryDiagonal, pquads
<1>5. CASE NextIndex
  BY <1>5 DEF InboxRight, Searching, Filled, NextIndex, pquads
<1>6. CASE DiagonalEnd
  <2>1. pc = "diagonal" /\ pc' = "inside" /\ a' = 0 /\ b' = 1 /\ n' = n
        /\ UNCHANGED pquads
    BY <1>6 DEF DiagonalEnd
  <2>2. ASSUME NEW p \in scale_ok
        PROVE  Filled(p)' = Filled(p)
    <3>1. p[1] \in Nat /\ p[2] \in Nat /\ p[1] < p[2]
      BY <1>0, <2>1 DEF PairsMade, Searching
    <3> QED BY <2>1, <3>1 DEF Filled
  <2> QED BY <2>1, <2>2 DEF InboxRight, Searching, pquads
<1>7. CASE TryInside
  <2>1. /\ pc = "inside" /\ a < n /\ b < n /\ b' = b + 1 /\ UNCHANGED <<n, a, scale_ok>>
        /\ pc' \in {"inside", "done"}
    BY <1>7, TrySome DEF TryInside
  <2>2. ASSUME NEW p \in scale_ok, pc' = "inside"
        PROVE  /\ ninbox'[p] = Filled(p)'
               /\ inbox'[p] = {c \in Circle[p] : c < Filled(p)'} \ {p[1], p[2]}
    <3>1. /\ p \in Pair /\ p = <<p[1], p[2]>>
          /\ ninbox[p] = Filled(p)
          /\ inbox[p] = {c \in Circle[p] : c < Filled(p)} \ {p[1], p[2]}
      BY <1>0, <2>1, PairIsTuple DEF InboxRight, Searching
    <3>2. CASE p = <<a, b>>
      <4>1. p[1] = a /\ p[2] = b
        BY <3>2
      <4>2. Filled(p) = n /\ Filled(p)' = n + 1
        BY <1>0, <2>1, <2>2, <4>1 DEF Filled
      <4>3. /\ ninbox'[p] = n + 1
            /\ inbox'[p] = (inbox[p] \ {n}) \cup (Circle[p] \cap {n})
        BY <1>7, <3>1, <3>2 DEF TryInside, TypeInv
      <4> QED BY <1>0, <2>1, <3>1, <4>1, <4>2, <4>3
    <3>3. CASE p # <<a, b>>
      <4>1. ninbox'[p] = ninbox[p] /\ inbox'[p] = inbox[p]
        BY <1>7, <3>1, <3>3 DEF TryInside, TypeInv
      <4>2. ~(p[1] = a /\ p[2] = b)
        BY <3>1, <3>3
      <4>3. Filled(p)' = Filled(p)
        BY <1>0, <2>1, <2>2, <3>1, <4>2 DEF Filled
      <4> QED BY <3>1, <4>1, <4>3
    <3> QED BY <3>2, <3>3
  <2> QED BY <2>1, <2>2 DEF InboxRight, Searching
<1>8. CASE NextA
  <2>1. /\ pc = "inside" /\ pc' = "inside" /\ a < n /\ b >= n /\ n' = n
        /\ a' = a + 1 /\ b' = a + 2 /\ UNCHANGED pquads
    BY <1>8 DEF NextA
  <2>2. ASSUME NEW p \in scale_ok
        PROVE  Filled(p)' = Filled(p)
    <3>1. p[1] \in Nat /\ p[2] \in Nat /\ p[1] < p[2] /\ p[2] <= n
      BY <1>0, <2>1 DEF PairsMade, Searching
    <3> QED BY <1>0, <2>1, <3>1 DEF Filled
  <2> QED BY <2>1, <2>2 DEF InboxRight, Searching, pquads
<1>9. CASE InsideEnd
  <2>1. /\ pc = "inside" /\ pc' \in {"new", "done"} /\ a = n /\ n' = n + 1
        /\ UNCHANGED pquads
    BY <1>9 DEF InsideEnd
  <2>2. ASSUME NEW p \in scale_ok, pc' = "new"
        PROVE  Filled(p)' = Filled(p)
    <3>1. p[1] \in Nat /\ p[2] \in Nat /\ p[1] < p[2] /\ p[2] <= n
      BY <1>0, <2>1 DEF PairsMade, Searching
    <3> QED BY <1>0, <2>1, <2>2, <3>1 DEF Filled
  <2> QED BY <2>1, <2>2 DEF InboxRight, Searching, pquads
<1>10. CASE Finished \/ UNCHANGED vars
  BY <1>10 DEF InboxRight, Searching, Filled, Finished, vars, loops, pquads
<1> QED BY <1>1, <1>2, <1>3, <1>4, <1>5, <1>6, <1>7, <1>8, <1>9, <1>10 DEF Next

-----------------------------------------------------------------------------
(* What has been tried. *)

\* The numbers of the stars of a quad.
LEMMA QuadStars ==
  ASSUME NEW q \in Quad
  PROVE  /\ q[1] \in Nat /\ q[2] \in Nat /\ q[3] \in Nat
         /\ q[1] >= 1 /\ q[1] <= NIndex
         /\ \A c \in q[4] : c \in Nat
  BY QuadIsTuple, QuadsAssumption DEF Obj, Index

\* None of the quads of a new star as B has been tried.
LEMMA DiagonalFresh ==
  ASSUME TypeInv, PairsMade, InboxRight, TriedExactly, TryDiagonal
  PROVE  /\ DiagonalQuads \subseteq Quad
         /\ DiagonalQuads \cap tried = {}
         /\ \A q \in DiagonalQuads :
              Valid(q) /\ Before(q, numxy) /\ ~Before(q, start)
<1>1. /\ pc = "diagonal" /\ i <= NIndex /\ a < n /\ i \in Index /\ a \in Obj /\ n \in Obj
      /\ a \in Nat /\ i \in Nat /\ n \in Nat /\ start \in Nat /\ numxy \in Nat
      /\ start <= n /\ n < numxy
  BY QuadsAssumption DEF TypeInv, TryDiagonal, Index, Obj
<1>2. DiagonalQuads \subseteq Quad
  BY <1>1, AddStarsType DEF DiagonalQuads
<1>3. ASSUME NEW q \in DiagonalQuads
      PROVE  q \notin tried /\ Valid(q) /\ Before(q, numxy) /\ ~Before(q, start)
  <2>1. q \in Quad
    BY <1>2
  <2>2. Valid(q) /\ q[1] = i /\ q[2] = a /\ q[3] = n /\ \A c \in q[4] : c < n
    BY <1>1, <2>1, DiagonalIs
  <2>3. \A c \in q[4] : c \in Nat
    BY <2>1, QuadStars
  <2>4. Before(q, numxy) /\ ~Before(q, start) /\ ~Before(q, n)
    BY <1>1, <2>2, <2>3 DEF Before
  <2>5. ~Now(q)
    BY <1>1, <2>2 DEF Now
  <2>6. q \notin tried
    BY <1>1, <2>1, <2>4, <2>5 DEF TriedExactly, Searching
  <2> QED BY <2>2, <2>4, <2>6
<1> QED BY <1>2, <1>3

\* None of the quads with the new star inside has been tried.
LEMMA InsideFresh ==
  ASSUME TypeInv, PairsMade, InboxRight, TriedExactly, TryInside
  PROVE  /\ InsideQuads \subseteq Quad
         /\ InsideQuads \cap tried = {}
         /\ \A q \in InsideQuads :
              Valid(q) /\ Before(q, numxy) /\ ~Before(q, start)
<1>1. /\ pc = "inside" /\ a < n /\ b < n /\ a \in Obj /\ b \in Obj /\ n \in Obj
      /\ a \in Nat /\ b \in Nat /\ n \in Nat /\ start \in Nat /\ numxy \in Nat
      /\ start <= n /\ n < numxy
  BY QuadsAssumption DEF TypeInv, TryInside, Obj
<1>2. InsideQuads \subseteq Quad
  <2>1. \A j \in Index : add_stars(j, <<a, b>>, {n}, Earlier(<<a, b>>)) \subseteq Quad
    BY <1>1, AddStarsType
  <2> QED BY <2>1 DEF InsideQuads
<1>3. ASSUME NEW q \in InsideQuads
      PROVE  q \notin tried /\ Valid(q) /\ Before(q, numxy) /\ ~Before(q, start)
  <2>1. q \in Quad
    BY <1>2
  <2>2. Valid(q) /\ q[2] = a /\ q[3] = b /\ n \in q[4] /\ \A c \in q[4] : c <= n
    BY <1>1, <2>1, InsideIs
  <2>3. \A c \in q[4] : c \in Nat
    BY <2>1, QuadStars
  <2>4. Before(q, numxy) /\ ~Before(q, start) /\ ~Before(q, n)
    BY <1>1, <2>2, <2>3 DEF Before
  <2>5. ~Now(q)
    BY <1>1, <2>2 DEF Now
  <2>6. q \notin tried
    BY <1>1, <2>1, <2>4, <2>5 DEF TriedExactly, Searching
  <2> QED BY <2>2, <2>4, <2>6
<1> QED BY <1>2, <1>3

\* So trying them keeps what is promised of the quads tried.
LEMMA TryFresh ==
  ASSUME TypeInv, TriedOnce, TriedInRange, NEW Q, NEW next, Try(Q, next),
         UNCHANGED <<start, numxy>>, Q \cap tried = {},
         \A q \in Q : Valid(q) /\ Before(q, numxy) /\ ~Before(q, start)
  PROVE  TriedOnce' /\ TriedInRange'
<1>1. PICK T \in SUBSET Q : tried' = tried \cup T /\ again' = (again \/ T \cap tried # {})
  BY TrySome
<1>2. T \cap tried = {} /\ again = FALSE
  BY <1>1 DEF TypeInv, TriedOnce
<1>3. again' = FALSE
  BY <1>1, <1>2
<1>4. \A q \in tried' : Valid(q) /\ Before(q, numxy) /\ ~Before(q, start)
  BY <1>1 DEF TriedInRange
<1> QED BY <1>3, <1>4 DEF TriedOnce, TriedInRange, Before, Valid, Inner

LEMMA OnceInRangeStep ==
  ASSUME TypeInv, PairsMade, InboxRight, TriedExactly, TriedOnce, TriedInRange,
         [Next]_vars
  PROVE  TriedOnce' /\ TriedInRange'
<1>1. CASE TryDiagonal
  <2>1. Try(DiagonalQuads, "diagonal") /\ UNCHANGED <<start, numxy>>
    BY <1>1 DEF TryDiagonal
  <2> QED BY <1>1, <2>1, DiagonalFresh, TryFresh
<1>2. CASE TryInside
  <2>1. Try(InsideQuads, "inside") /\ UNCHANGED <<start, numxy>>
    BY <1>2 DEF TryInside
  <2> QED BY <1>2, <2>1, InsideFresh, TryFresh
<1>3. CASE UNCHANGED <<start, numxy, tried, again>>
  BY <1>3 DEF TriedOnce, TriedInRange, Before, Valid, Inner
<1>4. ASSUME ~TryDiagonal, ~TryInside
      PROVE  UNCHANGED <<start, numxy, tried, again>>
  BY <1>4
  DEF Next, Prime, NewStar, TimerStops, AllDone, NextIndex, DiagonalEnd, NextA,
      InsideEnd, Finished, vars
<1> QED BY <1>1, <1>2, <1>3, <1>4

LEMMA TriedStep ==
  ASSUME TypeInv, PairsMade, InboxRight, TriedExactly, [Next]_vars
  PROVE  TriedExactly'
<1>0. /\ n \in Nat /\ start \in Nat /\ numxy \in Nat /\ a \in Nat /\ b \in Nat
      /\ i \in Nat /\ NIndex \in Nat /\ start <= n /\ i <= NIndex + 1
  BY QuadsAssumption DEF TypeInv
<1>1. \A q \in Quad : Valid(q)' <=> Valid(q)
  BY DEF Valid, Inner
<1>2. ASSUME start' = start, n' = n, NEW q \in Quad
      PROVE  (Before(q, start)' <=> Before(q, start)) /\ (Before(q, n)' <=> Before(q, n))
  BY <1>2 DEF Before
<1>3. CASE Prime
  <2>1. pc' = "new" /\ n' = start' /\ tried' = {}
    BY <1>3 DEF Prime, loops, PairsMade
  <2>2. \A q \in Quad : ~Now(q)' /\ (Before(q, n)' <=> Before(q, start)')
    BY <2>1 DEF Now, Before
  <2> QED BY <2>1, <2>2 DEF TriedExactly
<1>4. CASE NewStar
  <2>1. /\ pc = "new" /\ pc' = "diagonal" /\ i' = 1 /\ a' = 0
        /\ UNCHANGED <<start, n, tried>>
    BY <1>4 DEF NewStar
  <2>2. ASSUME NEW q \in Quad
        PROVE  ~Now(q) /\ ~Now(q)'
    BY <2>1, QuadStars DEF Now
  <2> QED BY <1>1, <1>2, <2>1, <2>2 DEF TriedExactly, Searching
<1>5. CASE TryDiagonal
  <2>1. CASE pc' = "done"
    BY <2>1 DEF TriedExactly, Searching
  <2>2. CASE pc' = "diagonal" /\ tried' = tried \cup DiagonalQuads
    <3>1. /\ pc = "diagonal" /\ a' = a + 1 /\ UNCHANGED <<start, n, i>>
          /\ i <= NIndex /\ a < n
      BY <1>5 DEF TryDiagonal
    <3>2. ASSUME NEW q \in Quad
          PROVE  q \in DiagonalQuads <=>
                   /\ Valid(q) /\ q[1] = i /\ q[2] = a /\ q[3] = n
                   /\ \A c \in q[4] : c < n
      BY <3>1, DiagonalIs
    <3>3. ASSUME NEW q \in Quad
          PROVE  Now(q)' <=> Now(q) \/ ( /\ q[1] = i /\ q[2] = a /\ q[3] = n
                                         /\ \A c \in q[4] : c < n )
      BY <1>0, <2>2, <3>1, QuadStars DEF Now
    <3>4. ASSUME NEW q \in Quad, q[3] = n
          PROVE  ~Before(q, start)
      BY <1>0, <3>4 DEF Before
    <3> QED BY <1>1, <1>2, <2>2, <3>1, <3>2, <3>3, <3>4 DEF TriedExactly, Searching
  <2> QED BY <1>5, <2>1, <2>2, TrySome DEF TryDiagonal
<1>6. CASE NextIndex
  <2>1. /\ pc = "diagonal" /\ pc' = "diagonal" /\ a = n /\ i' = i + 1 /\ a' = 0
        /\ UNCHANGED <<start, n, tried>>
    BY <1>6 DEF NextIndex
  <2>2. ASSUME NEW q \in Quad, Valid(q)
        PROVE  Now(q)' <=> Now(q)
    BY <1>0, <2>1, <2>2, QuadStars DEF Now, Valid
  <2> QED BY <1>1, <1>2, <2>1, <2>2 DEF TriedExactly, Searching
<1>7. CASE DiagonalEnd
  <2>1. /\ pc = "diagonal" /\ pc' = "inside" /\ i > NIndex /\ a' = 0 /\ b' = 1
        /\ UNCHANGED <<start, n, tried>>
    BY <1>7 DEF DiagonalEnd
  <2>2. ASSUME NEW q \in Quad, Valid(q)
        PROVE  Now(q)' <=> Now(q)
    BY <1>0, <2>1, <2>2, QuadStars DEF Now, Valid
  <2> QED BY <1>1, <1>2, <2>1, <2>2 DEF TriedExactly, Searching
<1>8. CASE TryInside
  <2>1. CASE pc' = "done"
    BY <2>1 DEF TriedExactly, Searching
  <2>2. CASE pc' = "inside" /\ tried' = tried \cup InsideQuads
    <3>1. /\ pc = "inside" /\ b' = b + 1 /\ UNCHANGED <<start, n, a>>
          /\ a < n /\ b < n
      BY <1>8 DEF TryInside
    <3>2. ASSUME NEW q \in Quad
          PROVE  q \in InsideQuads <=>
                   /\ Valid(q) /\ q[2] = a /\ q[3] = b
                   /\ n \in q[4] /\ \A c \in q[4] : c <= n
      BY <3>1, InsideIs
    <3>3. ASSUME NEW q \in Quad
          PROVE  Now(q)' <=> Now(q) \/ ( /\ q[2] = a /\ q[3] = b
                                         /\ n \in q[4] /\ \A c \in q[4] : c <= n )
      BY <1>0, <2>2, <3>1, QuadStars DEF Now
    <3>4. ASSUME NEW q \in Quad, n \in q[4]
          PROVE  ~Before(q, start)
      BY <1>0, <3>4 DEF Before
    <3> QED BY <1>1, <1>2, <2>2, <3>1, <3>2, <3>3, <3>4 DEF TriedExactly, Searching
  <2> QED BY <1>8, <2>1, <2>2, TrySome DEF TryInside
<1>9. CASE NextA
  <2>1. /\ pc = "inside" /\ pc' = "inside" /\ a < n /\ b >= n
        /\ a' = a + 1 /\ b' = a + 2 /\ UNCHANGED <<start, n, tried>>
    BY <1>9 DEF NextA
  <2>2. ASSUME NEW q \in Quad, Valid(q)
        PROVE  Now(q)' <=> Now(q)
    BY <1>0, <2>1, <2>2, QuadStars DEF Now, Valid
  <2> QED BY <1>1, <1>2, <2>1, <2>2 DEF TriedExactly, Searching
<1>10. CASE InsideEnd
  <2>1. CASE pc' = "done"
    BY <2>1 DEF TriedExactly, Searching
  <2>2. CASE pc' = "new"
    <3>1. pc = "inside" /\ a = n /\ n' = n + 1 /\ UNCHANGED <<start, tried>>
      BY <1>10 DEF InsideEnd
    <3>2. ASSUME NEW q \in Quad, Valid(q)
          PROVE  /\ ~Now(q)'
                 /\ Before(q, start)' <=> Before(q, start)
                 /\ Before(q, n)' <=> Before(q, n) \/ Now(q)
      <4>1. /\ q[2] \in Nat /\ q[3] \in Nat /\ q[2] < q[3] /\ q[3] \notin q[4]
            /\ \A c \in q[4] : c \in Nat
        BY <3>2, QuadStars DEF Valid
      <4>2. ~Now(q)' /\ (Before(q, start)' <=> Before(q, start))
        BY <2>2, <3>1 DEF Now, Before
      <4>3. Before(q, n)' <=> q[3] <= n /\ \A c \in q[4] : c <= n
        BY <1>0, <3>1, <4>1 DEF Before
      <4>4. Before(q, n) \/ Now(q) <=> q[3] <= n /\ \A c \in q[4] : c <= n
        <5>1. CASE q[3] = n
          <6>1. \A c \in q[4] : c # n
            BY <4>1, <5>1
          <6> QED BY <1>0, <3>1, <4>1, <5>1, <6>1 DEF Now, Before
        <5>2. CASE q[3] # n /\ n \in q[4]
          BY <1>0, <3>1, <4>1, <5>2 DEF Now, Before
        <5>3. CASE q[3] # n /\ n \notin q[4]
          BY <1>0, <3>1, <4>1, <5>3 DEF Now, Before
        <5> QED BY <5>1, <5>2, <5>3
      <4> QED BY <4>2, <4>3, <4>4
    <3> QED BY <1>1, <2>2, <3>1, <3>2 DEF TriedExactly, Searching
  <2> QED BY <1>10, <2>1, <2>2 DEF InsideEnd
<1>11. CASE TimerStops \/ AllDone \/ Finished
  <2>1. pc' = "done"
    BY <1>11 DEF TimerStops, AllDone, Finished, vars
  <2> QED BY <2>1 DEF TriedExactly, Searching
<1>12. CASE UNCHANGED vars
  BY <1>12, ZenonT(30) DEF TriedExactly, Searching, Now, Before, Valid, Inner, vars, loops
<1> QED BY <1>3, <1>4, <1>5, <1>6, <1>7, <1>8, <1>9, <1>10, <1>11, <1>12 DEF Next

\* A search that ends by itself has passed every star of the range.
LEMMA QuitStep ==
  ASSUME TypeInv, TriedExactly, QuitInv, [Next]_vars
  PROVE  QuitInv'
<1> DEFINE All == \A q \in Quad :
                    Valid(q) /\ Before(q, numxy) /\ ~Before(q, start) => q \in tried
<1>1. CASE AllDone
  <2>1. pc = "new" /\ n = numxy
    BY <1>1 DEF AllDone
  <2>2. All
    BY <2>1 DEF TriedExactly, Searching
  <2>3. All'
    BY <1>1, <2>2 DEF AllDone, Valid, Before, Inner
  <2> QED BY <1>1, <2>3 DEF QuitInv, AllDone
<1>2. CASE TryDiagonal
  <2>1. \/ pc' = "diagonal" /\ quit_now' = quit_now
        \/ pc' = "done" /\ quit_now' = TRUE
    BY <1>2, TrySome DEF TryDiagonal
  <2> QED BY <1>2, <2>1 DEF QuitInv, TryDiagonal
<1>3. CASE TryInside
  <2>1. \/ pc' = "inside" /\ quit_now' = quit_now
        \/ pc' = "done" /\ quit_now' = TRUE
    BY <1>3, TrySome DEF TryInside
  <2> QED BY <1>3, <2>1 DEF QuitInv, TryInside
<1>4. CASE \/ Prime \/ NewStar \/ NextIndex \/ DiagonalEnd \/ NextA
  <2>1. pc # "done" /\ pc' # "done" /\ quit_now' = quit_now
    BY <1>4 DEF Prime, NewStar, NextIndex, DiagonalEnd, NextA
  <2> QED BY <2>1 DEF QuitInv
<1>5. CASE TimerStops
  BY <1>5 DEF QuitInv, TimerStops
<1>6. CASE InsideEnd
  <2>1. \/ pc = "inside" /\ pc' = "new" /\ quit_now' = quit_now
        \/ pc' = "done" /\ quit_now' = TRUE
    BY <1>6 DEF InsideEnd
  <2> QED BY <2>1 DEF QuitInv
<1>7. CASE Finished \/ UNCHANGED vars
  BY <1>7 DEF QuitInv, Finished, vars, Valid, Before, Inner
<1> QED BY <1>1, <1>2, <1>3, <1>4, <1>5, <1>6, <1>7 DEF Next

-----------------------------------------------------------------------------
(* The theorems. *)

THEOREM QuadsInvariant == Spec => []IInv
<1>1. Init => IInv
  <2> SUFFICES ASSUME Init PROVE IInv
    OBVIOUS
  <2>1. TypeInv
    BY TypeInit
  <2>2. /\ pc = "prime" /\ n = start /\ scale_ok = {} /\ tried = {}
        /\ quit_now = FALSE /\ again = FALSE
    BY DEF Init
  <2> QED BY <2>1, <2>2
          DEF IInv, PairsMade, InboxRight, TriedExactly, QuitInv, TriedOnce,
              TriedInRange, Searching
<1>2. IInv /\ [Next]_vars => IInv'
  <2> SUFFICES ASSUME IInv, [Next]_vars PROVE IInv'
    OBVIOUS
  <2>1. /\ TypeInv /\ PairsMade /\ InboxRight /\ TriedExactly /\ QuitInv
        /\ TriedOnce /\ TriedInRange
    BY DEF IInv
  <2>2. TypeInv' /\ PairsMade' /\ InboxRight'
    BY <2>1, TypeStep, PairsStep, InboxStep
  <2>3. TriedExactly' /\ QuitInv'
    BY <2>1, TriedStep, QuitStep
  <2>4. TriedOnce' /\ TriedInRange'
    BY <2>1, OnceInRangeStep
  <2> QED BY <2>2, <2>3, <2>4 DEF IInv
<1> QED BY <1>1, <1>2, PTL DEF Spec

\* No quad is tried twice: what the two loops over a new star of solver_run build
\* has not been built before, by either of them or for an earlier star.
THEOREM QuadsTriedOnce == Spec => []TriedOnce
<1>1. IInv => TriedOnce
  BY DEF IInv
<1> QED BY <1>1, QuadsInvariant, PTL

\* Every quad tried suits its index and has its newest star in the depth range, so
\* that searches of disjoint ranges never try the same quad.
THEOREM QuadsTriedInRange == Spec => []TriedInRange
<1>1. IInv => TriedInRange
  BY DEF IInv
<1> QED BY <1>1, QuadsInvariant, PTL

\* A search that nothing cuts short tries every quad of its depth range, the
\* diagonals among the stars before the range included.
THEOREM QuadsTriedAll == Spec => []TriedAll
<1>1. IInv => TriedAll
  BY DEF IInv, QuitInv, TriedAll
<1> QED BY <1>1, QuadsInvariant, PTL

\* No inbox is read past what check_inbox has filled in.
THEOREM QuadsInboxCurrent == Spec => []InboxCurrent
<1>1. IInv => InboxCurrent
  <2> SUFFICES ASSUME IInv, pc \in {"diagonal", "inside"}, NEW p \in scale_ok
               PROVE  ninbox[p] >= n
    BY DEF InboxCurrent
  <2>1. ninbox[p] = Filled(p) /\ n \in Int
    BY QuadsAssumption DEF IInv, InboxRight, Searching, TypeInv
  <2> QED BY <2>1 DEF Filled
<1> QED BY <1>1, QuadsInvariant, PTL

=============================================================================
