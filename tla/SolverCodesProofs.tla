------------------------- MODULE SolverCodesProofs -------------------------
(***************************************************************************)
(* Proofs about SolverCodes, for every number of stars, every code and     *)
(* every margin: the recursion searches each order that passes the checks, *)
(* once, and no other.                                                     *)
(***************************************************************************)
EXTENDS SolverCodes, DataLemmas

-----------------------------------------------------------------------------
(* The invariant: how far the loops have come. *)

\* Order p has the stars placed so far in the first s slots.
Agrees(p, s) == \A r \in 0..s - 1 : p[r] = idx[r]

\* The recursion has passed order p, in the present parity and direction.
Before(p) == \E s \in 0..slot : Agrees(p, s) /\ p[s] < idx[s]

\* The parities and directions that are through.
Earlier(fl, sw) == (fl = flip /\ ~sw /\ swap) \/ (~fl /\ flip)

\* The stars placed are those in the slots filled; they fit there.
PlacedRight ==
  /\ placed = {idx[r] : r \in 0..slot - 1}
  /\ \A r \in 0..slot - 1 : idx[r] \in Star /\ SlotOk(flip, swap, Prefix(idx, r), r)
  /\ \A r, s \in 0..slot - 1 : r # s => idx[r] # idx[s]

Passed(fl, sw, p) == Earlier(fl, sw) \/ (fl = flip /\ sw = swap /\ Before(p))

\* Nothing is searched before its turn,
TriedOnly ==
  \A t \in tried :
    /\ t[1] \in parity /\ t[3] \in Allowed(t[1], t[2])
    /\ pc = "loop" => Passed(t[1], t[2], t[3])

\* and what has had its turn is searched.
TriedAll ==
  ~quit_now =>
    \A fl \in parity, sw \in BOOLEAN : \A p \in Allowed(fl, sw) :
      pc = "done" \/ Passed(fl, sw, p) => <<fl, sw, p>> \in tried

IInv == TypeInv /\ PlacedRight /\ ~again /\ TriedOnly /\ TriedAll

USE DEF Star, Slot, Last

LEMMA Sizes == NStars \in Nat /\ NStars > 0
  BY CodesAssumption DEF CodesAssumption

-----------------------------------------------------------------------------
(* Orders and their prefixes. *)

\* The checks of a slot look at the stars up to it only, and the input does not
\* change.
LEMMA SameChecks ==
  ASSUME UNCHANGED input, NEW fl, NEW sw, NEW pre, NEW s
  PROVE  SlotOk(fl, sw, pre, s)' = SlotOk(fl, sw, pre, s)
  BY DEF input, SlotOk, x_of

LEMMA SameAllowed ==
  ASSUME UNCHANGED input, NEW fl, NEW sw
  PROVE  Allowed(fl, sw)' = Allowed(fl, sw)
  BY SameChecks DEF Allowed

LEMMA PrefixSame ==
  ASSUME NEW p, NEW s \in Slot, Agrees(p, s), p[s] = idx[s]
  PROVE  Prefix(p, s) = Prefix(idx, s)
<1>1. \A r \in 0..s : p[r] = idx[r]
  BY Sizes DEF Agrees
<1> QED BY <1>1 DEF Prefix

\* An order that goes on as the recursion does passes the checks of this slot only
\* if the next star fits.
LEMMA AllowedFits ==
  ASSUME IInv, NEW p \in Allowed(flip, swap), Agrees(p, slot), p[slot] = idx[slot]
  PROVE  Fits
<1>1. p \in Order /\ slot \in Slot /\ SlotOk(flip, swap, Prefix(p, slot), slot)
  BY DEF IInv, TypeInv, Allowed
<1>2. idx[slot] \notin placed
  <2> SUFFICES ASSUME NEW r \in 0..slot - 1, idx[slot] = idx[r] PROVE FALSE
    BY DEF IInv, PlacedRight
  <2>1. r \in Slot /\ r # slot /\ p[r] = idx[r]
    BY <1>1, Sizes DEF Agrees
  <2> QED BY <1>1, <2>1 DEF Order
<1>3. Prefix(p, slot) = Prefix(idx, slot)
  BY <1>1, PrefixSame
<1> QED BY <1>1, <1>2, <1>3 DEF Fits

\* A step of the recursion that neither searches nor leaves the outermost call.
Moves ==
  /\ pc = "loop"
  /\ UNCHANGED <<input, pc, flip, swap, quit_now, tried, again>>
  /\ \A p \in Allowed(flip, swap) : Before(p)' <=> Before(p)

LEMMA MovesKeep == IInv /\ Moves /\ TypeInv' /\ PlacedRight' => IInv'
<1> SUFFICES ASSUME IInv, Moves, TypeInv', PlacedRight' PROVE IInv'
  OBVIOUS
<1>1. UNCHANGED <<pc, flip, swap, quit_now, tried, again, parity>> /\ UNCHANGED input
  BY DEF Moves, input
<1>2. \A fl, sw : Allowed(fl, sw)' = Allowed(fl, sw)
  BY <1>1, SameAllowed
<1>3. ASSUME NEW fl, NEW sw, NEW p \in Allowed(fl, sw)
      PROVE  Passed(fl, sw, p)' <=> Passed(fl, sw, p)
  <2>1. Earlier(fl, sw)' <=> Earlier(fl, sw)
    BY <1>1 DEF Earlier
  <2>2. (fl = flip /\ sw = swap) => (Before(p)' <=> Before(p))
    BY DEF Moves
  <2> QED BY <1>1, <2>1, <2>2 DEF Passed
<1>4. TriedOnly'
  BY <1>1, <1>2, <1>3 DEF IInv, TriedOnly
<1>5. TriedAll'
  BY <1>1, <1>2, <1>3 DEF IInv, TriedAll
<1> QED BY <1>1, <1>4, <1>5 DEF IInv

-----------------------------------------------------------------------------
(* The steps. *)

THEOREM InitInvariant == Init => IInv
<1> SUFFICES ASSUME Init PROVE IInv
  OBVIOUS
<1>1. TypeInv
  <2>1. code \in [x : [Star -> Int], y : [Star -> Int]]
    BY CodesAssumption DEF CodesAssumption, Init
  <2>2. flip \in parity /\ parity \in (SUBSET BOOLEAN) \ {{}}
    BY DEF Init
  <2>3. slot \in Slot /\ idx \in [Slot -> 0..NStars]
    BY Sizes DEF Init
  <2> QED BY <2>1, <2>2, <2>3 DEF Init, TypeInv
<1>2. PlacedRight
  BY DEF Init, PlacedRight
<1>3. ~again /\ TriedOnly
  BY DEF Init, TriedOnly
<1>4. TriedAll
  <2> SUFFICES ASSUME NEW fl \in parity, NEW sw \in BOOLEAN, NEW p \in Allowed(fl, sw)
               PROVE  ~(pc = "done" \/ Passed(fl, sw, p))
    BY DEF TriedAll
  <2>1. ~Earlier(fl, sw)
    BY <1>1 DEF Init, Earlier, TypeInv
  <2>2. ~Before(p)
    <3>1. p \in [Slot -> Star]
      BY DEF Allowed, Order
    <3>2. p[0] \in Star /\ slot = 0 /\ idx[0] = 0
      BY <3>1, Sizes DEF Init
    <3> QED BY <3>2 DEF Before
  <2> QED BY <2>1, <2>2 DEF Init, Passed
<1> QED BY <1>1, <1>2, <1>3, <1>4 DEF IInv

LEMMA SkipKeeps == IInv /\ Skip => IInv'
<1> SUFFICES ASSUME IInv, Skip PROVE IInv'
  OBVIOUS
<1>1. /\ pc = "loop" /\ idx[slot] < NStars /\ ~Fits
      /\ idx' = [idx EXCEPT ![slot] = @ + 1]
      /\ UNCHANGED <<input, pc, flip, swap, slot, placed, quit_now, tried, again>>
  BY DEF Skip
<1>2. slot \in Slot /\ idx \in [Slot -> 0..NStars]
  BY DEF IInv, TypeInv
<1>3. /\ \A r \in 0..slot - 1 : idx'[r] = idx[r] /\ r \in Slot
      /\ idx'[slot] = idx[slot] + 1 /\ idx[slot] \in Nat
  BY <1>1, <1>2, Sizes
<1>4. TypeInv'
  <2>1. idx' \in [Slot -> 0..NStars]
    BY <1>1, <1>2, <1>3, Sizes
  <2> QED BY <1>1, <2>1 DEF IInv, TypeInv, input
<1>5. PlacedRight'
  <2>1. \A r \in 0..slot - 1 : Prefix(idx', r) = Prefix(idx, r)
    BY <1>2, <1>3, Sizes DEF Prefix
  <2>2. ASSUME NEW r \in 0..slot - 1  PROVE SlotOk(flip, swap, Prefix(idx, r), r)'
    <3>1. SlotOk(flip, swap, Prefix(idx, r), r)
      BY DEF IInv, PlacedRight
    <3> QED BY <1>1, <2>1, <3>1, SameChecks
  <2>3. {idx'[r] : r \in 0..slot - 1} = {idx[r] : r \in 0..slot - 1}
    BY <1>3
  <2>4. /\ placed = {idx[r] : r \in 0..slot - 1}
        /\ \A r \in 0..slot - 1 : idx[r] \in Star
        /\ \A r, s \in 0..slot - 1 : r # s => idx[r] # idx[s]
    BY DEF IInv, PlacedRight
  <2>5. placed' = {idx'[r] : r \in 0..slot' - 1}
    BY <1>1, <2>3, <2>4
  <2>6. \A r \in 0..slot' - 1 : idx'[r] \in Star /\ SlotOk(flip, swap, Prefix(idx, r), r)'
    BY <1>1, <1>3, <2>2, <2>4
  <2>7. \A r, s \in 0..slot' - 1 : r # s => idx'[r] # idx'[s]
    BY <1>1, <1>3, <2>4
  <2> QED BY <2>5, <2>6, <2>7 DEF PlacedRight
<1>6. ASSUME NEW p \in Allowed(flip, swap)  PROVE Before(p)' <=> Before(p)
  <2>1. p[slot] \in Int
    BY <1>2, Sizes DEF Allowed, Order
  <2>2. \A s \in 0..slot : Agrees(p, s)' <=> Agrees(p, s)
    BY <1>2, <1>3, Sizes DEF Agrees
  <2>3. \A s \in 0..slot - 1 : p[s] < idx'[s] <=> p[s] < idx[s]
    BY <1>3
  <2>4. Agrees(p, slot) => p[slot] # idx[slot]
    BY <1>1, AllowedFits
  <2>5. Agrees(p, slot) => (p[slot] < idx'[slot] <=> p[slot] < idx[slot])
    BY <1>3, <2>1, <2>4
  <2>6. \A s \in 0..slot : s = slot \/ s \in 0..slot - 1
    BY <1>2, Sizes
  <2> QED BY <1>1, <2>2, <2>3, <2>5, <2>6 DEF Before
<1>7. Moves
  BY <1>1, <1>6 DEF Moves
<1> QED BY <1>4, <1>5, <1>7, MovesKeep

LEMMA RecurseKeeps == IInv /\ Recurse => IInv'
<1> SUFFICES ASSUME IInv, Recurse PROVE IInv'
  OBVIOUS
<1>1. /\ pc = "loop" /\ idx[slot] < NStars /\ slot < NStars - 1
      /\ idx[slot] \notin placed /\ SlotOk(flip, swap, Prefix(idx, slot), slot)
      /\ placed' = placed \cup {idx[slot]} /\ slot' = slot + 1
      /\ idx' = [idx EXCEPT ![slot + 1] = 0]
      /\ UNCHANGED <<input, pc, flip, swap, quit_now, tried, again>>
  BY SMTT(30) DEF Recurse, Fits
<1>2. slot \in Slot /\ slot + 1 \in Slot /\ idx \in [Slot -> 0..NStars] /\ slot + 1 \in Nat
  BY <1>1, Sizes, SMTT(30) DEF IInv, TypeInv
<1>3. /\ \A r \in 0..slot : idx'[r] = idx[r] /\ r \in Slot
      /\ idx'[slot + 1] = 0 /\ idx[slot] \in Star
      /\ \A r \in 0..slot : r = slot \/ r \in 0..slot - 1
  BY <1>1, <1>2, Sizes
<1>4. /\ placed = {idx[r] : r \in 0..slot - 1}
      /\ \A r \in 0..slot - 1 : idx[r] \in Star /\ SlotOk(flip, swap, Prefix(idx, r), r)
      /\ \A r, s \in 0..slot - 1 : r # s => idx[r] # idx[s]
  BY DEF IInv, PlacedRight
<1>5. TypeInv'
  <2>1. idx' \in [Slot -> 0..NStars] /\ slot' \in Slot
    BY <1>1, <1>2, Sizes
  <2>2. placed' \subseteq Star
    BY <1>1, <1>3 DEF IInv, TypeInv
  <2> QED BY <1>1, <2>1, <2>2 DEF IInv, TypeInv, input
<1>6. PlacedRight'
  <2>1. \A r \in 0..slot : Prefix(idx', r) = Prefix(idx, r)
    BY <1>2, <1>3, Sizes DEF Prefix
  <2>2. ASSUME NEW r \in 0..slot  PROVE SlotOk(flip, swap, Prefix(idx, r), r)'
    <3>1. SlotOk(flip, swap, Prefix(idx, r), r)
      BY <1>1, <1>3, <1>4
    <3> QED BY <1>1, <2>1, <3>1, SameChecks
  <2>3. slot' - 1 = slot
    BY <1>1, <1>2
  <2>4. {idx'[r] : r \in 0..slot} = {idx[r] : r \in 0..slot - 1} \cup {idx[slot]}
    <3>1. {idx'[r] : r \in 0..slot} = {idx[r] : r \in 0..slot}
      BY <1>3
    <3>2. slot \in 0..slot /\ 0..slot - 1 \subseteq 0..slot
      BY <1>2, Sizes
    <3> QED BY <1>3, <3>1, <3>2
  <2>5. placed' = {idx'[r] : r \in 0..slot' - 1}
    BY <1>1, <1>4, <2>3, <2>4
  <2>6. \A r \in 0..slot' - 1 : idx'[r] \in Star /\ SlotOk(flip, swap, Prefix(idx, r), r)'
    BY <1>3, <1>4, <2>2, <2>3
  <2>7. \A r, s \in 0..slot' - 1 : r # s => idx'[r] # idx'[s]
    <3>1. \A r \in 0..slot - 1 : idx[r] # idx[slot]
      BY <1>1, <1>4
    <3> QED BY <1>3, <1>4, <2>3, <3>1
  <2> QED BY <2>5, <2>6, <2>7 DEF PlacedRight
<1>7. ASSUME NEW p \in Allowed(flip, swap)  PROVE Before(p)' <=> Before(p)
  <2>1. p[slot + 1] \in Star
    BY <1>2 DEF Allowed, Order
  <2>2. \A s \in 0..slot : Agrees(p, s)' <=> Agrees(p, s)
    BY <1>2, <1>3, Sizes DEF Agrees
  <2>3. \A s \in 0..slot : p[s] < idx'[s] <=> p[s] < idx[s]
    BY <1>3
  <2>4. ~(p[slot + 1] < idx'[slot + 1])
    BY <1>3, <2>1
  <2>5. 0..slot' = 0..slot \cup {slot + 1}
    BY <1>1, <1>2, Sizes
  <2> QED BY <2>2, <2>3, <2>4, <2>5 DEF Before
<1>8. Moves
  BY <1>1, <1>7 DEF Moves
<1> QED BY <1>5, <1>6, <1>8, MovesKeep

LEMMA ReturnKeeps == IInv /\ Return => IInv'
<1> SUFFICES ASSUME IInv, Return PROVE IInv'
  OBVIOUS
<1>1. /\ pc = "loop" /\ idx[slot] = NStars /\ slot > 0
      /\ slot' = slot - 1 /\ placed' = placed \ {idx[slot - 1]}
      /\ idx' = [idx EXCEPT ![slot - 1] = @ + 1]
      /\ UNCHANGED <<input, pc, flip, swap, quit_now, tried, again>>
  BY DEF Return
<1>2. /\ slot \in Slot /\ slot - 1 \in Slot /\ idx \in [Slot -> 0..NStars]
      /\ slot - 1 \in 0..slot - 1
  <2>1. slot \in Slot /\ idx \in [Slot -> 0..NStars]
    BY DEF IInv, TypeInv
  <2> QED BY <1>1, <2>1, Sizes
<1>3. /\ \A r \in 0..slot - 2 : idx'[r] = idx[r] /\ r \in Slot /\ r \in 0..slot - 1 /\ r # slot - 1
      /\ \A r \in 0..slot - 1 : r = slot - 1 \/ r \in 0..slot - 2
      /\ idx'[slot - 1] = idx[slot - 1] + 1
  BY <1>1, <1>2, Sizes
<1>4. /\ placed = {idx[r] : r \in 0..slot - 1}
      /\ \A r \in 0..slot - 1 : idx[r] \in Star /\ SlotOk(flip, swap, Prefix(idx, r), r)
      /\ \A r, s \in 0..slot - 1 : r # s => idx[r] # idx[s]
  BY DEF IInv, PlacedRight
<1>5. TypeInv'
  <2>1. idx[slot - 1] \in Star
    BY <1>2, <1>4
  <2>2. idx' \in [Slot -> 0..NStars] /\ slot' \in Slot
    BY <1>1, <1>2, <2>1, Sizes
  <2> QED BY <1>1, <2>2 DEF IInv, TypeInv, input
<1>6. PlacedRight'
  <2>1. \A r \in 0..slot - 2 : Prefix(idx', r) = Prefix(idx, r)
    <3> TAKE r \in 0..slot - 2
    <3>1. \A q \in 0..r : q \in 0..slot - 2
      BY <1>2, Sizes
    <3> QED BY <1>3, <3>1 DEF Prefix
  <2>2. ASSUME NEW r \in 0..slot - 2  PROVE SlotOk(flip, swap, Prefix(idx, r), r)'
    <3>1. SlotOk(flip, swap, Prefix(idx, r), r)
      BY <1>3, <1>4
    <3> QED BY <1>1, <2>1, <3>1, SameChecks
  <2>3. slot' - 1 = slot - 2
    BY <1>1, <1>2
  <2>4. {idx'[r] : r \in 0..slot - 2} = {idx[r] : r \in 0..slot - 1} \ {idx[slot - 1]}
    <3>1. {idx'[r] : r \in 0..slot - 2} = {idx[r] : r \in 0..slot - 2}
      BY <1>3
    <3>2. \A r \in 0..slot - 2 : idx[r] # idx[slot - 1]
      BY <1>2, <1>3, <1>4
    <3> QED BY <1>3, <3>1, <3>2
  <2>5. placed' = {idx'[r] : r \in 0..slot' - 1}
    BY <1>1, <1>4, <2>3, <2>4
  <2>6. \A r \in 0..slot' - 1 : idx'[r] \in Star /\ SlotOk(flip, swap, Prefix(idx, r), r)'
    BY <1>3, <1>4, <2>2, <2>3
  <2>7. \A r, s \in 0..slot' - 1 : r # s => idx'[r] # idx'[s]
    BY <1>3, <1>4, <2>3
  <2> QED BY <2>5, <2>6, <2>7 DEF PlacedRight
<1>7. ASSUME NEW p \in Allowed(flip, swap)  PROVE Before(p)' <=> Before(p)
  <2>1. p[slot] \in Star /\ p[slot - 1] \in Star /\ idx[slot - 1] \in Star
    BY <1>2, <1>4 DEF Allowed, Order
  <2>2. \A s \in 0..slot - 1 : Agrees(p, s)' <=> Agrees(p, s)
    <3> TAKE s \in 0..slot - 1
    <3>1. \A q \in 0..s - 1 : q \in 0..slot - 2
      BY <1>2, Sizes
    <3> QED BY <1>3, <3>1 DEF Agrees
  <2>3. \A s \in 0..slot - 2 : p[s] < idx'[s] <=> p[s] < idx[s]
    BY <1>3
  <2>4. p[slot] < idx[slot]
    BY <1>1, <2>1, Sizes
  <2>5. p[slot - 1] < idx'[slot - 1] <=> p[slot - 1] < idx[slot - 1] \/ p[slot - 1] = idx[slot - 1]
    BY <1>3, <2>1
  <2>6. Agrees(p, slot) <=> Agrees(p, slot - 1) /\ p[slot - 1] = idx[slot - 1]
    BY <1>2, <1>3, Sizes DEF Agrees
  <2>7. Before(p)' <=> \/ \E s \in 0..slot - 2 : Agrees(p, s) /\ p[s] < idx[s]
                       \/ Agrees(p, slot - 1) /\ p[slot - 1] < idx'[slot - 1]
    <3>1. Before(p)' <=> \E s \in 0..slot - 1 : Agrees(p, s)' /\ p[s] < idx'[s]
      BY <1>1 DEF Before
    <3> QED BY <1>2, <1>3, <2>2, <2>3, <3>1
  <2>8. Before(p) <=> \/ \E s \in 0..slot - 2 : Agrees(p, s) /\ p[s] < idx[s]
                      \/ Agrees(p, slot - 1) /\ p[slot - 1] < idx[slot - 1]
                      \/ Agrees(p, slot)
    <3>1. slot \in Int /\ slot > 0
      BY <1>1, <1>2, Sizes
    <3>2. 0..slot = 0..slot - 2 \cup {slot - 1, slot}
      BY <3>1
    <3> QED BY <2>4, <3>2 DEF Before
  <2> QED BY <2>5, <2>6, <2>7, <2>8
<1>8. Moves
  BY <1>1, <1>7 DEF Moves
<1> QED BY <1>5, <1>6, <1>8, MovesKeep

LEMMA SearchKeeps == IInv /\ Search => IInv'
<1> SUFFICES ASSUME IInv, Search PROVE IInv'
  OBVIOUS
<1> DEFINE t0 == <<flip, swap, idx>>
<1>1. /\ pc = "loop" /\ idx[slot] < NStars /\ slot = NStars - 1
      /\ idx[slot] \notin placed /\ SlotOk(flip, swap, Prefix(idx, slot), slot)
      /\ idx' = [idx EXCEPT ![slot] = IF quit_now' THEN NStars ELSE idx[slot] + 1]
      /\ again' = (again \/ t0 \in tried) /\ tried' = tried \cup {t0}
      /\ UNCHANGED <<input, pc, flip, swap, slot, placed>>
  BY DEF Search, Fits
<1>2. slot \in Slot /\ idx \in [Slot -> 0..NStars] /\ quit_now \in BOOLEAN
  BY DEF IInv, TypeInv
<1>3. /\ \A r \in 0..slot - 1 : idx'[r] = idx[r] /\ r \in Slot /\ r # slot
      /\ idx[slot] \in Star /\ idx'[slot] \in 0..NStars /\ idx[slot] < idx'[slot]
      /\ \A r \in Slot : r = slot \/ r \in 0..slot - 1
      /\ ~quit_now' => idx'[slot] = idx[slot] + 1
  <2>1. \A r \in 0..slot - 1 : r \in Slot /\ r # slot
    BY <1>2, Sizes
  <2>2. idx[slot] \in Star
    BY <1>1, <1>2, Sizes
  <2>3. \A r \in Slot : r = slot \/ r \in 0..slot - 1
    BY <1>1, <1>2, Sizes
  <2>4. idx'[slot] = NStars \/ idx'[slot] = idx[slot] + 1
    BY <1>1, <1>2
  <2> QED BY <1>1, <1>2, <2>1, <2>2, <2>3, <2>4, Sizes
<1>4. /\ placed = {idx[r] : r \in 0..slot - 1}
      /\ \A r \in 0..slot - 1 : idx[r] \in Star /\ SlotOk(flip, swap, Prefix(idx, r), r)
      /\ \A r, s \in 0..slot - 1 : r # s => idx[r] # idx[s]
  BY DEF IInv, PlacedRight
<1>5. idx \in Allowed(flip, swap)
  <2>1. idx \in [Slot -> Star]
    BY <1>2, <1>3, <1>4
  <2>2. \A r, s \in Slot : r # s => idx[r] # idx[s]
    <3>1. \A r \in 0..slot - 1 : idx[r] # idx[slot]
      BY <1>1, <1>4
    <3> QED BY <1>3, <1>4, <3>1
  <2>3. \A s \in Slot : SlotOk(flip, swap, Prefix(idx, s), s)
    BY <1>1, <1>3, <1>4
  <2> QED BY <2>1, <2>2, <2>3 DEF Allowed, Order
<1>6. quit_now' \in BOOLEAN /\ (quit_now => quit_now')
  BY <1>2 DEF Search
<1>7. TypeInv'
  <2>1. idx' \in [Slot -> 0..NStars]
    BY <1>1, <1>2, <1>3
  <2>2. tried' \subseteq BOOLEAN \X BOOLEAN \X Order
    BY <1>1, <1>5 DEF IInv, TypeInv, Allowed
  <2>3. again' \in BOOLEAN
    BY <1>1
  <2> QED BY <1>1, <1>6, <2>1, <2>2, <2>3 DEF IInv, TypeInv, input
<1>8. PlacedRight'
  <2>1. \A r \in 0..slot - 1 : Prefix(idx', r) = Prefix(idx, r)
    BY <1>2, <1>3, Sizes DEF Prefix
  <2>2. ASSUME NEW r \in 0..slot - 1  PROVE SlotOk(flip, swap, Prefix(idx, r), r)'
    <3>1. SlotOk(flip, swap, Prefix(idx, r), r)
      BY <1>4
    <3> QED BY <1>1, <2>1, <3>1, SameChecks
  <2>3. {idx'[r] : r \in 0..slot - 1} = {idx[r] : r \in 0..slot - 1}
    BY <1>3
  <2>4. placed' = {idx'[r] : r \in 0..slot' - 1}
    BY <1>1, <1>4, <2>3
  <2>5. \A r \in 0..slot' - 1 : idx'[r] \in Star /\ SlotOk(flip, swap, Prefix(idx, r), r)'
    BY <1>1, <1>3, <1>4, <2>2
  <2>6. \A r, s \in 0..slot' - 1 : r # s => idx'[r] # idx'[s]
    BY <1>1, <1>3, <1>4
  <2> QED BY <2>4, <2>5, <2>6 DEF PlacedRight
<1>9. ~again'
  <2>1. t0 \notin tried
    <3> SUFFICES ASSUME t0 \in tried PROVE FALSE
      OBVIOUS
    <3>1. Passed(flip, swap, idx)
      BY <1>1 DEF IInv, TriedOnly
    <3>2. Before(idx)
      BY <3>1 DEF Passed, Earlier
    <3>3. \A s \in 0..slot : idx[s] \in Int
      BY <1>1, <1>2, Sizes
    <3> QED BY <3>2, <3>3 DEF Before
  <2> QED BY <1>1, <2>1 DEF IInv
<1>10. \A fl, sw : Allowed(fl, sw)' = Allowed(fl, sw)
  BY <1>1, SameAllowed
<1>11. ASSUME NEW p, NEW s \in 0..slot  PROVE Agrees(p, s)' <=> Agrees(p, s)
  <2>1. \A q \in 0..s - 1 : q \in 0..slot - 1
    BY <1>2, Sizes
  <2> QED BY <1>3, <2>1 DEF Agrees
<1>12. \A s \in 0..slot : s = slot \/ s \in 0..slot - 1
  BY <1>2, Sizes
<1>13. slot \in 0..slot
  BY <1>2, Sizes
<1>14. TriedOnly'
  <2> SUFFICES ASSUME NEW t \in tried'
               PROVE  /\ t[1] \in parity' /\ t[3] \in Allowed(t[1], t[2])'
                      /\ Passed(t[1], t[2], t[3])'
    BY DEF TriedOnly
  <2>1. CASE t \in tried
    <3>1. t[1] \in parity /\ t[3] \in Allowed(t[1], t[2]) /\ Passed(t[1], t[2], t[3])
      BY <1>1, <2>1 DEF IInv, TriedOnly
    <3>2. ASSUME NEW p \in Allowed(t[1], t[2]), Before(p)  PROVE Before(p)'
      <4>1. PICK s \in 0..slot : Agrees(p, s) /\ p[s] < idx[s]
        BY <3>2 DEF Before
      <4>2. p[slot] \in Int
        BY <1>2, Sizes DEF Allowed, Order
      <4>3. p[s] < idx'[s]
        BY <1>3, <1>12, <4>1, <4>2
      <4> QED BY <1>1, <1>11, <4>1, <4>3 DEF Before
    <3> QED BY <1>1, <1>10, <3>1, <3>2 DEF Passed, Earlier, input
  <2>2. CASE t = t0
    <3>1. t[1] = flip /\ t[2] = swap /\ t[3] = idx
      BY <2>2
    <3>2. Agrees(t[3], slot)'
      BY <1>1, <1>3, <3>1 DEF Agrees
    <3>3. t[3][slot] < idx'[slot]
      BY <1>3, <3>1
    <3>4. Before(t[3])'
      BY <1>1, <1>13, <3>2, <3>3 DEF Before
    <3>5. t[1] \in parity'
      BY <1>1, <3>1 DEF IInv, TypeInv, input
    <3>6. t[3] \in Allowed(t[1], t[2])
      BY <1>5, <3>1
    <3> QED BY <1>1, <1>10, <3>1, <3>4, <3>5, <3>6 DEF Passed
  <2> QED BY <1>1, <2>1, <2>2
<1>15. TriedAll'
  <2> SUFFICES ASSUME ~quit_now', NEW fl \in parity', NEW sw \in BOOLEAN,
                      NEW p \in Allowed(fl, sw)', Passed(fl, sw, p)'
               PROVE  <<fl, sw, p>> \in tried'
    BY <1>1 DEF TriedAll
  <2>1. fl \in parity /\ p \in Allowed(fl, sw) /\ ~quit_now
    BY <1>1, <1>6, <1>10 DEF input
  <2>2. Passed(fl, sw, p) => <<fl, sw, p>> \in tried
    BY <2>1 DEF IInv, TriedAll
  <2>3. ASSUME ~Passed(fl, sw, p)  PROVE <<fl, sw, p>> = t0
    <3>1. fl = flip /\ sw = swap /\ Before(p)' /\ ~Before(p)
      BY <1>1, <2>3 DEF Passed, Earlier
    <3>2. PICK s \in 0..slot : Agrees(p, s) /\ p[s] < idx'[s]
      BY <1>1, <1>11, <3>1 DEF Before
    <3>3. s = slot
      BY <1>3, <1>12, <3>1, <3>2 DEF Before
    <3>4. p \in [Slot -> Star]
      BY <2>1 DEF Allowed, Order
    <3>5. p[slot] = idx[slot]
      <4>1. ~(p[slot] < idx[slot])
        BY <3>1, <3>2, <3>3 DEF Before
      <4>2. p[slot] \in Int /\ idx[slot] \in Int
        BY <1>2, <1>3, <3>4, Sizes
      <4>3. p[slot] < idx[slot] + 1
        BY <1>3, <3>2, <3>3
      <4> QED BY <4>1, <4>2, <4>3
    <3>6. \A r \in Slot : p[r] = idx[r]
      BY <1>3, <3>2, <3>3, <3>5 DEF Agrees
    <3>7. p = idx
      <4>1. p = [r \in Slot |-> p[r]] /\ idx = [r \in Slot |-> idx[r]]
        BY <1>2, <3>4
      <4> QED BY <3>6, <4>1
    <3> QED BY <3>1, <3>7
  <2> QED BY <1>1, <2>2, <2>3
<1> QED BY <1>7, <1>8, <1>9, <1>14, <1>15 DEF IInv

LEMMA ReturnedKeeps == IInv /\ Returned => IInv'
<1> SUFFICES ASSUME IInv, Returned PROVE IInv'
  OBVIOUS
<1>1. /\ pc = "loop" /\ idx[slot] = NStars /\ slot = 0 /\ idx' = [s \in Slot |-> 0]
      /\ UNCHANGED <<input, slot, placed, quit_now, tried, again>>
  BY DEF Returned
<1>2. \/ ~swap /\ ~quit_now /\ swap' = TRUE /\ pc' = pc /\ flip' = flip
      \/ (swap \/ quit_now) /\ ~flip /\ TRUE \in parity /\ swap' = FALSE /\ flip' = TRUE /\ pc' = pc
      \/ (swap \/ quit_now) /\ (flip \/ TRUE \notin parity) /\ pc' = "done" /\ flip' = flip /\ swap' = swap
  BY DEF Returned
<1>3. flip \in parity /\ swap \in BOOLEAN /\ parity \subseteq BOOLEAN /\ quit_now \in BOOLEAN
  BY DEF IInv, TypeInv
<1>4. TypeInv'
  <2>1. idx' \in [Slot -> 0..NStars]
    BY <1>1, Sizes
  <2>2. flip' \in parity /\ swap' \in BOOLEAN /\ pc' \in {"loop", "done"}
    BY <1>1, <1>2, <1>3
  <2> QED BY <1>1, <2>1, <2>2 DEF IInv, TypeInv, input
<1>5. PlacedRight'
  BY <1>1 DEF IInv, PlacedRight
<1>6. \A fl, sw : Allowed(fl, sw)' = Allowed(fl, sw)
  BY <1>1, SameAllowed
<1>7. TriedOnly'
  <2> SUFFICES ASSUME NEW t \in tried'
               PROVE  /\ t[1] \in parity' /\ t[3] \in Allowed(t[1], t[2])'
                      /\ pc' = "loop" => Earlier(t[1], t[2])'
    BY DEF TriedOnly, Passed
  <2>1. t[1] \in parity /\ t[3] \in Allowed(t[1], t[2]) /\ Passed(t[1], t[2], t[3])
    BY <1>1 DEF IInv, TriedOnly
  <2>2. t[1] \in BOOLEAN
    BY <1>3, <2>1
  <2>3. pc' = "loop" => Earlier(t[1], t[2])'
    BY <1>1, <1>2, <1>3, <2>1, <2>2 DEF Earlier, Passed
  <2> QED BY <1>1, <1>6, <2>1, <2>3 DEF input
<1>8. TriedAll'
  <2> SUFFICES ASSUME ~quit_now', NEW fl \in parity', NEW sw \in BOOLEAN,
                      NEW p \in Allowed(fl, sw)', pc' = "done" \/ Passed(fl, sw, p)'
               PROVE  <<fl, sw, p>> \in tried'
    BY DEF TriedAll
  <2>1. fl \in parity /\ fl \in BOOLEAN /\ p \in Allowed(fl, sw) /\ ~quit_now
    BY <1>1, <1>3, <1>6 DEF input
  <2>2. p[0] \in Star
    BY <2>1, Sizes DEF Allowed, Order
  <2>3. Before(p)
    BY <1>1, <2>2, Sizes DEF Before, Agrees
  <2>4. ~Before(p)'
    <3>1. idx'[0] = 0
      BY <1>1, Sizes
    <3> QED BY <1>1, <2>2, <3>1 DEF Before
  <2>5. Passed(fl, sw, p)
    <3> SUFFICES (fl = flip /\ (sw = swap \/ swap)) \/ Earlier(fl, sw)
      BY <1>3, <2>3 DEF Passed, Earlier
    <3>1. CASE ~swap
      <4>1. Earlier(fl, sw)'
        BY <1>1, <1>2, <2>1, <2>4, <3>1 DEF Passed
      <4> QED BY <1>2, <1>3, <2>1, <3>1, <4>1 DEF Earlier
    <3>2. CASE swap /\ pc' = "done"
      <4>1. flip \/ TRUE \notin parity
        BY <1>1, <1>2, <3>2
      <4>2. flip \in BOOLEAN /\ (fl = TRUE \/ fl = FALSE)
        BY <1>3, <2>1
      <4>3. CASE flip = TRUE
        BY <3>2, <4>2, <4>3 DEF Earlier
      <4>4. CASE flip = FALSE
        <5>1. fl = FALSE
          BY <2>1, <4>1, <4>2, <4>4
        <5> QED BY <3>2, <4>4, <5>1
      <4> QED BY <4>2, <4>3, <4>4
    <3>3. CASE swap /\ pc' # "done"
      <4>1. Earlier(fl, sw)'
        BY <2>4, <3>3 DEF Passed
      <4> QED BY <1>2, <1>3, <2>1, <3>3, <4>1 DEF Earlier
    <3> QED BY <1>3, <3>1, <3>2, <3>3
  <2> QED BY <1>1, <2>1, <2>5 DEF IInv, TriedAll
<1> QED BY <1>1, <1>4, <1>5, <1>7, <1>8 DEF IInv

LEMMA StutterKeeps == IInv /\ UNCHANGED vars => IInv'
<1> SUFFICES ASSUME IInv, UNCHANGED vars PROVE IInv'
  OBVIOUS
<1>1. UNCHANGED <<pc, flip, swap, slot, idx, placed, quit_now, tried, again>> /\ UNCHANGED input
  BY DEF vars, loops
<1>2. \A fl, sw : Allowed(fl, sw)' = Allowed(fl, sw)
  BY <1>1, SameAllowed
<1>3. TypeInv'
  BY <1>1 DEF IInv, TypeInv, input
<1>4. PlacedRight'
  <2>1. ASSUME NEW r \in 0..slot - 1  PROVE SlotOk(flip, swap, Prefix(idx, r), r)'
    <3>1. SlotOk(flip, swap, Prefix(idx, r), r)
      BY DEF IInv, PlacedRight
    <3> QED BY <1>1, <3>1, SameChecks
  <2> QED BY <1>1, <2>1 DEF IInv, PlacedRight
<1>5. \A fl, sw, p : Passed(fl, sw, p)' <=> Passed(fl, sw, p)
  BY <1>1 DEF Passed, Earlier, Before, Agrees
<1>6. TriedOnly' /\ TriedAll'
  BY <1>1, <1>2, <1>5 DEF IInv, TriedOnly, TriedAll, input
<1> QED BY <1>1, <1>3, <1>4, <1>6 DEF IInv

-----------------------------------------------------------------------------
(* Codes that an index may store, and the margin. *)

LEMMA Sorted ==
  ASSUME NEW c \in [Slot -> Int], \A s \in Slot \ {0} : c[s - 1] <= c[s],
         NEW r \in Slot, NEW s \in Slot, r <= s
  PROVE  c[r] <= c[s]
<1> DEFINE Bad == {k \in Nat : r + k \in Slot /\ c[r] > c[r + k]}
<1>1. Bad = {}
  <2> SUFFICES ASSUME Bad # {} PROVE FALSE
    OBVIOUS
  <2>1. PICK m \in Bad : \A k \in Bad : m <= k
    BY LeastNat
  <2>2. m \in Nat /\ r + m \in Slot /\ c[r] > c[r + m] /\ m # 0
    BY <2>1, Sizes
  <2>3. r + m \in Slot \ {0} /\ r + (m - 1) \in Slot /\ m - 1 \in Nat
    BY <2>2, Sizes
  <2>4. ~ (c[r] > c[r + (m - 1)])
    <3>1. m - 1 \notin Bad
      <4> HIDE DEF Bad
      <4> QED BY <2>1, <2>2, <2>3
    <3> QED BY <2>3, <3>1
  <2>5. c[(r + m) - 1] <= c[r + m]
    BY <2>3
  <2>6. (r + m) - 1 = r + (m - 1)
    BY <2>3
  <2>7. c[r] \in Int /\ c[r + m] \in Int /\ c[r + (m - 1)] \in Int
    BY <2>3
  <2> HIDE DEF Slot
  <2> QED BY <2>2, <2>4, <2>5, <2>6, <2>7
<1>2. s - r \in Nat /\ r + (s - r) = s
  BY Sizes
<1>3. s - r \notin Bad
  BY <1>1
<1>4. c[r] \in Int /\ c[s] \in Int
  OBVIOUS
<1> QED BY <1>2, <1>3, <1>4

\* The mean of the first numbers of a sorted list is no larger than that of all.
LEMMA MeanOfFirst ==
  ASSUME NEW c \in [Slot -> Int], \A s \in Slot \ {0} : c[s - 1] <= c[s],
         NEW h \in Int, SumFunction(c) <= NStars * h, NEW s \in Slot
  PROVE  SumFunctionOnSet(c, 0..s) <= (s + 1) * h
<1> DEFINE P == SumFunctionOnSet(c, 0..s)
           R == SumFunctionOnSet(c, s + 1..NStars - 1)
           a == c[s]
           k == s + 1
           l == NStars - k
           e == [r \in Slot |-> a]
<1>1. k \in Nat /\ l \in Nat /\ a \in Int /\ k > 0 /\ k + l = NStars
  BY Sizes
<1>2. IsFiniteSet(Slot) /\ IsFiniteSet(0..s) /\ IsFiniteSet(s + 1..NStars - 1)
  BY Sizes, FS_Interval, SMTT(30)
<1>3. P \in Int /\ R \in Int /\ P + R <= NStars * h
  <2>1. 0..s \subseteq Slot /\ Slot \ (0..s) = s + 1..NStars - 1 /\ DOMAIN c = Slot
    BY Sizes
  <2>2. \A r \in Slot : c[r] \in Int
    OBVIOUS
  <2>3. SumFunction(c) = P + R
    <3>1. SumFunctionOnSet(c, Slot) = P + SumFunctionOnSet(c, Slot \ (0..s))
      <4> HIDE DEF Slot
      <4> QED BY <1>2, <2>1, <2>2, SumParts
    <3> QED BY <2>1, <3>1 DEF SumFunction
  <2>4. P \in Int /\ R \in Int
    <3>1. s + 1..NStars - 1 \subseteq Slot
      BY Sizes
    <3> QED BY <1>2, <2>1, <2>2, <3>1, SumInt
  <2> QED BY <2>3, <2>4
<1>4. P <= k * a
  <2>1. ASSUME NEW r \in 0..s
        PROVE  c[r] \in Int /\ e[r] \in Int /\ c[r] <= e[r] /\ e[r] = a
    <3>1. r \in Slot /\ r <= s
      BY Sizes
    <3>2. c[r] <= c[s]
      BY <3>1, Sorted
    <3> QED BY <1>1, <3>1, <3>2
  <2>2. Cardinality(0..s) = k
    BY Sizes, FS_Interval
  <2> HIDE DEF e, a
  <2>3. SumFunctionOnSet(e, 0..s) = k * a
    BY <1>1, <1>2, <2>1, <2>2, SumConstant
  <2> QED BY <1>2, <2>1, <2>3, SumMonotone
<1>5. l * a <= R
  <2>1. ASSUME NEW r \in s + 1..NStars - 1
        PROVE  c[r] \in Int /\ e[r] \in Int /\ e[r] <= c[r] /\ e[r] = a
    <3>1. r \in Slot /\ s <= r
      BY Sizes
    <3>2. c[s] <= c[r]
      BY <3>1, Sorted
    <3> QED BY <1>1, <3>1, <3>2
  <2>2. Cardinality(s + 1..NStars - 1) = l
    <3>1. s + 1 \in Int /\ NStars - 1 \in Int
      BY Sizes
    <3>2. Cardinality(s + 1..NStars - 1) =
            IF s + 1 > NStars - 1 THEN 0 ELSE (NStars - 1) - (s + 1) + 1
      BY <3>1, FS_Interval
    <3>3. s \in Int /\ NStars \in Int /\ s <= NStars - 1
      BY Sizes
    <3> QED BY <3>2, <3>3
  <2> HIDE DEF e, a
  <2>3. SumFunctionOnSet(e, s + 1..NStars - 1) = l * a
    BY <1>1, <1>2, <2>1, <2>2, SumConstant
  <2> QED BY <1>2, <2>1, <2>3, SumMonotone
<1> HIDE DEF P, R, a, k, l
<1>6. P <= k * h
  <2>1. CASE a <= h
    <3>1. k * a <= k * h
      BY <1>1, <2>1
    <3>2. k * a \in Int /\ k * h \in Int
      BY <1>1
    <3> QED BY <1>3, <1>4, <3>1, <3>2
  <2>2. CASE a > h
    <3>1. l * h <= l * a
      BY <1>1, <2>2
    <3>2. NStars * h = k * h + l * h
      BY <1>1
    <3>3. k * h \in Int /\ l * h \in Int /\ l * a \in Int
      BY <1>1
    <3> QED BY <1>3, <1>5, <3>1, <3>2, <3>3
  <2> QED BY <1>1, <2>1, <2>2
<1> QED BY <1>6 DEF P, k

\* Two of the distances by which a code is off.
LEMMA TwoSquares ==
  ASSUME NEW d \in [Slot -> Int], SumFunction([s \in Slot |-> d[s] * d[s]]) <= Tol * Tol,
         NEW r \in Slot, NEW s \in Slot, r # s
  PROVE  d[r] * d[r] + d[s] * d[s] <= Tol * Tol
<1> DEFINE q == [t \in Slot |-> d[t] * d[t]]
           z == [t \in Slot |-> 0]
           A == {r, s}
<1>1. \A t \in Slot : q[t] \in Int /\ q[t] >= 0
  OBVIOUS
<1>2. IsFiniteSet(Slot) /\ DOMAIN q = Slot
  BY Sizes, FS_Interval
<1>3. IsFiniteSet(A) /\ IsFiniteSet(Slot \ A)
  BY <1>2, FS_Subset
<1> HIDE DEF q
<1>4. SumFunctionOnSet(q, Slot) = SumFunctionOnSet(q, A) + SumFunctionOnSet(q, Slot \ A)
  <2>1. A \subseteq Slot
    OBVIOUS
  <2> HIDE DEF A, Slot
  <2> QED BY <1>1, <1>2, <2>1, SumParts
<1>5. SumFunctionOnSet(q, A) = q[r] + q[s]
  <2>1. A \ {r} = {s} /\ {s} \ {s} = {} /\ IsFiniteSet({s})
    BY FS_Singleton
  <2>2. SumFunctionOnSet(q, A) = q[r] + SumFunctionOnSet(q, {s})
    <3>1. SumFunctionOnSet(q, A) = q[r] + SumFunctionOnSet(q, A \ {r})
      BY <1>1, <1>3, SumOut
    <3> QED BY <2>1, <3>1
  <2>3. SumFunctionOnSet(q, {s}) = q[s] + SumFunctionOnSet(q, {})
    <3>1. SumFunctionOnSet(q, {s}) = q[s] + SumFunctionOnSet(q, {s} \ {s})
      BY <1>1, <2>1, SumOut
    <3> QED BY <2>1, <3>1
  <2> QED BY <1>1, <2>2, <2>3, SumEmpty
<1>6. SumFunctionOnSet(q, Slot \ A) >= 0 /\ SumFunctionOnSet(q, Slot \ A) \in Int
  <2>1. SumFunctionOnSet(z, Slot \ A) = Cardinality(Slot \ A) * 0
    <3>1. \A t \in Slot \ A : z[t] = 0
      OBVIOUS
    <3> HIDE DEF z, A
    <3> QED BY <1>3, <3>1, SumConstant
  <2>2. Cardinality(Slot \ A) \in Nat
    BY <1>3, FS_CardinalityType
  <2>3. \A t \in Slot \ A : z[t] \in Int /\ q[t] \in Int /\ z[t] <= q[t]
    BY <1>1
  <2> HIDE DEF z, A
  <2>4. SumFunctionOnSet(z, Slot \ A) <= SumFunctionOnSet(q, Slot \ A)
    BY <1>3, <2>3, SumMonotone
  <2>5. SumFunctionOnSet(q, Slot \ A) \in Int
    BY <1>1, <1>3, SumInt
  <2> QED BY <2>1, <2>2, <2>4, <2>5
<1>7. SumFunctionOnSet(q, Slot) <= Tol * Tol
  BY <1>2 DEF SumFunction, q
<1>8. q[r] + q[s] <= Tol * Tol
  <2>1. q[r] \in Int /\ q[s] \in Int /\ Tol * Tol \in Int
    BY <1>1, CodesAssumption
  <2> QED BY <1>4, <1>5, <1>6, <1>7, <2>1
<1> QED BY <1>8 DEF q

\* The margin is enough for one coordinate too large and the next too small.
LEMMA MarginEnough ==
  ASSUME NEW a \in Int, NEW b \in Int, a * a + b * b <= Tol * Tol
  PROVE  a - b <= Margin
<1>1. Tol \in Nat /\ Margin \in Int /\ 2 * Margin >= 3 * Tol - 1
  BY CodesAssumption DEF Margin
<1> SUFFICES ASSUME a - b > Margin PROVE FALSE
  BY <1>1
<1> DEFINE k == a - b
<1>2. k * k <= 2 * (Tol * Tol)
  <2>1. (a + b) * (a + b) >= 0
    OBVIOUS
  <2>2. (a + b) * (a + b) + k * k = 2 * (a * a + b * b)
    OBVIOUS
  <2>3. Tol * Tol \in Int /\ k * k \in Int /\ (a + b) * (a + b) \in Int
    BY <1>1
  <2> QED BY <2>1, <2>2, <2>3
<1>3. k \in Int /\ 2 * k >= 3 * Tol + 1
  BY <1>1
<1> HIDE DEF k
<1>4. (2 * k) * (2 * k) >= (3 * Tol + 1) * (3 * Tol + 1)
  BY <1>1, <1>3
<1>5. (2 * k) * (2 * k) = 4 * (k * k)
  BY <1>3
<1>6. (3 * Tol + 1) * (3 * Tol + 1) = 9 * (Tol * Tol) + 6 * Tol + 1
  BY <1>1
<1>7. Tol * Tol \in Nat /\ k * k \in Int
  BY <1>1, <1>3
<1> QED BY <1>1, <1>2, <1>4, <1>5, <1>6, <1>7

\* An order that could match what an index stores passes the checks of every slot.
LEMMA MatchAllowed ==
  ASSUME TypeInv, NEW fl \in BOOLEAN, NEW sw \in BOOLEAN, NEW p \in Order,
         MayMatch(fl, sw, p)
  PROVE  p \in Allowed(fl, sw)
<1> SUFFICES ASSUME NEW s \in Slot PROVE SlotOk(fl, sw, Prefix(p, s), s)
  BY DEF Allowed
<1> DEFINE x == [r \in Slot |-> x_of(fl, sw, p[r])]
           sq(d) == [r \in Slot |-> d[r] * d[r]]
           sum(d) == [r \in Slot |-> x[r] + d[r]]
<1>1. PICK d \in [Slot -> -Tol..Tol] :
        SumFunction(sq(d)) <= Tol * Tol /\ quad_obeys_invariants(sum(d))
  BY DEF MayMatch
<1> DEFINE c == sum(d)
           pre == Prefix(p, s)
<1>2. Tol \in Nat /\ Half \in Int /\ Margin \in Int /\ Tol <= Margin
  BY CodesAssumption DEF Margin
<1>3. x \in [Slot -> Int]
  <2>1. \A r \in Slot : p[r] \in Star
    BY DEF Order
  <2>2. \A i \in Star : x_of(fl, sw, i) \in Int
    BY CodesAssumption, SMTT(30) DEF x_of, TypeInv
  <2>3. \A r \in Slot : x_of(fl, sw, p[r]) \in Int
    BY <2>1, <2>2
  <2> QED BY <2>3
<1>4. d \in [Slot -> Int] /\ c \in [Slot -> Int] /\ \A r \in Slot : c[r] = x[r] + d[r]
  <2> HIDE DEF x
  <2> QED BY <1>1, <1>2, <1>3
<1>5. \A r \in 0..s : r \in Slot /\ x_of(fl, sw, pre[r]) = x[r]
  BY Sizes DEF Prefix
<1> HIDE DEF x, c, pre
<1>6. quad_obeys_invariants(c) /\ SumFunction(sq(d)) <= Tol * Tol
  BY <1>1 DEF c
<1>7. ASSUME cx_less_than_dx, s > 0
      PROVE  x_of(fl, sw, pre[s - 1]) <= x_of(fl, sw, pre[s]) + Margin
  <2>1. s - 1 \in Slot /\ s - 1 \in 0..s /\ s \in 0..s /\ s # s - 1 /\ s \in Slot \ {0}
    BY <1>7, Sizes
  <2>2. c[s - 1] <= c[s]
    BY <1>6, <1>7, <2>1 DEF quad_obeys_invariants
  <2>3. d[s] * d[s] + d[s - 1] * d[s - 1] <= Tol * Tol
    BY <1>4, <1>6, <2>1, TwoSquares
  <2>4. d[s] \in Int /\ d[s - 1] \in Int /\ x[s] \in Int /\ x[s - 1] \in Int
    BY <1>3, <1>4, <2>1
  <2>5. d[s] - d[s - 1] <= Margin
    BY <2>3, <2>4, MarginEnough
  <2>6. x[s - 1] <= x[s] + Margin
    BY <1>2, <1>4, <2>1, <2>2, <2>4, <2>5
  <2> QED BY <1>5, <2>1, <2>6
<1>8. ASSUME cx_less_than_dx, meanx_less_than_half
      PROVE  SumFunction([r \in 0..s |-> x_of(fl, sw, pre[r])]) <= (s + 1) * (Half + Margin)
  <2> DEFINE w == [r \in 0..s |-> x_of(fl, sw, pre[r])]
             m == [r \in 0..s |-> Margin]
             e == [r \in 0..s |-> c[r] + m[r]]
             D == 0..s
  <2>1. IsFiniteSet(D) /\ Cardinality(D) = s + 1 /\ s \in Nat
    BY Sizes, FS_Interval, SMTT(30)
  <2>2. ASSUME NEW r \in D
        PROVE  /\ w[r] \in Int /\ e[r] \in Int /\ w[r] <= e[r]
               /\ c[r] \in Int /\ m[r] \in Int /\ m[r] = Margin /\ e[r] = c[r] + m[r]
    <3>1. r \in Slot /\ w[r] = x[r] /\ m[r] = Margin /\ e[r] = c[r] + Margin
      BY <1>5
    <3>2. d[r] \in -Tol..Tol /\ x[r] \in Int /\ c[r] \in Int /\ c[r] = x[r] + d[r]
      BY <1>3, <1>4, <3>1
    <3> QED BY <1>2, <3>1, <3>2
  <2>3. DOMAIN w = D
    OBVIOUS
  <2> HIDE DEF w, e, m, D
  <2>4. SumFunctionOnSet(w, D) <= SumFunctionOnSet(e, D)
    BY <2>1, <2>2, SumMonotone
  <2>5. SumFunctionOnSet(e, D) = SumFunctionOnSet(c, D) + SumFunctionOnSet(m, D)
    BY <2>1, <2>2, SumPlus
  <2>6. SumFunctionOnSet(m, D) = (s + 1) * Margin
    <3>1. SumFunctionOnSet(m, D) = Cardinality(D) * Margin
      BY <1>2, <2>1, <2>2, SumConstant
    <3> QED BY <2>1, <3>1
  <2>7. SumFunctionOnSet(c, D) <= (s + 1) * Half
    <3>1. \A r \in Slot \ {0} : c[r - 1] <= c[r]
      BY <1>6, <1>8 DEF quad_obeys_invariants
    <3>2. SumFunction(c) <= NStars * Half
      BY <1>6, <1>8 DEF quad_obeys_invariants
    <3> QED BY <1>2, <1>4, <3>1, <3>2, MeanOfFirst DEF D
  <2>8. SumFunctionOnSet(w, D) \in Int /\ SumFunctionOnSet(c, D) \in Int
    BY <2>1, <2>2, SumInt
  <2>9. (s + 1) * (Half + Margin) = (s + 1) * Half + (s + 1) * Margin
    BY <1>2, <2>1
  <2>10. (s + 1) * Half \in Int /\ (s + 1) * Margin \in Int
    BY <1>2, <2>1
  <2>11. SumFunctionOnSet(w, D) <= (s + 1) * (Half + Margin)
    BY <2>4, <2>5, <2>6, <2>7, <2>8, <2>9, <2>10
  <2> QED BY <2>3, <2>11 DEF SumFunction, w, D
<1> QED BY <1>7, <1>8 DEF SlotOk, pre

-----------------------------------------------------------------------------
(* The theorems. *)

THEOREM Invariant == Spec => []IInv
<1>1. IInv /\ [Next]_vars => IInv'
  BY SkipKeeps, RecurseKeeps, SearchKeeps, ReturnKeeps, ReturnedKeeps, StutterKeeps
  DEF Next, Done
<1> QED BY InitInvariant, <1>1, PTL DEF Spec

\* No call of try_permutations indexes past the stars or the slots of a quad.
THEOREM CodesTypeCorrect == Spec => []TypeInv
<1>1. IInv => TypeInv
  BY DEF IInv
<1> QED BY <1>1, Invariant, PTL

\* try_permutations searches, in every parity and direction, exactly the orders
\* that pass the checks of every slot, each once.
THEOREM CodesTriedExactly == Spec => []TriedExactly
<1>1. IInv => TriedExactly
  BY DEF IInv, TriedOnly, TriedAll, TriedExactly
<1> QED BY <1>1, Invariant, PTL

\* Every order whose code could match what an index stores is searched, whatever
\* the code of the quad and codetol: cxdx_margin is large enough.
THEOREM CodesMatchingTried == Spec => []MatchingOrderTried
<1>1. IInv => MatchingOrderTried
  <2> SUFFICES ASSUME IInv, pc = "done", ~quit_now, NEW fl \in parity, NEW sw \in BOOLEAN,
                      NEW p \in Order, MayMatch(fl, sw, p)
               PROVE  <<fl, sw, p>> \in tried
    BY DEF MatchingOrderTried
  <2>1. p \in Allowed(fl, sw)
    <3>1. TypeInv /\ fl \in BOOLEAN
      BY DEF IInv, TypeInv
    <3> QED BY <3>1, MatchAllowed
  <2> QED BY <2>1 DEF IInv, TriedAll
<1> QED BY <1>1, Invariant, PTL

=============================================================================
