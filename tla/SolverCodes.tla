---------------------------- MODULE SolverCodes ----------------------------
(***************************************************************************)
(* try_all_codes (blind/solver.c): a quad of field stars is looked up in   *)
(* the code tree of an index once for each way of labelling its stars that *)
(* the index may have used: both parities, both directions of the diagonal *)
(* AB, and the orders of the stars inside, which a recursive function      *)
(* fills in slot by slot.  An index stores a quad with cx <= dx <= ... and *)
(* a mean of at most 1/2, so orders whose code breaks this by more than a  *)
(* margin are passed over.                                                 *)
(*                                                                         *)
(* Codes are integers, in units such that the diagonal has length 2*Half.  *)
(***************************************************************************)
EXTENDS Integers, Functions

CONSTANTS
  NStars,       \* stars inside: dimquad - NBACK
  Half,         \* 1/2 in the units of the codes
  Tol,          \* codetol
  Codes         \* the codes <<x, y>> that the stars of the quad may have

Star == 0..NStars - 1
Slot == Star
Last == NStars - 1
Margin == (3 * Tol) \div 2      \* cxdx_margin

ASSUME CodesAssumption ==
  /\ NStars \in Nat \ {0} /\ Half \in Nat /\ Tol \in Nat
  /\ Codes \subseteq [x : [Star -> Int], y : [Star -> Int]]

VARIABLES
  code,         \* of the stars, in their order in the field
  parity,       \* the parities asked for, of "normal" and "flip"
  cx_less_than_dx, meanx_less_than_half,    \* what the index promises
  pc,
  flip, swap,   \* the parity, and the direction of AB, being tried
  slot,         \* the depth of the recursion
  idx,          \* the loop variable of each call, that is the star in each slot
  placed,
  quit_now,
  tried,        \* history: the searches, <<flip, swap, order>>
  again         \* history: was one of them made twice?

input == <<code, parity, cx_less_than_dx, meanx_less_than_half>>
loops == <<slot, idx, placed>>
vars == <<input, pc, flip, swap, loops, quit_now, tried, again>>

Order == {p \in [Slot -> Star] : \A r, s \in Slot : r # s => p[r] # p[s]}

TypeInv ==
  /\ code \in [x : [Star -> Int], y : [Star -> Int]]
  /\ parity \in (SUBSET BOOLEAN) \ {{}}
  /\ cx_less_than_dx \in BOOLEAN /\ meanx_less_than_half \in BOOLEAN
  /\ pc \in {"loop", "done"} /\ flip \in parity /\ swap \in BOOLEAN
  /\ slot \in Slot /\ idx \in [Slot -> 0..NStars] /\ placed \subseteq Star
  /\ quit_now \in BOOLEAN /\ again \in BOOLEAN
  /\ tried \subseteq BOOLEAN \X BOOLEAN \X Order

Init ==
  /\ code \in Codes /\ parity \in (SUBSET BOOLEAN) \ {{}}
  /\ cx_less_than_dx \in BOOLEAN /\ meanx_less_than_half \in BOOLEAN
  /\ pc = "loop" /\ flip = (FALSE \notin parity) /\ swap = FALSE
  /\ slot = 0 /\ idx = [s \in Slot |-> 0] /\ placed = {}
  /\ quit_now = FALSE /\ tried = {} /\ again = FALSE

-----------------------------------------------------------------------------
\* quad_flip_parity exchanges x and y; reversing AB turns x into 1 - x.
x_of(fl, sw, i) ==
  LET x == IF fl THEN code.y[i] ELSE code.x[i]
  IN  IF sw THEN 2 * Half - x ELSE x

\* Mutant: the mean is compared without the margin.
SlotOk_NoMargin(fl, sw, pre, s) ==
  /\ cx_less_than_dx /\ s > 0 =>
       x_of(fl, sw, pre[s - 1]) <= x_of(fl, sw, pre[s]) + Margin
  /\ cx_less_than_dx /\ meanx_less_than_half =>
       SumFunction([r \in 0..s |-> x_of(fl, sw, pre[r])]) <= (s + 1) * Half

\* The stars pre[0], ..., pre[s] in the first slots pass the checks of slot s.
SlotOk(fl, sw, pre, s) ==
  /\ cx_less_than_dx /\ s > 0 =>
       x_of(fl, sw, pre[s - 1]) <= x_of(fl, sw, pre[s]) + Margin
  /\ cx_less_than_dx /\ meanx_less_than_half =>
       SumFunction([r \in 0..s |-> x_of(fl, sw, pre[r])]) <= (s + 1) * (Half + Margin)

Prefix(p, s) == [r \in 0..s |-> p[r]]

\* May the next star go into the slot?
Fits == idx[slot] \notin placed /\ SlotOk(flip, swap, Prefix(idx, slot), slot)

\* The star is placed already, or the code would be out of order.
Skip ==
  /\ pc = "loop" /\ idx[slot] < NStars /\ ~Fits
  /\ idx' = [idx EXCEPT ![slot] = @ + 1]
  /\ UNCHANGED <<input, pc, flip, swap, slot, placed, quit_now, tried, again>>

\* Mutant: the last slot is taken for one with more to fill.
Recurse_PastLast ==
  /\ pc = "loop" /\ idx[slot] < NStars /\ Fits /\ slot <= Last
  /\ placed' = placed \cup {idx[slot]}
  /\ slot' = slot + 1
  /\ idx' = [idx EXCEPT ![slot + 1] = 0]
  /\ UNCHANGED <<input, pc, flip, swap, quit_now, tried, again>>

\* There are more slots to fill.
Recurse ==
  /\ pc = "loop" /\ idx[slot] < NStars /\ Fits /\ slot < Last
  /\ placed' = placed \cup {idx[slot]}
  /\ slot' = slot + 1
  /\ idx' = [idx EXCEPT ![slot + 1] = 0]
  /\ UNCHANGED <<input, pc, flip, swap, quit_now, tried, again>>

\* What an index may store: quad_obeys_invariants.
quad_obeys_invariants(c) ==
  /\ cx_less_than_dx => \A s \in Slot \ {0} : c[s - 1] <= c[s]
  /\ cx_less_than_dx /\ meanx_less_than_half =>
       SumFunction(c) <= NStars * Half

\* Is a code that an index may store within codetol of that of order p?  Its
\* y coordinates may be the same.
MayMatch(fl, sw, p) ==
  \E d \in [Slot -> -Tol..Tol] :
    /\ SumFunction([s \in Slot |-> d[s] * d[s]]) <= Tol * Tol
    /\ quad_obeys_invariants([s \in Slot |-> x_of(fl, sw, p[s]) + d[s]])

\* All slots are filled: search the code tree.  resolve_matches may find what
\* it takes to quit; the call returns at once then, those above go on.
Search ==
  /\ pc = "loop" /\ idx[slot] < NStars /\ Fits /\ slot = Last
  /\ quit_now' \in {quit_now, quit_now \/ MayMatch(flip, swap, idx)}
  /\ idx' = [idx EXCEPT ![slot] = IF quit_now' THEN NStars ELSE @ + 1]
  /\ again' = (again \/ <<flip, swap, idx>> \in tried)
  /\ tried' = tried \cup {<<flip, swap, idx>>}
  /\ UNCHANGED <<input, pc, flip, swap, slot, placed>>

\* Mutant: the star stays marked as placed.
Return_KeepsPlaced ==
  /\ pc = "loop" /\ idx[slot] = NStars /\ slot > 0
  /\ slot' = slot - 1
  /\ idx' = [idx EXCEPT ![slot - 1] = @ + 1]
  /\ UNCHANGED <<input, pc, flip, swap, placed, quit_now, tried, again>>

\* The call for this slot returns.
Return ==
  /\ pc = "loop" /\ idx[slot] = NStars /\ slot > 0
  /\ slot' = slot - 1
  /\ placed' = placed \ {idx[slot - 1]}
  /\ idx' = [idx EXCEPT ![slot - 1] = @ + 1]
  /\ UNCHANGED <<input, pc, flip, swap, quit_now, tried, again>>

\* The outermost call returns: AB the other way round, unless the search is to
\* quit; then the other parity, if both are asked for, even so.
Returned ==
  /\ pc = "loop" /\ idx[slot] = NStars /\ slot = 0
  /\ idx' = [s \in Slot |-> 0]
  /\ IF ~swap /\ ~quit_now
       THEN swap' = TRUE /\ UNCHANGED <<pc, flip>>
       ELSE IF ~flip /\ TRUE \in parity
       THEN swap' = FALSE /\ flip' = TRUE /\ UNCHANGED pc
       ELSE pc' = "done" /\ UNCHANGED <<flip, swap>>
  /\ UNCHANGED <<input, slot, placed, quit_now, tried, again>>

Done == pc = "done" /\ UNCHANGED vars

Next == Skip \/ Recurse \/ Search \/ Return \/ Returned \/ Done

Spec == Init /\ [][Next]_vars

-----------------------------------------------------------------------------
(* Properties. *)

\* The orders that pass the checks of every slot.
Allowed(fl, sw) == {p \in Order : \A s \in Slot : SlotOk(fl, sw, Prefix(p, s), s)}

\* What the recursion searches, placing stars and taking them back, are exactly
\* the orders that pass the checks, each of them once, in every parity and
\* direction; a search that quits leaves some out, and repeats none either.
TriedExactly ==
  /\ ~again
  /\ \A t \in tried : t[1] \in parity /\ t[3] \in Allowed(t[1], t[2])
  /\ pc = "done" /\ ~quit_now =>
       \A fl \in parity, sw \in BOOLEAN : \A p \in Allowed(fl, sw) :
         <<fl, sw, p>> \in tried

\* solver.h of cxdx_margin: "how much of a margin do we have to add before we can
\* safely assume that a permutation of a quad's code can't be in the index":
\* every order that could match what an index stores is searched.
MatchingOrderTried ==
  pc = "done" /\ ~quit_now =>
    \A fl \in parity, sw \in BOOLEAN : \A p \in Order :
      MayMatch(fl, sw, p) => <<fl, sw, p>> \in tried

=============================================================================
