----------------------------- MODULE SolvedSet -----------------------------
(***************************************************************************)
(* What a record of solved fields promises to the solvers that share it:   *)
(* a set that only grows, and an acknowledgement of a field only once the  *)
(* field is in the set.                                                    *)
(***************************************************************************)
CONSTANT Field

VARIABLES solved, acked

vars == <<solved, acked>>

Init ==
  /\ solved \in SUBSET Field
  /\ acked = {}

Mark(f) ==
  /\ solved' = solved \cup {f}
  /\ UNCHANGED acked

Acknowledge(F) ==
  /\ F \subseteq solved
  /\ acked' = acked \cup F
  /\ UNCHANGED solved

Next ==
  \/ \E f \in Field : Mark(f)
  \/ \E F \in SUBSET Field : Acknowledge(F)

Spec == Init /\ [][Next]_vars

=============================================================================
