---------------------------- MODULE MCSolverQuads ---------------------------
(***************************************************************************)
(* An instance of SolverQuads for TLC: two indexes, one of quads of four   *)
(* stars and one of triangles, five objects of which some pairs are too    *)
(* close and some stars outside the circle; one index also has a pair      *)
(* that check_scale rejects.                                               *)
(***************************************************************************)
EXTENDS SolverQuads

TwoDims == <<4, 3>>
SomePairs == {p \in Pair : p[1] < p[2] /\ p # <<0, 2>>}
SomeFit == <<SomePairs \cup {<<0, 2>>}, {p \in SomePairs : p[2] # 3}>>
Circles == [p \in Pair |-> {c \in Obj : c + p[1] # 3}]

=============================================================================
