--------------------------- MODULE MCSolverCodes ----------------------------
(***************************************************************************)
(* An instance of SolverCodes for TLC.                                     *)
(***************************************************************************)
EXTENDS SolverCodes

\* Coordinates around the middle of the diagonal and beyond its ends, at
\* distances below, at and above the margin; y is the x of another star.
Grid == {-1, 0, 3, 6, 8, 10}
SomeCodes ==
  {[x |-> x, y |-> [i \in Star |-> x[(i + k) % NStars]]] :
     x \in [Star -> Grid], k \in {0, 1}}

=============================================================================
