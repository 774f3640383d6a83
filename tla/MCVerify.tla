------------------------------ MODULE MCVerify ------------------------------
(***************************************************************************)
(* Instances of Verify for TLC.                                            *)
(***************************************************************************)
EXTENDS Verify

\* A triangle whose third star has no counterpart in the circle of the image.
Triangle == {<<0, 1>>, <<2, 3>>, <<4, 9>>}
Sweeps == [r \in Ref |-> IF r \in {1, 2} THEN 0 ELSE r]

\* Everything inside; all but star 3; nothing.
SomeInside == {Ref, Ref \ {3}, {}}
SomeKeepers == {{0, 1, 3, 5}, {0, 1, 3}}
SomeTests == {Test, Test \ {1}}
SomeRefs == {Ref, Ref \ {0}}

\* Log-odds of a match, and of a distractor: concave, as a logarithm is.
Odds == {-2, 2}
Density == <<-4, -2, -1, 0, 0, 0>>
DensityAt == [m \in 0..NRall + 1 |-> Density[m + 1]]
BailOdds == -9

=============================================================================
