---------------------------- MODULE MCEngineJob -----------------------------
(***************************************************************************)
(* Instances of EngineJob for TLC.                                         *)
(***************************************************************************)
EXTENDS EngineJob

OneField == {1}
NoRuns == {}

\* A limit of one tick on the CPU time of a pass.
OnlyCpu == [c \in Clock |-> IF c = "cpu" THEN 1 ELSE 0]

\* Objects one by one.
ByOne == <<<<1, 1>>, <<2, 2>>>>

\* Quad sizes of the indexes: each meets the next; the biggest is out of range.
Meeting == <<<<1, 2>>, <<2, 4>>, <<3, 5>>>>

\* Quad sizes of the fields: such that all indexes fit, or none and the biggest is
\* taken, so that none is left.
TwoScales == <<<<2, 3>>, <<7, 8>>>>

=============================================================================
