----------------------------- MODULE MCPipeline -----------------------------
(***************************************************************************)
(* Instances of Pipeline for TLC.                                          *)
(***************************************************************************)
EXTENDS Pipeline

CONSTANTS s1, s2, s3, f1

\* One submission of a file.
OneSub == {s1}
FileOnly == [s \in Sub |-> <<f1>>]

\* Three submissions of the same file.
ThreeSubs == {s1, s2, s3}
OneFile == {f1}
Same == [s \in Sub |-> <<f1>>]

\* Both pools, or everything in one process.
BothOrNone == {[subs |-> b, jobs |-> b] : b \in BOOLEAN}
Both == {[subs |-> TRUE, jobs |-> TRUE]}

=============================================================================
