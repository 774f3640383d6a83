----------------------------- MODULE MCBlindRun -----------------------------
(***************************************************************************)
(* Instances of BlindRun for TLC.                                          *)
(***************************************************************************)
EXTENDS BlindRun

\* Three fields, in a list with numbers out of range.
BadNumbers == {-1, 1, 2, 3, 9}

\* A search, and two from the second object on: one with two indexes, and one after
\* a WCS estimate is checked.
Search == [start |-> 0, end |-> 0, indexes |-> 1, wcss |-> 0]
SecondDepth == [start |-> 1, end |-> 0, indexes |-> 2, wcss |-> 0]
Verify == [start |-> 1, end |-> 0, indexes |-> 1, wcss |-> 1]
SomeRuns == {Search, SecondDepth, Verify}

\* One tick on all there is a limit for.
AllFour == [c \in Clock |-> 1]

=============================================================================
