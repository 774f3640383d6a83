--------------------------- MODULE MCSolvedServer ---------------------------
(***************************************************************************)
(* Instances of SolvedServer for TLC.                                      *)
(***************************************************************************)
EXTENDS SolvedServer

\* The server starts with no file, or with one of one byte.
NoneOrOne == {NoFile, 1}

=============================================================================
