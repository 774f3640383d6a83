---------------------------- MODULE MCSolvedFile ----------------------------
(***************************************************************************)
(* Instances of SolvedFile and SolvedLists for TLC.                        *)
(***************************************************************************)
EXTENDS SolvedLists

CONSTANTS w1, w2

\* One process, a file that may be missing, short or long enough.
OneWriter == {w1}
AnySizes == {NoFile} \cup 0..MaxField

\* Two processes, a file that is not there yet.
TwoWriters == {w1, w2}
NoSize == {NoFile}

=============================================================================
