---------------------------- MODULE SolvedBytes ----------------------------
(***************************************************************************)
(* The contents of a "solved" file (blind/solvedfile.c): one byte per      *)
(* field, byte f-1 telling whether field f is solved.  The bytes that the  *)
(* program writes are 0 and 1, so a file is its size in bytes together     *)
(* with the set of fields whose byte is 1.  This module has the reading    *)
(* half of solvedfile.c, functions of the contents; SolvedFile has the     *)
(* writing half, which takes several system calls.                         *)
(*                                                                         *)
(* A list of field numbers is always built in increasing order and without *)
(* repetition, so the il* that solvedfile_getall returns is the set of its *)
(* elements.                                                               *)
(***************************************************************************)
EXTENDS Integers, FiniteSets

NoFile == -1                \* the size reported for a file that is not there

\* What solvedfile_getsize returns.
solvedfile_getsize(size) == size

\* The last byte of the file not looked at.
solvedfile_get_NotLastByte(size, marked, f) ==
  IF f < size /\ f \in marked THEN 1 ELSE 0

\* Is field f recorded as solved?  A missing file and a field past the end
\* of the file both answer "unsolved".
solvedfile_get(size, marked, f) == IF f <= size /\ f \in marked THEN 1 ELSE 0

\* The n smallest elements of S.
FirstN(S, n) == {x \in S : Cardinality({y \in S : y < x}) < n}

\* A list that stops growing when it reaches maxfields elements, the size
\* being compared after each append: 0 is never reached.
UpTo(S, maxfields) == IF maxfields = 0 THEN S ELSE FirstN(S, maxfields)

\* The second loop without the comparison.
PastTheEnd_NoRoomCheck(inFile, beyond, maxfields) == beyond

\* The second loop of solvedfile_getall_val compares the size of the list
\* before each append, so a list that is empty so far is full when
\* maxfields is 0.
PastTheEnd(inFile, beyond, maxfields) ==
  IF maxfields = 0
    THEN IF inFile = {} THEN {} ELSE beyond
    ELSE FirstN(beyond, maxfields - Cardinality(inFile))

\* The fields from first to last whose byte is val; last = 0 for no limit.
solvedfile_getall_val(size, marked, first, last, maxfields, val) ==
  LET byte(f) == IF f \in marked THEN 1 ELSE 0
      lastInFile == IF last = 0 \/ last > size THEN size ELSE last
      inFile == UpTo({f \in first..lastInFile : byte(f) = val}, maxfields)
  IN  IF size = NoFile
        THEN IF val = 0 THEN UpTo(first..last, maxfields) ELSE {}
        ELSE IF size <= first - 1
               THEN {}
               ELSE inFile \cup
                    IF val = 0
                      THEN PastTheEnd(inFile, (size + 1)..last, maxfields)
                      ELSE {}

\* Mutant: lastfield is taken for an exclusive bound.
solvedfile_getall_LastExcluded(size, marked, first, last, maxfields) ==
  solvedfile_getall_val(size, marked, first, last - 1, maxfields, 0)

\* The unsolved fields, and the solved ones.
solvedfile_getall(size, marked, first, last, maxfields) ==
  solvedfile_getall_val(size, marked, first, last, maxfields, 0)

solvedfile_getall_solved(size, marked, first, last, maxfields) ==
  solvedfile_getall_val(size, marked, first, last, maxfields, 1)

=============================================================================
