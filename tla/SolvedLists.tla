---------------------------- MODULE SolvedLists ----------------------------
(***************************************************************************)
(* The two listings of a solved file, solvedfile_getall and                *)
(* solvedfile_getall_solved, asked at any moment of the life of the file   *)
(* (the reader takes no lock, so also in the middle of a write), beside    *)
(* what solvedfile_get says of the fields one at a time.                   *)
(***************************************************************************)
EXTENDS SolvedFile

\* last = 0 for no limit; maxfields = 0 for as many as there are.
Query == [first : Field, last : 0..MaxField, maxfields : 0..MaxField]

Unsolved(q) == solvedfile_getall(size, marked, q.first, q.last, q.maxfields)
Solved(q) == solvedfile_getall_solved(size, marked, q.first, q.last, q.maxfields)

Asked(q) == q.first .. (IF q.last = 0 THEN size ELSE q.last)
WithStatus(q, s) == {f \in Asked(q) : solvedfile_get(size, marked, f) = s}

\* The first maxfields of them, all of them if maxfields is 0.
Wanted(q, s) ==
  {f \in WithStatus(q, s) :
     q.maxfields > 0 =>
       Cardinality({g \in WithStatus(q, s) : g < f}) < q.maxfields}

\* Everything that is listed is in the range and has that status, and there
\* is never more of it than was asked for, though the two loops of
\* solvedfile_getall_val count in different ways.
ListsSound ==
  \A q \in Query :
    /\ Unsolved(q) \subseteq WithStatus(q, 0)
    /\ Solved(q) \subseteq WithStatus(q, 1)
    /\ q.maxfields > 0 =>
         /\ Cardinality(Unsolved(q)) <= q.maxfields
         /\ Cardinality(Solved(q)) <= q.maxfields

\* A listing is the first maxfields fields with the status, whenever the range
\* begins inside the file and the unsolved fields past the end of the file
\* come after an unsolved field inside it (or there is a limit).
ListsComplete ==
  \A q \in Query :
    LET reachesEnd ==
          q.maxfields > 0 \/ \E f \in Asked(q) : f <= size /\ f \notin marked
    IN  q.first <= size =>
          /\ reachesEnd \/ q.last <= size => Unsolved(q) = Wanted(q, 0)
          /\ Solved(q) = Wanted(q, 1)

=============================================================================
