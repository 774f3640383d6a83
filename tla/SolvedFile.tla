----------------------------- MODULE SolvedFile -----------------------------
(***************************************************************************)
(* Writers of one solved file: blind/solvedfile.c, solvedfile_set,         *)
(* solvedfile_set_array and solvedfile_setsize, one action per system call *)
(* that reads or changes the file.  A writer finds the end of the file     *)
(* with lseek, pads from there with zero bytes at its own file offset, and *)
(* then writes a 1 at the offset of each field.  Nothing locks the file:   *)
(* any number of processes may be in the middle of this.                   *)
(***************************************************************************)
EXTENDS SolvedBytes

CONSTANTS Writer,           \* the processes that write the file
          MaxField,         \* fields are 1..MaxField
          InitSizes         \* sizes the file may have at the start

ASSUME MaxFieldAssumption == MaxField \in Nat
ASSUME InitSizesAssumption == InitSizes \subseteq {NoFile} \cup 0..MaxField

Field == 1..MaxField

VARIABLES size,             \* bytes in the file, or NoFile
          marked,           \* the fields whose byte is 1
          pc,               \* where each writer is
          req,              \* what each writer was called to do
          pos,              \* each writer's file offset
          acked             \* fields of the calls that have returned 0

vars == <<size, marked, pc, req, pos, acked>>

Op == {"set", "array", "size"}
Request == [op : Op, pad : 0..MaxField, fields : SUBSET Field, todo : SUBSET Field]
NoRequest == [op |-> "size", pad |-> 0, fields |-> {}, todo |-> {}]

TypeInv ==
  /\ size \in {NoFile} \cup 0..MaxField
  /\ marked \in SUBSET Field
  /\ pc \in [Writer -> {"idle", "opened", "pad", "mark"}]
  /\ req \in [Writer -> Request]
  /\ pos \in [Writer -> 0..MaxField]
  /\ acked \in SUBSET Field

Init ==
  /\ size \in InitSizes
  /\ marked \in {M \in SUBSET Field : \A f \in M : f <= size}
  /\ pc = [w \in Writer |-> "idle"]
  /\ req = [w \in Writer |-> NoRequest]
  /\ pos = [w \in Writer |-> 0]
  /\ acked = {}

-----------------------------------------------------------------------------
\* open(O_WRONLY | O_CREAT): the file exists from here on.
Open(w, op, pad, fields) ==
  /\ pc[w] = "idle"
  /\ size' = IF size = NoFile THEN 0 ELSE size
  /\ pc' = [pc EXCEPT ![w] = "opened"]
  /\ req' = [req EXCEPT ![w] =
               [op |-> op, pad |-> pad, fields |-> fields, todo |-> fields]]
  /\ UNCHANGED <<marked, pos, acked>>

\* The field's number is taken for its offset.
solvedfile_set_NotZeroIndexed(w, f) == Open(w, "set", f, {f + 1})

solvedfile_set(w, f) == Open(w, "set", f - 1, {f})
solvedfile_setsize(w, sz) == Open(w, "size", sz, {})
solvedfile_set_array(w, N, vals) == Open(w, "array", N, vals)

\* The call returns, and its variables with it; a return of -1 acknowledges
\* nothing.
Return(w) ==
  /\ pc' = [pc EXCEPT ![w] = "idle"]
  /\ req' = [req EXCEPT ![w] = NoRequest]
  /\ pos' = [pos EXCEPT ![w] = 0]

\* The pad written from the head of the file.
SeekEnd_FromStart(w) ==
  /\ pc[w] = "opened"
  /\ pos' = [pos EXCEPT ![w] = 0]
  /\ pc' = [pc EXCEPT ![w] = IF size < req[w].pad THEN "pad" ELSE "mark"]
  /\ UNCHANGED <<size, marked, req, acked>>

\* off = lseek(f, 0, SEEK_END)
SeekEnd(w) ==
  /\ pc[w] = "opened"
  /\ pos' = [pos EXCEPT ![w] = size]
  /\ pc' = [pc EXCEPT ![w] = IF size < req[w].pad THEN "pad" ELSE "mark"]
  /\ UNCHANGED <<size, marked, req, acked>>

\* The size after a write that ends at byte n of a file of m bytes.
Larger(m, n) == IF m < n THEN n ELSE m

\* A pad of one byte too many.
WritePad_OneTooMany(w) ==
  /\ pc[w] = "pad"
  /\ size' = Larger(size, pos[w] + 1)
  /\ marked' = marked \ {pos[w] + 1}
  /\ pos' = [pos EXCEPT ![w] = pos[w] + 1]
  /\ pc' = [pc EXCEPT ![w] = IF pos[w] + 1 > req[w].pad THEN "mark" ELSE "pad"]
  /\ UNCHANGED <<req, acked>>

\* write(f, &zero, 1): byte pos[w], that is field pos[w]+1, becomes 0.
WritePad(w) ==
  /\ pc[w] = "pad"
  /\ pos[w] < req[w].pad
  /\ size' = Larger(size, pos[w] + 1)
  /\ marked' = marked \ {pos[w] + 1}
  /\ pos' = [pos EXCEPT ![w] = pos[w] + 1]
  /\ pc' = [pc EXCEPT ![w] = IF pos[w] + 1 = req[w].pad THEN "mark" ELSE "pad"]
  /\ UNCHANGED <<req, acked>>

\* A pad byte cannot be written: solvedfile_set and solvedfile_setsize
\* return -1; solvedfile_set_array ignores what solvedfile_setsize returned.
PadFails(w) ==
  /\ pc[w] = "pad"
  /\ IF req[w].op = "array"
       THEN pc' = [pc EXCEPT ![w] = "mark"] /\ UNCHANGED <<req, pos>>
       ELSE Return(w)
  /\ UNCHANGED <<size, marked, acked>>

\* lseek to the next field of the call and write a 1 there.
WriteMark(w) ==
  /\ pc[w] = "mark"
  /\ \E f \in req[w].todo :
       /\ \A g \in req[w].todo : f <= g
       /\ size' = Larger(size, f)
       /\ marked' = marked \cup {f}
       /\ req' = [req EXCEPT ![w].todo = @ \ {f}]
  /\ UNCHANGED <<pc, pos, acked>>

MarkFails(w) ==
  /\ pc[w] = "mark"
  /\ req[w].todo # {}
  /\ Return(w)
  /\ UNCHANGED <<size, marked, acked>>

\* A 0 returned before all the marks are written.
Finish_Early(w) ==
  /\ pc[w] = "mark"
  /\ Return(w)
  /\ acked' = acked \cup req[w].fields
  /\ UNCHANGED <<size, marked>>

\* Everything written and the file closed: return 0.
Finish(w) ==
  /\ pc[w] = "mark"
  /\ req[w].todo = {}
  /\ Return(w)
  /\ acked' = acked \cup req[w].fields
  /\ UNCHANGED <<size, marked>>

\* The process is killed in the middle of a call; the next one starts over.
Crash(w) ==
  /\ pc[w] # "idle"
  /\ Return(w)
  /\ UNCHANGED <<size, marked, acked>>

Call(w) ==
  \/ \E f \in Field : solvedfile_set(w, f)
  \/ \E sz \in 0..MaxField : solvedfile_setsize(w, sz)
  \/ \E N \in 0..MaxField : \E vals \in SUBSET (1..N) :
       solvedfile_set_array(w, N, vals)

\* The system calls of a call in progress.
Step(w) ==
  \/ SeekEnd(w)
  \/ WritePad(w)
  \/ WriteMark(w)
  \/ Finish(w)

Failure(w) ==
  \/ PadFails(w)
  \/ MarkFails(w)
  \/ Crash(w)

Next == \E w \in Writer : Call(w) \/ Step(w) \/ Failure(w)

Spec == Init /\ [][Next]_vars

-----------------------------------------------------------------------------
\* A field for which solvedfile_set has returned 0 is recorded as solved from
\* then on: no later write, failed call or killed process takes it back.
AckedMarked == acked \subseteq marked

\* solvedfile.h says of solvedfile_set_array that it "*only sets* elements, it
\* does *not* reset (clear) values in the file": no step of any
\* call clears a mark.
OnlySets == [][marked \subseteq marked']_vars

\* The same, of the writes of solvedfile_set_array alone.
SetArrayOnlySets ==
  [][\A w \in Writer :
       req[w].op = "array" /\ (WritePad(w) \/ WriteMark(w)) => marked \subseteq marked']_vars

\* The promise of a set of solved fields, see SolvedSet.
Set == INSTANCE SolvedSet WITH solved <- marked
ImplementsSet == Set!Spec

=============================================================================
