-------------------------- MODULE SolvedFileProofs --------------------------
(***************************************************************************)
(* Proofs about SolvedFile, for every set of writers, every number of      *)
(* fields and every initial size.                                          *)
(***************************************************************************)
EXTENDS SolvedLists, DataLemmas

\* Every call begins by opening the file with a request of the right type.
LEMMA CallOpens ==
  ASSUME NEW w \in Writer, Call(w)
  PROVE  \E op \in Op, pad \in 0..MaxField, fields \in SUBSET Field :
           Open(w, op, pad, fields)
<1> USE MaxFieldAssumption DEF Op, Field
<1>1. CASE \E f \in Field : solvedfile_set(w, f)
  <2>1. PICK f \in Field : Open(w, "set", f - 1, {f})
    BY <1>1 DEF solvedfile_set
  <2>2. f - 1 \in 0..MaxField /\ {f} \in SUBSET Field /\ "set" \in Op
    OBVIOUS
  <2> QED BY <2>1, <2>2
<1>2. CASE \E sz \in 0..MaxField : solvedfile_setsize(w, sz)
  BY <1>2 DEF solvedfile_setsize
<1>3. CASE \E n \in 0..MaxField : \E vals \in SUBSET (1..n) :
             solvedfile_set_array(w, n, vals)
  <2>1. PICK n \in 0..MaxField : \E vals \in SUBSET (1..n) :
                Open(w, "array", n, vals)
    BY <1>3 DEF solvedfile_set_array
  <2>2. PICK vals \in SUBSET (1..n) : Open(w, "array", n, vals)
    BY <2>1
  <2>3. vals \in SUBSET Field /\ "array" \in Op
    OBVIOUS
  <2> QED BY <2>2, <2>3
<1> QED BY <1>1, <1>2, <1>3 DEF Call

-----------------------------------------------------------------------------
LEMMA TypeInvInit == Init => TypeInv
  BY MaxFieldAssumption, InitSizesAssumption
  DEF Init, TypeInv, NoRequest, Request, Op, Field, NoFile

\* A writer that has the file open has created it.
OpenFileExists == \A w \in Writer : pc[w] # "idle" => size # NoFile

LEMMA TypeInvStep ==
  ASSUME TypeInv, OpenFileExists, [Next]_vars
  PROVE  TypeInv'
<1> USE MaxFieldAssumption
<1>1. ASSUME NEW w \in Writer, Call(w)
      PROVE  TypeInv'
  <2>1. PICK op \in Op, pad \in 0..MaxField, fields \in SUBSET Field :
               Open(w, op, pad, fields)
    BY <1>1, CallOpens
  <2>2. [op |-> op, pad |-> pad, fields |-> fields, todo |-> fields] \in Request
    BY DEF Request
  <2>3. req' \in [Writer -> Request]
    BY <2>1, <2>2 DEF Open, TypeInv
  <2>4. size' \in {NoFile} \cup 0..MaxField
    BY <2>1 DEF Open, TypeInv, NoFile
  <2> QED BY <2>1, <2>3, <2>4 DEF Open, TypeInv
<1>2. ASSUME NEW w \in Writer, SeekEnd(w)
      PROVE  TypeInv'
  <2>1. size \in 0..MaxField
    BY <1>2 DEF SeekEnd, TypeInv, OpenFileExists
  <2> QED BY <1>2, <2>1 DEF SeekEnd, TypeInv
<1>3. ASSUME NEW w \in Writer, WritePad(w)
      PROVE  TypeInv'
  <2>1. pos[w] + 1 \in 0..MaxField /\ req[w].pad \in 0..MaxField
    BY <1>3 DEF WritePad, TypeInv, Request
  <2>2. size' \in {NoFile} \cup 0..MaxField
    BY <1>3, <2>1 DEF WritePad, TypeInv, Larger, NoFile
  <2>3. pos' \in [Writer -> 0..MaxField]
    BY <1>3, <2>1 DEF WritePad, TypeInv
  <2> QED BY <1>3, <2>2, <2>3 DEF WritePad, TypeInv
<1>4. ASSUME NEW w \in Writer, WriteMark(w)
      PROVE  TypeInv'
  <2>1. PICK f \in req[w].todo :
               /\ size' = Larger(size, f)
               /\ marked' = marked \cup {f}
               /\ req' = [req EXCEPT ![w].todo = @ \ {f}]
    BY <1>4 DEF WriteMark
  <2>2. f \in Field
    BY DEF TypeInv, Request
  <2>3. size' \in {NoFile} \cup 0..MaxField
    BY <2>1, <2>2 DEF TypeInv, Larger, NoFile, Field
  <2>4. req' \in [Writer -> Request]
    BY <2>1 DEF TypeInv, Request
  <2> QED BY <1>4, <2>1, <2>2, <2>3, <2>4 DEF WriteMark, TypeInv
<1>5. ASSUME NEW w \in Writer, Finish(w)
      PROVE  TypeInv'
  <2>1. req[w].fields \in SUBSET Field
    BY DEF TypeInv, Request
  <2>2. NoRequest \in Request /\ 0 \in 0..MaxField
    BY DEF NoRequest, Request, Op
  <2> QED BY <1>5, <2>1, <2>2 DEF Finish, Return, TypeInv
<1>6. ASSUME NEW w \in Writer, Failure(w)
      PROVE  TypeInv'
  <2>1. NoRequest \in Request /\ 0 \in 0..MaxField
    BY DEF NoRequest, Request, Op
  <2> QED BY <1>6, <2>1 DEF Failure, PadFails, MarkFails, Crash, Return, TypeInv
<1>7. CASE UNCHANGED vars
  BY <1>7 DEF vars, TypeInv
<1> QED BY <1>1, <1>2, <1>3, <1>4, <1>5, <1>6, <1>7 DEF Next, Step

\* The file never shrinks.
LEMMA SizeGrows ==
  ASSUME TypeInv, [Next]_vars
  PROVE  size <= size' /\ (size # NoFile => size' # NoFile)
<1> USE MaxFieldAssumption DEF NoFile
<1>1. ASSUME NEW w \in Writer, Call(w)
      PROVE  size <= size' /\ (size # NoFile => size' # NoFile)
  BY <1>1, CallOpens DEF Open, TypeInv
<1>2. ASSUME NEW w \in Writer, WritePad(w)
      PROVE  size <= size' /\ (size # NoFile => size' # NoFile)
  BY <1>2 DEF WritePad, Larger, TypeInv
<1>3. ASSUME NEW w \in Writer, WriteMark(w)
      PROVE  size <= size' /\ (size # NoFile => size' # NoFile)
  <2>1. PICK f \in req[w].todo : size' = Larger(size, f)
    BY <1>3 DEF WriteMark
  <2>2. f \in 1..MaxField
    BY DEF TypeInv, Request, Field
  <2> QED BY <2>1, <2>2 DEF Larger, TypeInv
<1>4. ASSUME NEW w \in Writer, SeekEnd(w) \/ Finish(w) \/ Failure(w)
      PROVE  size' = size
  BY <1>4 DEF SeekEnd, Finish, Failure, PadFails, MarkFails, Crash
<1>5. CASE UNCHANGED vars
  BY <1>5 DEF vars, TypeInv
<1> QED BY <1>1, <1>2, <1>3, <1>4, <1>5 DEF Next, Step, TypeInv

LEMMA OpenFileExistsStep ==
  ASSUME TypeInv, OpenFileExists, [Next]_vars
  PROVE  OpenFileExists'
<1>1. size # NoFile => size' # NoFile
  BY SizeGrows
<1>2. ASSUME NEW w \in Writer, Call(w)
      PROVE  OpenFileExists'
  <2>1. size' # NoFile
    BY <1>2, CallOpens DEF Open, NoFile
  <2> QED BY <2>1 DEF OpenFileExists
<1>3. ASSUME NEW w \in Writer, Step(w) \/ Failure(w)
      PROVE  OpenFileExists'
  <2>1. size # NoFile
    BY <1>3
    DEF Step, SeekEnd, WritePad, WriteMark, Finish, Failure, PadFails, MarkFails,
        Crash, OpenFileExists
  <2> QED BY <1>1, <2>1 DEF OpenFileExists
<1>4. CASE UNCHANGED vars
  BY <1>4 DEF vars, OpenFileExists
<1> QED BY <1>2, <1>3, <1>4 DEF Next

\* The file, the requests and the offsets have their types in every state,
\* whoever writes the file and whichever of the calls fail.
THEOREM TypeCorrect == Spec => []TypeInv
<1>1. Init => TypeInv /\ OpenFileExists
  BY TypeInvInit DEF Init, OpenFileExists
<1>2. TypeInv /\ OpenFileExists /\ [Next]_vars => TypeInv' /\ OpenFileExists'
  BY TypeInvStep, OpenFileExistsStep
<1> QED BY <1>1, <1>2, PTL DEF Spec

-----------------------------------------------------------------------------
\* Nothing is lost if only one process writes the file, or if the file is
\* made long enough before anyone writes it.
NoConcurrentPadding ==
  \/ \A v, w \in Writer : v = w
  \/ InitSizes = {MaxField}

\* The strengthening: a pad in progress is at the end of the file, where no
\* mark can be, and a call has marked the fields it no longer has to do.
SizeSafe == (\A v, w \in Writer : v = w) \/ size = MaxField
MarksInFile == \A f \in marked : f <= size
PadsAtEnd == \A w \in Writer : pc[w] = "pad" => pos[w] = size /\ size < req[w].pad
DoneMarked == \A w \in Writer : pc[w] # "idle" => req[w].fields \ req[w].todo \subseteq marked

IInv ==
  /\ TypeInv
  /\ SizeSafe
  /\ MarksInFile
  /\ PadsAtEnd
  /\ OpenFileExists
  /\ DoneMarked
  /\ AckedMarked

LEMMA IInvInit == ASSUME NoConcurrentPadding, Init PROVE IInv
<1>1. TypeInv
  BY TypeInvInit
<1>2. SizeSafe
  BY DEF NoConcurrentPadding, Init, SizeSafe
<1> QED BY <1>1, <1>2
        DEF Init, IInv, MarksInFile, PadsAtEnd, OpenFileExists, DoneMarked, AckedMarked

\* Pad bytes land past every mark, so no step of any writer clears one.
LEMMA StepKeepsMarks ==
  ASSUME IInv, [Next]_vars
  PROVE  marked \subseteq marked'
<1>1. ASSUME NEW w \in Writer, Call(w)
      PROVE  marked \subseteq marked'
  BY <1>1, CallOpens DEF Open
<1>2. ASSUME NEW w \in Writer, Step(w)
      PROVE  marked \subseteq marked'
  <2>1. CASE WritePad(w)
    <3>1. pos[w] = size /\ size \in Int
      BY <2>1 DEF WritePad, IInv, PadsAtEnd, TypeInv, NoFile
    <3>2. \A f \in marked : f \in Int /\ f <= size
      BY DEF IInv, TypeInv, Field, MarksInFile
    <3>3. pos[w] + 1 \notin marked
      BY <3>1, <3>2
    <3> QED BY <2>1, <3>3 DEF WritePad
  <2> QED BY <1>2, <2>1 DEF Step, SeekEnd, WriteMark, Finish
<1>3. ASSUME NEW w \in Writer, Failure(w)
      PROVE  marked \subseteq marked'
  BY <1>3 DEF Failure, PadFails, MarkFails, Crash
<1>4. CASE UNCHANGED vars
  BY <1>4 DEF vars
<1> QED BY <1>1, <1>2, <1>3, <1>4 DEF Next

LEMMA IInvStep ==
  ASSUME IInv, [Next]_vars
  PROVE  IInv'
<1> USE MaxFieldAssumption
<1>0. OpenFileExists'
  BY OpenFileExistsStep DEF IInv
<1>1. TypeInv'
  BY TypeInvStep DEF IInv
<1>2. marked \subseteq marked'
  BY StepKeepsMarks
<1>3. size <= size' /\ (size # NoFile => size' # NoFile)
  BY SizeGrows DEF IInv
<1>4. SizeSafe'
  BY <1>1, <1>3 DEF IInv, SizeSafe, TypeInv, NoFile
<1>5. MarksInFile'
  <2>1. ASSUME NEW w \in Writer, WriteMark(w)
        PROVE  MarksInFile'
    <3>1. PICK f \in req[w].todo : size' = Larger(size, f) /\ marked' = marked \cup {f}
      BY <2>1 DEF WriteMark
    <3>2. f \in 1..MaxField
      BY DEF IInv, TypeInv, Request, Field
    <3> QED BY <3>1, <3>2 DEF IInv, MarksInFile, Larger, TypeInv, NoFile, Field
  <2>2. ASSUME ~ \E w \in Writer : WriteMark(w)
        PROVE  marked' \subseteq marked
    <3>1. ASSUME NEW w \in Writer, Call(w)
          PROVE  marked' \subseteq marked
      BY <3>1, CallOpens DEF Open
    <3>2. ASSUME NEW w \in Writer, Step(w) \/ Failure(w)
          PROVE  marked' \subseteq marked
      BY <2>2, <3>2 DEF Step, SeekEnd, WritePad, Finish, Failure, PadFails, MarkFails, Crash
    <3> QED BY <3>1, <3>2 DEF Next, vars
  <2>3. CASE ~ \E w \in Writer : WriteMark(w)
    BY <1>1, <1>3, <2>2, <2>3 DEF IInv, MarksInFile, TypeInv, NoFile, Field
  <2> QED BY <2>1, <2>3
<1>6. AckedMarked'
  <2>1. ASSUME NEW w \in Writer, Finish(w)
        PROVE  AckedMarked'
    BY <2>1, <1>2 DEF Finish, IInv, DoneMarked, AckedMarked
  <2>2. ASSUME NEW w \in Writer, Call(w)
        PROVE  acked' = acked
    BY <2>2, CallOpens DEF Open
  <2>3. ASSUME NEW w \in Writer, SeekEnd(w) \/ WritePad(w) \/ WriteMark(w) \/ Failure(w)
        PROVE  acked' = acked
    BY <2>3 DEF SeekEnd, WritePad, WriteMark, Failure, PadFails, MarkFails, Crash
  <2> QED BY <1>2, <2>1, <2>2, <2>3 DEF Next, Step, vars, IInv, AckedMarked
<1>7. DoneMarked' /\ PadsAtEnd'
  <2>1. ASSUME NEW w \in Writer, Call(w)
        PROVE  DoneMarked' /\ PadsAtEnd'
    <3>1. PICK op \in Op, pad \in 0..MaxField, fields \in SUBSET Field :
                 Open(w, op, pad, fields)
      BY <2>1, CallOpens
    <3>3. \A v \in Writer : v # w => pc'[v] = pc[v] /\ req'[v] = req[v]
      BY <3>1 DEF Open, IInv, TypeInv
    <3>4. pc'[w] = "opened" /\ req'[w].fields \ req'[w].todo = {}
      BY <3>1 DEF Open, IInv, TypeInv
    <3>5. pos' = pos /\ marked' = marked
      BY <3>1 DEF Open
    <3>6. \A v \in Writer : pc[v] # "idle" => size' = size
      BY <3>1 DEF Open, IInv, OpenFileExists
    <3>8. DoneMarked'
      BY <3>3, <3>4, <3>5 DEF IInv, DoneMarked
    <3>9. PadsAtEnd'
      BY <3>3, <3>4, <3>5, <3>6 DEF IInv, PadsAtEnd
    <3> QED BY <3>8, <3>9
  <2>2. ASSUME NEW w \in Writer, SeekEnd(w)
        PROVE  DoneMarked' /\ PadsAtEnd'
    BY <2>2 DEF SeekEnd, IInv, OpenFileExists, DoneMarked, PadsAtEnd, TypeInv
  <2>3. ASSUME NEW w \in Writer, WritePad(w)
        PROVE  DoneMarked' /\ PadsAtEnd'
    <3>1. pos[w] = size /\ size < req[w].pad /\ size \in 0..MaxField
          /\ req[w].pad \in 0..MaxField
      BY <2>3 DEF WritePad, IInv, PadsAtEnd, OpenFileExists, TypeInv, Request
    <3>2. size' = size + 1 /\ pos'[w] = size + 1
      BY <2>3, <3>1 DEF WritePad, Larger, IInv, TypeInv
    <3>3. size # MaxField
      BY <3>1
    <3>4. \A v \in Writer : v = w
      BY <3>3 DEF IInv, SizeSafe
    <3>6. DoneMarked'
      BY <1>2, <2>3, <3>4 DEF WritePad, IInv, DoneMarked
    <3>7. PadsAtEnd'
      BY <2>3, <3>1, <3>2, <3>4 DEF WritePad, IInv, PadsAtEnd, TypeInv
    <3> QED BY <3>6, <3>7
  <2>4. ASSUME NEW w \in Writer, WriteMark(w)
        PROVE  DoneMarked' /\ PadsAtEnd'
    <3>1. PICK f \in req[w].todo :
                 /\ size' = Larger(size, f)
                 /\ marked' = marked \cup {f}
                 /\ req' = [req EXCEPT ![w].todo = @ \ {f}]
      BY <2>4 DEF WriteMark
    <3>2. pc' = pc /\ pos' = pos
      BY <2>4 DEF WriteMark
    <3>3. \A v \in Writer : /\ req'[v].fields = req[v].fields
                            /\ req'[v].pad = req[v].pad
                            /\ req'[v].todo = IF v = w THEN req[v].todo \ {f} ELSE req[v].todo
      BY <3>1 DEF IInv, TypeInv, Request
    <3>5. DoneMarked'
      BY <3>1, <3>2, <3>3 DEF IInv, DoneMarked
    <3>6. f \in 1..MaxField
      BY DEF IInv, TypeInv, Request, Field
    <3>7. \A v \in Writer : pc[v] = "pad" => size' = size
      BY <2>4, <3>1, <3>6 DEF WriteMark, IInv, SizeSafe, Larger
    <3>8. PadsAtEnd'
      BY <3>2, <3>3, <3>7 DEF IInv, PadsAtEnd
    <3> QED BY <3>5, <3>8
  <2>5. ASSUME NEW w \in Writer, Finish(w) \/ Failure(w)
        PROVE  DoneMarked' /\ PadsAtEnd'
    <3>1. /\ UNCHANGED <<size, marked>>
          /\ \A v \in Writer :
                \/ pc'[v] = "idle"
                \/ /\ pc'[v] = pc[v] \/ (pc[v] = "pad" /\ pc'[v] = "mark")
                   /\ req'[v] = req[v] /\ pos'[v] = pos[v]
      BY <2>5 DEF Finish, Failure, PadFails, MarkFails, Crash, Return, IInv, TypeInv
    <3> QED BY <3>1 DEF IInv, DoneMarked, PadsAtEnd
  <2>6. CASE UNCHANGED vars
    BY <2>6 DEF vars, IInv, DoneMarked, PadsAtEnd
  <2> QED BY <2>1, <2>2, <2>3, <2>4, <2>5, <2>6 DEF Next, Step
<1> QED BY <1>1, <1>4, <1>5, <1>6, <1>7, <1>0 DEF IInv

LEMMA IInvAlways == ASSUME NoConcurrentPadding PROVE Spec => []IInv
<1>1. Init => IInv
  BY IInvInit
<1>2. IInv /\ [Next]_vars => IInv'
  BY IInvStep
<1> QED BY <1>1, <1>2, PTL DEF Spec

\* Without concurrent padding, a field whose solvedfile_set has returned 0
\* stays recorded as solved, whatever calls fail and processes die afterwards.
THEOREM AckedStaysMarked == ASSUME NoConcurrentPadding PROVE Spec => []AckedMarked
<1>1. IInv => AckedMarked
  BY DEF IInv
<1> QED BY IInvAlways, <1>1, PTL

\* Without concurrent padding, no step of any call clears a mark: what
\* solvedfile.h says of solvedfile_set_array holds of every call.
THEOREM MarksOnlySet == ASSUME NoConcurrentPadding PROVE Spec => OnlySets
<1>1. IInv /\ [Next]_vars => [marked \subseteq marked']_vars
  BY StepKeepsMarks
<1> QED BY IInvAlways, <1>1, PTL DEF Spec, OnlySets

-----------------------------------------------------------------------------
\* Without concurrent padding, the system calls implement the set of solved
\* fields that only grows.
THEOREM FileImplementsSet == ASSUME NoConcurrentPadding PROVE Spec => ImplementsSet
<1>1. Init => Set!Init
  BY DEF Init, Set!Init
<1>2. ASSUME IInv, [Next]_vars
      PROVE  [Set!Next]_(Set!vars)
  <2> USE DEF Set!vars
  <2>1. marked \subseteq marked'
    BY <1>2, StepKeepsMarks
  <2>2. ASSUME NEW w \in Writer, Call(w)
        PROVE  UNCHANGED <<marked, acked>>
    BY <2>2, CallOpens DEF Open
  <2>3. ASSUME NEW w \in Writer, SeekEnd(w) \/ Failure(w)
        PROVE  UNCHANGED <<marked, acked>>
    BY <2>3 DEF SeekEnd, Failure, PadFails, MarkFails, Crash
  <2>4. ASSUME NEW w \in Writer, WritePad(w)
        PROVE  UNCHANGED <<marked, acked>>
    BY <2>1, <2>4 DEF WritePad
  <2>5. ASSUME NEW w \in Writer, WriteMark(w)
        PROVE  Set!Next
    <3>1. PICK f \in req[w].todo : marked' = marked \cup {f}
      BY <2>5 DEF WriteMark
    <3>2. f \in Field
      BY <1>2 DEF IInv, TypeInv, Request
    <3> QED BY <2>5, <3>1, <3>2 DEF WriteMark, Set!Next, Set!Mark
  <2>6. ASSUME NEW w \in Writer, Finish(w)
        PROVE  Set!Next
    <3>1. req[w].fields \in SUBSET Field /\ req[w].fields \subseteq marked
      BY <1>2, <2>6 DEF Finish, IInv, DoneMarked, TypeInv, Request
    <3> QED BY <2>6, <3>1 DEF Finish, Set!Next, Set!Acknowledge
  <2> QED BY <1>2, <2>2, <2>3, <2>4, <2>5, <2>6 DEF Next, Step, vars
<1>3. IInv /\ [Next]_vars => [Set!Next]_(Set!vars)
  BY <1>2
<1> QED BY IInvAlways, <1>1, <1>3, PTL DEF Spec, ImplementsSet, Set!Spec

-----------------------------------------------------------------------------
(* The first elements of a set, and the listings. *)

\* How many elements of S come before x.
Rank(S, x) == Cardinality({y \in S : y < x})

LEMMA RankNat ==
  ASSUME NEW S, IsFiniteSet(S), NEW x
  PROVE  Rank(S, x) \in Nat /\ IsFiniteSet({y \in S : y < x}) /\ Rank(S, x) <= Cardinality(S)
<1>1. {y \in S : y < x} \in SUBSET S
  OBVIOUS
<1> QED BY <1>1, FS_Subset, FS_CardinalityType DEF Rank

LEMMA RankGrows ==
  ASSUME NEW S, IsFiniteSet(S), S \subseteq Nat, NEW x \in S, NEW z \in S, x < z
  PROVE  Rank(S, x) < Rank(S, z)
<1> DEFINE X == {y \in S : y < x}
           Z == {y \in S : y < z}
<1>1. X \in SUBSET Z /\ x \in Z /\ x \notin X
  <2>1. x \in Nat /\ z \in Nat /\ \A y \in S : y \in Nat
    OBVIOUS
  <2>2. \A y \in S : y < x => y < z
    BY <2>1
  <2>3. ~ (x < x)
    BY <2>1
  <2> QED BY <2>2, <2>3
<1>2. IsFiniteSet(Z) /\ Cardinality(X) \in Nat /\ Cardinality(Z) \in Nat
  BY RankNat DEF Rank
<1> HIDE DEF X, Z
<1>3. Cardinality(X) <= Cardinality(Z) /\ Cardinality(X) # Cardinality(Z)
  BY <1>1, <1>2, FS_Subset
<1>4. Cardinality(X) < Cardinality(Z)
  BY <1>2, <1>3
<1> QED BY <1>4 DEF Rank, X, Z

LEMMA FirstNSmall ==
  ASSUME NEW S, IsFiniteSet(S), S \subseteq Nat, NEW n \in Nat
  PROVE  IsFiniteSet(FirstN(S, n)) /\ Cardinality(FirstN(S, n)) <= n
<1> DEFINE F == FirstN(S, n)
           f == [x \in F |-> Rank(S, x)]
<1>1. F \subseteq S /\ \A x \in F : Rank(S, x) < n
  BY DEF FirstN, Rank
<1>2. IsFiniteSet(0..n - 1) /\ Cardinality(0..n - 1) = n
  BY FS_Interval
<1> HIDE DEF F
<1>3. f \in [F -> 0..n - 1]
  <2>1. ASSUME NEW x \in F PROVE Rank(S, x) \in 0..n - 1
    <3>1. Rank(S, x) \in Nat
      BY RankNat
    <3> QED BY <1>1, <3>1
  <2> QED BY <2>1
<1>4. ASSUME NEW x \in F, NEW z \in F, f[x] = f[z] PROVE x = z
  <2>1. x \in Nat /\ z \in Nat /\ x \in S /\ z \in S /\ Rank(S, x) \in Nat /\ Rank(S, z) \in Nat
    BY <1>1, RankNat
  <2>2. Rank(S, x) = Rank(S, z)
    BY <1>4
  <2>3. ~ (x < z) /\ ~ (z < x)
    <3>1. ASSUME x < z PROVE FALSE
      <4>1. Rank(S, x) < Rank(S, z)
        BY <2>1, <3>1, RankGrows
      <4> QED BY <2>1, <2>2, <4>1
    <3>2. ASSUME z < x PROVE FALSE
      <4>1. Rank(S, z) < Rank(S, x)
        BY <2>1, <3>2, RankGrows
      <4> QED BY <2>1, <2>2, <4>1
    <3> QED BY <3>1, <3>2
  <2> QED BY <2>1, <2>3
<1>5. f \in Injection(F, 0..n - 1)
  BY <1>3, <1>4 DEF Injection, IsInjective
<1>6. IsFiniteSet(F) /\ Cardinality(F) <= n
  BY <1>2, <1>5, FS_Injection
<1> QED BY <1>6 DEF F

LEMMA FirstNAll ==
  ASSUME NEW S, IsFiniteSet(S), S \subseteq Nat, NEW n \in Nat, Cardinality(S) <= n
  PROVE  FirstN(S, n) = S
<1> SUFFICES ASSUME NEW x \in S PROVE Cardinality({y \in S : y < x}) < n
  BY DEF FirstN
<1> DEFINE X == {y \in S : y < x}
<1>1. X \in SUBSET S /\ X # S
  <2>1. x \in Nat /\ x \notin X
    OBVIOUS
  <2> QED BY <2>1
<1>2. Cardinality(X) \in Nat /\ Cardinality(S) \in Nat
  BY RankNat, FS_CardinalityType DEF Rank
<1> HIDE DEF X
<1>3. Cardinality(X) < n
  <2>1. Cardinality(X) <= Cardinality(S) /\ Cardinality(X) # Cardinality(S)
    BY <1>1, FS_Subset
  <2> QED BY <1>2, <2>1
<1> QED BY <1>3 DEF X

LEMMA FirstNFull ==
  ASSUME NEW S, IsFiniteSet(S), S \subseteq Nat, NEW n \in Nat, Cardinality(S) >= n
  PROVE  Cardinality(FirstN(S, n)) >= n
<1> DEFINE F == FirstN(S, n)
<1> SUFFICES ASSUME F # S PROVE Cardinality(F) >= n
  OBVIOUS
<1>1. F \subseteq S /\ S \ F # {} /\ S \ F \subseteq Nat /\ IsFiniteSet(F)
  <2>1. F \subseteq S
    BY DEF FirstN
  <2> HIDE DEF F
  <2> QED BY <2>1, FS_Subset
<1>2. PICK m \in S \ F : \A k \in S \ F : m <= k
  BY <1>1, LeastNat
<1> DEFINE X == {y \in S : y < m}
<1>3. X \subseteq F
  <2> HIDE DEF F
  <2>1. \A y \in S : y < m => y \in F
    BY <1>2
  <2> QED BY <2>1
<1>4. ~ (Cardinality(X) < n)
  BY <1>2 DEF FirstN
<1>5. Cardinality(X) \in Nat
  BY RankNat DEF Rank
<1> HIDE DEF F, X
<1>6. Cardinality(X) <= Cardinality(F) /\ Cardinality(F) \in Nat
  BY <1>1, <1>3, FS_Subset, FS_CardinalityType
<1> QED BY <1>4, <1>5, <1>6

\* The first of two sets, one before the other: those of the first set, and as
\* many of the second as there is room for.
LEMMA FirstNSplit ==
  ASSUME NEW A, IsFiniteSet(A), A \subseteq Nat, NEW B, IsFiniteSet(B), B \subseteq Nat,
         \A a \in A, b \in B : a < b, NEW n \in Nat
  PROVE  FirstN(A \cup B, n) = FirstN(A, n) \cup FirstN(B, n - Cardinality(FirstN(A, n)))
<1> DEFINE k == n - Cardinality(FirstN(A, n))
<1>1. ASSUME NEW x \in A
      PROVE  x \in FirstN(A \cup B, n) <=> x \in FirstN(A, n)
  <2>1. {y \in A \cup B : y < x} = {y \in A : y < x}
    <3>1. \A y \in B : ~ (y < x)
      OBVIOUS
    <3> QED BY <3>1
  <2> QED BY <2>1 DEF FirstN
<1>2. \A x \in A : x \notin B
  OBVIOUS
<1>3. ASSUME NEW x \in B
      PROVE  Rank(A \cup B, x) = Cardinality(A) + Rank(B, x)
  <2> DEFINE X == {y \in B : y < x}
  <2>1. {y \in A \cup B : y < x} = A \cup X
    <3>1. \A y \in A : y < x
      OBVIOUS
    <3> QED BY <3>1
  <2>2. A \cap X = {} /\ IsFiniteSet(X) /\ Cardinality(X) \in Nat
    BY <1>2, RankNat DEF Rank
  <2> HIDE DEF X
  <2>3. Cardinality(A \cup X) = Cardinality(A) + Cardinality(X) - Cardinality(A \cap X)
    BY <2>2, FS_Union
  <2>4. Cardinality(A \cap X) = 0 /\ Cardinality(A) \in Nat
    BY <2>2, FS_EmptySet, FS_CardinalityType
  <2>5. Cardinality(A \cup X) = Cardinality(A) + Cardinality(X)
    BY <2>2, <2>3, <2>4
  <2> QED BY <2>1, <2>5 DEF Rank, X
<1>4. ASSUME NEW x \in B
      PROVE  Cardinality(A) + Rank(B, x) < n <=> Rank(B, x) < k
  <2>1. Cardinality(A) \in Nat /\ Rank(B, x) \in Nat /\ Cardinality(FirstN(A, n)) \in Nat
    BY RankNat, FirstNSmall, FS_CardinalityType
  <2>2. CASE Cardinality(A) <= n
    <3>1. FirstN(A, n) = A
      BY <2>2, FirstNAll
    <3> QED BY <2>1, <3>1
  <2>3. CASE Cardinality(A) > n
    <3>1. Cardinality(FirstN(A, n)) >= n
      <4>1. Cardinality(A) >= n
        BY <2>1, <2>3
      <4> QED BY <4>1, FirstNFull
    <3> QED BY <2>1, <2>3, <3>1
  <2> QED BY <2>1, <2>2, <2>3
<1> HIDE DEF k
<1>5. ASSUME NEW x \in B
      PROVE  x \in FirstN(A \cup B, n) <=> x \in FirstN(B, k)
  BY <1>3, <1>4 DEF FirstN, Rank
<1>6. FirstN(A \cup B, n) \subseteq A \cup B /\ FirstN(A, n) \subseteq A /\ FirstN(B, k) \subseteq B
  BY DEF FirstN
<1>7. FirstN(A \cup B, n) = FirstN(A, n) \cup FirstN(B, k)
  BY <1>1, <1>2, <1>5, <1>6
<1> QED BY <1>7 DEF k

\* The fields of a query inside the file with the byte v, and those past its end.
InFile(q, v) ==
  {f \in q.first .. (IF q.last = 0 \/ q.last > size THEN size ELSE q.last) :
     (IF f \in marked THEN 1 ELSE 0) = v}
Beyond(q) == (size + 1) .. q.last

\* Which fields the two listings are made of,
LEMMA Listings ==
  ASSUME NEW q \in Query
  PROVE  /\ size = NoFile =>
              Unsolved(q) = UpTo(q.first .. q.last, q.maxfields) /\ Solved(q) = {}
         /\ size # NoFile /\ size <= q.first - 1 => Unsolved(q) = {} /\ Solved(q) = {}
         /\ size # NoFile /\ ~ (size <= q.first - 1) =>
              LET listed == UpTo(InFile(q, 0), q.maxfields)
              IN  /\ Unsolved(q) = listed \cup PastTheEnd(listed, Beyond(q), q.maxfields)
                  /\ Solved(q) = UpTo(InFile(q, 1), q.maxfields)
BY DEF Unsolved, Solved, solvedfile_getall, solvedfile_getall_solved,
       solvedfile_getall_val, InFile, Beyond

\* and which have the status.
LEMMA Statuses ==
  ASSUME TypeInv, NEW q \in Query
  PROVE  /\ size = NoFile => WithStatus(q, 0) = q.first .. q.last
         /\ size # NoFile /\ q.first <= size =>
              /\ WithStatus(q, 0) = InFile(q, 0) \cup Beyond(q)
              /\ WithStatus(q, 1) = InFile(q, 1)
<1>1. /\ MaxField \in Nat /\ size \in Int /\ (size = NoFile \/ size \in Nat) /\ NoFile = -1
      /\ q.first \in Nat /\ q.first > 0 /\ q.last \in Nat
  BY MaxFieldAssumption DEF TypeInv, Query, Field, NoFile
<1>2. ASSUME size = NoFile PROVE WithStatus(q, 0) = q.first .. q.last
  <2>1. q.last = 0 => q.first .. size = {} /\ q.first .. q.last = {}
    BY <1>1, <1>2
  <2>2. Asked(q) = q.first .. q.last
    BY <2>1 DEF Asked
  <2>3. \A f \in Asked(q) : solvedfile_get(size, marked, f) = 0
    BY <1>1, <1>2, <2>2 DEF solvedfile_get
  <2> QED BY <2>2, <2>3 DEF WithStatus
<1>3. ASSUME size # NoFile, q.first <= size
      PROVE  /\ WithStatus(q, 0) = InFile(q, 0) \cup Beyond(q)
             /\ WithStatus(q, 1) = InFile(q, 1)
  <2> DEFINE lastInFile == IF q.last = 0 \/ q.last > size THEN size ELSE q.last
  <2>1. lastInFile \in Nat /\ lastInFile <= size
    BY <1>1, <1>3
  <2>2. Asked(q) = (q.first .. lastInFile) \cup Beyond(q)
    BY <1>1, <1>3 DEF Asked, Beyond
  <2>3. \A f \in q.first .. lastInFile :
          solvedfile_get(size, marked, f) = IF f \in marked THEN 1 ELSE 0
    BY <1>1, <2>1 DEF solvedfile_get
  <2>4. \A f \in Beyond(q) : solvedfile_get(size, marked, f) = 0
    BY <1>1 DEF solvedfile_get, Beyond
  <2>5. \A v : InFile(q, v) = {f \in q.first .. lastInFile : (IF f \in marked THEN 1 ELSE 0) = v}
    BY DEF InFile
  <2> HIDE DEF lastInFile
  <2> QED BY <2>2, <2>3, <2>4, <2>5 DEF WithStatus
<1> QED BY <1>2, <1>3

LEMMA IntervalNat ==
  ASSUME NEW a \in Nat, NEW b \in Int
  PROVE  IsFiniteSet(a .. b) /\ a .. b \subseteq Nat
<1>1. IsFiniteSet(a .. b)
  BY FS_Interval
<1>2. \A x \in a .. b : x \in Nat
  OBVIOUS
<1> QED BY <1>1, <1>2

LEMMA FieldSets ==
  ASSUME TypeInv, NEW q \in Query
  PROVE  /\ q.maxfields \in Nat
         /\ IsFiniteSet(q.first .. q.last) /\ q.first .. q.last \subseteq Nat
         /\ size # NoFile =>
              /\ \A v : IsFiniteSet(InFile(q, v)) /\ InFile(q, v) \subseteq Nat
              /\ IsFiniteSet(Beyond(q)) /\ Beyond(q) \subseteq Nat
              /\ \A v : \A a \in InFile(q, v), b \in Beyond(q) : a < b
<1>1. /\ size \in Int /\ (size # NoFile => size \in Nat)
      /\ q.first \in Nat /\ q.last \in Nat /\ q.maxfields \in Nat
  BY MaxFieldAssumption DEF TypeInv, Query, Field, NoFile
<1> DEFINE lastInFile == IF q.last = 0 \/ q.last > size THEN size ELSE q.last
<1>2. ASSUME size # NoFile, NEW v
      PROVE  IsFiniteSet(InFile(q, v)) /\ InFile(q, v) \subseteq Nat
  <2>1. lastInFile \in Int
    BY <1>1, <1>2
  <2>2. InFile(q, v) \in SUBSET (q.first .. lastInFile)
    BY DEF InFile
  <2> HIDE DEF lastInFile
  <2>3. IsFiniteSet(q.first .. lastInFile) /\ q.first .. lastInFile \subseteq Nat
    BY <1>1, <2>1, IntervalNat
  <2> QED BY <2>2, <2>3, FS_Subset
<1>3. ASSUME size # NoFile, NEW v, NEW a \in InFile(q, v), NEW b \in Beyond(q)
      PROVE  a < b
  <2>1. a \in Int /\ a <= size
    BY <1>1, <1>3 DEF InFile
  <2>2. b \in Int /\ size < b
    BY <1>1 DEF Beyond
  <2> QED BY <1>1, <2>1, <2>2
<1>4. size # NoFile => IsFiniteSet(Beyond(q)) /\ Beyond(q) \subseteq Nat
  <2> SUFFICES ASSUME size # NoFile
               PROVE  IsFiniteSet((size + 1) .. q.last) /\ (size + 1) .. q.last \subseteq Nat
    BY DEF Beyond
  <2>1. size + 1 \in Nat /\ q.last \in Int
    BY <1>1
  <2> QED BY <2>1, IntervalNat
<1>5. IsFiniteSet(q.first .. q.last) /\ q.first .. q.last \subseteq Nat
  <2>1. q.first \in Nat /\ q.last \in Int
    BY <1>1
  <2> QED BY <2>1, IntervalNat
<1> QED BY <1>1, <1>2, <1>3, <1>4, <1>5

LEMMA UpToSound ==
  ASSUME NEW S, IsFiniteSet(S), S \subseteq Nat, NEW n \in Nat
  PROVE  /\ UpTo(S, n) \subseteq S
         /\ n > 0 => IsFiniteSet(UpTo(S, n)) /\ Cardinality(UpTo(S, n)) <= n
<1>1. FirstN(S, n) \subseteq S
  BY DEF FirstN
<1>2. IsFiniteSet(FirstN(S, n)) /\ Cardinality(FirstN(S, n)) <= n
  BY FirstNSmall
<1>3. UpTo(S, n) = IF n = 0 THEN S ELSE FirstN(S, n)
  BY DEF UpTo
<1> QED BY <1>1, <1>2, <1>3

\* The listing of the unsolved fields under a limit is the first of them, those
\* inside the file and those past its end alike.
LEMMA LimitedList ==
  ASSUME TypeInv, NEW q \in Query, size # NoFile, ~ (size <= q.first - 1), q.maxfields > 0
  PROVE  Unsolved(q) = FirstN(InFile(q, 0) \cup Beyond(q), q.maxfields)
<1> DEFINE A == InFile(q, 0)
           B == Beyond(q)
           n == q.maxfields
<1>1. Unsolved(q) = FirstN(A, n) \cup FirstN(B, n - Cardinality(FirstN(A, n)))
  <2>1. n # 0
    BY FieldSets
  <2> QED BY <2>1, Listings DEF UpTo, PastTheEnd
<1>2. /\ IsFiniteSet(A) /\ A \subseteq Nat /\ IsFiniteSet(B) /\ B \subseteq Nat
      /\ \A a \in A, b \in B : a < b
      /\ n \in Nat
  BY FieldSets
<1> HIDE DEF A, B, n
<1>3. Unsolved(q) = FirstN(A \cup B, n)
  BY <1>1, <1>2, FirstNSplit
<1> QED BY <1>3 DEF A, B, n

\* What solvedfile_getall and solvedfile_getall_solved list is in the range, has
\* the status, and is not more than maxfields.
THEOREM ListingsSound == Spec => []ListsSound
<1>1. ASSUME TypeInv, NEW q \in Query
      PROVE  /\ Unsolved(q) \subseteq WithStatus(q, 0)
             /\ Solved(q) \subseteq WithStatus(q, 1)
             /\ q.maxfields > 0 =>
                  /\ Cardinality(Unsolved(q)) <= q.maxfields
                  /\ Cardinality(Solved(q)) <= q.maxfields
  <2>1. /\ q.maxfields \in Nat /\ size \in Int /\ q.first \in Nat /\ Cardinality({}) = 0
    BY <1>1, MaxFieldAssumption, FS_EmptySet DEF TypeInv, Query, Field, NoFile
  <2>2. CASE size = NoFile
    <3> DEFINE A == q.first .. q.last
    <3>1. Unsolved(q) = UpTo(A, q.maxfields) /\ Solved(q) = {} /\ WithStatus(q, 0) = A
      BY <1>1, <2>2, Listings, Statuses
    <3>2. IsFiniteSet(A) /\ A \subseteq Nat
      BY <1>1, FieldSets
    <3> HIDE DEF A
    <3>3. /\ UpTo(A, q.maxfields) \subseteq A
          /\ q.maxfields > 0 => Cardinality(UpTo(A, q.maxfields)) <= q.maxfields
      BY <2>1, <3>2, UpToSound
    <3> QED BY <2>1, <3>1, <3>3
  <2>3. CASE size # NoFile /\ size <= q.first - 1
    <3>1. Unsolved(q) = {} /\ Solved(q) = {}
      BY <2>3, Listings
    <3> QED BY <2>1, <3>1
  <2>4. CASE size # NoFile /\ ~ (size <= q.first - 1)
    <3> DEFINE A == InFile(q, 0)
               B == Beyond(q)
               C == InFile(q, 1)
    <3>1. /\ IsFiniteSet(A) /\ A \subseteq Nat /\ IsFiniteSet(B) /\ B \subseteq Nat
          /\ IsFiniteSet(C) /\ C \subseteq Nat
      BY <1>1, <2>4, FieldSets
    <3>2. WithStatus(q, 0) = A \cup B /\ WithStatus(q, 1) = C
      BY <1>1, <2>1, <2>4, Statuses
    <3>3. Solved(q) \subseteq C /\ (q.maxfields > 0 => Cardinality(Solved(q)) <= q.maxfields)
      BY <1>1, <2>1, <2>4, <3>1, Listings, UpToSound
    <3>4. CASE q.maxfields = 0
      <4>1. Unsolved(q) \subseteq A \cup B
        BY <1>1, <2>4, <3>4, Listings DEF UpTo, PastTheEnd
      <4> QED BY <3>2, <3>3, <3>4, <4>1
    <3>5. CASE q.maxfields > 0
      <4>1. Unsolved(q) = FirstN(A \cup B, q.maxfields)
        BY <1>1, <2>4, <3>5, LimitedList
      <4>2. IsFiniteSet(A \cup B) /\ A \cup B \subseteq Nat
        BY <3>1, FS_Union
      <4>3. Cardinality(FirstN(A \cup B, q.maxfields)) <= q.maxfields
        <5> HIDE DEF A, B
        <5> QED BY <2>1, <4>2, FirstNSmall
      <4>4. FirstN(A \cup B, q.maxfields) \subseteq A \cup B
        BY DEF FirstN
      <4> QED BY <3>2, <3>3, <4>1, <4>3, <4>4
    <3> QED BY <2>1, <3>4, <3>5
  <2> QED BY <2>2, <2>3, <2>4
<1>2. TypeInv => ListsSound
  BY <1>1 DEF ListsSound
<1> QED BY <1>2, TypeCorrect, PTL

\* They list the first maxfields fields with the status, and all of them without a
\* limit, under the conditions that ListsComplete names.
THEOREM ListingsComplete == Spec => []ListsComplete
<1> DEFINE Reaches(q) ==
      q.maxfields > 0 \/ \E f \in Asked(q) : f <= size /\ f \notin marked
<1>1. \A q, v : Wanted(q, v) = IF q.maxfields > 0 THEN FirstN(WithStatus(q, v), q.maxfields)
                               ELSE WithStatus(q, v)
  BY DEF Wanted, FirstN
<1>2. ASSUME TypeInv, NEW q \in Query, q.first <= size
      PROVE  /\ Reaches(q) \/ q.last <= size => Unsolved(q) = Wanted(q, 0)
             /\ Solved(q) = Wanted(q, 1)
  <2>1. /\ q.maxfields \in Nat /\ size \in Int /\ q.first \in Nat \ {0} /\ q.last \in Nat
        /\ size # NoFile /\ ~ (size <= q.first - 1)
    BY <1>2, MaxFieldAssumption DEF TypeInv, Query, Field, NoFile
  <2> DEFINE A == InFile(q, 0)
             B == Beyond(q)
             C == InFile(q, 1)
  <2>2. WithStatus(q, 0) = A \cup B /\ WithStatus(q, 1) = C
    BY <1>2, <2>1, Statuses
  <2>3. Solved(q) = Wanted(q, 1)
    <3>1. Solved(q) = UpTo(C, q.maxfields)
      BY <2>1, Listings
    <3> QED BY <1>1, <2>1, <2>2, <3>1 DEF UpTo
  <2>4. ASSUME q.maxfields > 0 PROVE Unsolved(q) = Wanted(q, 0)
    <3>1. Unsolved(q) = FirstN(A \cup B, q.maxfields)
      BY <1>2, <2>1, <2>4, LimitedList
    <3> QED BY <1>1, <2>2, <2>4, <3>1
  <2>5. ASSUME q.maxfields = 0, Reaches(q) \/ q.last <= size
        PROVE  Unsolved(q) = Wanted(q, 0)
    <3>1. Unsolved(q) = A \cup IF A = {} THEN {} ELSE B
      BY <2>1, <2>5, Listings DEF UpTo, PastTheEnd
    <3>2. A = {} => B = {}
      <4>1. CASE q.last <= size
        BY <2>1, <4>1 DEF Beyond
      <4>2. CASE \E f \in Asked(q) : f <= size /\ f \notin marked
        BY <2>1, <4>2 DEF Asked, InFile
      <4> QED BY <2>1, <2>5, <4>1, <4>2
    <3>3. Wanted(q, 0) = A \cup B
      BY <1>1, <2>1, <2>2, <2>5
    <3> HIDE DEF A, B
    <3> QED BY <3>1, <3>2, <3>3
  <2> QED BY <2>1, <2>3, <2>4, <2>5
<1>3. TypeInv => ListsComplete
  BY <1>2 DEF ListsComplete
<1> QED BY <1>3, TypeCorrect, PTL

=============================================================================
