------------------------------ MODULE EngineJob -----------------------------
(***************************************************************************)
(* One job of the engine (engine_run_job in blind/engine.c): a blind_run   *)
(* for each depth range and, within it, for each range of scales, with the *)
(* indexes whose quads have the right size.  The runs share one blind_t,   *)
(* so what one leaves behind (flags, the depth range, the estimates to     *)
(* verify) is there for the next.                                          *)
(***************************************************************************)
EXTENDS BlindRun, Sequences, Functions

CONSTANTS
  Depths,       \* depth ranges <<lo, hi>> of objects from 1, 0 for none
  Scales,       \* for each scale range, the sizes <<fmin, fmax>> of its quads
  Indexes,      \* the sizes <<lower, upper>> of the quads of each index
  InRange,      \* indexes that reach the job's position, all if it has none
  Wcss          \* number of WCS estimates the job came with

\* engine_read_job_file gives a job without scales those of the engine.
ASSUME EngineAssumption ==
  /\ Scales # <<>>
  /\ Depths \in Seq(Nat \X Nat) /\ Scales \in Seq(Nat \X Nat)
  /\ Indexes \in Seq(Nat \X Nat) /\ Indexes # <<>> /\ Wcss \in Nat
  /\ InRange \subseteq DOMAIN Indexes

VARIABLES epc,          \* "start", "next", "running", "aborted" or "done"
          depth, scale, \* positions in Depths and Scales
          seen          \* history: <<field, object, scale, index>> whose quads
                        \* were all tried

jobVars == <<vars, epc, depth, scale, seen>>

JobInit ==
  /\ InitJob /\ par = [start |-> 0, end |-> 0, indexes |-> 0, wcss |-> Wcss]
  /\ epc = "start" /\ depth = 1 /\ scale = 1 /\ seen = {}

-----------------------------------------------------------------------------
\* What blind_is_run_obsolete may answer.
blind_is_run_obsolete(answer) ==
  LET single == Cardinality(fieldlist) = 1 /\ UseSolved
      f == CHOOSE g \in fieldlist : TRUE
  IN  \/ single /\ is_field_solved(f) /\ answer
      \/ /\ IF single THEN isnt_field_solved(f) ELSE UNCHANGED misread
         /\ answer = cancelFile

\* Mutant: only the end of a range is made 0-indexed.
StartObj_OneIndexed(d) == d[1]

\* The range is inclusive and counts from 1; the solver's is half-open, from 0.
StartObj(d) == IF d[1] = 0 THEN 0 ELSE d[1] - 1
EndObj(d) == d[2]

\* index_overlaps_scale_range
Overlaps(k, s) == s[1] <= Indexes[k][2] /\ s[2] >= Indexes[k][1]

\* add_index: the smallest lower and the biggest upper size, and who has them.
sizesmallest == CHOOSE x \in {Indexes[k][1] : k \in DOMAIN Indexes} :
                  \A k \in DOMAIN Indexes : x <= Indexes[k][1]
sizebiggest == CHOOSE x \in {Indexes[k][2] : k \in DOMAIN Indexes} :
                  \A k \in DOMAIN Indexes : x >= Indexes[k][2]
ismallest == {k \in DOMAIN Indexes : Indexes[k][1] = sizesmallest}
ibiggest == {k \in DOMAIN Indexes : Indexes[k][2] = sizebiggest}

fitting(s) == {k \in DOMAIN Indexes : Overlaps(k, s)}
hasIndexes(s) == fitting(s) # {} \/ s[1] > sizebiggest \/ s[2] < sizesmallest

\* The indexes that fit a scale range, or else the biggest or the smallest; of
\* these, the ones within range of the job's position, which may be none.
indexlist(s) ==
  InRange \cap
    IF fitting(s) # {} THEN fitting(s)
    ELSE IF s[1] > sizebiggest THEN ibiggest ELSE ismallest

\* An open-ended range does not set sp->endobj: the last one stays.
runParams ==
  [start |-> StartObj(Depths[depth]),
   end |-> IF EndObj(Depths[depth]) # 0 THEN EndObj(Depths[depth]) ELSE par.end,
   indexes |-> Cardinality(indexlist(Scales[scale])),
   wcss |-> par.wcss]

JobStart ==
  /\ epc = "start"
  /\ \E obsolete \in BOOLEAN :
       /\ blind_is_run_obsolete(obsolete)
       /\ epc' = IF obsolete THEN "done" ELSE "next"
  /\ UNCHANGED <<par, control, fieldlist, solver, solutions, limits, since, files,
                 mine, best, hits, full, limited, depth, scale, seen>>

\* The next combination is run; if no index can be chosen for it, assert(0) fails.
NextRun ==
  /\ epc = "next" /\ depth <= Len(Depths) /\ scale <= Len(Scales)
  /\ IF hasIndexes(Scales[scale])
     THEN StartRun(runParams) /\ epc' = "running"
     ELSE epc' = "aborted" /\ UNCHANGED vars
  /\ UNCHANGED <<depth, scale, seen>>

NextDepth ==
  /\ epc = "next" /\ depth <= Len(Depths) /\ scale > Len(Scales)
  /\ depth' = depth + 1 /\ scale' = 1
  /\ UNCHANGED <<vars, epc, seen>>

JobEnd ==
  /\ epc = "next" /\ depth > Len(Depths)
  /\ epc' = "done"
  /\ UNCHANGED <<vars, depth, scale, seen>>

\* Mutant: the estimates to verify stay for the next run.
RunDone_KeepsWcss ==
  /\ epc = "running" /\ pc = "ended"
  /\ pc' = "idle" /\ solutions' = {} /\ UNCHANGED par
  /\ \E obsolete \in BOOLEAN :
       /\ blind_is_run_obsolete(obsolete)
       /\ epc' = IF obsolete THEN "done" ELSE "next"
  /\ scale' = scale + 1
  /\ UNCHANGED <<depth, seen, stage, pass, todo, obj, fieldlist, solver, limits,
                 since, files, mine, best, hits, full, limited>>

\* Mutant: the loop over the scales does not advance.
RunDone_SameScale ==
  /\ epc = "running" /\ pc = "ended"
  /\ pc' = "idle" /\ solutions' = {} /\ par' = [par EXCEPT !.wcss = 0]
  /\ \E obsolete \in BOOLEAN :
       /\ blind_is_run_obsolete(obsolete)
       /\ epc' = IF obsolete THEN "done" ELSE "next"
  /\ UNCHANGED <<depth, scale, seen, stage, pass, todo, obj, fieldlist, solver,
                 limits, since, files, mine, best, hits, full, limited>>

\* After a run, the estimates and the solutions are cleared, and the job ends if
\* it has become obsolete.
RunDone ==
  /\ epc = "running" /\ pc = "ended"
  /\ pc' = "idle" /\ solutions' = {} /\ par' = [par EXCEPT !.wcss = 0]
  /\ \E obsolete \in BOOLEAN :
       /\ blind_is_run_obsolete(obsolete)
       /\ epc' = IF obsolete THEN "done" ELSE "next"
  /\ scale' = scale + 1
  /\ UNCHANGED <<depth, seen, stage, pass, todo, obj, fieldlist, solver, limits,
                 since, files, mine, best, hits, full, limited>>

\* The indexes of pass n: all of them, or the one whose turn it is.
Searching(n) ==
  LET list == indexlist(Scales[scale])
  IN  IF Parallel THEN list
      ELSE {x \in list : Cardinality({y \in list : y <= x}) = n}

\* A step of the run in progress; an object left with quit_now unset is seen.
RunStep ==
  /\ epc = "running"
  /\ Step
  /\ seen' = IF NextObject /\ ~quit_now
             THEN seen \cup ({f_now} \X {obj + 1} \X {scale} \X Searching(pass))
             ELSE seen
  /\ UNCHANGED <<epc, depth, scale>>

RunHit == epc = "running" /\ Hit /\ UNCHANGED <<epc, depth, scale, seen>>

Around == Environment /\ UNCHANGED <<epc, depth, scale, seen>>

JobOver ==
  /\ epc \in {"aborted", "done"} \/ pc = "exited"
  /\ UNCHANGED jobVars

JobStep ==
  JobStart \/ NextRun \/ NextDepth \/ JobEnd \/ RunDone \/ RunStep

JobNext == JobStep \/ RunHit \/ Around \/ JobOver

\* The engine runs; an object has finitely many quads, so its hits end.
JobSpec == JobInit /\ [][JobNext]_jobVars /\ WF_jobVars(JobStep)

-----------------------------------------------------------------------------
(* Properties. *)

\* A job for one field that solved it leaves the solution in its files: the runs
\* of the depths and scales that are left do not overwrite it.
JobOutputKept ==
  epc = "done" /\ Cardinality(fieldlist) = 1 =>
    \A f \in mine : wcsFile[f] = Solve /\ [field |-> f, odds |-> Solve] \in matchFile

\* Objects the depth ranges ask for: from lo to hi, or all that follow lo.
Asked == UNION {d[1]..(IF d[2] = 0 THEN NumObj ELSE d[2]) : d \in Range(Depths)}

\* When a job is done, every object of its depth ranges was the newest star of
\* quads tried with each index in range that its scales call for, in every field
\* that did not get solved (or cannot be read), unless the job was cancelled or ran
\* out of time.
JobComplete ==
  epc = "done" =>
    \A f \in (Fields \cap Field) \ Unreadable, k \in (Asked \cap 1..NumObj) \ {0},
       s \in DOMAIN Scales :
       \/ \A x \in indexlist(Scales[s]) : <<f, k, s, x>> \in seen
       \/ f \in solved \cup mine \cup misread
       \/ cancelFile \/ hit_limits # {}

\* Every job ends, or its process exits.
JobEnds == <>(epc \in {"aborted", "done"} \/ pc = "exited")

=============================================================================
