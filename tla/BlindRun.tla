------------------------------ MODULE BlindRun ------------------------------
(***************************************************************************)
(* One call of blind_run (blind/blind.c): a list of fields is tried        *)
(* against a list of indexes, first by checking the WCS estimates the job  *)
(* came with, then by searching (solver_run in blind/solver.c, whose quads *)
(* are abstracted to the hits they may give).  The run shares the solved   *)
(* file and the cancel file with other processes; it gives up at limits on *)
(* the time of one pass over the fields and of the whole run.              *)
(*                                                                         *)
(* There are four limits: on CPU and on wall-clock time, of a pass and of  *)
(* the run.  A clock of the model is what the code compares with a limit,  *)
(* the time since a start it recorded; it counts abstract ticks and stops  *)
(* at Cap.  The wall-clock start of a pass is taken from time(), the time  *)
(* it is compared with from timenow(), which is thirty years behind.       *)
(***************************************************************************)
EXTENDS Integers, FiniteSets

CONSTANTS
  Fields,       \* fields the job lists, of any number
  NumFields,    \* extensions in the xylist: fields 1..NumFields exist
  Unreadable,   \* fields whose extension cannot be opened or read
  NumObj,       \* objects in each field
  Limit,        \* bp->cpulimit, timelimit, total_cpulimit, total_timelimit, 0 for none
  Parallel,     \* bp->indexes_inparallel
  UseSolved,    \* does the job name a solved file?
  ReadErrors,   \* may reading the solved file fail?
  NSolves,      \* bp->nsolves
  BestHitOnly,  \* bp->best_hit_only
  QuadLimit,    \* are maxquads or maxmatches set?
  Runs          \* what one run may be asked to do, see Params

Cpu == {"cpu", "total_cpu"}
Wall == {"time", "total_time"}
OfRun == {"total_cpu", "total_time"}    \* the limits on the whole run
Clock == Cpu \cup Wall

ASSUME BlindAssumption ==
  /\ Fields \subseteq Int /\ IsFiniteSet(Fields)
  /\ NumFields \in Nat /\ NumObj \in Nat /\ NSolves \in Nat \ {0}
  /\ Limit \in [Clock -> Nat]

Field == 1..NumFields

\* Bound on the clocks: past both limits they may be compared with.
Past(m, n) == IF m = 0 /\ n = 0 THEN 0 ELSE 1 + IF m > n THEN m ELSE n
Cap == [c \in Clock |-> IF c \in Cpu THEN Past(Limit["cpu"], Limit["total_cpu"])
                                     ELSE Past(Limit["time"], Limit["total_time"])]

\* timenow() minus time(): thirty years below zero, for as long as a pass lasts.
Skewed == -1
MaxSolves == NSolves + 1        \* bound on the solving matches counted

\* Log-odds that matter: high enough to keep, high enough to solve.
None == 0
Keep == 1
Solve == 2
Odds == {None, Keep, Solve}
Huge == 3                       \* HUGE_VAL

Solution == [field : Field, odds : {Keep, Solve}]

VARIABLES
  par,          \* start, end: the depth range; indexes, wcss: how many of each
  pc, stage, pass, todo, obj,                     \* control
  fieldlist,
  nsolves_sofar, best_match_solves, quit_now,     \* the solver, one field
  solutions,
  hit_limits,   \* the limits whose flag bp->hit_... is set
  cancelled, single_field_solved,
  since,        \* now minus bp->cpu_start, time_start, ..., for each limit
  solved,       \* fields marked in the solved file
  cancelFile,   \* does the cancel file exist?
  matchFile,    \* rows of the match file (and of the index rdls file)
  wcsFile,      \* for each field, the odds of its WCS file
  mine,         \* history: fields this job passed to solved_field
  best,         \* history: best odds recorded for each field in this run
  hits,         \* history: solving hits on each field in this run
  full,         \* history: <<field, pass>> searched to its end in this run
  limited,      \* history: <<field, pass>> ended by maxquads or maxmatches before
  misread       \* history: fields taken for solved when they could not be read

control == <<pc, stage, pass, todo, obj>>
solver == <<nsolves_sofar, best_match_solves, quit_now>>
limits == <<hit_limits, cancelled, single_field_solved>>
files == <<solved, cancelFile, matchFile, wcsFile>>
history == <<mine, best, hits, full, limited, misread>>
vars == <<par, control, fieldlist, solver, solutions, limits, since, files, history>>

Params == [start : Nat, end : Nat, indexes : Nat, wcss : Nat]

ASSUME RunsAssumption == Runs \subseteq Params

TypeInv ==
  /\ par \in Params
  /\ pc \in {"idle", "pass", "field", "verify", "timer", "quads", "permuting",
             "fieldDone", "match", "wcs", "ended", "exited"}
  /\ stage \in {"verify", "search"}
  /\ pass \in Nat /\ obj \in 0..NumObj
  /\ pc \in {"timer", "quads", "permuting"} => obj < NumObj
  /\ fieldlist \subseteq Fields /\ todo \subseteq fieldlist
  /\ nsolves_sofar \in 0..MaxSolves
  /\ {best_match_solves, quit_now, cancelled, single_field_solved, cancelFile}
       \subseteq BOOLEAN
  /\ hit_limits \subseteq {c \in Clock : Limit[c] # 0}
  /\ solutions \subseteq Solution /\ matchFile \subseteq Solution
  /\ since \in [Clock -> Int]
  /\ \A c \in Clock : since[c] \in 0..Cap[c] \/ (c = "time" /\ since[c] = Skewed)
  /\ solved \subseteq Field /\ mine \subseteq fieldlist
  /\ wcsFile \in [Field -> Odds] /\ best \in [Field -> Odds]
  /\ hits \in [Field -> 0..NSolves]
  /\ full \subseteq Field \X Nat /\ limited \subseteq Field \X Nat
  /\ misread \subseteq Fields

\* A job just read: its starts were zeroed, so the time since cpu_start is all
\* the time the process has used, and the time since time_start is endless.
InitJob ==
  /\ pc = "idle" /\ stage = "verify" /\ pass = 1 /\ todo = {} /\ obj = 0
  /\ fieldlist = Fields
  /\ nsolves_sofar = 0 /\ best_match_solves = FALSE /\ quit_now = FALSE
  /\ solutions = {}
  /\ hit_limits = {} /\ cancelled = FALSE /\ single_field_solved = FALSE
  /\ \E cpu \in {0, Cap["cpu"]} :
       since = [c \in Clock |-> IF c = "cpu" THEN cpu ELSE Cap[c]]
  /\ solved \in {S \in SUBSET Field : S # {} => UseSolved}
  /\ cancelFile = FALSE /\ matchFile = {} /\ wcsFile = [f \in Field |-> None]
  /\ mine = {} /\ full = {} /\ limited = {} /\ misread = {}
  /\ best = [f \in Field |-> None] /\ hits = [f \in Field |-> 0]

-----------------------------------------------------------------------------
\* An error of solvedfile_get (-1) counts as solved.
is_field_solved(f) ==
  \/ f \in solved /\ UNCHANGED misread
  \/ ReadErrors /\ misread' = misread \cup {f}
isnt_field_solved(f) == f \notin solved /\ UNCHANGED misread

\* solved_field for each field of F; the fields in W are those whose write to
\* the solved file succeeded.
solved_field(F, W) ==
  /\ solved' = solved \cup W
  /\ single_field_solved' = (single_field_solved \/ (F # {} /\ Cardinality(fieldlist) = 1))
  /\ mine' = mine \cup F
  /\ UNCHANGED <<cancelFile, matchFile, wcsFile>>

Writable(F) == IF UseSolved THEN SUBSET F ELSE {{}}

\* The flags, which nothing clears; the callers pass on what they say to quit_now.
check_time_limits ==
  hit_limits' = hit_limits \cup {c \in Clock : Limit[c] # 0 /\ since[c] > Limit[c]}

\* logratio_tosolve is out of reach while WCS estimates are checked.
logratio_tosolve == IF stage = "verify" THEN Huge ELSE Solve

\* solver_handle_hit with record_match_callback, for a match on f of odds o.
record_match_callback(f, o) ==
  LET solves == o >= logratio_tosolve
      enough == solves /\ nsolves_sofar + 1 >= NSolves
  IN  /\ check_time_limits
      /\ solutions' = solutions \cup {[field |-> f, odds |-> o]}
      /\ nsolves_sofar' = IF solves THEN nsolves_sofar + 1 ELSE nsolves_sofar
      /\ best_match_solves' = (best_match_solves \/ enough)
      /\ quit_now' = (quit_now \/ hit_limits' # {} \/ enough)
      /\ best' = [best EXCEPT ![f] = IF o > @ THEN o ELSE @]
      /\ hits' = [hits EXCEPT ![f] = IF solves /\ @ < NSolves THEN @ + 1 ELSE @]

\* Mutant: the sort puts the worst solution of a field first.
remove_duplicate_solutions_Ascending(S) ==
  {s \in S : \A t \in S : t.field = s.field => t.odds >= s.odds}

\* remove_duplicate_solutions: only the best solution of each field is left.
remove_duplicate_solutions(S) ==
  {s \in S : \A t \in S : t.field = s.field => t.odds <= s.odds}

-----------------------------------------------------------------------------
\* The objects a field is searched up to.
numxy == IF par.end # 0 /\ par.end < NumObj THEN par.end ELSE NumObj

f_now == CHOOSE f \in todo : \A g \in todo : f <= g

\* blind_run: clocks, remove_invalid_fields, and the first stage.
StartRun(p) ==
  /\ pc = "idle"
  /\ par' = p
  /\ fieldlist' = fieldlist \cap Field
  /\ since' = [c \in Clock |-> IF c \in OfRun THEN 0 ELSE since[c]]
  /\ pass' = 1
  /\ stage' = IF p.wcss > 0 THEN "verify" ELSE "search"
  /\ best' = [f \in Field |-> None] /\ hits' = [f \in Field |-> 0] /\ full' = {} /\ limited' = {}
  /\ IF p.wcss = 0 /\ single_field_solved
     THEN pc' = "match" ELSE pc' = "pass"
  /\ UNCHANGED <<todo, obj, solver, solutions, limits, files, mine, misread>>

\* A pass of solve_fields to check one WCS with one index, unless the index
\* has no quads of the right size.
VerifyPass ==
  /\ pc = "pass" /\ stage = "verify" /\ pass <= par.wcss * par.indexes
  /\ \/ /\ pc' = "field" /\ todo' = fieldlist /\ UNCHANGED pass
     \/ /\ pass' = pass + 1 /\ UNCHANGED <<pc, todo>>
  /\ UNCHANGED <<par, stage, obj, fieldlist, solver, solutions, limits, since,
                 files, history>>

\* Mutant: a solution good enough to keep marks the field.
VerifyEnd_MarksAll ==
  /\ pc = "pass" /\ stage = "verify" /\ pass > par.wcss * par.indexes
  /\ solutions' = IF BestHitOnly THEN remove_duplicate_solutions(solutions)
                                 ELSE solutions
  /\ LET F == {s.field : s \in {t \in solutions' : t.odds >= Keep}}
     IN  \E W \in Writable(F) : solved_field(F, W)
  /\ stage' = "search" /\ pass' = 1
  /\ pc' = IF single_field_solved' THEN "match" ELSE "pass"
  /\ UNCHANGED <<par, todo, obj, fieldlist, solver, hit_limits, cancelled,
                 since, best, hits, full, limited, misread>>

\* The WCS estimates are checked: mark the fields they solve.
VerifyEnd ==
  /\ pc = "pass" /\ stage = "verify" /\ pass > par.wcss * par.indexes
  /\ solutions' = IF BestHitOnly THEN remove_duplicate_solutions(solutions)
                                 ELSE solutions
  /\ LET F == {s.field : s \in {t \in solutions' : t.odds >= Solve}}
     IN  \E W \in Writable(F) : solved_field(F, W)
  /\ stage' = "search" /\ pass' = 1
  /\ pc' = IF single_field_solved' THEN "match" ELSE "pass"
  /\ UNCHANGED <<par, todo, obj, fieldlist, solver, hit_limits, cancelled,
                 since, best, hits, full, limited, misread>>

passes == IF Parallel THEN 1 ELSE par.indexes

stopped == hit_limits \cap OfRun # {} \/ single_field_solved \/ cancelled

\* Mutant: the CPU clock of the pass is not set.
SearchPass_NoRestart ==
  /\ pc = "pass" /\ stage = "search"
  /\ IF pass <= passes /\ (Parallel \/ ~stopped)
     THEN /\ pc' = "field" /\ todo' = fieldlist
          /\ since' = [since EXCEPT !["time"] = Skewed]
     ELSE pc' = "match" /\ UNCHANGED <<todo, since>>
  /\ UNCHANGED <<par, stage, pass, obj, fieldlist, solver, solutions, limits,
                 files, history>>

\* A pass of solve_fields to search with one index, or with all in parallel.
SearchPass ==
  /\ pc = "pass" /\ stage = "search"
  /\ IF pass <= passes /\ (Parallel \/ ~stopped)
     THEN /\ pc' = "field" /\ todo' = fieldlist
          /\ since' = [since EXCEPT !["cpu"] = 0, !["time"] = Skewed]
     ELSE pc' = "match" /\ UNCHANGED <<todo, since>>
  /\ UNCHANGED <<par, stage, pass, obj, fieldlist, solver, solutions, limits,
                 files, history>>

PassEnd ==
  /\ pc = "field" /\ todo = {}
  /\ pc' = "pass" /\ pass' = pass + 1
  /\ UNCHANGED <<par, stage, todo, obj, fieldlist, solver, solutions, limits,
                 since, files, history>>

\* The field cannot be opened, is solved, or cannot be read.
SkipField ==
  /\ pc = "field" /\ todo # {}
  /\ \/ f_now \in Unreadable /\ UNCHANGED misread
     \/ f_now \notin Unreadable /\ is_field_solved(f_now)
  /\ todo' = todo \ {f_now}
  /\ UNCHANGED <<par, pc, stage, pass, obj, fieldlist, solver, solutions,
                 limits, since, files, mine, best, hits, full, limited>>

\* Mutant: quit_now is not reset.
StartField_KeepsQuit ==
  /\ pc = "field" /\ todo # {}
  /\ f_now \notin Unreadable /\ isnt_field_solved(f_now)
  /\ best_match_solves' = FALSE /\ nsolves_sofar' = 0
  /\ IF stage = "verify"
     THEN pc' = "verify" /\ UNCHANGED <<obj, full>>
     ELSE IF par.start >= numxy
     THEN pc' = "fieldDone" /\ full' = full \cup {<<f_now, pass>>} /\ UNCHANGED obj
     ELSE pc' = "timer" /\ obj' = par.start /\ UNCHANGED full
  /\ UNCHANGED <<par, stage, pass, todo, fieldlist, quit_now, solutions, limits, since,
                 files, mine, best, hits, limited>>

\* Mutant: nsolves_sofar is not reset.
StartField_KeepsCount ==
  /\ pc = "field" /\ todo # {}
  /\ f_now \notin Unreadable /\ isnt_field_solved(f_now)
  /\ quit_now' = FALSE /\ best_match_solves' = FALSE
  /\ IF stage = "verify"
     THEN pc' = "verify" /\ UNCHANGED <<obj, full>>
     ELSE IF par.start >= numxy
     THEN pc' = "fieldDone" /\ full' = full \cup {<<f_now, pass>>} /\ UNCHANGED obj
     ELSE pc' = "timer" /\ obj' = par.start /\ UNCHANGED full
  /\ UNCHANGED <<par, stage, pass, todo, fieldlist, nsolves_sofar, solutions, limits, since,
                 files, mine, best, hits, limited>>

\* solve_fields resets the solver; solver_run returns at once if the depth
\* range begins past the last object.
StartField ==
  /\ pc = "field" /\ todo # {}
  /\ f_now \notin Unreadable /\ isnt_field_solved(f_now)
  /\ quit_now' = FALSE /\ best_match_solves' = FALSE /\ nsolves_sofar' = 0
  /\ IF stage = "verify"
     THEN pc' = "verify" /\ UNCHANGED <<obj, full>>
     ELSE IF par.start >= numxy
     THEN pc' = "fieldDone" /\ full' = full \cup {<<f_now, pass>>} /\ UNCHANGED obj
     ELSE pc' = "timer" /\ obj' = par.start /\ UNCHANGED full
  /\ UNCHANGED <<par, stage, pass, todo, fieldlist, solutions, limits, since,
                 files, mine, best, hits, limited>>

\* solver_verify_sip_wcs: the estimate is a match of any odds.
VerifyField ==
  /\ pc = "verify"
  /\ pc' = "fieldDone"
  /\ \/ UNCHANGED <<solver, solutions, hit_limits, best, hits>>
     \/ \E o \in {Keep, Solve} : record_match_callback(f_now, o)
  /\ UNCHANGED <<par, stage, pass, todo, obj, fieldlist, cancelled,
                 single_field_solved, since, files, mine, full, limited, misread>>

-----------------------------------------------------------------------------
(* solver_run: each object in turn is the newest star of the quads tried.  *)

\* The timer has not run out.
TimerWaits ==
  /\ pc = "timer"
  /\ pc' = "quads"
  /\ UNCHANGED <<par, stage, pass, todo, obj, fieldlist, solver, solutions,
                 limits, since, files, history>>

timer_callback ==
  /\ pc = "timer"
  /\ check_time_limits
  /\ quit_now' = (quit_now \/ hit_limits' # {})
  /\ \/ /\ is_field_solved(f_now)
        /\ pc' = "fieldDone" /\ UNCHANGED cancelled
     \/ /\ isnt_field_solved(f_now)
        /\ cancelled' = (cancelled \/ cancelFile)
        /\ pc' = IF cancelFile THEN "fieldDone" ELSE "quads"
  /\ UNCHANGED <<par, stage, pass, todo, obj, fieldlist, nsolves_sofar,
                 best_match_solves, solutions, single_field_solved, since,
                 files, mine, best, hits, full, limited>>

\* A quad with this star matches the index.  After quit_now, the loops of
\* try_permutations that have slots left to fill still go through the other
\* permutations of the same quad, which may match as well.
Hit ==
  /\ \/ pc = "quads" /\ ~quit_now
     \/ pc = "permuting" /\ nsolves_sofar < MaxSolves
  /\ \E o \in {Keep, Solve} : record_match_callback(f_now, o)
  /\ pc' = IF quit_now' THEN "permuting" ELSE "quads"
  /\ UNCHANGED <<par, stage, pass, todo, obj, fieldlist, cancelled, single_field_solved,
                 since, files, mine, full, limited, misread>>

\* Mutant: the loop over the objects goes one too far.
NextObject_OneMore ==
  /\ pc \in {"quads", "permuting"}
  /\ \/ /\ ~quit_now /\ obj < numxy
        /\ pc' = "timer" /\ obj' = obj + 1 /\ UNCHANGED <<full, limited>>
     \/ /\ ~quit_now /\ obj = numxy
        /\ pc' = "fieldDone" /\ full' = full \cup {<<f_now, pass>>}
        /\ UNCHANGED <<obj, limited>>
     \/ /\ ~quit_now /\ QuadLimit /\ obj < numxy
        /\ pc' = "fieldDone" /\ limited' = limited \cup {<<f_now, pass>>}
        /\ UNCHANGED <<obj, full>>
     \/ /\ quit_now
        /\ pc' = "fieldDone" /\ UNCHANGED <<obj, full, limited>>
  /\ UNCHANGED <<par, stage, pass, todo, fieldlist, solver, solutions, limits,
                 since, files, mine, best, hits, misread>>

\* All quads with this star are tried, or the solver was told to quit.  Only
\* then are the quads and matches of the field held against their limits.
NextObject ==
  /\ pc \in {"quads", "permuting"}
  /\ \/ /\ ~quit_now /\ obj + 1 < numxy
        /\ pc' = "timer" /\ obj' = obj + 1 /\ UNCHANGED <<full, limited>>
     \/ /\ ~quit_now /\ obj + 1 = numxy
        /\ pc' = "fieldDone" /\ full' = full \cup {<<f_now, pass>>}
        /\ UNCHANGED <<obj, limited>>
     \/ /\ ~quit_now /\ QuadLimit /\ obj + 1 < numxy
        /\ pc' = "fieldDone" /\ limited' = limited \cup {<<f_now, pass>>}
        /\ UNCHANGED <<obj, full>>
     \/ /\ quit_now
        /\ pc' = "fieldDone" /\ UNCHANGED <<obj, full, limited>>
  /\ UNCHANGED <<par, stage, pass, todo, fieldlist, solver, solutions, limits,
                 since, files, mine, best, hits, misread>>

FieldDone ==
  /\ pc = "fieldDone"
  /\ IF best_match_solves
     THEN \E W \in Writable({f_now}) : solved_field({f_now}, W)
     ELSE UNCHANGED <<single_field_solved, files, mine>>
  /\ todo' = todo \ {f_now}
  /\ pc' = "field" /\ obj' = 0
  /\ UNCHANGED <<par, stage, pass, fieldlist, solver, solutions, hit_limits,
                 cancelled, since, best, hits, full, limited, misread>>

-----------------------------------------------------------------------------
\* write_solutions: the match and rdls files get every solution.  The process
\* exits if a file cannot be written; what it held is then lost.
WriteMatch ==
  /\ pc = "match"
  /\ IF solutions = {}
     THEN pc' = "ended" /\ UNCHANGED matchFile
     ELSE \/ pc' = "wcs" /\ matchFile' = solutions
          \/ pc' = "exited" /\ matchFile' \in SUBSET solutions
  /\ UNCHANGED <<par, stage, pass, todo, obj, fieldlist, solver, solutions,
                 limits, since, solved, cancelFile, wcsFile, history>>

\* The other files get the best one of each field; then the list is emptied.
WriteWcs ==
  LET S == remove_duplicate_solutions(solutions)
      old == [f \in Field |-> wcsFile[f]]
      new(F) == [f \in Field |-> IF f \in F
                   THEN (CHOOSE s \in S : s.field = f).odds ELSE old[f]]
      F == {s.field : s \in S}
  IN  /\ pc = "wcs"
      /\ \/ pc' = "ended" /\ wcsFile' = new(F) /\ solutions' = {}
         \/ \E G \in SUBSET F :
              pc' = "exited" /\ wcsFile' = new(G) /\ solutions' = S
      /\ UNCHANGED <<par, stage, pass, todo, obj, fieldlist, solver, limits,
                     since, solved, cancelFile, matchFile, history>>

-----------------------------------------------------------------------------
\* Time passes, of the wall clock alone or of both; what passes after the search
\* is never looked at.
Later(c) == IF since[c] \in 0..Cap[c] - 1 THEN since[c] + 1 ELSE since[c]

Tick ==
  /\ pc \in {"pass", "field", "verify", "timer", "quads", "permuting", "fieldDone"}
  /\ \E running \in {Wall, Clock} :
       since' = [c \in Clock |-> IF c \in running THEN Later(c) ELSE since[c]]
  /\ since' # since
  /\ UNCHANGED <<par, control, fieldlist, solver, solutions, limits, files, history>>

\* Another solver marks a field in the same solved file.
OtherSolves ==
  /\ UseSolved
  /\ \E f \in Field \ solved : solved' = solved \cup {f}
  /\ UNCHANGED <<par, control, fieldlist, solver, solutions, limits, since,
                 cancelFile, matchFile, wcsFile, history>>

\* The user asks for the job to be cancelled.
CreateCancelFile ==
  /\ ~cancelFile /\ cancelFile' = TRUE
  /\ UNCHANGED <<par, control, fieldlist, solver, solutions, limits, since,
                 solved, matchFile, wcsFile, history>>

Environment == Tick \/ OtherSolves \/ CreateCancelFile

\* Every step of the program but a hit, which may or may not come.
Step ==
  \/ VerifyPass \/ VerifyEnd \/ SearchPass \/ PassEnd
  \/ SkipField \/ StartField \/ VerifyField
  \/ TimerWaits \/ timer_callback \/ NextObject \/ FieldDone
  \/ WriteMatch \/ WriteWcs

Terminated == pc \in {"ended", "exited"} /\ UNCHANGED vars

\* A program that runs once, as each block of input of blind-main.c does.
Init == InitJob /\ par \in Runs

Next == StartRun(par) \/ Step \/ Hit \/ Environment \/ Terminated

\* The program runs; an object has finitely many quads, so its hits end.
Spec == Init /\ [][Next]_vars
FairSpec == Spec /\ WF_vars(StartRun(par)) /\ WF_vars(Step)

-----------------------------------------------------------------------------
(* Properties. *)

\* A field this job passed to solved_field has a solution that solves it, in
\* the list or, once the list is emptied, in its own WCS file: the stages that
\* drop solutions (VerifyEnd, WriteWcs) never drop the reason for the mark.
SolvedHasSolution ==
  pc # "exited" =>
    \A f \in mine : wcsFile[f] = Solve \/ [field |-> f, odds |-> Solve] \in solutions

\* At the end of a run that could write its files, each field with a recorded
\* solution has the best one of this run in its WCS file and in the match file.
BestWritten ==
  pc = "ended" =>
    \A f \in Field : best[f] # None =>
       wcsFile[f] = best[f] /\ [field |-> f, odds |-> best[f]] \in matchFile

\* A field is marked only for a verified WCS or for NSolves solving quads of its
\* own: hits on one field never count towards the next one.
SolvedNeedsNSolves ==
  par.wcss = 0 => \A f \in mine : hits[f] >= NSolves

\* When a run ends, each field was searched with every index to the end of its
\* depth range, or to the most quads or matches it may have, or is solved, or cannot
\* be read, or the job was cancelled or ran out of time: quit_now and the other
\* flags of one field never cut the next.
RunComplete ==
  pc = "ended" =>
    \A f \in fieldlist \ Unreadable, n \in 1..passes :
       \/ <<f, n>> \in full \cup limited
       \/ f \in solved \cup mine \cup misread
       \/ cancelled \/ hit_limits # {}

\* In a run that has no WCS estimate to verify, a limit is reached only when the
\* run has taken longer than the limit: the clocks of each pass start with it.
Whole == [c \in Clock |-> IF c \in Cpu THEN "total_cpu" ELSE "total_time"]

SearchLimitNotEarly ==
  par.wcss = 0 => \A c \in hit_limits : since[Whole[c]] > Limit[c]

=============================================================================
